--------------------------- MODULE SessionManager ---------------------------
(***************************************************************************)
(* The sessions of one guild, one after the other and side by side, as     *)
(* session.Manager and the handlers that go through it see them: /dplay    *)
(* calls that find or create a session, playback workers, /dterm, the      *)
(* bot's voice-leave events and the shutdown.  Manager.Destroy and Detach  *)
(* take a guild, not a session: what they hit is the session of the        *)
(* moment.                                                                 *)
(*                                                                         *)
(* A session is named by the /dplay call that created it.  Inside it only  *)
(* the length of its queue and the body of Close are kept; module Session  *)
(* has the rest.                                                           *)
(***************************************************************************)
EXTENDS Naturals

CONSTANTS
  Calls,      \* the /dplay calls of the guild
  Elsewhere,  \* those whose user sits in a second voice channel
  QueueCap,   \* queueCapacity
  Terms,      \* the /dterm calls
  Leaves,     \* the events that say that the bot left its voice channel
  NoSession   \* a nil *Session, and a nil voice.Conn

ASSUME CallsAssumption == NoSession \notin Calls
ASSUME QueueCapAssumption == QueueCap \in Nat

Sessions == Calls

\* Whoever calls Session.Close, directly or through Destroy: a creator whose
\* track was refused, a worker, the goroutine of cleanupFailedVoiceSession,
\* a /dterm, a leave event, and Manager.Close.
Creator(c) == <<"creator", c>>
Worker(s) == <<"worker", s>>
Cleanup(c) == <<"cleanup", c>>
Term(t) == <<"term", t>>
Leave(l) == <<"leave", l>>
Shutdown == <<"shutdown", NoSession>>

Closers ==
  ({"creator", "worker", "cleanup"} \X Calls)
    \cup ({"term"} \X Terms) \cup ({"leave"} \X Leaves) \cup {Shutdown}

VARIABLES
  \* session.Manager, and the sessions
  entry,     \* m.sessions[guildID]
  phase,     \* how far each session's life is
  waiting,   \* len(s.queue)
  \* the VoiceManager of the client and the connections it made
  voiceConn, \* the connection it has registered for the guild
  connOf,    \* the connection that a call got, named by its first owner
  connected, \* the calls whose Open succeeded on a connection still open
  \* the goroutines
  call, target,  \* processDPlay, and its local sess
  worker,        \* runPlaybackWorker
  term, termOf,  \* processDTerm, and its local sess
  leave,         \* OnGuildVoiceStateUpdate
  main,          \* Handler.Close in main's shutdown
  victim         \* the session that each closer is in Close of

mapVars == <<entry>>
sessVars == <<phase, waiting>>
connVars == <<voiceConn, connOf, connected>>
callVars == <<call, target>>
termVars == <<term, termOf>>
endVars == <<leave, main>>

vars == <<mapVars, sessVars, connVars, callVars, worker, termVars, endVars,
          victim>>

Phases == {"none", "open", "closing", "unhooked", "left", "gone"}
CallPcs == {"get", "resolve", "connect", "register", "open", "detach",
            "enqueue", "destroy", "closing", "start",
            "accepted", "rejected", "exists"}
WorkerPcs == {"unborn", "check", "dequeue", "play", "destroy", "closing",
              "exit"}
TermPcs == {"idle", "clear", "destroy", "closing", "done"}
LeavePcs == {"idle", "closing", "done"}
MainPcs == {"up", "closing", "down"}

Init ==
  /\ entry = NoSession
  /\ phase = [s \in Sessions |-> "none"]
  /\ waiting = [s \in Sessions |-> 0]
  /\ voiceConn = NoSession
  /\ connOf = [c \in Calls |-> NoSession]
  /\ connected = {}
  /\ call = [c \in Calls |-> "get"]
  /\ target = [c \in Calls |-> NoSession]
  /\ worker = [s \in Sessions |-> "unborn"]
  /\ term = [t \in Terms |-> "idle"]
  /\ termOf = [t \in Terms |-> NoSession]
  /\ leave = [l \in Leaves |-> "idle"]
  /\ main = "up"
  /\ victim = [d \in Closers |-> NoSession]

----------------------------------------------------------------------------
(***************************************************************************)
(* Parts the handlers share.  The operators named ...Fault are plausible   *)
(* slips in the operator that follows, kept to show what a property sees.  *)
(***************************************************************************)
CallGoes(c, pc) == call' = [call EXCEPT ![c] = pc]
WorkerGoes(s, pc) == worker' = [worker EXCEPT ![s] = pc]
TermGoes(t, pc) == term' = [term EXCEPT ![t] = pc]

\* session.VoiceChannelID() != voiceChannelID
SameChannel(c, s) == c \in Elsewhere <=> s \in Elsewhere

\* Destroy: Get finds the guild's session, and d goes on to its Close.
DestroyFinds(d) ==
  /\ entry # NoSession
  /\ victim' = [victim EXCEPT ![d] = entry]

\* Destroy: ErrSessionNotFound.
DestroyMisses == entry = NoSession /\ UNCHANGED victim

\* d's call of Close returns.
CloseReturns(d) ==
  /\ victim[d] # NoSession
  /\ phase[victim[d]] = "gone"
  /\ victim' = [victim EXCEPT ![d] = NoSession]

----------------------------------------------------------------------------
(***************************************************************************)
(* processDPlay.                                                           *)
(***************************************************************************)
\* Manager.Get, and the test of the voice channel.
CallGets(c) ==
  /\ call[c] = "get"
  /\ IF entry # NoSession /\ ~SameChannel(c, entry)
     THEN CallGoes(c, "rejected") /\ UNCHANGED target
     ELSE /\ CallGoes(c, "resolve")
          /\ target' = [target EXCEPT ![c] = entry]
  /\ UNCHANGED <<mapVars, sessVars, connVars, worker, termVars, endVars,
                 victim>>

\* The URL is resolved, or it is not.
Resolve(c) ==
  /\ call[c] = "resolve"
  /\ \/ CallGoes(c, IF target[c] = NoSession THEN "connect" ELSE "enqueue")
     \/ CallGoes(c, "rejected")
  /\ UNCHANGED <<mapVars, sessVars, connVars, target, worker, termVars,
                 endVars, victim>>

\* openVoiceSession: VoiceManager.CreateConn hands out the guild's
\* connection when it has one registered.
CreateConn(c) ==
  /\ call[c] = "connect"
  /\ CallGoes(c, "register")
  /\ LET conn == IF voiceConn = NoSession THEN c ELSE voiceConn
     IN  /\ voiceConn' = conn
         /\ connOf' = [connOf EXCEPT ![c] = conn]
  /\ UNCHANGED <<mapVars, sessVars, connected, target, worker, termVars,
                 endVars, victim>>

OverwritesFault(c) ==
  /\ call[c] = "register"
  /\ entry' = c
  /\ phase' = [phase EXCEPT ![c] = "open"]
  /\ target' = [target EXCEPT ![c] = c]
  /\ CallGoes(c, "open")
  /\ UNCHANGED <<waiting, connVars, worker, termVars, endVars, victim>>
\* Manager.Create: one session per guild.
Create(c) ==
  /\ call[c] = "register"
  /\ IF entry = NoSession
     THEN /\ entry' = c
          /\ phase' = [phase EXCEPT ![c] = "open"]
          /\ target' = [target EXCEPT ![c] = c]
          /\ CallGoes(c, "open")
     ELSE CallGoes(c, "exists") /\ UNCHANGED <<entry, phase, target>>
  /\ UNCHANGED <<waiting, connVars, worker, termVars, endVars, victim>>

OpenSucceeds(c) ==
  /\ call[c] = "open"
  /\ connected' = connected \cup {c}
  /\ CallGoes(c, "enqueue")
  /\ UNCHANGED <<mapVars, sessVars, voiceConn, connOf, target, worker,
                 termVars, endVars, victim>>

\* Open fails: cleanupFailedVoiceSession begins with RemoveConn.
OpenFails(c) ==
  /\ call[c] = "open"
  /\ voiceConn' = NoSession
  /\ CallGoes(c, "detach")
  /\ UNCHANGED <<mapVars, sessVars, connOf, connected, target, worker,
                 termVars, endVars, victim>>

DetachOnlyFault(c) ==
  /\ call[c] = "detach"
  /\ entry' = NoSession
  /\ CallGoes(c, "rejected")
  /\ UNCHANGED <<sessVars, connVars, target, worker, termVars, endVars,
                 victim>>
\* Manager.Detach, and the goroutine that gets the session it returns.
Detach(c) ==
  /\ call[c] = "detach"
  /\ DestroyFinds(Cleanup(c)) \/ DestroyMisses
  /\ entry' = NoSession
  /\ CallGoes(c, "rejected")
  /\ UNCHANGED <<sessVars, connVars, target, worker, termVars, endVars>>

\* The closed session and the full queue refuse.
Refuses(s) == phase[s] # "open" \/ waiting[s] >= QueueCap

\* Session.Enqueue: accepted, or refused; a creator then destroys.
Enqueue(c) ==
  /\ call[c] = "enqueue"
  /\ IF Refuses(target[c])
     THEN /\ CallGoes(c, IF target[c] = c THEN "destroy" ELSE "rejected")
          /\ UNCHANGED waiting
     ELSE /\ CallGoes(c, IF target[c] = c THEN "start" ELSE "accepted")
          /\ waiting' = [waiting EXCEPT ![target[c]] = @ + 1]
  /\ UNCHANGED <<mapVars, phase, connVars, target, worker, termVars, endVars,
                 victim>>

CallDestroys(c) ==
  /\ call[c] = "destroy"
  /\ \/ DestroyFinds(Creator(c)) /\ CallGoes(c, "closing")
     \/ DestroyMisses /\ CallGoes(c, "rejected")
  /\ UNCHANGED <<mapVars, sessVars, connVars, target, worker, termVars,
                 endVars>>

CallClosed(c) ==
  /\ call[c] = "closing"
  /\ CloseReturns(Creator(c))
  /\ CallGoes(c, "rejected")
  /\ UNCHANGED <<mapVars, sessVars, connVars, target, worker, termVars,
                 endVars>>

\* go h.runPlaybackWorker(sess)
StartWorker(c) ==
  /\ call[c] = "start"
  /\ WorkerGoes(c, "check")
  /\ CallGoes(c, "accepted")
  /\ UNCHANGED <<mapVars, sessVars, connVars, target, termVars, endVars,
                 victim>>

----------------------------------------------------------------------------
(***************************************************************************)
(* runPlaybackWorker.  The test after a track and the test at the top of   *)
(* the loop are the same; a track is in "play" from WaitDequeue until      *)
(* FinishCurrent.                                                          *)
(***************************************************************************)
QuitsEmptyFault(s) ==
  /\ worker[s] = "check"
  /\ WorkerGoes(s, IF phase[s] # "open" \/ waiting[s] = 0
                   THEN "exit" ELSE "dequeue")
  /\ UNCHANGED <<mapVars, sessVars, connVars, callVars, termVars, endVars,
                 victim>>
\* ctx.Err and ShouldAutoDisconnect.
WorkerCheck(s) ==
  /\ worker[s] = "check"
  /\ WorkerGoes(s, IF phase[s] # "open" THEN "exit"
                   ELSE IF waiting[s] = 0 THEN "destroy" ELSE "dequeue")
  /\ UNCHANGED <<mapVars, sessVars, connVars, callVars, termVars, endVars,
                 victim>>

\* WaitDequeue: a request, ErrSessionClosed, or it goes on waiting.
WaitDequeue(s) ==
  /\ worker[s] = "dequeue"
  /\ \/ /\ phase[s] # "open"
        /\ WorkerGoes(s, "exit")
        /\ UNCHANGED waiting
     \/ /\ phase[s] = "open" /\ waiting[s] > 0
        /\ WorkerGoes(s, "play")
        /\ waiting' = [waiting EXCEPT ![s] = @ - 1]
  /\ UNCHANGED <<mapVars, phase, connVars, callVars, termVars, endVars,
                 victim>>

\* A track ends, fails or is skipped at any time; it must end when the
\* session's context is cancelled.
TrackEnds(s) ==
  /\ worker[s] = "play"
  /\ WorkerGoes(s, "check")
  /\ UNCHANGED <<mapVars, sessVars, connVars, callVars, termVars, endVars,
                 victim>>

\* destroySessionAfterPlayback
WorkerDestroys(s) ==
  /\ worker[s] = "destroy"
  /\ \/ DestroyFinds(Worker(s)) /\ WorkerGoes(s, "closing")
     \/ DestroyMisses /\ WorkerGoes(s, "exit")
  /\ UNCHANGED <<mapVars, sessVars, connVars, callVars, termVars, endVars>>

WorkerClosed(s) ==
  /\ worker[s] = "closing"
  /\ CloseReturns(Worker(s))
  /\ WorkerGoes(s, "exit")
  /\ UNCHANGED <<mapVars, sessVars, connVars, callVars, termVars, endVars>>

----------------------------------------------------------------------------
(***************************************************************************)
(* processDTerm empties the session it got and destroys the session it     *)
(* finds.  That it ends the current track is in TrackEnds.                 *)
(***************************************************************************)
TermGets(t) ==
  /\ term[t] = "idle"
  /\ termOf' = [termOf EXCEPT ![t] = entry]
  /\ TermGoes(t, IF entry = NoSession THEN "done" ELSE "clear")
  /\ UNCHANGED <<mapVars, sessVars, connVars, callVars, worker, endVars,
                 victim>>

ClearIsEnoughFault(t) ==
  /\ term[t] = "clear"
  /\ waiting' = [waiting EXCEPT ![termOf[t]] = 0]
  /\ TermGoes(t, "done")
  /\ UNCHANGED <<mapVars, phase, connVars, callVars, worker, termOf, endVars,
                 victim>>
ClearQueue(t) ==
  /\ term[t] = "clear"
  /\ waiting' = [waiting EXCEPT ![termOf[t]] = 0]
  /\ TermGoes(t, "destroy")
  /\ UNCHANGED <<mapVars, phase, connVars, callVars, worker, termOf, endVars,
                 victim>>

TermDestroys(t) ==
  /\ term[t] = "destroy"
  /\ \/ DestroyFinds(Term(t)) /\ TermGoes(t, "closing")
     \/ DestroyMisses /\ TermGoes(t, "done")
  /\ UNCHANGED <<mapVars, sessVars, connVars, callVars, worker, termOf,
                 endVars>>

TermClosed(t) ==
  /\ term[t] = "closing"
  /\ CloseReturns(Term(t))
  /\ TermGoes(t, "done")
  /\ UNCHANGED <<mapVars, sessVars, connVars, callVars, worker, termOf,
                 endVars>>

----------------------------------------------------------------------------
(***************************************************************************)
(* OnGuildVoiceStateUpdate without a channel, Handler.Close, and the       *)
(* goroutine of cleanupFailedVoiceSession.                                 *)
(***************************************************************************)
LeaveDestroys(l) ==
  /\ leave[l] = "idle"
  /\ \/ DestroyFinds(Leave(l)) /\ leave' = [leave EXCEPT ![l] = "closing"]
     \/ DestroyMisses /\ leave' = [leave EXCEPT ![l] = "done"]
  /\ UNCHANGED <<mapVars, sessVars, connVars, callVars, worker, termVars,
                 main>>

LeaveClosed(l) ==
  /\ leave[l] = "closing"
  /\ CloseReturns(Leave(l))
  /\ leave' = [leave EXCEPT ![l] = "done"]
  /\ UNCHANGED <<mapVars, sessVars, connVars, callVars, worker, termVars,
                 main>>

\* Manager.Close: Snapshot, then the Close of each session in it.
ShutdownSnapshots ==
  /\ main = "up"
  /\ \/ DestroyFinds(Shutdown) /\ main' = "closing"
     \/ DestroyMisses /\ main' = "down"
  /\ UNCHANGED <<mapVars, sessVars, connVars, callVars, worker, termVars,
                 leave>>

ShutdownClosed ==
  /\ main = "closing"
  /\ CloseReturns(Shutdown)
  /\ main' = "down"
  /\ UNCHANGED <<mapVars, sessVars, connVars, callVars, worker, termVars,
                 leave>>

CleanupClosed(c) ==
  /\ CloseReturns(Cleanup(c))
  /\ UNCHANGED <<mapVars, sessVars, connVars, callVars, worker, termVars,
                 endVars>>

----------------------------------------------------------------------------
(***************************************************************************)
(* Session.Close, run once by whoever comes first.                         *)
(***************************************************************************)
\* closed is set, the queue dropped, the context cancelled.
BeginClose(s) ==
  /\ phase[s] = "open"
  /\ \E d \in Closers : victim[d] = s
  /\ phase' = [phase EXCEPT ![s] = "closing"]
  /\ waiting' = [waiting EXCEPT ![s] = 0]
  /\ UNCHANGED <<mapVars, connVars, callVars, worker, termVars, endVars,
                 victim>>

\* beforeClose: RemoveConn takes a guild, too.
BeforeClose(s) ==
  /\ phase[s] = "closing"
  /\ phase' = [phase EXCEPT ![s] = "unhooked"]
  /\ voiceConn' = NoSession
  /\ UNCHANGED <<mapVars, waiting, connOf, connected, callVars, worker,
                 termVars, endVars, victim>>

AwaitsWorkerFault(s) ==
  /\ phase[s] = "unhooked"
  /\ worker[s] \in {"unborn", "exit"}
  /\ phase' = [phase EXCEPT ![s] = "left"]
  /\ connected' = {c \in connected : connOf[c] # connOf[s]}
  /\ UNCHANGED <<mapVars, waiting, voiceConn, connOf, callVars, worker,
                 termVars, endVars, victim>>
\* conn.Close, under sendMu, which the worker holds while it plays.
CloseConn(s) ==
  /\ phase[s] = "unhooked"
  /\ worker[s] # "play"
  /\ phase' = [phase EXCEPT ![s] = "left"]
  /\ connected' = {c \in connected : connOf[c] # connOf[s]}
  /\ UNCHANGED <<mapVars, waiting, voiceConn, connOf, callVars, worker,
                 termVars, endVars, victim>>

RemovesAnyFault(s) ==
  /\ phase[s] = "left"
  /\ phase' = [phase EXCEPT ![s] = "gone"]
  /\ entry' = NoSession
  /\ UNCHANGED <<waiting, connVars, callVars, worker, termVars, endVars,
                 victim>>
NotRemovedFault(s) ==
  /\ phase[s] = "left"
  /\ phase' = [phase EXCEPT ![s] = "gone"]
  /\ UNCHANGED <<mapVars, waiting, connVars, callVars, worker, termVars,
                 endVars, victim>>
\* onClose: Manager.remove, which leaves the entry of another session alone.
Remove(s) ==
  /\ phase[s] = "left"
  /\ phase' = [phase EXCEPT ![s] = "gone"]
  /\ entry' = IF entry = s THEN NoSession ELSE entry
  /\ UNCHANGED <<waiting, connVars, callVars, worker, termVars, endVars,
                 victim>>

----------------------------------------------------------------------------
CallStep(c) ==
  \/ Resolve(c) \/ CreateConn(c) \/ Create(c)
  \/ OpenSucceeds(c) \/ OpenFails(c) \/ Detach(c)
  \/ Enqueue(c) \/ CallDestroys(c) \/ CallClosed(c) \/ StartWorker(c)

WorkerStep(s) ==
  WorkerCheck(s) \/ WaitDequeue(s) \/ WorkerDestroys(s) \/ WorkerClosed(s)

TermStep(t) == ClearQueue(t) \/ TermDestroys(t) \/ TermClosed(t)

CloseStep(s) ==
  BeginClose(s) \/ BeforeClose(s) \/ CloseConn(s) \/ Remove(s)

\* Nobody has anything left to do.
Over ==
  /\ \A c \in Calls : call[c] \in {"accepted", "rejected", "exists"}
  /\ \A s \in Sessions :
       phase[s] \in {"none", "gone"} /\ worker[s] \in {"unborn", "exit"}
  /\ \A t \in Terms : term[t] = "done"
  /\ \A l \in Leaves : leave[l] = "done"
  /\ main = "down"

Finished == Over /\ UNCHANGED vars

Next ==
  \/ \E c \in Calls : CallGets(c) \/ CallStep(c) \/ CleanupClosed(c)
  \/ \E s \in Sessions : WorkerStep(s) \/ TrackEnds(s) \/ CloseStep(s)
  \/ \E t \in Terms : TermGets(t) \/ TermStep(t)
  \/ \E l \in Leaves : LeaveDestroys(l) \/ LeaveClosed(l)
  \/ ShutdownSnapshots \/ ShutdownClosed
  \/ Finished

(***************************************************************************)
(* Goroutines that can run do run: external calls have timeouts, and a     *)
(* track ends with its session's context.  Users, voice events and the     *)
(* shutdown come when they like.                                           *)
(***************************************************************************)
TrackStops(s) == phase[s] # "open" /\ TrackEnds(s)

Fairness ==
  /\ \A c \in Calls : WF_vars(CallStep(c)) /\ WF_vars(CleanupClosed(c))
  /\ \A s \in Sessions :
       WF_vars(WorkerStep(s)) /\ WF_vars(TrackStops(s)) /\ WF_vars(CloseStep(s))
  /\ \A t \in Terms : WF_vars(TermStep(t))
  /\ \A l \in Leaves : WF_vars(LeaveClosed(l))
  /\ WF_vars(ShutdownClosed)

SafetySpec == Init /\ [][Next]_vars
Spec == SafetySpec /\ Fairness

----------------------------------------------------------------------------
(***************************************************************************)
(* Properties.                                                             *)
(***************************************************************************)
\* Every variable stays in its range.
TypeOK ==
  /\ entry \in Sessions \cup {NoSession}
  /\ phase \in [Sessions -> Phases]
  /\ waiting \in [Sessions -> 0..QueueCap]
  /\ voiceConn \in Calls \cup {NoSession}
  /\ connOf \in [Calls -> Calls \cup {NoSession}]
  /\ connected \subseteq Calls
  /\ call \in [Calls -> CallPcs]
  /\ target \in [Calls -> Sessions \cup {NoSession}]
  /\ worker \in [Sessions -> WorkerPcs]
  /\ term \in [Terms -> TermPcs]
  /\ termOf \in [Terms -> Sessions \cup {NoSession}]
  /\ leave \in [Leaves -> LeavePcs]
  /\ main \in MainPcs
  /\ victim \in [Closers -> Sessions \cup {NoSession}]

\* Somebody is in, or about to enter, Close of session s.
BeingClosed(s) == \E d \in Closers : victim[d] = s

\* No zombie: an open session is either about to be closed by somebody who
\* has its pointer, or it is the one Destroy would find and its creator or
\* its worker is still on the way to play its queue or to destroy it.  Two
\* sessions of a guild, late destroys by guild id, Detach and remove never
\* leave a bot in a channel that nobody will take out again.
SomeoneEndsIt ==
  \A s \in Sessions : phase[s] = "open" =>
    \/ BeingClosed(s)
    \/ /\ entry = s
       /\ \/ call[s] \in {"open", "detach", "enqueue", "destroy", "start"}
          \/ worker[s] \in {"check", "dequeue", "play", "destroy"}

\* d, which means to end session s, does not leave it for another: when it is
\* in Close of another one, s has begun to end, or somebody is about to.
LeavesNothing(d, s) ==
  victim[d] \notin {NoSession, s} => phase[s] # "open" \/ BeingClosed(s)

\* Destroy and Detach take a guild: a worker, a refused creator, the cleanup of
\* a failed Open and a /dterm may be late and close a session that is not the
\* one they came for.  They never do so while their own is still open with
\* nobody to close it.
DestroysOwnFirst ==
  /\ \A c \in Calls :
       \A d \in {Creator(c), Worker(c), Cleanup(c)} : LeavesNothing(d, c)
  /\ \A t \in Terms : LeavesNothing(Term(t), termOf[t])

\* A worker that waits on an empty queue (a /dterm emptied it after the
\* worker's test) waits for a session that somebody is about to close.
NobodyParksForGood ==
  \A s \in Sessions :
    phase[s] = "open" /\ worker[s] = "dequeue" /\ waiting[s] = 0 =>
      \/ BeingClosed(s)
      \/ entry = s /\ \E t \in Terms : term[t] = "destroy" /\ termOf[t] = s

\* What Manager.Get hands out has not finished its Close.
EntryIsAlive == entry # NoSession => phase[entry] \notin {"none", "gone"}

\* The guild is free for a new session only when the old one has left the
\* voice channel, or the cleanup of a failed Open took it over.
GuildFreedInTurn ==
  [][entry # NoSession /\ entry' # entry =>
       \/ phase'[entry] = "gone"
       \/ \E c \in Calls : victim'[Cleanup(c)] = entry]_vars

\* The goroutines of the program that can take a step of their own: all but
\* those that are in Close of a session that is not gone, a worker that waits
\* on an empty queue, a track that plays, and a Close that waits for it.
Returned(d) == victim[d] # NoSession /\ phase[victim[d]] = "gone"

CallMoves(c) ==
  \/ call[c] \notin {"get", "closing", "accepted", "rejected", "exists"}
  \/ call[c] = "closing" /\ Returned(Creator(c))
  \/ Returned(Cleanup(c))
WorkerMoves(s) ==
  \/ worker[s] \in {"check", "destroy"}
  \/ worker[s] = "dequeue" /\ (phase[s] = "open" => waiting[s] > 0)
  \/ worker[s] = "play" /\ phase[s] # "open"
  \/ worker[s] = "closing" /\ Returned(Worker(s))
TermMoves(t) ==
  \/ term[t] \in {"clear", "destroy"}
  \/ term[t] = "closing" /\ Returned(Term(t))
CloseMoves(s) ==
  \/ phase[s] = "open" /\ BeingClosed(s)
  \/ phase[s] \in {"closing", "left"}
  \/ phase[s] = "unhooked" /\ worker[s] # "play"

SomebodyMoves ==
  \/ \E c \in Calls : CallMoves(c)
  \/ \E s \in Sessions : WorkerMoves(s) \/ CloseMoves(s)
  \/ \E t \in Terms : TermMoves(t)
  \/ \E l \in Leaves : leave[l] = "closing" /\ Returned(Leave(l))
  \/ main = "closing" /\ Returned(Shutdown)

\* Nobody waits for good: when no goroutine can move without a user, a voice
\* event or the end of a track, nobody is in Close, and each session is over
\* or plays and is the one that Destroy would find.
RestsOnlyWhilePlaying ==
  \/ SomebodyMoves
  \/ /\ \A d \in Closers : victim[d] = NoSession
     /\ \A s \in Sessions :
          \/ phase[s] \in {"none", "gone"} /\ worker[s] \in {"unborn", "exit"}
          \/ phase[s] = "open" /\ worker[s] = "play" /\ entry = s

\* The life of session s.
Life(s) == INSTANCE SessionLife WITH
             stage <- IF phase[s] = "unhooked" THEN "closing" ELSE phase[s],
             registered <- entry = s,
             waiting <- waiting[s],
             worker <- IF worker[s] = "closing" THEN "destroy" ELSE worker[s]

\* Whatever the others of the guild do, each session takes only the steps of
\* SessionLife, which Session implements in detail: Life(s)!Spec for every s,
\* in the form that TLC takes.
ImplementsLives ==
  /\ \A s \in Sessions : Life(s)!Init
  /\ [][\A s \in Sessions : [Life(s)!Next]_(Life(s)!vars)]_vars

----------------------------------------------------------------------------
(***************************************************************************)
(* The inductive invariant.                                                *)
(***************************************************************************)
\* A call owns the session it created and no other, and starts its worker.
OwnerInv ==
  /\ \A c \in Calls : target[c] = c <=> phase[c] # "none"
  /\ \A c \in Calls :
       /\ call[c] \in {"get", "resolve", "connect", "register"} =>
            target[c] # c
       /\ call[c] \in {"open", "detach", "destroy", "start"} => target[c] = c
       /\ call[c] = "enqueue" => target[c] # NoSession
  /\ \A s \in Sessions :
       worker[s] # "unborn" => call[s] = "accepted" /\ target[s] = s
  /\ \A t \in Terms : term[t] = "clear" => termOf[t] # NoSession

\* Whoever is not in Close holds no session to close.
VictimInv ==
  /\ \A c \in Calls :
       /\ call[c] # "closing" => victim[Creator(c)] = NoSession
       /\ call[c] # "rejected" => victim[Cleanup(c)] = NoSession
       /\ worker[c] # "closing" => victim[Worker(c)] = NoSession
  /\ \A t \in Terms : term[t] # "closing" => victim[Term(t)] = NoSession
  /\ \A l \in Leaves : leave[l] # "closing" => victim[Leave(l)] = NoSession
  /\ main # "closing" => victim[Shutdown] = NoSession

\* Whom Close is called for: a session that was created.  A worker that is in
\* Close is in that of its own session, unless that one has lost the entry.
CloserInv ==
  /\ \A d \in Closers : victim[d] # NoSession => phase[victim[d]] # "none"
  /\ \A s \in Sessions : worker[s] = "closing" =>
       /\ victim[Worker(s)] # NoSession
       /\ victim[Worker(s)] = s \/ entry # s

\* Whoever closes another session than its own came when its own had lost the
\* guild.
Astray(d, s) ==
  victim[d] # NoSession => phase[s] # "none" /\ (victim[d] = s \/ entry # s)

StrayInv ==
  /\ \A c \in Calls :
       Astray(Creator(c), c) /\ Astray(Worker(c), c) /\ Astray(Cleanup(c), c)
  /\ \A t \in Terms : term[t] \in {"clear", "destroy", "closing"} =>
       /\ termOf[t] # NoSession /\ phase[termOf[t]] # "none"
       /\ Astray(Term(t), termOf[t])

Inv ==
  /\ TypeOK
  /\ OwnerInv
  /\ VictimInv
  /\ EntryIsAlive
  /\ SomeoneEndsIt
  /\ NobodyParksForGood

----------------------------------------------------------------------------
\* Every /dplay that got its turn is answered: the closers of one session,
\* or of two, never wait for one another for ever.
CallsEnd ==
  \A c \in Calls :
    []<>(call[c] \in {"get", "accepted", "rejected", "exists"})

\* A session in which no track plays for ever ends and gives the guild back,
\* whoever closes it; a closed one does whatever its track does.
SessionsEnd ==
  \A s \in Sessions :
    []<>(worker[s] # "play" \/ phase[s] # "open") =>
      []<>(phase[s] = "none" \/ (phase[s] = "gone" /\ entry # s))
=============================================================================
