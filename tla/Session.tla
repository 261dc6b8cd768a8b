------------------------------ MODULE Session ------------------------------
(***************************************************************************)
(* One guild session of the player (internal/session/session.go) together  *)
(* with every goroutine that works on it: the /dplay calls, the playback   *)
(* worker, the keepalive and priming writers, /dterm, /dstop and /dnext,   *)
(* and the callers of Manager.Destroy.                                     *)
(*                                                                         *)
(* A step is one critical section of s.mu, one acquisition or release of   *)
(* s.sendMu, or one external operation (a file removed, a stream opened).  *)
(* The session's life starts when Manager.Create has registered it and the *)
(* call that created it, Creator, is opening the voice connection; other   *)
(* /dplay calls already hold the pointer Manager.Get returned and are      *)
(* still resolving their URL.                                              *)
(***************************************************************************)
EXTENDS Naturals, Sequences, FiniteSets, Functions

CONSTANTS
  Items,     \* the /dplay calls; a call and the queue item it builds are one
  Direct,    \* the items whose track was downloaded to a temporary file
  Creator,   \* the call that created the session
  QueueCap,  \* queueCapacity
  Terms,     \* the /dterm calls
  Skips,     \* the /dstop and /dnext calls
  Closers,   \* voice-leave events and shutdowns, which call Destroy
  Detached,  \* the goroutine that closes the session Detach returned
  LateOpen,  \* whether an earlier session of the guild is still being opened
  NoItem     \* a nil *QueueItem

ASSUME ItemsAssumption == Creator \in Items /\ NoItem \notin Items
ASSUME DirectAssumption == Direct \subseteq Items
ASSUME QueueCapAssumption == QueueCap \in Nat \ {0}
ASSUME DetachedAssumption == Detached \notin Closers

VARIABLES
  \* session.Session and its entry in session.Manager
  registered,   \* the manager's map holds this session
  queue,        \* s.queue
  current,      \* s.current; s.currentCancel is nil exactly when it is NoItem
  closed,       \* s.closed, and s.conn = nil, set in the same section
  ctxDone,      \* s.ctx is cancelled
  idleSpeaking, \* s.idleSpeaking
  tempFiles,    \* s.tempFiles, a file being named by its item
  sendMu,       \* the holder of s.sendMu, or "none"
  closePhase,   \* how far the body of closeOnce is
  closeFiles,   \* its local tempFiles
  \* outside the session
  cancelled,    \* the items whose playback context was cancelled by itself
  disk,         \* the temporary files that exist
  \* the goroutines
  call,         \* processDPlay of each item
  worker, hand, \* runPlaybackWorker, and the request it holds
  idler,        \* runIdleVoiceKeepAlive and primeVoiceConnection
  term, cleared,            \* processDTerm, and the paths ClearQueue took
  skip, announced, stopped, \* processDStopLike: what it read, what it stopped
  closer        \* Destroy from an event, and the detached Close

lifeVars == <<registered, closed, ctxDone, closePhase, closeFiles>>
playVars == <<queue, current, cancelled>>
fileVars == <<tempFiles, disk>>
connVars == <<idleSpeaking, sendMu>>
workVars == <<worker, hand>>
termVars == <<term, cleared>>
skipVars == <<skip, announced, stopped>>

vars == <<lifeVars, playVars, fileVars, connVars, call, workVars, idler,
          termVars, skipVars, closer>>

Idlers == {"keepalive", "prime"}

CallPcs == {"resolving", "opening", "track", "enqueue", "untrack", "unlink",
            "destroy", "closing", "cleanup", "start", "accepted", "rejected"}
WorkerPcs == {"unborn", "check", "dequeue", "waiting", "start", "open",
              "acquire", "sending", "untrack", "unlink", "finish", "recheck",
              "destroy", "closing", "exit"}
IdlerPcs == {"unborn", "tick", "speak", "write", "exit"}
TermPcs == {"idle", "clear", "unlink", "skip", "destroy", "closing", "done"}
SkipPcs == {"idle", "skip", "done"}
CloserPcs == {"off", "idle", "closing", "done"}
ClosePhases == {"open", "cancel", "conn", "files", "unregister", "done"}

----------------------------------------------------------------------------
\* Manager.Create and New: a fresh session, its creator about to open the
\* voice connection with its own file, if any, already downloaded.
Init ==
  /\ registered = TRUE
  /\ queue = <<>>
  /\ current = NoItem
  /\ closed = FALSE
  /\ ctxDone = FALSE
  /\ idleSpeaking = FALSE
  /\ tempFiles = {}
  /\ sendMu = "none"
  /\ closePhase = "open"
  /\ closeFiles = {}
  /\ cancelled = {}
  /\ disk = Direct \cap {Creator}
  /\ call = [i \in Items |-> IF i = Creator THEN "opening" ELSE "resolving"]
  /\ worker = "unborn"
  /\ hand = NoItem
  /\ idler = [p \in Idlers |-> "unborn"]
  /\ term = [t \in Terms |-> "idle"]
  /\ cleared = [t \in Terms |-> {}]
  /\ skip = [k \in Skips |-> "idle"]
  /\ announced = [k \in Skips |-> NoItem]
  /\ stopped = [k \in Skips |-> NoItem]
  /\ closer = [c \in Closers \cup {Detached} |->
                 IF c = Detached THEN "off" ELSE "idle"]

----------------------------------------------------------------------------
(***************************************************************************)
(* The parts the methods share.  The operators named ...Fault are not part *)
(* of the specification: each is a plausible slip in the operator that     *)
(* follows it, kept to show that a property would notice it.               *)
(***************************************************************************)
NeverGoneFault == FALSE
\* s.closed || s.ctx.Err() != nil
Gone == closed \/ ctxDone

NoWakeupFault(pc) == pc
\* What queueCond.Signal and Broadcast do to the worker, the only waiter.
Woken(pc) == IF pc = "waiting" THEN "dequeue" ELSE pc

AlwaysActiveFault(active) == idleSpeaking' = active
KeepsFlagFault(active) == idleSpeaking' = (~closed /\ (active \/ idleSpeaking))
SetIdleSpeakingActive(active) == idleSpeaking' = (~closed /\ active)

NeverTrackedFault(i) == tempFiles
Tracked(i) == IF closed THEN tempFiles ELSE tempFiles \cup {i}

FileKeptFault(i) == UNCHANGED disk
RemoveFile(i) == disk' = disk \ {i}

QueueFirstFault(i) == <<i>> \o queue
Queued(i) == Append(queue, i)

CancelNilFault == cancelled' = cancelled \cup {current}
CancelNobodyFault == UNCHANGED cancelled
\* currentCancel(), when there is one.
CancelCurrent == cancelled' = cancelled \cup ({current} \ {NoItem})

ClearCurrent == current' = NoItem

SharedConnFault == TRUE
\* s.sendMu can be taken.
SendMuFree == sendMu = "none"

\* s.cancel()
CancelContext == ctxDone' = TRUE

----------------------------------------------------------------------------
(***************************************************************************)
(* Session.Close, entered by several callers.  closeOnce admits one; the   *)
(* others wait until its body has returned.  nextWorker is the pc the      *)
(* worker has after the step; queueCond.Broadcast moves it on if it waits. *)
(***************************************************************************)
BeginClose(nextWorker) ==
  /\ closed' = TRUE
  /\ idleSpeaking' = FALSE
  /\ queue' = <<>>
  /\ ClearCurrent
  /\ closeFiles' = tempFiles
  /\ tempFiles' = {}
  /\ closePhase' = "cancel"
  /\ worker' = Woken(nextWorker)

JoinClose(nextWorker) ==
  /\ worker' = nextWorker
  /\ UNCHANGED <<closed, idleSpeaking, queue, current, closeFiles, tempFiles,
                 closePhase>>

\* Changes the variables of BeginClose; leaves these alone.
Close(nextWorker) ==
  /\ \/ closePhase = "open" /\ BeginClose(nextWorker)
     \/ closePhase # "open" /\ JoinClose(nextWorker)
  /\ UNCHANGED <<registered, ctxDone, cancelled, disk, sendMu, hand, idler,
                 skipVars, cleared>>

\* currentCancel() and cancel(): the playback context derives from s.ctx, so
\* the second call subsumes the first.  beforeClose only unregisters the
\* connection from the voice manager.
CloseCancel ==
  /\ closePhase = "cancel"
  /\ CancelContext
  /\ closePhase' = "conn"
  /\ UNCHANGED <<registered, closed, closeFiles, playVars, fileVars,
                 connVars, call, workVars, idler, termVars, skipVars, closer>>

\* closeVoiceConn under sendMu, taken and released.
CloseConn ==
  /\ closePhase = "conn"
  /\ SendMuFree
  /\ closePhase' = "files"
  /\ UNCHANGED <<registered, closed, ctxDone, closeFiles, playVars, fileVars,
                 connVars, call, workVars, idler, termVars, skipVars, closer>>

CloseFiles ==
  /\ closePhase = "files"
  /\ disk' = disk \ closeFiles
  /\ closeFiles' = {}
  /\ closePhase' = "unregister"
  /\ UNCHANGED <<registered, closed, ctxDone, playVars, tempFiles,
                 connVars, call, workVars, idler, termVars, skipVars, closer>>

\* onClose is Manager.remove; a detached session has no entry to remove.
CloseUnregister ==
  /\ closePhase = "unregister"
  /\ registered' = FALSE
  /\ closePhase' = "done"
  /\ UNCHANGED <<closed, ctxDone, closeFiles, playVars, fileVars,
                 connVars, call, workVars, idler, termVars, skipVars, closer>>

ConnClosed == closePhase \in {"files", "unregister", "done"}

----------------------------------------------------------------------------
(***************************************************************************)
(* processDPlay after the pointer was obtained.                            *)
(***************************************************************************)
CallGoes(i, pc) == call' = [call EXCEPT ![i] = pc]

\* The resolver returns a source, with its temporary file when it is direct.
Resolve(i) ==
  /\ call[i] = "resolving"
  /\ disk' = disk \cup ({i} \cap Direct)
  /\ CallGoes(i, IF i \in Direct THEN "track" ELSE "enqueue")
  /\ UNCHANGED <<lifeVars, playVars, tempFiles, connVars, workVars, idler,
                 termVars, skipVars, closer>>

ResolveFails(i) ==
  /\ call[i] = "resolving"
  /\ CallGoes(i, "rejected")
  /\ UNCHANGED <<lifeVars, playVars, fileVars, connVars, workVars, idler,
                 termVars, skipVars, closer>>

\* conn.Open in openVoiceSession.
OpenSucceeds ==
  /\ call[Creator] = "opening"
  /\ CallGoes(Creator, IF Creator \in Direct THEN "track" ELSE "enqueue")
  /\ UNCHANGED <<lifeVars, playVars, fileVars, connVars, workVars, idler,
                 termVars, skipVars, closer>>

\* cleanupFailedVoiceSession: Detach, and a goroutine that closes what it got.
OpenFails ==
  /\ call[Creator] = "opening"
  /\ CallGoes(Creator, "cleanup")
  /\ registered' = FALSE
  /\ closer' = [closer EXCEPT ![Detached] =
                  IF registered THEN "idle" ELSE @]
  /\ UNCHANGED <<closed, ctxDone, closePhase, closeFiles, playVars, fileVars,
                 connVars, workVars, idler, termVars, skipVars>>

TrackTempFile(i) ==
  /\ call[i] = "track"
  /\ tempFiles' = Tracked(i)
  /\ CallGoes(i, "enqueue")
  /\ UNCHANGED <<lifeVars, playVars, disk, connVars, workVars, idler,
                 termVars, skipVars, closer>>

\* After an accepted Enqueue the creator goes on to start the goroutines.
Accepted(i) == CallGoes(i, IF i = Creator THEN "start" ELSE "accepted")

AfterRemoval(i) == IF i = Creator THEN "destroy" ELSE "cleanup"
Refused(i) == CallGoes(i, IF i \in Direct THEN "untrack" ELSE AfterRemoval(i))

\* ErrSessionClosed or ErrQueueFull; otherwise append and Signal, which wakes
\* the only goroutine that ever waits.
Enqueue(i) ==
  /\ call[i] = "enqueue"
  /\ \/ /\ Gone \/ Len(queue) >= QueueCap
        /\ Refused(i)
        /\ UNCHANGED <<queue, worker>>
     \/ /\ ~Gone /\ Len(queue) < QueueCap
        /\ queue' = Queued(i)
        /\ worker' = Woken(worker)
        /\ Accepted(i)
  /\ UNCHANGED <<lifeVars, current, cancelled, fileVars, connVars, hand,
                 idler, termVars, skipVars, closer>>

\* RemoveTempFile: the entry under s.mu, then the file.
CallUntracks(i) ==
  /\ call[i] = "untrack"
  /\ tempFiles' = tempFiles \ {i}
  /\ CallGoes(i, "unlink")
  /\ UNCHANGED <<lifeVars, playVars, disk, connVars, workVars, idler,
                 termVars, skipVars, closer>>

CallUnlinks(i) ==
  /\ call[i] = "unlink"
  /\ RemoveFile(i)
  /\ CallGoes(i, AfterRemoval(i))
  /\ UNCHANGED <<lifeVars, playVars, tempFiles, connVars, workVars, idler,
                 termVars, skipVars, closer>>

\* The creator destroys the session its item could not enter.
CallDestroys(i) ==
  /\ call[i] = "destroy"
  /\ \/ /\ registered
        /\ Close(worker)
        /\ CallGoes(i, "closing")
     \/ /\ ~registered
        /\ CallGoes(i, "cleanup")
        /\ UNCHANGED <<lifeVars, playVars, fileVars, connVars, workVars,
                       idler, skipVars, cleared>>
  /\ UNCHANGED <<term, closer>>

CallClosed(i) ==
  /\ call[i] = "closing"
  /\ closePhase = "done"
  /\ CallGoes(i, "cleanup")
  /\ UNCHANGED <<lifeVars, playVars, fileVars, connVars, workVars, idler,
                 termVars, skipVars, closer>>

\* The deferred source.Cleanup() of a call that was not accepted.
CallCleansUp(i) ==
  /\ call[i] = "cleanup"
  /\ RemoveFile(i)
  /\ CallGoes(i, "rejected")
  /\ UNCHANGED <<lifeVars, playVars, tempFiles, connVars, workVars, idler,
                 termVars, skipVars, closer>>

\* go runPlaybackWorker, go runIdleVoiceKeepAlive, primeVoiceConnection (the
\* last one in the goroutine of the call itself).
StartGoroutines(i) ==
  /\ call[i] = "start"
  /\ CallGoes(i, "accepted")
  /\ worker' = "check"
  /\ idler' = [p \in Idlers |-> "tick"]
  /\ UNCHANGED <<lifeVars, playVars, fileVars, connVars, hand, termVars,
                 skipVars, closer>>

----------------------------------------------------------------------------
(***************************************************************************)
(* runPlaybackWorker and processPlaybackRequest.                           *)
(***************************************************************************)
ShouldAutoDisconnect == ~closed /\ current = NoItem /\ queue = <<>>

WorkerGoes(pc) ==
  /\ worker' = pc
  /\ UNCHANGED <<lifeVars, playVars, fileVars, connVars, call, hand, idler,
                 termVars, skipVars, closer>>

\* The top of the loop.
WorkerCheck ==
  /\ worker = "check"
  /\ \/ ctxDone /\ WorkerGoes("exit")
     \/ ~ctxDone /\ ShouldAutoDisconnect /\ WorkerGoes("destroy")
     \/ ~ctxDone /\ ~ShouldAutoDisconnect /\ WorkerGoes("dequeue")

QuitsAfterTrackFault ==
  /\ worker = "recheck"
  /\ WorkerGoes(IF ShouldAutoDisconnect THEN "destroy" ELSE "exit")

\* The bottom of the loop.
WorkerRecheck ==
  /\ worker = "recheck"
  /\ \/ ShouldAutoDisconnect /\ WorkerGoes("destroy")
     \/ ~ShouldAutoDisconnect /\ WorkerGoes("check")

\* ErrSessionClosed ends the worker; an empty queue parks it on queueCond.
WaitDequeue ==
  /\ worker = "dequeue"
  /\ \/ (closed \/ (queue # <<>> /\ ctxDone)) /\ WorkerGoes("exit")
     \/ ~closed /\ queue = <<>> /\ WorkerGoes("waiting")
     \/ /\ ~closed /\ ~ctxDone /\ queue # <<>>
        /\ hand' = Head(queue)
        /\ queue' = Tail(queue)
        /\ worker' = "start"
        /\ UNCHANGED <<lifeVars, current, cancelled, fileVars, connVars, call,
                       idler, termVars, skipVars, closer>>

\* A request StartCurrent refuses is dropped without any cleanup.
StartCurrent ==
  /\ worker = "start"
  /\ \/ /\ Gone \/ current # NoItem
        /\ worker' = "recheck"
        /\ hand' = NoItem
        /\ UNCHANGED current
     \/ /\ ~Gone /\ current = NoItem
        /\ worker' = "open"
        /\ current' = hand
        /\ UNCHANGED hand
  /\ UNCHANGED <<lifeVars, queue, cancelled, fileVars, connVars, call, idler,
                 termVars, skipVars, closer>>

\* The deferred cleanupPlaybackRequest, then FinishCurrent.
CleanupPc == IF hand \in Direct THEN "untrack" ELSE "finish"

\* newPlaybackStream, which no lock protects.
OpenStream ==
  /\ worker = "open"
  /\ \/ WorkerGoes("acquire")
     \/ WorkerGoes(CleanupPc)

\* sendPlaybackStream: WithConnExclusive takes sendMu, then gives up when the
\* context or the connection is gone.
WorkerAcquires ==
  /\ worker = "acquire"
  /\ SendMuFree
  /\ \/ Gone /\ WorkerGoes(CleanupPc)
     \/ /\ ~Gone
        /\ worker' = "sending"
        /\ sendMu' = "worker"
        /\ SetIdleSpeakingActive(FALSE)
        /\ UNCHANGED <<lifeVars, playVars, fileVars, call, hand, idler,
                       termVars, skipVars, closer>>

WorkerReleases ==
  /\ worker = "sending"
  /\ worker' = CleanupPc
  /\ sendMu' = "none"
  /\ SetIdleSpeakingActive(FALSE)
  /\ UNCHANGED <<lifeVars, playVars, fileVars, call, hand, idler, termVars,
                 skipVars, closer>>

\* The track ends, or a read or a write fails.
EndOfStream == WorkerReleases

DeafToContextFault == FALSE
\* SendOpusFrameStream notices that its context is cancelled.
StopCancelled == (ctxDone \/ hand \in cancelled) /\ WorkerReleases

WorkerUntracks ==
  /\ worker = "untrack"
  /\ tempFiles' = tempFiles \ {hand}
  /\ worker' = "unlink"
  /\ UNCHANGED <<lifeVars, playVars, disk, connVars, call, hand, idler,
                 termVars, skipVars, closer>>

WorkerUnlinks ==
  /\ worker = "unlink"
  /\ RemoveFile(hand)
  /\ worker' = "finish"
  /\ UNCHANGED <<lifeVars, playVars, tempFiles, connVars, call, hand, idler,
                 termVars, skipVars, closer>>

FinishCurrent ==
  /\ worker = "finish"
  /\ worker' = "recheck"
  /\ hand' = NoItem
  /\ ClearCurrent
  /\ CancelCurrent
  /\ UNCHANGED <<lifeVars, queue, fileVars, connVars, call, idler, termVars,
                 skipVars, closer>>

\* destroySessionAfterPlayback.
WorkerDestroys ==
  /\ worker = "destroy"
  /\ \/ /\ registered
        /\ Close("closing")
        /\ UNCHANGED <<call, term, closer>>
     \/ ~registered /\ WorkerGoes("exit")

WorkerClosed ==
  /\ worker = "closing"
  /\ closePhase = "done"
  /\ WorkerGoes("exit")

----------------------------------------------------------------------------
(***************************************************************************)
(* sendIdleSilenceFrame under WithConnExclusive, called every 20 ms by     *)
(* runIdleVoiceKeepAlive and once by primeVoiceConnection.                 *)
(***************************************************************************)
IdlerGoes(p, pc) == idler' = [idler EXCEPT ![p] = pc]

\* Where a writer goes after a frame: the keepalive ticks on.
AfterFrame(p) == IF p = "keepalive" THEN "tick" ELSE "exit"

\* A keepalive that is refused, or whose recovery is pending, only ticks on.
IdlerAcquires(p) ==
  /\ idler[p] = "tick"
  /\ SendMuFree
  /\ ~Gone
  /\ sendMu' = p
  /\ IdlerGoes(p, IF idleSpeaking THEN "write" ELSE "speak")
  /\ UNCHANGED <<lifeVars, playVars, fileVars, idleSpeaking, call, workVars,
                 termVars, skipVars, closer>>

\* The refusal of the priming writer, or its UDP socket is not there yet.
PrimeRefused ==
  /\ idler["prime"] = "tick"
  /\ SendMuFree
  /\ IdlerGoes("prime", "exit")
  /\ UNCHANGED <<lifeVars, playVars, fileVars, connVars, call, workVars,
                 termVars, skipVars, closer>>

KeepAliveEnds ==
  /\ idler["keepalive"] = "tick"
  /\ ctxDone
  /\ IdlerGoes("keepalive", "exit")
  /\ UNCHANGED <<lifeVars, playVars, fileVars, connVars, call, workVars,
                 termVars, skipVars, closer>>

\* conn.SetSpeaking, which fails or times out after two seconds.
IdlerSpeaks(p) ==
  /\ idler[p] = "speak"
  /\ \/ /\ SetIdleSpeakingActive(TRUE)
        /\ IdlerGoes(p, "write")
        /\ UNCHANGED sendMu
     \/ /\ sendMu' = "none"
        /\ IdlerGoes(p, AfterFrame(p))
        /\ UNCHANGED idleSpeaking
  /\ UNCHANGED <<lifeVars, playVars, fileVars, call, workVars, termVars,
                 skipVars, closer>>

IdlerWrites(p) ==
  /\ idler[p] = "write"
  /\ sendMu' = "none"
  /\ IdlerGoes(p, AfterFrame(p))
  /\ UNCHANGED idleSpeaking \/ SetIdleSpeakingActive(FALSE)
  /\ UNCHANGED <<lifeVars, playVars, fileVars, call, workVars, termVars,
                 skipVars, closer>>

\* WaitForVoiceServerRecovery resets the flag when the gateway is lost.
GatewayLost ==
  /\ registered
  /\ idleSpeaking
  /\ SetIdleSpeakingActive(FALSE)
  /\ UNCHANGED <<lifeVars, playVars, fileVars, sendMu, call, workVars, idler,
                 termVars, skipVars, closer>>

----------------------------------------------------------------------------
(***************************************************************************)
(* processDTerm.                                                           *)
(***************************************************************************)
TermGoes(t, pc) == term' = [term EXCEPT ![t] = pc]

TermGets(t) ==
  /\ term[t] = "idle"
  /\ TermGoes(t, IF registered THEN "clear" ELSE "done")
  /\ UNCHANGED <<lifeVars, playVars, fileVars, connVars, call, workVars,
                 idler, cleared, skipVars, closer>>

\* removeTrackedQueueFilesLocked
ClearQueue(t) ==
  /\ term[t] = "clear"
  /\ cleared' = [cleared EXCEPT ![t] = Range(queue) \cap tempFiles]
  /\ tempFiles' = tempFiles \ Range(queue)
  /\ queue' = <<>>
  /\ TermGoes(t, "unlink")
  /\ UNCHANGED <<lifeVars, current, cancelled, disk, connVars, call,
                 workVars, idler, skipVars, closer>>

TermUnlinks(t) ==
  /\ term[t] = "unlink"
  /\ disk' = disk \ cleared[t]
  /\ cleared' = [cleared EXCEPT ![t] = {}]
  /\ TermGoes(t, "skip")
  /\ UNCHANGED <<lifeVars, playVars, tempFiles, connVars, call, workVars,
                 idler, skipVars, closer>>

\* SkipCurrent, before Destroy.
TermSkips(t) ==
  /\ term[t] = "skip"
  /\ CancelCurrent
  /\ TermGoes(t, "destroy")
  /\ UNCHANGED <<lifeVars, queue, current, fileVars, connVars, call,
                 workVars, idler, cleared, skipVars, closer>>

TermDestroys(t) ==
  /\ term[t] = "destroy"
  /\ \/ /\ registered
        /\ Close(worker)
        /\ TermGoes(t, "closing")
     \/ /\ ~registered
        /\ TermGoes(t, "done")
        /\ UNCHANGED <<lifeVars, playVars, fileVars, connVars, workVars,
                       idler, skipVars, cleared>>
  /\ UNCHANGED <<call, closer>>

TermClosed(t) ==
  /\ term[t] = "closing"
  /\ closePhase = "done"
  /\ TermGoes(t, "done")
  /\ UNCHANGED <<lifeVars, playVars, fileVars, connVars, call, workVars,
                 idler, cleared, skipVars, closer>>

----------------------------------------------------------------------------
(***************************************************************************)
(* processDStopLike: Current and SkipCurrent are two critical sections.    *)
(***************************************************************************)
SkipReads(k) ==
  /\ skip[k] = "idle"
  /\ announced' = [announced EXCEPT ![k] = IF registered THEN current
                                                         ELSE NoItem]
  /\ skip' = [skip EXCEPT ![k] = IF registered /\ current # NoItem
                                 THEN "skip" ELSE "done"]
  /\ UNCHANGED <<lifeVars, playVars, fileVars, connVars, call, workVars,
                 idler, stopped, termVars, closer>>

\* The cancel function is called after the section that read it: by then its
\* item is still current, or the call has no effect.
SkipCurrent(k) ==
  /\ skip[k] = "skip"
  /\ stopped' = [stopped EXCEPT ![k] = current]
  /\ CancelCurrent
  /\ skip' = [skip EXCEPT ![k] = "done"]
  /\ UNCHANGED <<lifeVars, queue, current, fileVars, connVars, call,
                 workVars, idler, announced, termVars, closer>>

----------------------------------------------------------------------------
(***************************************************************************)
(* Destroy by OnGuildVoiceStateUpdate or Manager.Close, and the goroutine  *)
(* of cleanupFailedVoiceSession, which has the pointer and needs no entry. *)
(***************************************************************************)
CloserGoes(c, pc) == closer' = [closer EXCEPT ![c] = pc]

CloserDestroys(c) ==
  /\ closer[c] = "idle"
  /\ registered \/ c = Detached
  /\ Close(worker)
  /\ CloserGoes(c, "closing")
  /\ UNCHANGED <<call, term>>

\* The Open of an earlier session of the guild fails late: Detach takes the
\* guild, and so this session.
DetachedLate ==
  /\ LateOpen
  /\ registered
  /\ closer[Detached] = "off"
  /\ registered' = FALSE
  /\ CloserGoes(Detached, "idle")
  /\ UNCHANGED <<closed, ctxDone, closePhase, closeFiles, playVars, fileVars,
                 connVars, call, workVars, idler, termVars, skipVars>>

CloserClosed(c) ==
  /\ closer[c] = "closing"
  /\ closePhase = "done"
  /\ CloserGoes(c, "done")
  /\ UNCHANGED <<lifeVars, playVars, fileVars, connVars, call, workVars,
                 idler, termVars, skipVars>>

----------------------------------------------------------------------------
\* The program's steps in each goroutine.
CallStep(i) ==
  \/ Resolve(i) \/ ResolveFails(i)
  \/ i = Creator /\ (OpenSucceeds \/ OpenFails)
  \/ TrackTempFile(i) \/ Enqueue(i)
  \/ CallUntracks(i) \/ CallUnlinks(i)
  \/ CallDestroys(i) \/ CallClosed(i) \/ CallCleansUp(i)
  \/ StartGoroutines(i)

\* EndOfStream and WorkerAcquires have a fairness of their own, or none.
WorkerStep ==
  \/ WorkerCheck \/ WaitDequeue \/ StartCurrent \/ OpenStream
  \/ StopCancelled
  \/ WorkerUntracks \/ WorkerUnlinks \/ FinishCurrent \/ WorkerRecheck
  \/ WorkerDestroys \/ WorkerClosed

IdlerStep(p) == IdlerSpeaks(p) \/ IdlerWrites(p)

TermStep(t) ==
  \/ ClearQueue(t) \/ TermUnlinks(t) \/ TermSkips(t)
  \/ TermDestroys(t) \/ TermClosed(t)

CloseStep == CloseCancel \/ CloseFiles \/ CloseUnregister

\* The session is over and every goroutine has returned.
Over ==
  /\ closePhase = "done"
  /\ \A i \in Items : call[i] \in {"accepted", "rejected"}
  /\ worker \in {"unborn", "exit"}
  /\ \A p \in Idlers : idler[p] \in {"unborn", "exit"}
  /\ \A t \in Terms : term[t] = "done"
  /\ \A k \in Skips : skip[k] = "done"

Finished == Over /\ UNCHANGED vars

Next ==
  \/ \E i \in Items : CallStep(i)
  \/ WorkerStep
  \/ EndOfStream
  \/ WorkerAcquires
  \/ \E p \in Idlers : IdlerAcquires(p) \/ IdlerStep(p)
  \/ PrimeRefused
  \/ KeepAliveEnds
  \/ GatewayLost
  \/ \E t \in Terms : TermGets(t) \/ TermStep(t)
  \/ \E k \in Skips : SkipReads(k) \/ SkipCurrent(k)
  \/ \E c \in Closers \cup {Detached} : CloserDestroys(c) \/ CloserClosed(c)
  \/ DetachedLate
  \/ CloseStep
  \/ CloseConn
  \/ Finished

(***************************************************************************)
(* Goroutines that can run do run, and every external call they make has a *)
(* timeout.  sync.Mutex hands a contended lock to the longest waiter, so   *)
(* whoever keeps trying for sendMu gets it: strong fairness.  Nothing is   *)
(* assumed of the users, of the voice events, or of a track's end.         *)
(***************************************************************************)
Fairness ==
  /\ \A i \in Items : WF_vars(CallStep(i))
  /\ WF_vars(WorkerStep)
  /\ SF_vars(WorkerAcquires)
  /\ \A p \in Idlers : WF_vars(IdlerStep(p))
  /\ SF_vars(PrimeRefused \/ IdlerAcquires("prime"))
  /\ WF_vars(KeepAliveEnds)
  /\ \A t \in Terms : WF_vars(TermStep(t))
  /\ \A k \in Skips : WF_vars(SkipCurrent(k))
  /\ WF_vars(CloserDestroys(Detached))
  /\ \A c \in Closers \cup {Detached} : WF_vars(CloserClosed(c))
  /\ WF_vars(CloseStep)
  /\ SF_vars(CloseConn)

SafetySpec == Init /\ [][Next]_vars
Spec == SafetySpec /\ Fairness

----------------------------------------------------------------------------
(***************************************************************************)
(* Properties.                                                             *)
(***************************************************************************)
\* Every variable stays in its range.
StateTypeOK ==
  /\ registered \in BOOLEAN
  /\ closed \in BOOLEAN
  /\ ctxDone \in BOOLEAN
  /\ idleSpeaking \in BOOLEAN
  /\ closePhase \in ClosePhases
  /\ queue \in Seq(Items)
  /\ current \in Items \cup {NoItem}
  /\ cancelled \subseteq Items
  /\ sendMu \in {"none", "worker"} \cup Idlers

FilesTypeOK ==
  /\ tempFiles \subseteq Direct
  /\ closeFiles \subseteq Direct
  /\ disk \subseteq Direct
  /\ cleared \in [Terms -> SUBSET Direct]

GoroutinesTypeOK ==
  /\ call \in [Items -> CallPcs]
  /\ \A i \in Items : call[i] \in {"track", "untrack", "unlink"} => i \in Direct
  /\ worker \in WorkerPcs
  /\ hand \in Items \cup {NoItem}
  /\ idler \in [Idlers -> IdlerPcs]
  /\ term \in [Terms -> TermPcs]
  /\ closer \in [Closers \cup {Detached} -> CloserPcs]

SkipsTypeOK ==
  /\ skip \in [Skips -> SkipPcs]
  /\ announced \in [Skips -> Items \cup {NoItem}]
  /\ stopped \in [Skips -> Items \cup {NoItem}]

TypeOK == StateTypeOK /\ FilesTypeOK /\ GoroutinesTypeOK /\ SkipsTypeOK

\* The goroutines that are using the connection inside WithConnExclusive.
UsesConn(p) ==
  IF p = "worker" THEN worker = "sending" ELSE idler[p] \in {"speak", "write"}

\* WithConnExclusive and Close: at most one goroutine uses the voice
\* connection, namely the holder of sendMu, and none once Close has closed it.
ConnSafe ==
  \A p \in Idlers \cup {"worker"} :
    UsesConn(p) => sendMu = p /\ ~ConnClosed

\* A track that waits, and the one being played, has its file: neither Close
\* nor ClearQueue removes a file that ffmpeg reads or will be asked to read.
\* (After Close the worker may still hold a request it will not get to play.)
TrackFileAvailable ==
  \A i \in Direct :
    \/ i \in Range(queue)
    \/ hand = i /\ worker = "sending"
    \/ hand = i /\ worker \in {"start", "open", "acquire"} /\ ~ConnClosed
    => i \in disk

\* No download is left behind: whatever is on disk is in the session's
\* tempFiles, or some goroutine that still has a step to take will remove it.
NoOrphanFile ==
  \A i \in disk :
    \/ call[i] \in {"opening", "track", "enqueue", "untrack", "unlink",
                    "cleanup"}
    \/ i \in tempFiles
    \/ i \in closeFiles
    \/ hand = i /\ worker = "unlink"
    \/ \E t \in Terms : i \in cleared[t]

\* queueCond: the worker never sleeps while there is something to play or
\* the session is closed.
NoLostWakeup == worker = "waiting" => queue = <<>> /\ ~closed

\* The goroutines of the program that can take a step of their own.  Calls,
\* /dterm and closers wait for closePhase only; the worker and the writers for
\* sendMu, the worker also on queueCond; a track is sent until its end or
\* until its context is cancelled; the keepalive ticks until the context is.
CallMoves(i) ==
  /\ call[i] \notin {"accepted", "rejected"}
  /\ call[i] = "closing" => closePhase = "done"
WorkerMoves ==
  /\ worker \notin {"unborn", "waiting", "exit"}
  /\ worker = "acquire" => SendMuFree
  /\ worker = "sending" => ctxDone \/ hand \in cancelled
  /\ worker = "closing" => closePhase = "done"
IdlerMoves(p) ==
  \/ idler[p] \in {"speak", "write"}
  \/ idler[p] = "tick" /\ IF p = "prime" THEN SendMuFree ELSE ctxDone
TermMoves(t) ==
  /\ term[t] \notin {"idle", "done"}
  /\ term[t] = "closing" => closePhase = "done"
CloserMoves(c) ==
  \/ closer[c] = "closing" /\ closePhase = "done"
  \/ closer[c] = "idle" /\ c = Detached
CloseMoves ==
  /\ closePhase \notin {"open", "done"}
  /\ closePhase = "conn" => SendMuFree

SomebodyMoves ==
  \/ \E i \in Items : CallMoves(i)
  \/ WorkerMoves
  \/ \E p \in Idlers : IdlerMoves(p)
  \/ \E t \in Terms : TermMoves(t)
  \/ \E k \in Skips : skip[k] = "skip"
  \/ \E c \in Closers \cup {Detached} : CloserMoves(c)
  \/ CloseMoves

\* Nobody waits for good: when no goroutine can move without a user, a voice
\* event or the end of a track, then a track is being sent, or the session is
\* over, its goroutines have returned and its downloads are removed.  So
\* closeOnce, sendMu and queueCond make no circle, and no session stays open
\* with nothing to play and nobody to end it, although a /dterm may empty the
\* queue under the worker and a Detach may take the entry that its Destroy
\* looks for.
RestsOnlyWhilePlaying ==
  \/ SomebodyMoves
  \/ worker = "sending" /\ ~closed
  \/ /\ closePhase = "done"
     /\ worker \in {"unborn", "exit"}
     /\ \A p \in Idlers : idler[p] \in {"unborn", "exit"}
     /\ disk = {}

\* Late calls of Enqueue, TrackTempFile, StartCurrent and
\* SetIdleSpeakingActive do not bring a closed session back to life.
ClosedIsFinal ==
  closed => /\ queue = <<>> /\ current = NoItem
            /\ tempFiles = {} /\ ~idleSpeaking

\* What Current() reports is what the worker is playing, so StartCurrent's
\* ErrCurrentPlaybackInFlight, after which a track would be lost, is
\* unreachable while the session is open.
CurrentIsWorkers ==
  ~closed =>
    current = IF worker \in {"open", "acquire", "sending", "untrack",
                             "unlink", "finish"}
              THEN hand ELSE NoItem

\* While a track is sent the idle flag is off, so the first silence frame
\* after it announces Speaking again (SendOpusFrameStream cleared it).
PlaybackClearsIdleFlag == worker = "sending" => ~idleSpeaking

\* The tracks a user was told about, oldest first, as PlaybackQueue sees
\* them: the request the worker took out is still pending until it starts.
Pending == IF worker = "start" THEN <<hand>> \o queue ELSE queue

PQ == INSTANCE PlaybackQueue WITH
        Tracks <- Items, Capacity <- QueueCap, None <- NoItem,
        accepted <- {i \in Items : call[i] \in {"start", "accepted"}},
        pending <- Pending, playing <- current, open <- ~closed,
        clearing <- {t \in Terms : term[t] = "clear"}

\* The session implements the player that PlaybackQueue describes.
ImplementsPlaybackQueue == PQ!Spec

\* The pcs at which the worker holds a request.
Holding == {"start", "open", "acquire", "sending", "untrack", "unlink", "finish"}

\* The stages and the worker as the guild sees them.  A track that the worker
\* holds when Close begins is over, unless it is being sent.
Stage ==
  CASE closePhase = "open" -> "open"
    [] closePhase \in {"cancel", "conn"} -> "closing"
    [] closePhase \in {"files", "unregister"} -> "left"
    [] closePhase = "done" -> "gone"

WorkerOf ==
  CASE worker = "sending" \/ (worker \in Holding /\ ~closed) -> "play"
    [] worker = "recheck" \/ (worker \in Holding \ {"sending"} /\ closed) ->
         "check"
    [] worker = "waiting" -> "dequeue"
    [] worker = "closing" -> "destroy"
    [] OTHER -> worker

Life == INSTANCE SessionLife WITH
          stage <- Stage, waiting <- Len(queue), worker <- WorkerOf

\* The session lives as SessionManager takes it to live.
ImplementsLife == Life!Spec

----------------------------------------------------------------------------
(***************************************************************************)
(* The inductive invariant: what every step may rely on.                   *)
(***************************************************************************)
\* The flags follow the body of closeOnce.
PhaseInv ==
  /\ closed <=> closePhase # "open"
  /\ ctxDone <=> closePhase \notin {"open", "cancel"}
  /\ closePhase = "open" => closeFiles = {}
  /\ closePhase = "done" => ~registered

\* The goroutines start once, by the creator's call.
StartInv ==
  /\ call[Creator] # "accepted" =>
       worker = "unborn" /\ \A p \in Idlers : idler[p] = "unborn"
  /\ \A i \in Items :
       call[i] \in {"opening", "destroy", "closing", "start"} => i = Creator

NoDup(s) == \A j, k \in 1..Len(s) : s[j] = s[k] => j = k

\* A request is in one place, and it was accepted.
RequestInv ==
  /\ worker \in Holding <=> hand # NoItem
  /\ worker \in {"untrack", "unlink"} => hand \in Direct
  /\ \A i \in Items : i \in Range(queue) \/ i = hand \/ i = current =>
       call[i] \in {"start", "accepted"}
  /\ hand \notin Range(queue)
  /\ NoDup(queue)

\* A file the session tracks exists, and its owner is past TrackTempFile and
\* has not given it up.
TrackedInv ==
  /\ tempFiles \subseteq disk
  /\ \A i \in tempFiles : call[i] \in {"enqueue", "untrack", "start", "accepted"}
  /\ worker \in {"unlink", "finish"} => hand \notin tempFiles
  /\ \A i \in Direct :
       \/ call[i] = "enqueue"
       \/ i \in Range(queue)
       \/ hand = i /\ worker \in {"start", "open", "acquire", "sending"}
       => closed \/ i \in tempFiles

\* Files on their way out are neither tracked nor about to be.
DoomedInv ==
  /\ \A i \in closeFiles : call[i] \notin {"resolving", "opening", "track"}
  /\ \A i \in Direct : call[i] \in {"opening", "track"} => i \in disk
  /\ \A t \in Terms :
       /\ term[t] # "unlink" => cleared[t] = {}
       /\ \A i \in cleared[t] :
            /\ call[i] \in {"start", "accepted"}
            /\ i \notin tempFiles /\ i \notin Range(queue) /\ i # hand

Inv ==
  /\ TypeOK
  /\ PhaseInv
  /\ StartInv
  /\ RequestInv
  /\ TrackedInv
  /\ DoomedInv
  /\ ConnSafe
  /\ TrackFileAvailable
  /\ NoOrphanFile
  /\ NoLostWakeup
  /\ ClosedIsFinal
  /\ CurrentIsWorkers
  /\ PlaybackClearsIdleFlag

\* What RestsOnlyWhilePlaying needs beyond Inv.  Whoever has sendMu uses the
\* connection; whoever waits for Close found it begun, and Close leaves no file.
HolderInv ==
  /\ sendMu # "none" => UsesConn(sendMu)
  /\ \A i \in Items : call[i] = "closing" => closed
  /\ worker = "closing" => closed
  /\ \A t \in Terms : term[t] = "closing" => closed
  /\ \A c \in Closers \cup {Detached} : closer[c] = "closing" => closed
  /\ closePhase \in {"unregister", "done"} => closeFiles = {}

\* Whoever gives up an open session leaves it to somebody: to the goroutine of
\* Detach, if the entry is gone, or to the /dterm that emptied the queue.
HandedOverInv ==
  /\ call[Creator] # "resolving"
  /\ call[Creator] = "accepted" => worker # "unborn"
  /\ ~closed =>
       /\ ~registered => closer[Detached] = "idle"
       /\ worker = "exit" => ~registered
       /\ call[Creator] \in {"closing", "cleanup", "rejected"} => ~registered
       /\ worker \in {"dequeue", "waiting"} /\ queue = <<>> =>
            \/ ~registered
            \/ \E t \in Terms : term[t] \in {"unlink", "skip", "destroy"}

----------------------------------------------------------------------------
\* Close returns: whoever holds sendMu lets go once the context is cancelled,
\* so that neither /dterm nor the voice events block for good; and a closed
\* session leaves no goroutine behind.
GoroutinesEnd ==
  <>[](closed => /\ closePhase = "done"
                 /\ worker \in {"unborn", "exit"}
                 /\ \A p \in Idlers : idler[p] \in {"unborn", "exit"})

\* A track that /dstop or /dnext stopped leaves the player.
SkipTakesEffect ==
  \A k \in Skips, i \in Items : []<>~(stopped[k] = i /\ current = i)

\* A closed session's downloads are all removed, those of /dplay calls that
\* were still running included.
FilesReclaimed == <>[](closed => disk = {})

\* An accepted track leaves the queue, unless some track is sent for ever.
QueueDrains ==
  <>[](worker = "sending") \/ \A i \in Items : []<>(i \notin Range(queue))

----------------------------------------------------------------------------
\* README.md:35: the bot disconnects when the queue is empty.
AutoDisconnectOnlyWhenEmpty ==
  [][worker = "destroy" /\ worker' = "closing" /\ ~closed => queue = <<>>]_vars

\* README.md:21: /dstop stops the current track.  The track it reports as
\* stopped is the one it stops.
SkipStopsAnnounced ==
  \A k \in Skips : stopped[k] # NoItem => stopped[k] = announced[k]

=============================================================================
