--------------------------- MODULE SessionProofs ---------------------------
(***************************************************************************)
(* The safety properties of Session hold for every number of calls, every  *)
(* queue capacity and every choice of downloads. They are proved through   *)
(* one invariant, Inv, which every step preserves: one lemma per action,   *)
(* one step per part of the invariant; the parts an action does not touch  *)
(* come first and together.                                                *)
(***************************************************************************)
EXTENDS Session, TLAPS, SequenceTheorems

----------------------------------------------------------------------------
\* Queues.

\* An empty queue has no items.
LEMMA RangeEmpty == Range(<<>>) = {}
BY DEF Range

\* An empty queue has no duplicates.
LEMMA NoDupEmpty == NoDup(<<>>)
BY DEF NoDup

\* Enqueue adds exactly its item to the items of the queue.
LEMMA RangeAppend ==
  ASSUME NEW S, NEW s \in Seq(S), NEW e \in S
  PROVE  Range(Append(s, e)) = Range(s) \cup {e}
<1>1. /\ DOMAIN s = 1..Len(s)
      /\ DOMAIN Append(s, e) = 1..(Len(s) + 1)
      /\ \A k \in 1..Len(s) : Append(s, e)[k] = s[k]
      /\ Append(s, e)[Len(s) + 1] = e
      /\ Len(s) \in Nat
  OBVIOUS
<1>2. Range(Append(s, e)) \subseteq Range(s) \cup {e}
  BY <1>1 DEF Range
<1>3. Range(s) \cup {e} \subseteq Range(Append(s, e))
  BY <1>1 DEF Range
<1> QED BY <1>2, <1>3

\* Appending a new item makes no duplicate.
LEMMA NoDupAppend ==
  ASSUME NEW S, NEW s \in Seq(S), NEW e \in S, NoDup(s), e \notin Range(s)
  PROVE  NoDup(Append(s, e))
BY DEF NoDup, Range

\* WaitDequeue splits the items of the queue into the head and the rest.
LEMMA RangeTail ==
  ASSUME NEW S, NEW s \in Seq(S), s # <<>>
  PROVE  Range(s) = {Head(s)} \cup Range(Tail(s))
<1>1. /\ DOMAIN s = 1..Len(s)
      /\ DOMAIN Tail(s) = 1..(Len(s) - 1)
      /\ \A k \in 1..(Len(s) - 1) : Tail(s)[k] = s[k + 1]
      /\ Head(s) = s[1]
      /\ Len(s) \in Nat \ {0}
  OBVIOUS
<1>2. ASSUME NEW k \in DOMAIN s PROVE s[k] \in {Head(s)} \cup Range(Tail(s))
  <2>1. CASE k = 1  BY <1>1, <2>1
  <2>2. CASE k # 1
    <3>1. k - 1 \in DOMAIN Tail(s) /\ s[k] = Tail(s)[k - 1]
      BY <1>1, <1>2, <2>2
    <3> QED BY <3>1 DEF Range
  <2> QED BY <2>1, <2>2
<1>3. ASSUME NEW k \in DOMAIN Tail(s) PROVE Tail(s)[k] \in Range(s)
  <2>1. k + 1 \in DOMAIN s /\ Tail(s)[k] = s[k + 1]
    BY <1>1, <1>3
  <2> QED BY <2>1 DEF Range
<1>4. Head(s) \in Range(s)
  BY <1>1 DEF Range
<1> QED BY <1>2, <1>3, <1>4 DEF Range

\* Without duplicates, what WaitDequeue takes is gone from the queue.
LEMMA NoDupTail ==
  ASSUME NEW S, NEW s \in Seq(S), s # <<>>, NoDup(s)
  PROVE  NoDup(Tail(s)) /\ Head(s) \notin Range(Tail(s))
<1>1. /\ DOMAIN s = 1..Len(s)
      /\ DOMAIN Tail(s) = 1..(Len(s) - 1)
      /\ Len(Tail(s)) = Len(s) - 1
      /\ \A k \in 1..(Len(s) - 1) : Tail(s)[k] = s[k + 1]
      /\ Head(s) = s[1]
      /\ Len(s) \in Nat \ {0}
  OBVIOUS
<1>2. NoDup(Tail(s))
  <2> SUFFICES ASSUME NEW j \in 1..(Len(s) - 1), NEW k \in 1..(Len(s) - 1),
                      Tail(s)[j] = Tail(s)[k]
               PROVE  j = k
    BY <1>1 DEF NoDup
  <2>1. s[j + 1] = s[k + 1] /\ j + 1 \in 1..Len(s) /\ k + 1 \in 1..Len(s)
    BY <1>1
  <2> QED BY <1>1, <2>1 DEF NoDup
<1>3. Head(s) \notin Range(Tail(s))
  <2> SUFFICES ASSUME NEW k \in 1..(Len(s) - 1), s[k + 1] = s[1] PROVE FALSE
    BY <1>1 DEF Range
  <2>1. k + 1 \in 1..Len(s) /\ 1 \in 1..Len(s)
    BY <1>1
  <2> QED BY <1>1, <2>1 DEF NoDup
<1> QED BY <1>2, <1>3

\* The items of a queue are /dplay calls.
LEMMA RangeItems ==
  ASSUME NEW S, NEW s \in Seq(S)
  PROVE  Range(s) \subseteq S
BY DEF Range

----------------------------------------------------------------------------
\* Session.Close and those who enter it.

\* Entering Session.Close, first or later, keeps every part of the invariant
\* but the types of the goroutines, which depend on who enters.
LEMMA CloseKeeps ==
  ASSUME Inv, NEW w \in WorkerPcs, Close(w),
         w = worker \/ (worker = "destroy" /\ w = "closing"),
         \A i \in Items :
           call'[i] = call[i] \/ (call[i] = "destroy" /\ call'[i] = "closing"),
         \A t \in Terms : term'[t] = term[t] \/ term[t] = "destroy"
  PROVE  /\ StateTypeOK' /\ FilesTypeOK' /\ SkipsTypeOK'
         /\ PhaseInv' /\ StartInv' /\ RequestInv' /\ TrackedInv' /\ DoomedInv'
         /\ ConnSafe' /\ TrackFileAvailable' /\ NoOrphanFile'
         /\ NoLostWakeup' /\ ClosedIsFinal' /\ CurrentIsWorkers'
         /\ PlaybackClearsIdleFlag'
<1> USE DEF Inv, TypeOK
<1>0. /\ Creator \in Items /\ NoItem \notin Items
      /\ Range(<<>>) = {} /\ NoDup(<<>>)
      /\ Direct \subseteq Items /\ <<>> \in Seq(Items)
  BY ItemsAssumption, DirectAssumption, RangeEmpty, NoDupEmpty
<1>1. /\ UNCHANGED <<registered, ctxDone, cancelled, disk, sendMu, hand, idler>>
      /\ UNCHANGED <<cleared, skip, announced, stopped>>
  BY DEF Close, skipVars
<1>2. CASE closePhase # "open"
  <2>1. /\ worker' = w
        /\ UNCHANGED <<closed, idleSpeaking, queue, current, closeFiles,
                       tempFiles, closePhase>>
    BY <1>2 DEF Close, JoinClose
  <2>2. StateTypeOK' /\ FilesTypeOK' /\ SkipsTypeOK' /\ PhaseInv'
    BY <1>1, <2>1 DEF StateTypeOK, FilesTypeOK, SkipsTypeOK, PhaseInv
  <2>3. StartInv'
    BY <1>0, <1>1, <2>1 DEF StartInv
  <2>4. RequestInv'
    BY <1>0, <1>1, <2>1 DEF RequestInv, Holding, StateTypeOK
  <2>5. TrackedInv'
    BY <1>0, <1>1, <2>1 DEF TrackedInv, FilesTypeOK
  <2>6. DoomedInv'
    BY <1>0, <1>1, <2>1 DEF DoomedInv, FilesTypeOK
  <2>7. ConnSafe'
    BY <1>1, <2>1 DEF ConnSafe, UsesConn, ConnClosed
  <2>8. TrackFileAvailable'
    BY <1>1, <2>1 DEF TrackFileAvailable, ConnClosed
  <2>9. NoOrphanFile'
    BY <1>0, <1>1, <2>1 DEF NoOrphanFile, FilesTypeOK
  <2>10. NoLostWakeup' /\ ClosedIsFinal' /\ CurrentIsWorkers' /\ PlaybackClearsIdleFlag'
    BY <1>1, <2>1 DEF NoLostWakeup, ClosedIsFinal, CurrentIsWorkers, PlaybackClearsIdleFlag
  <2> QED BY <2>2, <2>3, <2>4, <2>5, <2>6, <2>7, <2>8, <2>9, <2>10
<1>3. CASE closePhase = "open"
  <2>1. /\ closed' = TRUE /\ idleSpeaking' = FALSE
        /\ queue' = <<>> /\ current' = NoItem
        /\ closeFiles' = tempFiles /\ tempFiles' = {}
        /\ closePhase' = "cancel"
        /\ worker' = Woken(w)
    BY <1>3 DEF Close, BeginClose, ClearCurrent
  <2>2. StateTypeOK'
    BY <1>0, <1>1, <2>1 DEF StateTypeOK, ClosePhases
  <2>2a. FilesTypeOK' /\ SkipsTypeOK' /\ PhaseInv'
    BY <1>1, <1>3, <2>1 DEF FilesTypeOK, SkipsTypeOK, PhaseInv
  <2>3. StartInv'
    BY <1>0, <1>1, <2>1 DEF StartInv, Woken
  <2>4. RequestInv'
    BY <1>0, <1>1, <2>1 DEF RequestInv, Holding, Woken
  <2>5. TrackedInv'
    BY <1>0, <1>1, <2>1 DEF TrackedInv
  <2>6. DoomedInv'
    BY <1>0, <1>1, <2>1 DEF DoomedInv, TrackedInv, FilesTypeOK
  <2>7. ConnSafe'
    BY <1>1, <1>3, <2>1 DEF ConnSafe, UsesConn, ConnClosed, Woken
  <2>8. TrackFileAvailable'
    BY <1>0, <1>1, <1>3, <2>1 DEF TrackFileAvailable, ConnClosed, Woken
  <2>9. NoOrphanFile'
    BY <1>0, <1>1, <1>3, <2>1 DEF NoOrphanFile, FilesTypeOK, PhaseInv, Woken
  <2>10. NoLostWakeup' /\ ClosedIsFinal' /\ CurrentIsWorkers' /\ PlaybackClearsIdleFlag'
    BY <1>1, <2>1 DEF NoLostWakeup, ClosedIsFinal, CurrentIsWorkers, PlaybackClearsIdleFlag, Woken
  <2> QED BY <2>2, <2>2a, <2>3, <2>4, <2>5, <2>6, <2>7, <2>8, <2>9, <2>10
<1> QED BY <1>2, <1>3

\* The creator's Destroy.
LEMMA CallDestroysStep ==
  ASSUME Inv, NEW i \in Items, CallDestroys(i) PROVE Inv'
<1> USE DEF Inv, TypeOK
<1>1. CASE registered
  <2>1. /\ call[i] = "destroy" /\ CallGoes(i, "closing") /\ Close(worker)
        /\ UNCHANGED <<term, closer, hand, idler>>
    BY <1>1 DEF CallDestroys, Close
  <2>2. GoroutinesTypeOK'
    BY <2>1 DEF GoroutinesTypeOK, CallGoes, Close, BeginClose, JoinClose, Woken,
                CallPcs, WorkerPcs
  <2>3. /\ worker \in WorkerPcs
        /\ \A j \in Items :
             call'[j] = call[j] \/ (call[j] = "destroy" /\ call'[j] = "closing")
    BY <2>1 DEF GoroutinesTypeOK, CallGoes
  <2> QED BY <2>1, <2>2, <2>3, CloseKeeps
<1>2. CASE ~registered
  <2>1. /\ call[i] = "destroy" /\ call' = [call EXCEPT ![i] = "cleanup"]
        /\ UNCHANGED <<lifeVars, playVars, fileVars, connVars, workVars, idler,
                       skipVars, termVars, closer>>
    BY <1>2 DEF CallDestroys, CallGoes, termVars
  <2> USE <2>1 DEF lifeVars, playVars, fileVars, connVars, workVars, termVars,
                   skipVars
  <2>2. StateTypeOK' /\ FilesTypeOK' /\ SkipsTypeOK' /\ PhaseInv'
    BY DEF StateTypeOK, FilesTypeOK, SkipsTypeOK, PhaseInv
  <2>3. GoroutinesTypeOK'
    BY DEF GoroutinesTypeOK, CallPcs
  <2>4. StartInv'
    BY ItemsAssumption DEF StartInv, GoroutinesTypeOK
  <2>5. RequestInv'
    BY DEF RequestInv, GoroutinesTypeOK
  <2>6. TrackedInv'
    BY DirectAssumption DEF TrackedInv, FilesTypeOK, GoroutinesTypeOK
  <2>7. DoomedInv'
    BY DirectAssumption DEF DoomedInv, FilesTypeOK, GoroutinesTypeOK
  <2>8. NoOrphanFile'
    BY DirectAssumption DEF NoOrphanFile, FilesTypeOK, GoroutinesTypeOK
  <2>9. ConnSafe' /\ TrackFileAvailable'
    BY DEF ConnSafe, UsesConn, ConnClosed, TrackFileAvailable
  <2>10. /\ NoLostWakeup' /\ ClosedIsFinal' /\ CurrentIsWorkers'
         /\ PlaybackClearsIdleFlag'
    BY DEF NoLostWakeup, ClosedIsFinal, CurrentIsWorkers,
           PlaybackClearsIdleFlag
  <2> QED BY <2>2, <2>3, <2>4, <2>5, <2>6, <2>7, <2>8, <2>9, <2>10
<1> QED BY <1>1, <1>2

\* A step of the worker between requests that changes nothing but its pc.
LEMMA WorkerGoesStep ==
  ASSUME Inv, NEW pc \in WorkerPcs, WorkerGoes(pc),
         worker \in {"check", "recheck", "dequeue", "destroy", "closing"},
         pc \in {"check", "dequeue", "waiting", "destroy", "closing", "exit"},
         pc = "waiting" => ~closed /\ queue = <<>>
  PROVE  Inv'
<1> USE DEF Inv, TypeOK, WorkerGoes, lifeVars, playVars, fileVars, connVars,
            termVars, skipVars
<1>1. StateTypeOK' /\ FilesTypeOK' /\ SkipsTypeOK' /\ PhaseInv' /\ DoomedInv'
  BY DEF StateTypeOK, FilesTypeOK, SkipsTypeOK, PhaseInv, DoomedInv
<1>2. GoroutinesTypeOK'
  BY DEF GoroutinesTypeOK
<1>3. StartInv'
  BY DEF StartInv
<1>4. RequestInv'
  BY DEF RequestInv, Holding
<1>5. TrackedInv'
  BY DEF TrackedInv
<1>6. ConnSafe'
  BY DEF ConnSafe, UsesConn, ConnClosed
<1>7. TrackFileAvailable'
  BY DEF TrackFileAvailable, ConnClosed
<1>8. NoOrphanFile'
  BY DEF NoOrphanFile
<1>9. NoLostWakeup' /\ ClosedIsFinal' /\ PlaybackClearsIdleFlag'
  BY DEF NoLostWakeup, ClosedIsFinal, PlaybackClearsIdleFlag
<1>10. CurrentIsWorkers'
  BY DEF CurrentIsWorkers
<1> QED BY <1>1, <1>2, <1>3, <1>4, <1>5, <1>6, <1>7, <1>8, <1>9, <1>10

\* destroySessionAfterPlayback.
LEMMA WorkerDestroysStep ==
  ASSUME Inv, WorkerDestroys PROVE Inv'
<1>1. CASE registered
  <2>1. /\ worker = "destroy" /\ Close("closing")
        /\ UNCHANGED <<call, term, closer, hand, idler>>
    BY <1>1 DEF WorkerDestroys, Close
  <2>2. GoroutinesTypeOK'
    BY <2>1 DEF Inv, TypeOK, GoroutinesTypeOK, Close, BeginClose, JoinClose,
                Woken, WorkerPcs
  <2>3. "closing" \in WorkerPcs
    BY DEF WorkerPcs
  <2> QED BY <2>1, <2>2, <2>3, CloseKeeps DEF Inv, TypeOK
<1>2. CASE ~registered
  BY <1>2, WorkerGoesStep DEF WorkerDestroys, WorkerPcs
<1> QED BY <1>1, <1>2

\* The Destroy of /dterm.
LEMMA TermDestroysStep ==
  ASSUME Inv, NEW t \in Terms, TermDestroys(t) PROVE Inv'
<1> USE DEF Inv, TypeOK
<1>1. CASE registered
  <2>1. /\ term[t] = "destroy" /\ TermGoes(t, "closing") /\ Close(worker)
        /\ UNCHANGED <<call, closer, hand, idler>>
    BY <1>1 DEF TermDestroys, Close
  <2>2. GoroutinesTypeOK'
    BY <2>1 DEF GoroutinesTypeOK, TermGoes, Close, BeginClose, JoinClose, Woken,
                TermPcs, WorkerPcs
  <2>3. /\ worker \in WorkerPcs
        /\ \A u \in Terms : term'[u] = term[u] \/ term[u] = "destroy"
    BY <2>1 DEF GoroutinesTypeOK, TermGoes
  <2> QED BY <2>1, <2>2, <2>3, CloseKeeps
<1>2. CASE ~registered
  <2>1. /\ term[t] = "destroy" /\ term' = [term EXCEPT ![t] = "done"]
        /\ UNCHANGED <<lifeVars, playVars, fileVars, connVars, workVars, idler,
                       skipVars, cleared, call, closer>>
    BY <1>2 DEF TermDestroys, TermGoes
  <2> USE <2>1 DEF lifeVars, playVars, fileVars, connVars, workVars, skipVars
  <2>2. StateTypeOK' /\ FilesTypeOK' /\ SkipsTypeOK' /\ PhaseInv' /\ StartInv'
    BY DEF StateTypeOK, FilesTypeOK, SkipsTypeOK, PhaseInv, StartInv
  <2>3. GoroutinesTypeOK'
    BY DEF GoroutinesTypeOK, TermPcs
  <2>4. RequestInv' /\ TrackedInv'
    BY DEF RequestInv, TrackedInv
  <2>5. DoomedInv'
    BY DEF DoomedInv, GoroutinesTypeOK
  <2>6. NoOrphanFile' /\ ConnSafe' /\ TrackFileAvailable'
    BY DEF NoOrphanFile, ConnSafe, UsesConn, ConnClosed, TrackFileAvailable
  <2>7. /\ NoLostWakeup' /\ ClosedIsFinal' /\ CurrentIsWorkers'
        /\ PlaybackClearsIdleFlag'
    BY DEF NoLostWakeup, ClosedIsFinal, CurrentIsWorkers,
           PlaybackClearsIdleFlag
  <2> QED BY <2>2, <2>3, <2>4, <2>5, <2>6, <2>7
<1> QED BY <1>1, <1>2

\* The Destroy of an event, and the detached Close.
LEMMA CloserDestroysStep ==
  ASSUME Inv, NEW d \in Closers \cup {Detached}, CloserDestroys(d) PROVE Inv'
<1> USE DEF Inv, TypeOK
<1>1. /\ CloserGoes(d, "closing") /\ Close(worker)
      /\ UNCHANGED <<call, term, hand, idler>>
  BY DEF CloserDestroys, Close
<1>2. GoroutinesTypeOK'
  BY <1>1 DEF GoroutinesTypeOK, CloserGoes, Close, BeginClose, JoinClose, Woken,
              CloserPcs, WorkerPcs
<1>3. worker \in WorkerPcs
  BY DEF GoroutinesTypeOK
<1> QED BY <1>1, <1>2, <1>3, CloseKeeps

\* Close cancels the contexts.
LEMMA CloseCancelStep ==
  ASSUME Inv, CloseCancel PROVE Inv'
<1> USE DEF Inv, TypeOK, CloseCancel
<1>1. FilesTypeOK' /\ GoroutinesTypeOK' /\ SkipsTypeOK' /\ StartInv'
      /\ RequestInv' /\ TrackedInv' /\ DoomedInv' /\ NoOrphanFile'
      /\ NoLostWakeup' /\ ClosedIsFinal' /\ CurrentIsWorkers'
      /\ PlaybackClearsIdleFlag'
  BY DEF FilesTypeOK, GoroutinesTypeOK, SkipsTypeOK, StartInv, RequestInv,
     TrackedInv, DoomedInv, NoOrphanFile, NoLostWakeup, ClosedIsFinal,
     CurrentIsWorkers, PlaybackClearsIdleFlag, Holding, playVars, fileVars,
     connVars, workVars, termVars, skipVars
<1>2. StateTypeOK'
  BY DEF StateTypeOK, ClosePhases, CancelContext, playVars, connVars
<1>3. PhaseInv'
  BY DEF PhaseInv, CancelContext
<1>4. ConnSafe'
  BY DEF ConnSafe, UsesConn, ConnClosed, connVars, workVars
<1>5. TrackFileAvailable'
  BY DEF TrackFileAvailable, ConnClosed, playVars, fileVars, workVars
<1> QED BY <1>1, <1>2, <1>3, <1>4, <1>5

\* Close closes the connection under sendMu.
LEMMA CloseConnStep ==
  ASSUME Inv, CloseConn PROVE Inv'
<1> USE DEF Inv, TypeOK, CloseConn
<1>1. FilesTypeOK' /\ GoroutinesTypeOK' /\ SkipsTypeOK' /\ StartInv'
      /\ RequestInv' /\ TrackedInv' /\ DoomedInv' /\ NoOrphanFile'
      /\ NoLostWakeup' /\ ClosedIsFinal' /\ CurrentIsWorkers'
      /\ PlaybackClearsIdleFlag'
  BY DEF FilesTypeOK, GoroutinesTypeOK, SkipsTypeOK, StartInv, RequestInv,
     TrackedInv, DoomedInv, NoOrphanFile, NoLostWakeup, ClosedIsFinal,
     CurrentIsWorkers, PlaybackClearsIdleFlag, Holding, playVars, fileVars,
     connVars, workVars, termVars, skipVars
<1>2. StateTypeOK'
  BY DEF StateTypeOK, ClosePhases, playVars, connVars
<1>3. PhaseInv'
  BY DEF PhaseInv
<1>4. ConnSafe'
  BY DEF ConnSafe, UsesConn, ConnClosed, connVars, workVars, Idlers,
     SendMuFree
<1>5. TrackFileAvailable'
  BY DEF TrackFileAvailable, ConnClosed, playVars, fileVars, workVars
<1> QED BY <1>1, <1>2, <1>3, <1>4, <1>5

\* Close removes the files it took over.
LEMMA CloseFilesStep ==
  ASSUME Inv, CloseFiles PROVE Inv'
<1> USE DEF Inv, TypeOK, CloseFiles
<1>1. GoroutinesTypeOK' /\ SkipsTypeOK' /\ StartInv' /\ RequestInv'
      /\ NoLostWakeup' /\ ClosedIsFinal' /\ CurrentIsWorkers'
      /\ PlaybackClearsIdleFlag'
  BY DEF GoroutinesTypeOK, SkipsTypeOK, StartInv, RequestInv, NoLostWakeup,
     ClosedIsFinal, CurrentIsWorkers, PlaybackClearsIdleFlag, Holding,
     playVars, connVars, workVars, termVars, skipVars
<1>2. StateTypeOK'
  BY DEF StateTypeOK, ClosePhases, playVars, connVars
<1>3. FilesTypeOK'
  BY DEF FilesTypeOK, termVars
<1>4. PhaseInv'
  BY DEF PhaseInv
<1>5. TrackedInv'
  BY DEF TrackedInv, playVars, workVars, PhaseInv, ClosedIsFinal
<1>6. DoomedInv'
  BY DEF DoomedInv, playVars, workVars, termVars
<1>7. ConnSafe'
  BY DEF ConnSafe, UsesConn, ConnClosed, connVars, workVars
<1>8. TrackFileAvailable'
  BY RangeEmpty DEF TrackFileAvailable, ConnClosed, playVars, workVars,
     ClosedIsFinal, PhaseInv, ConnSafe, UsesConn
<1>9. NoOrphanFile'
  BY DEF NoOrphanFile, workVars, termVars
<1> QED BY <1>1, <1>2, <1>3, <1>4, <1>5, <1>6, <1>7, <1>8, <1>9

\* Close removes the session from the manager.
LEMMA CloseUnregisterStep ==
  ASSUME Inv, CloseUnregister PROVE Inv'
<1> USE DEF Inv, TypeOK, CloseUnregister
<1>1. FilesTypeOK' /\ GoroutinesTypeOK' /\ SkipsTypeOK' /\ StartInv'
      /\ RequestInv' /\ TrackedInv' /\ DoomedInv' /\ NoOrphanFile'
      /\ NoLostWakeup' /\ ClosedIsFinal' /\ CurrentIsWorkers'
      /\ PlaybackClearsIdleFlag'
  BY DEF FilesTypeOK, GoroutinesTypeOK, SkipsTypeOK, StartInv, RequestInv,
     TrackedInv, DoomedInv, NoOrphanFile, NoLostWakeup, ClosedIsFinal,
     CurrentIsWorkers, PlaybackClearsIdleFlag, Holding, playVars, fileVars,
     connVars, workVars, termVars, skipVars
<1>2. StateTypeOK'
  BY DEF StateTypeOK, ClosePhases, playVars, connVars
<1>3. PhaseInv'
  BY DEF PhaseInv
<1>4. ConnSafe'
  BY DEF ConnSafe, UsesConn, ConnClosed, connVars, workVars
<1>5. TrackFileAvailable'
  BY DEF TrackFileAvailable, ConnClosed, playVars, fileVars, workVars
<1> QED BY <1>1, <1>2, <1>3, <1>4, <1>5

\* The Close of an event has returned.
LEMMA CloserClosedStep ==
  ASSUME Inv, NEW d \in Closers \cup {Detached}, CloserClosed(d) PROVE Inv'
<1> USE DEF Inv, TypeOK, CloserClosed
<1>1. StateTypeOK' /\ FilesTypeOK' /\ SkipsTypeOK' /\ PhaseInv' /\ StartInv'
      /\ RequestInv' /\ TrackedInv' /\ DoomedInv' /\ ConnSafe'
      /\ TrackFileAvailable' /\ NoOrphanFile' /\ NoLostWakeup' /\ ClosedIsFinal'
      /\ CurrentIsWorkers' /\ PlaybackClearsIdleFlag'
  BY DEF StateTypeOK, FilesTypeOK, SkipsTypeOK, PhaseInv, StartInv,
     RequestInv, TrackedInv, DoomedInv, ConnSafe, TrackFileAvailable,
     NoOrphanFile, NoLostWakeup, ClosedIsFinal, CurrentIsWorkers,
     PlaybackClearsIdleFlag, Holding, UsesConn, ConnClosed, lifeVars,
     playVars, fileVars, connVars, workVars, termVars, skipVars
<1>2. GoroutinesTypeOK'
  BY DEF GoroutinesTypeOK, CloserPcs, CloserGoes, workVars, termVars
<1> QED BY <1>1, <1>2

\* The Detach of an earlier session's failed Open hits this one.
LEMMA DetachedLateStep ==
  ASSUME Inv, DetachedLate PROVE Inv'
<1> USE DEF Inv, TypeOK, DetachedLate
<1>1. FilesTypeOK' /\ SkipsTypeOK' /\ PhaseInv' /\ StartInv'
      /\ RequestInv' /\ TrackedInv' /\ DoomedInv' /\ ConnSafe'
      /\ TrackFileAvailable' /\ NoOrphanFile' /\ NoLostWakeup' /\ ClosedIsFinal'
      /\ CurrentIsWorkers' /\ PlaybackClearsIdleFlag'
  BY DEF FilesTypeOK, SkipsTypeOK, PhaseInv, StartInv, RequestInv,
     TrackedInv, DoomedInv, ConnSafe, TrackFileAvailable, NoOrphanFile,
     NoLostWakeup, ClosedIsFinal, CurrentIsWorkers, PlaybackClearsIdleFlag,
     Holding, UsesConn, ConnClosed, playVars, fileVars, connVars, workVars,
     termVars, skipVars
<1>2. StateTypeOK'
  BY DEF StateTypeOK, playVars, connVars
<1>3. GoroutinesTypeOK'
  BY DEF GoroutinesTypeOK, CloserPcs, CloserGoes, workVars, termVars
<1> QED BY <1>1, <1>2, <1>3

----------------------------------------------------------------------------
\* processDPlay.

\* A resolver that returns a source.
LEMMA ResolveStep ==
  ASSUME Inv, NEW i \in Items, Resolve(i) PROVE Inv'
<1> USE DEF Inv, TypeOK, Resolve
<1>1. StateTypeOK' /\ SkipsTypeOK' /\ PhaseInv' /\ ConnSafe' /\ NoLostWakeup'
      /\ ClosedIsFinal' /\ CurrentIsWorkers' /\ PlaybackClearsIdleFlag'
  BY DEF StateTypeOK, SkipsTypeOK, PhaseInv, ConnSafe, NoLostWakeup,
     ClosedIsFinal, CurrentIsWorkers, PlaybackClearsIdleFlag, UsesConn,
     ConnClosed, lifeVars, playVars, connVars, workVars, skipVars
<1>2. FilesTypeOK'
  BY DEF FilesTypeOK, lifeVars, termVars
<1>3. GoroutinesTypeOK'
  BY DEF GoroutinesTypeOK, CallPcs, CallGoes, workVars, termVars
<1>4. StartInv'
  BY DEF StartInv, CallGoes, workVars
<1>5. RequestInv'
  BY DEF RequestInv, Holding, CallGoes, playVars, workVars
<1>6. TrackedInv'
  BY DEF TrackedInv, CallGoes, lifeVars, playVars, workVars
<1>7. DoomedInv'
  BY DEF DoomedInv, CallGoes, lifeVars, playVars, workVars, termVars
<1>8. TrackFileAvailable'
  BY DEF TrackFileAvailable, ConnClosed, lifeVars, playVars, workVars
<1>9. NoOrphanFile'
  BY DEF NoOrphanFile, CallGoes, lifeVars, workVars, termVars,
     GoroutinesTypeOK
<1> QED BY <1>1, <1>2, <1>3, <1>4, <1>5, <1>6, <1>7, <1>8, <1>9

\* A resolver that fails.
LEMMA ResolveFailsStep ==
  ASSUME Inv, NEW i \in Items, ResolveFails(i) PROVE Inv'
<1> USE DEF Inv, TypeOK, ResolveFails
<1>1. StateTypeOK' /\ FilesTypeOK' /\ SkipsTypeOK' /\ PhaseInv' /\ ConnSafe'
      /\ TrackFileAvailable' /\ NoLostWakeup' /\ ClosedIsFinal'
      /\ CurrentIsWorkers' /\ PlaybackClearsIdleFlag'
  BY DEF StateTypeOK, FilesTypeOK, SkipsTypeOK, PhaseInv, ConnSafe,
     TrackFileAvailable, NoLostWakeup, ClosedIsFinal, CurrentIsWorkers,
     PlaybackClearsIdleFlag, UsesConn, ConnClosed, lifeVars, playVars,
     fileVars, connVars, workVars, termVars, skipVars
<1>2. GoroutinesTypeOK'
  BY DEF GoroutinesTypeOK, CallPcs, CallGoes, workVars, termVars
<1>3. StartInv'
  BY DEF StartInv, CallGoes, workVars
<1>4. RequestInv'
  BY DEF RequestInv, Holding, CallGoes, playVars, workVars
<1>5. TrackedInv'
  BY DEF TrackedInv, CallGoes, lifeVars, playVars, fileVars, workVars
<1>6. DoomedInv'
  BY DEF DoomedInv, CallGoes, lifeVars, playVars, fileVars, workVars, termVars
<1>7. NoOrphanFile'
  BY DEF NoOrphanFile, CallGoes, lifeVars, fileVars, workVars, termVars
<1> QED BY <1>1, <1>2, <1>3, <1>4, <1>5, <1>6, <1>7

\* conn.Open succeeds.
LEMMA OpenSucceedsStep ==
  ASSUME Inv, OpenSucceeds PROVE Inv'
<1> USE DEF Inv, TypeOK, OpenSucceeds
<1>1. StateTypeOK' /\ FilesTypeOK' /\ SkipsTypeOK' /\ PhaseInv' /\ ConnSafe'
      /\ TrackFileAvailable' /\ NoLostWakeup' /\ ClosedIsFinal'
      /\ CurrentIsWorkers' /\ PlaybackClearsIdleFlag'
  BY DEF StateTypeOK, FilesTypeOK, SkipsTypeOK, PhaseInv, ConnSafe,
     TrackFileAvailable, NoLostWakeup, ClosedIsFinal, CurrentIsWorkers,
     PlaybackClearsIdleFlag, UsesConn, ConnClosed, lifeVars, playVars,
     fileVars, connVars, workVars, termVars, skipVars
<1>2. GoroutinesTypeOK'
  BY DEF GoroutinesTypeOK, CallPcs, CallGoes, workVars, termVars
<1>3. StartInv'
  BY DEF StartInv, CallGoes, workVars
<1>4. RequestInv'
  BY DEF RequestInv, Holding, CallGoes, playVars, workVars
<1>5. TrackedInv'
  BY DEF TrackedInv, CallGoes, lifeVars, playVars, fileVars, workVars
<1>6. DoomedInv'
  BY DEF DoomedInv, CallGoes, lifeVars, playVars, fileVars, workVars, termVars
<1>7. NoOrphanFile'
  BY DEF NoOrphanFile, CallGoes, lifeVars, fileVars, workVars, termVars
<1> QED BY <1>1, <1>2, <1>3, <1>4, <1>5, <1>6, <1>7

\* conn.Open fails, and the session is detached.
LEMMA OpenFailsStep ==
  ASSUME Inv, OpenFails PROVE Inv'
<1> USE DEF Inv, TypeOK, OpenFails
<1>1. FilesTypeOK' /\ SkipsTypeOK' /\ PhaseInv' /\ ConnSafe'
      /\ TrackFileAvailable' /\ NoLostWakeup' /\ ClosedIsFinal'
      /\ CurrentIsWorkers' /\ PlaybackClearsIdleFlag'
  BY DEF FilesTypeOK, SkipsTypeOK, PhaseInv, ConnSafe, TrackFileAvailable,
     NoLostWakeup, ClosedIsFinal, CurrentIsWorkers, PlaybackClearsIdleFlag,
     UsesConn, ConnClosed, playVars, fileVars, connVars, workVars, termVars,
     skipVars
<1>2. StateTypeOK'
  BY DEF StateTypeOK, playVars, connVars
<1>3. GoroutinesTypeOK'
  BY DEF GoroutinesTypeOK, CallPcs, CloserPcs, CallGoes, workVars, termVars
<1>4. StartInv'
  BY DEF StartInv, CallGoes, workVars
<1>5. RequestInv'
  BY DEF RequestInv, Holding, CallGoes, playVars, workVars
<1>6. TrackedInv'
  BY DEF TrackedInv, CallGoes, playVars, fileVars, workVars
<1>7. DoomedInv'
  BY DEF DoomedInv, CallGoes, playVars, fileVars, workVars, termVars
<1>8. NoOrphanFile'
  BY DEF NoOrphanFile, CallGoes, fileVars, workVars, termVars
<1> QED BY <1>1, <1>2, <1>3, <1>4, <1>5, <1>6, <1>7, <1>8

\* TrackTempFile, on an open session or a closed one.
LEMMA TrackTempFileStep ==
  ASSUME Inv, NEW i \in Items, TrackTempFile(i) PROVE Inv'
<1> USE DEF Inv, TypeOK, TrackTempFile
<1>1. StateTypeOK' /\ SkipsTypeOK' /\ PhaseInv' /\ ConnSafe'
      /\ TrackFileAvailable' /\ NoLostWakeup' /\ CurrentIsWorkers'
      /\ PlaybackClearsIdleFlag'
  BY DEF StateTypeOK, SkipsTypeOK, PhaseInv, ConnSafe, TrackFileAvailable,
     NoLostWakeup, CurrentIsWorkers, PlaybackClearsIdleFlag, UsesConn,
     ConnClosed, lifeVars, playVars, connVars, workVars, skipVars
<1>2. FilesTypeOK'
  BY DEF FilesTypeOK, Tracked, lifeVars, termVars, GoroutinesTypeOK
<1>3. GoroutinesTypeOK'
  BY DEF GoroutinesTypeOK, CallPcs, CallGoes, workVars, termVars
<1>4. StartInv'
  BY DEF StartInv, CallGoes, workVars
<1>5. RequestInv'
  BY DEF RequestInv, Holding, CallGoes, playVars, workVars
<1>6. TrackedInv'
  BY DEF TrackedInv, CallGoes, Tracked, lifeVars, playVars, workVars,
     GoroutinesTypeOK, RequestInv, DoomedInv
<1>7. DoomedInv'
  BY DEF DoomedInv, CallGoes, Tracked, lifeVars, playVars, workVars, termVars
<1>8. NoOrphanFile'
  BY DEF NoOrphanFile, CallGoes, Tracked, lifeVars, workVars, termVars
<1>9. ClosedIsFinal'
  BY DEF ClosedIsFinal, Tracked, lifeVars, playVars, connVars
<1> QED BY <1>1, <1>2, <1>3, <1>4, <1>5, <1>6, <1>7, <1>8, <1>9

\* Enqueue, refused and accepted.
LEMMA EnqueueStep ==
  ASSUME Inv, NEW i \in Items, Enqueue(i) PROVE Inv'
<1> USE DEF Inv, TypeOK
<1>1. /\ call[i] = "enqueue"
      /\ UNCHANGED <<lifeVars, current, cancelled, fileVars, connVars, hand,
                     idler, termVars, skipVars, closer>>
  BY DEF Enqueue
<1>2. /\ i \notin Range(queue) /\ i # hand /\ i # current
      /\ hand \in Items \cup {NoItem} /\ NoItem \notin Items
      /\ Creator \in Items /\ Direct \subseteq Items
  BY <1>1, ItemsAssumption, DirectAssumption DEF RequestInv, GoroutinesTypeOK
<1> USE <1>1, <1>2 DEF lifeVars, fileVars, connVars, termVars, skipVars
<1>3. CASE UNCHANGED <<queue, worker>> /\ Refused(i)
  <2>1. /\ call' \in [Items -> CallPcs]
        /\ call'[i] \in {"untrack", "destroy", "cleanup"}
        /\ call'[i] = "destroy" => i = Creator
        /\ call'[i] = "untrack" <=> i \in Direct
        /\ \A j \in Items : j # i => call'[j] = call[j]
    BY <1>3 DEF Refused, AfterRemoval, CallGoes, GoroutinesTypeOK, CallPcs
  <2>2. UNCHANGED <<queue, worker>>
    BY <1>3
  <2>3. StateTypeOK' /\ FilesTypeOK' /\ SkipsTypeOK' /\ PhaseInv'
    BY <2>2 DEF StateTypeOK, FilesTypeOK, SkipsTypeOK, PhaseInv
  <2>4. GoroutinesTypeOK'
    BY <2>1, <2>2 DEF GoroutinesTypeOK
  <2>5. StartInv'
    BY <2>1, <2>2 DEF StartInv
  <2>6. RequestInv'
    BY <2>1, <2>2 DEF RequestInv
  <2>7. TrackedInv'
    BY <2>1, <2>2 DEF TrackedInv, FilesTypeOK
  <2>8. DoomedInv'
    BY <2>1, <2>2 DEF DoomedInv, FilesTypeOK
  <2>9. NoOrphanFile'
    BY <2>1, <2>2 DEF NoOrphanFile, FilesTypeOK
  <2>10. ConnSafe' /\ TrackFileAvailable'
    BY <2>2 DEF ConnSafe, UsesConn, ConnClosed, TrackFileAvailable
  <2>11. /\ NoLostWakeup' /\ ClosedIsFinal' /\ CurrentIsWorkers'
         /\ PlaybackClearsIdleFlag'
    BY <2>2 DEF NoLostWakeup, ClosedIsFinal, CurrentIsWorkers,
                PlaybackClearsIdleFlag
  <2> QED BY <2>3, <2>4, <2>5, <2>6, <2>7, <2>8, <2>9, <2>10, <2>11
<1>4. CASE ~Gone /\ queue' = Queued(i) /\ worker' = Woken(worker) /\ Accepted(i)
  <2>1. /\ call' \in [Items -> CallPcs]
        /\ call'[i] \in {"start", "accepted"}
        /\ call'[i] = "start" <=> i = Creator
        /\ \A j \in Items : j # i => call'[j] = call[j]
    BY <1>4 DEF Accepted, CallGoes, GoroutinesTypeOK, CallPcs
  <2>2. /\ ~closed /\ queue \in Seq(Items)
        /\ queue' \in Seq(Items)
        /\ Range(queue') = Range(queue) \cup {i}
        /\ NoDup(queue) => NoDup(queue')
    <3>1. ~closed /\ queue \in Seq(Items) /\ queue' = Append(queue, i)
      BY <1>4 DEF Gone, Queued, StateTypeOK
    <3> QED BY <3>1, RangeAppend, NoDupAppend
  <2>3. worker' = IF worker = "waiting" THEN "dequeue" ELSE worker
    BY <1>4 DEF Woken
  <2>4. StateTypeOK'
    BY <2>2 DEF StateTypeOK
  <2>5. FilesTypeOK' /\ SkipsTypeOK' /\ PhaseInv'
    BY DEF FilesTypeOK, SkipsTypeOK, PhaseInv
  <2>6. GoroutinesTypeOK'
    BY <2>1, <2>3 DEF GoroutinesTypeOK, WorkerPcs
  <2>7. StartInv'
    BY <2>1, <2>3 DEF StartInv
  <2>8. RequestInv'
    BY <2>1, <2>2, <2>3 DEF RequestInv, Holding
  <2>9. TrackedInv'
    BY <2>1, <2>2, <2>3 DEF TrackedInv, FilesTypeOK
  <2>10. DoomedInv'
    BY <2>1, <2>2, <2>3 DEF DoomedInv, FilesTypeOK
  <2>11. TrackFileAvailable'
    BY <2>2, <2>3 DEF TrackFileAvailable, TrackedInv, ConnClosed
  <2>12. NoOrphanFile'
    BY <2>1, <2>2, <2>3 DEF NoOrphanFile, TrackedInv, FilesTypeOK
  <2>13. ConnSafe'
    BY <2>3 DEF ConnSafe, UsesConn, ConnClosed
  <2>14. /\ NoLostWakeup' /\ ClosedIsFinal' /\ CurrentIsWorkers'
         /\ PlaybackClearsIdleFlag'
    BY <2>2, <2>3 DEF NoLostWakeup, ClosedIsFinal, CurrentIsWorkers,
                      PlaybackClearsIdleFlag
  <2> QED BY <2>4, <2>5, <2>6, <2>7, <2>8, <2>9, <2>10, <2>11, <2>12, <2>13,
             <2>14
<1> QED BY <1>3, <1>4 DEF Enqueue

\* RemoveTempFile after a refusal, its part under s.mu.
LEMMA CallUntracksStep ==
  ASSUME Inv, NEW i \in Items, CallUntracks(i) PROVE Inv'
<1> USE DEF Inv, TypeOK, CallUntracks
<1>1. StateTypeOK' /\ SkipsTypeOK' /\ PhaseInv' /\ ConnSafe'
      /\ TrackFileAvailable' /\ NoLostWakeup' /\ CurrentIsWorkers'
      /\ PlaybackClearsIdleFlag'
  BY DEF StateTypeOK, SkipsTypeOK, PhaseInv, ConnSafe, TrackFileAvailable,
     NoLostWakeup, CurrentIsWorkers, PlaybackClearsIdleFlag, UsesConn,
     ConnClosed, lifeVars, playVars, connVars, workVars, skipVars
<1>2. FilesTypeOK'
  BY DEF FilesTypeOK, lifeVars, termVars
<1>3. GoroutinesTypeOK'
  BY DEF GoroutinesTypeOK, CallPcs, CallGoes, workVars, termVars
<1>4. StartInv'
  BY DEF StartInv, CallGoes, workVars
<1>5. RequestInv'
  BY DEF RequestInv, Holding, CallGoes, playVars, workVars
<1>6. TrackedInv'
  BY DEF TrackedInv, CallGoes, lifeVars, playVars, workVars, RequestInv
<1>7. DoomedInv'
  BY DEF DoomedInv, CallGoes, lifeVars, playVars, workVars, termVars
<1>8. NoOrphanFile'
  BY DEF NoOrphanFile, CallGoes, lifeVars, workVars, termVars
<1>9. ClosedIsFinal'
  BY DEF ClosedIsFinal, lifeVars, playVars, connVars
<1> QED BY <1>1, <1>2, <1>3, <1>4, <1>5, <1>6, <1>7, <1>8, <1>9

\* RemoveTempFile after a refusal, the file itself.
LEMMA CallUnlinksStep ==
  ASSUME Inv, NEW i \in Items, CallUnlinks(i) PROVE Inv'
<1> USE DEF Inv, TypeOK, CallUnlinks
<1>1. StateTypeOK' /\ SkipsTypeOK' /\ PhaseInv' /\ ConnSafe' /\ NoLostWakeup'
      /\ ClosedIsFinal' /\ CurrentIsWorkers' /\ PlaybackClearsIdleFlag'
  BY DEF StateTypeOK, SkipsTypeOK, PhaseInv, ConnSafe, NoLostWakeup,
     ClosedIsFinal, CurrentIsWorkers, PlaybackClearsIdleFlag, UsesConn,
     ConnClosed, lifeVars, playVars, connVars, workVars, skipVars
<1>2. FilesTypeOK'
  BY DEF FilesTypeOK, RemoveFile, lifeVars, termVars
<1>3. GoroutinesTypeOK'
  BY DEF GoroutinesTypeOK, CallPcs, CallGoes, AfterRemoval, workVars, termVars
<1>4. StartInv'
  BY DEF StartInv, CallGoes, AfterRemoval, workVars
<1>5. RequestInv'
  BY DEF RequestInv, Holding, CallGoes, AfterRemoval, playVars, workVars
<1>6. TrackedInv'
  BY DEF TrackedInv, CallGoes, RemoveFile, AfterRemoval, lifeVars, playVars,
     workVars
<1>7. DoomedInv'
  BY DEF DoomedInv, CallGoes, RemoveFile, AfterRemoval, lifeVars, playVars,
     workVars, termVars
<1>8. TrackFileAvailable'
  BY DEF TrackFileAvailable, ConnClosed, RemoveFile, lifeVars, playVars,
     workVars, RequestInv
<1>9. NoOrphanFile'
  BY DEF NoOrphanFile, CallGoes, RemoveFile, AfterRemoval, lifeVars, workVars,
     termVars
<1> QED BY <1>1, <1>2, <1>3, <1>4, <1>5, <1>6, <1>7, <1>8, <1>9

\* The creator's Close has returned.
LEMMA CallClosedStep ==
  ASSUME Inv, NEW i \in Items, CallClosed(i) PROVE Inv'
<1> USE DEF Inv, TypeOK, CallClosed
<1>1. StateTypeOK' /\ FilesTypeOK' /\ SkipsTypeOK' /\ PhaseInv' /\ ConnSafe'
      /\ TrackFileAvailable' /\ NoLostWakeup' /\ ClosedIsFinal'
      /\ CurrentIsWorkers' /\ PlaybackClearsIdleFlag'
  BY DEF StateTypeOK, FilesTypeOK, SkipsTypeOK, PhaseInv, ConnSafe,
     TrackFileAvailable, NoLostWakeup, ClosedIsFinal, CurrentIsWorkers,
     PlaybackClearsIdleFlag, UsesConn, ConnClosed, lifeVars, playVars,
     fileVars, connVars, workVars, termVars, skipVars
<1>2. GoroutinesTypeOK'
  BY DEF GoroutinesTypeOK, CallPcs, CallGoes, workVars, termVars
<1>3. StartInv'
  BY DEF StartInv, CallGoes, workVars
<1>4. RequestInv'
  BY DEF RequestInv, Holding, CallGoes, playVars, workVars
<1>5. TrackedInv'
  BY DEF TrackedInv, CallGoes, lifeVars, playVars, fileVars, workVars
<1>6. DoomedInv'
  BY DEF DoomedInv, CallGoes, lifeVars, playVars, fileVars, workVars, termVars
<1>7. NoOrphanFile'
  BY DEF NoOrphanFile, CallGoes, lifeVars, fileVars, workVars, termVars
<1> QED BY <1>1, <1>2, <1>3, <1>4, <1>5, <1>6, <1>7

\* The deferred source.Cleanup().
LEMMA CallCleansUpStep ==
  ASSUME Inv, NEW i \in Items, CallCleansUp(i) PROVE Inv'
<1> USE DEF Inv, TypeOK, CallCleansUp
<1>1. StateTypeOK' /\ SkipsTypeOK' /\ PhaseInv' /\ ConnSafe' /\ NoLostWakeup'
      /\ ClosedIsFinal' /\ CurrentIsWorkers' /\ PlaybackClearsIdleFlag'
  BY DEF StateTypeOK, SkipsTypeOK, PhaseInv, ConnSafe, NoLostWakeup,
     ClosedIsFinal, CurrentIsWorkers, PlaybackClearsIdleFlag, UsesConn,
     ConnClosed, lifeVars, playVars, connVars, workVars, skipVars
<1>2. FilesTypeOK'
  BY DEF FilesTypeOK, RemoveFile, lifeVars, termVars
<1>3. GoroutinesTypeOK'
  BY DEF GoroutinesTypeOK, CallPcs, CallGoes, workVars, termVars
<1>4. StartInv'
  BY DEF StartInv, CallGoes, workVars
<1>5. RequestInv'
  BY DEF RequestInv, Holding, CallGoes, playVars, workVars
<1>6. TrackedInv'
  BY DEF TrackedInv, CallGoes, RemoveFile, lifeVars, playVars, workVars
<1>7. DoomedInv'
  BY DEF DoomedInv, CallGoes, RemoveFile, lifeVars, playVars, workVars,
     termVars
<1>8. TrackFileAvailable'
  BY DEF TrackFileAvailable, ConnClosed, RemoveFile, lifeVars, playVars,
     workVars, RequestInv
<1>9. NoOrphanFile'
  BY DEF NoOrphanFile, CallGoes, RemoveFile, lifeVars, workVars, termVars
<1> QED BY <1>1, <1>2, <1>3, <1>4, <1>5, <1>6, <1>7, <1>8, <1>9

\* The creator starts the goroutines of the session.
LEMMA StartGoroutinesStep ==
  ASSUME Inv, NEW i \in Items, StartGoroutines(i) PROVE Inv'
<1> USE DEF Inv, TypeOK, StartGoroutines
<1>0. i = Creator /\ worker = "unborn" /\ hand = NoItem
  BY ItemsAssumption DEF StartInv, RequestInv, Holding
<1>1. StateTypeOK' /\ FilesTypeOK' /\ SkipsTypeOK' /\ PhaseInv'
      /\ ClosedIsFinal'
  BY DEF StateTypeOK, FilesTypeOK, SkipsTypeOK, PhaseInv, ClosedIsFinal,
     lifeVars, playVars, fileVars, connVars, termVars, skipVars
<1>2. GoroutinesTypeOK'
  BY DEF GoroutinesTypeOK, CallPcs, WorkerPcs, IdlerPcs, Idlers, CallGoes,
     termVars
<1>3. StartInv'
  BY DEF StartInv, CallGoes, GoroutinesTypeOK
<1>4. RequestInv'
  BY <1>0 DEF RequestInv, Holding, CallGoes, playVars
<1>5. TrackedInv'
  BY DEF TrackedInv, CallGoes, lifeVars, playVars, fileVars
<1>6. DoomedInv'
  BY DEF DoomedInv, CallGoes, lifeVars, playVars, fileVars, termVars
<1>7. ConnSafe'
  BY DEF ConnSafe, UsesConn, ConnClosed, lifeVars, connVars
<1>8. TrackFileAvailable'
  BY DEF TrackFileAvailable, ConnClosed, lifeVars, playVars, fileVars
<1>9. NoOrphanFile'
  BY <1>0 DEF NoOrphanFile, CallGoes, lifeVars, fileVars, termVars
<1>10. NoLostWakeup'
  BY DEF NoLostWakeup, lifeVars, playVars
<1>11. CurrentIsWorkers'
  BY <1>0 DEF CurrentIsWorkers, lifeVars, playVars
<1>12. PlaybackClearsIdleFlag'
  BY DEF PlaybackClearsIdleFlag, connVars
<1> QED BY <1>1, <1>2, <1>3, <1>4, <1>5, <1>6, <1>7, <1>8, <1>9, <1>10, <1>11,
           <1>12

----------------------------------------------------------------------------
\* The playback worker.

\* The tests of the playback loop.
LEMMA WorkerPcSteps ==
  ASSUME Inv, WorkerCheck \/ WorkerRecheck \/ WorkerClosed PROVE Inv'
BY WorkerGoesStep DEF WorkerCheck, WorkerRecheck, WorkerClosed, WorkerPcs

\* WaitDequeue: it ends, parks or takes a request.
LEMMA WaitDequeueStep ==
  ASSUME Inv, WaitDequeue PROVE Inv'
<1> USE DEF Inv, TypeOK
<1>1. CASE closed /\ WorkerGoes("exit")
  BY <1>1, WorkerGoesStep DEF WaitDequeue, WorkerPcs
<1>2. CASE ctxDone /\ WorkerGoes("exit")
  BY <1>2, WorkerGoesStep DEF WaitDequeue, WorkerPcs
<1>3. CASE ~closed /\ queue = <<>> /\ WorkerGoes("waiting")
  BY <1>3, WorkerGoesStep DEF WaitDequeue, WorkerPcs
<1>4. CASE /\ ~closed /\ ~ctxDone /\ queue # <<>>
           /\ hand' = Head(queue)
           /\ queue' = Tail(queue)
           /\ worker' = "start"
           /\ UNCHANGED <<lifeVars, current, cancelled, fileVars, connVars,
                          call, idler, termVars, skipVars, closer>>
  <2>1. /\ worker = "dequeue" /\ ~closed /\ queue # <<>>
        /\ worker' = "start"
        /\ NoItem \notin Items /\ Direct \subseteq Items
    BY <1>4, ItemsAssumption, DirectAssumption DEF WaitDequeue
  <2>2. /\ queue' \in Seq(Items) /\ hand' \in Items
        /\ Range(queue) = Range(queue') \cup {hand'}
        /\ NoDup(queue) => NoDup(queue') /\ hand' \notin Range(queue')
    BY <1>4, RangeTail, NoDupTail DEF StateTypeOK
  <2> HIDE DEF WaitDequeue
  <2> USE <1>4, <2>1, <2>2 DEF lifeVars, fileVars, connVars, termVars, skipVars
  <2>3. StateTypeOK'
    BY DEF StateTypeOK
  <2>4. FilesTypeOK' /\ SkipsTypeOK' /\ PhaseInv'
    BY DEF FilesTypeOK, SkipsTypeOK, PhaseInv
  <2>5. GoroutinesTypeOK'
    BY DEF GoroutinesTypeOK, WorkerPcs
  <2>6. StartInv'
    BY DEF StartInv
  <2>7. RequestInv'
    BY DEF RequestInv, Holding
  <2>8. TrackedInv'
    BY DEF TrackedInv
  <2>9. DoomedInv'
    BY DEF DoomedInv, RequestInv, FilesTypeOK
  <2>10. TrackFileAvailable'
    BY DEF TrackFileAvailable, ConnClosed
  <2>11. NoOrphanFile' /\ ConnSafe'
    BY DEF NoOrphanFile, ConnSafe, UsesConn, ConnClosed
  <2>12. /\ NoLostWakeup' /\ ClosedIsFinal' /\ CurrentIsWorkers'
         /\ PlaybackClearsIdleFlag'
    BY DEF NoLostWakeup, ClosedIsFinal, CurrentIsWorkers,
           PlaybackClearsIdleFlag
  <2> QED BY <2>3, <2>4, <2>5, <2>6, <2>7, <2>8, <2>9, <2>10, <2>11, <2>12
<1> QED BY <1>1, <1>2, <1>3, <1>4 DEF WaitDequeue

\* StartCurrent, refused and accepted.
LEMMA StartCurrentStep ==
  ASSUME Inv, StartCurrent PROVE Inv'
<1> USE DEF Inv, TypeOK, StartCurrent
<1>0. /\ hand \in Items /\ NoItem \notin Items
      /\ Range(queue) \subseteq Items
  BY ItemsAssumption, RangeItems
     DEF RequestInv, Holding, GoroutinesTypeOK, StateTypeOK
<1>1. FilesTypeOK' /\ SkipsTypeOK' /\ PhaseInv'
  BY DEF FilesTypeOK, SkipsTypeOK, PhaseInv, lifeVars, fileVars, termVars,
     skipVars
<1>2. StateTypeOK'
  BY <1>0 DEF StateTypeOK, lifeVars, connVars
<1>3. GoroutinesTypeOK'
  BY DEF GoroutinesTypeOK, WorkerPcs, termVars
<1>4. StartInv'
  BY DEF StartInv
<1>5. RequestInv'
  BY <1>0 DEF RequestInv, Holding
<1>6. TrackedInv'
  BY DEF TrackedInv, lifeVars, fileVars
<1>7. DoomedInv'
  BY <1>0, DirectAssumption DEF DoomedInv, lifeVars, fileVars, termVars,
     FilesTypeOK
<1>8. ConnSafe'
  BY DEF ConnSafe, UsesConn, ConnClosed, lifeVars, connVars
<1>9. TrackFileAvailable'
  BY DEF TrackFileAvailable, ConnClosed, lifeVars, fileVars
<1>10. NoOrphanFile'
  BY DEF NoOrphanFile, lifeVars, fileVars, termVars
<1>11. NoLostWakeup'
  BY DEF NoLostWakeup, lifeVars
<1>12. ClosedIsFinal'
  BY DEF ClosedIsFinal, lifeVars, fileVars, connVars, Gone
<1>13. CurrentIsWorkers'
  BY DEF CurrentIsWorkers, lifeVars
<1>14. PlaybackClearsIdleFlag'
  BY DEF PlaybackClearsIdleFlag, connVars
<1> QED BY <1>1, <1>2, <1>3, <1>4, <1>5, <1>6, <1>7, <1>8, <1>9, <1>10, <1>11,
           <1>12, <1>13, <1>14

\* newPlaybackStream.
LEMMA OpenStreamStep ==
  ASSUME Inv, OpenStream PROVE Inv'
<1> USE DEF Inv, TypeOK, OpenStream
<1>1. StateTypeOK'
  BY DEF StateTypeOK, WorkerGoes, lifeVars, playVars, connVars
<1>2. FilesTypeOK'
  BY DEF FilesTypeOK, WorkerGoes, lifeVars, fileVars, termVars
<1>3. SkipsTypeOK'
  BY DEF SkipsTypeOK, WorkerGoes, skipVars
<1>4. PhaseInv'
  BY DEF PhaseInv, WorkerGoes, lifeVars
<1>5. DoomedInv'
  BY DEF DoomedInv, WorkerGoes, lifeVars, playVars, fileVars, termVars
<1>6. ClosedIsFinal'
  BY DEF ClosedIsFinal, WorkerGoes, lifeVars, playVars, fileVars, connVars
<1>7. GoroutinesTypeOK'
  BY DEF GoroutinesTypeOK, WorkerPcs, WorkerGoes, CleanupPc, termVars
<1>8. StartInv'
  BY DEF StartInv, WorkerGoes, CleanupPc
<1>9. RequestInv'
  BY DEF RequestInv, Holding, WorkerGoes, CleanupPc, playVars
<1>10. TrackedInv'
  BY DEF TrackedInv, WorkerGoes, CleanupPc, lifeVars, playVars, fileVars,
     FilesTypeOK
<1>11. ConnSafe'
  BY DEF ConnSafe, UsesConn, ConnClosed, WorkerGoes, CleanupPc, lifeVars,
     connVars
<1>12. TrackFileAvailable'
  BY DEF TrackFileAvailable, ConnClosed, WorkerGoes, CleanupPc, lifeVars,
     playVars, fileVars
<1>13. NoOrphanFile'
  BY DEF NoOrphanFile, WorkerGoes, CleanupPc, lifeVars, fileVars, termVars
<1>14. NoLostWakeup'
  BY DEF NoLostWakeup, WorkerGoes, CleanupPc, lifeVars, playVars
<1>15. CurrentIsWorkers'
  BY DEF CurrentIsWorkers, WorkerGoes, CleanupPc, lifeVars, playVars
<1>16. PlaybackClearsIdleFlag'
  BY DEF PlaybackClearsIdleFlag, WorkerGoes, CleanupPc, connVars
<1> QED BY <1>1, <1>2, <1>3, <1>4, <1>5, <1>6, <1>7, <1>8, <1>9, <1>10, <1>11,
           <1>12, <1>13, <1>14, <1>15, <1>16

\* sendPlaybackStream takes the connection, or finds it gone.
LEMMA WorkerAcquiresStep ==
  ASSUME Inv, WorkerAcquires PROVE Inv'
<1>1. /\ worker = "acquire" /\ sendMu = "none"
      /\ \/ /\ worker' = "sending" /\ sendMu' = "worker"
            /\ ~closed /\ idleSpeaking' = FALSE
         \/ /\ worker' = IF hand \in Direct THEN "untrack" ELSE "finish"
            /\ UNCHANGED <<sendMu, idleSpeaking>>
  BY DEF WorkerAcquires, WorkerGoes, CleanupPc, Gone, SendMuFree,
         SetIdleSpeakingActive, connVars
<1>2. UNCHANGED <<registered, closed, ctxDone, closePhase, closeFiles, queue,
                  current, cancelled, tempFiles, disk, call, hand, idler,
                  term, cleared, skip, announced, stopped, closer>>
  BY DEF WorkerAcquires, WorkerGoes, lifeVars, playVars, fileVars, termVars,
         skipVars
<1> USE <1>1, <1>2 DEF Inv, TypeOK
<1>3. StateTypeOK'
  BY DEF StateTypeOK
<1>4. FilesTypeOK' /\ SkipsTypeOK' /\ PhaseInv' /\ DoomedInv'
  BY DEF FilesTypeOK, SkipsTypeOK, PhaseInv, DoomedInv
<1>5. GoroutinesTypeOK'
  BY DEF GoroutinesTypeOK, WorkerPcs
<1>6. StartInv'
  BY DEF StartInv
<1>7. RequestInv'
  BY DEF RequestInv, Holding
<1>8. TrackedInv'
  BY DEF TrackedInv, FilesTypeOK
<1>9. ConnSafe'
  BY DEF ConnSafe, PhaseInv, UsesConn, ConnClosed, Idlers
<1>10. TrackFileAvailable'
  BY DEF TrackFileAvailable, PhaseInv, ConnClosed
<1>11. NoOrphanFile'
  BY DEF NoOrphanFile
<1>12. /\ NoLostWakeup' /\ ClosedIsFinal' /\ CurrentIsWorkers'
       /\ PlaybackClearsIdleFlag'
  BY DEF NoLostWakeup, ClosedIsFinal, CurrentIsWorkers, PlaybackClearsIdleFlag
<1> QED BY <1>3, <1>4, <1>5, <1>6, <1>7, <1>8, <1>9, <1>10, <1>11, <1>12

\* sendPlaybackStream releases the connection.
LEMMA WorkerReleasesStep ==
  ASSUME Inv, WorkerReleases PROVE Inv'
<1> USE DEF Inv, TypeOK, WorkerReleases
<1>1. FilesTypeOK' /\ SkipsTypeOK' /\ PhaseInv' /\ DoomedInv'
  BY DEF FilesTypeOK, SkipsTypeOK, PhaseInv, DoomedInv, lifeVars, playVars,
     fileVars, termVars, skipVars
<1>2. StateTypeOK'
  BY DEF StateTypeOK, Idlers, SetIdleSpeakingActive, lifeVars, playVars
<1>3. GoroutinesTypeOK'
  BY DEF GoroutinesTypeOK, WorkerPcs, CleanupPc, termVars
<1>4. StartInv'
  BY DEF StartInv, CleanupPc
<1>5. RequestInv'
  BY DEF RequestInv, Holding, CleanupPc, playVars
<1>6. TrackedInv'
  BY DEF TrackedInv, CleanupPc, lifeVars, playVars, fileVars, FilesTypeOK
<1>7. ConnSafe'
  BY DEF ConnSafe, UsesConn, ConnClosed, CleanupPc, lifeVars
<1>8. TrackFileAvailable'
  BY DEF TrackFileAvailable, ConnClosed, CleanupPc, lifeVars, playVars,
     fileVars
<1>9. NoOrphanFile'
  BY DEF NoOrphanFile, CleanupPc, lifeVars, fileVars, termVars
<1>10. NoLostWakeup'
  BY DEF NoLostWakeup, CleanupPc, lifeVars, playVars
<1>11. ClosedIsFinal'
  BY DEF ClosedIsFinal, SetIdleSpeakingActive, lifeVars, playVars, fileVars
<1>12. CurrentIsWorkers'
  BY DEF CurrentIsWorkers, CleanupPc, lifeVars, playVars
<1>13. PlaybackClearsIdleFlag'
  BY DEF PlaybackClearsIdleFlag, CleanupPc, SetIdleSpeakingActive
<1> QED BY <1>1, <1>2, <1>3, <1>4, <1>5, <1>6, <1>7, <1>8, <1>9, <1>10, <1>11,
           <1>12, <1>13

\* cleanupPlaybackRequest, its part under s.mu.
LEMMA WorkerUntracksStep ==
  ASSUME Inv, WorkerUntracks PROVE Inv'
<1> USE DEF Inv, TypeOK, WorkerUntracks
<1>1. StateTypeOK' /\ SkipsTypeOK' /\ PhaseInv'
  BY DEF StateTypeOK, SkipsTypeOK, PhaseInv, lifeVars, playVars, connVars,
     skipVars
<1>2. FilesTypeOK'
  BY DEF FilesTypeOK, lifeVars, termVars
<1>3. GoroutinesTypeOK'
  BY DEF GoroutinesTypeOK, WorkerPcs, termVars
<1>4. StartInv'
  BY DEF StartInv
<1>5. RequestInv'
  BY DEF RequestInv, Holding, playVars
<1>6. TrackedInv'
  BY DirectAssumption DEF TrackedInv, lifeVars, playVars, RequestInv
<1>7. DoomedInv'
  BY DEF DoomedInv, lifeVars, playVars, termVars
<1>8. ConnSafe'
  BY DEF ConnSafe, UsesConn, ConnClosed, lifeVars, connVars
<1>9. TrackFileAvailable'
  BY DEF TrackFileAvailable, ConnClosed, lifeVars, playVars
<1>10. NoOrphanFile'
  BY DEF NoOrphanFile, lifeVars, termVars
<1>11. NoLostWakeup'
  BY DEF NoLostWakeup, lifeVars, playVars
<1>12. ClosedIsFinal'
  BY DEF ClosedIsFinal, lifeVars, playVars, connVars
<1>13. CurrentIsWorkers'
  BY DEF CurrentIsWorkers, lifeVars, playVars
<1>14. PlaybackClearsIdleFlag'
  BY DEF PlaybackClearsIdleFlag, connVars
<1> QED BY <1>1, <1>2, <1>3, <1>4, <1>5, <1>6, <1>7, <1>8, <1>9, <1>10, <1>11,
           <1>12, <1>13, <1>14

\* cleanupPlaybackRequest, the file itself.
LEMMA WorkerUnlinksStep ==
  ASSUME Inv, WorkerUnlinks PROVE Inv'
<1> USE DEF Inv, TypeOK, WorkerUnlinks
<1>1. StateTypeOK' /\ SkipsTypeOK' /\ PhaseInv' /\ ClosedIsFinal'
  BY DEF StateTypeOK, SkipsTypeOK, PhaseInv, ClosedIsFinal, lifeVars,
     playVars, connVars, skipVars
<1>2. FilesTypeOK'
  BY DEF FilesTypeOK, RemoveFile, lifeVars, termVars
<1>3. GoroutinesTypeOK'
  BY DEF GoroutinesTypeOK, WorkerPcs, termVars
<1>4. StartInv'
  BY DEF StartInv
<1>5. RequestInv'
  BY DEF RequestInv, Holding, playVars
<1>6. TrackedInv'
  BY DEF TrackedInv, RemoveFile, lifeVars, playVars
<1>7. DoomedInv'
  BY DirectAssumption DEF DoomedInv, RemoveFile, lifeVars, playVars, termVars,
     RequestInv
<1>8. ConnSafe'
  BY DEF ConnSafe, UsesConn, ConnClosed, lifeVars, connVars
<1>9. TrackFileAvailable'
  BY DEF TrackFileAvailable, ConnClosed, RemoveFile, lifeVars, playVars,
     RequestInv
<1>10. NoOrphanFile'
  BY DEF NoOrphanFile, RemoveFile, lifeVars, termVars
<1>11. NoLostWakeup'
  BY DEF NoLostWakeup, lifeVars, playVars
<1>12. CurrentIsWorkers'
  BY DEF CurrentIsWorkers, lifeVars, playVars
<1>13. PlaybackClearsIdleFlag'
  BY DEF PlaybackClearsIdleFlag, connVars
<1> QED BY <1>1, <1>2, <1>3, <1>4, <1>5, <1>6, <1>7, <1>8, <1>9, <1>10, <1>11,
           <1>12, <1>13

\* FinishCurrent.
LEMMA FinishCurrentStep ==
  ASSUME Inv, FinishCurrent PROVE Inv'
<1> USE DEF Inv, TypeOK, FinishCurrent
<1>0. NoItem \notin Items /\ Range(queue) \subseteq Items
  BY ItemsAssumption, RangeItems DEF StateTypeOK
<1>1. FilesTypeOK' /\ SkipsTypeOK' /\ PhaseInv'
  BY DEF FilesTypeOK, SkipsTypeOK, PhaseInv, lifeVars, fileVars, termVars,
     skipVars
<1>2. StateTypeOK'
  BY DEF StateTypeOK, ClearCurrent, CancelCurrent, lifeVars, connVars
<1>3. GoroutinesTypeOK'
  BY DEF GoroutinesTypeOK, WorkerPcs, termVars
<1>4. StartInv'
  BY DEF StartInv
<1>5. RequestInv'
  BY <1>0 DEF RequestInv, Holding, ClearCurrent
<1>6. TrackedInv'
  BY DEF TrackedInv, lifeVars, fileVars
<1>7. DoomedInv'
  BY <1>0, DirectAssumption DEF DoomedInv, lifeVars, fileVars, termVars,
     FilesTypeOK
<1>8. ConnSafe'
  BY DEF ConnSafe, UsesConn, ConnClosed, lifeVars, connVars
<1>9. TrackFileAvailable'
  BY DEF TrackFileAvailable, ConnClosed, lifeVars, fileVars
<1>10. NoOrphanFile'
  BY DEF NoOrphanFile, lifeVars, fileVars, termVars
<1>11. NoLostWakeup'
  BY DEF NoLostWakeup, lifeVars
<1>12. ClosedIsFinal'
  BY DEF ClosedIsFinal, ClearCurrent, lifeVars, fileVars, connVars
<1>13. CurrentIsWorkers'
  BY DEF CurrentIsWorkers, ClearCurrent, lifeVars
<1>14. PlaybackClearsIdleFlag'
  BY DEF PlaybackClearsIdleFlag, connVars
<1> QED BY <1>1, <1>2, <1>3, <1>4, <1>5, <1>6, <1>7, <1>8, <1>9, <1>10, <1>11,
           <1>12, <1>13, <1>14

----------------------------------------------------------------------------
\* The silence writers.

\* A silence writer takes the connection.
LEMMA IdlerAcquiresStep ==
  ASSUME Inv, NEW p \in Idlers, IdlerAcquires(p) PROVE Inv'
<1> USE DEF Inv, TypeOK, IdlerAcquires
<1>1. FilesTypeOK' /\ SkipsTypeOK' /\ PhaseInv' /\ RequestInv' /\ TrackedInv'
      /\ DoomedInv' /\ TrackFileAvailable' /\ NoOrphanFile' /\ NoLostWakeup'
      /\ ClosedIsFinal' /\ CurrentIsWorkers' /\ PlaybackClearsIdleFlag'
  BY DEF FilesTypeOK, SkipsTypeOK, PhaseInv, RequestInv, TrackedInv,
     DoomedInv, TrackFileAvailable, NoOrphanFile, NoLostWakeup, ClosedIsFinal,
     CurrentIsWorkers, PlaybackClearsIdleFlag, Holding, ConnClosed, lifeVars,
     playVars, fileVars, workVars, termVars, skipVars
<1>2. StateTypeOK'
  BY DEF StateTypeOK, Idlers, lifeVars, playVars
<1>3. GoroutinesTypeOK'
  BY DEF GoroutinesTypeOK, IdlerPcs, Idlers, IdlerGoes, workVars, termVars
<1>4. StartInv'
  BY DEF StartInv, IdlerGoes, workVars
<1>5. ConnSafe'
  BY DEF ConnSafe, UsesConn, ConnClosed, IdlerGoes, lifeVars, workVars,
     PhaseInv, Idlers, SendMuFree, Gone
<1> QED BY <1>1, <1>2, <1>3, <1>4, <1>5

\* primeVoiceConnection finds the connection gone.
LEMMA PrimeRefusedStep ==
  ASSUME Inv, PrimeRefused PROVE Inv'
<1> USE DEF Inv, TypeOK, PrimeRefused
<1>1. StateTypeOK' /\ FilesTypeOK' /\ SkipsTypeOK' /\ PhaseInv' /\ RequestInv'
      /\ TrackedInv' /\ DoomedInv' /\ TrackFileAvailable' /\ NoOrphanFile'
      /\ NoLostWakeup' /\ ClosedIsFinal' /\ CurrentIsWorkers'
      /\ PlaybackClearsIdleFlag'
  BY DEF StateTypeOK, FilesTypeOK, SkipsTypeOK, PhaseInv, RequestInv,
     TrackedInv, DoomedInv, TrackFileAvailable, NoOrphanFile, NoLostWakeup,
     ClosedIsFinal, CurrentIsWorkers, PlaybackClearsIdleFlag, Holding,
     ConnClosed, lifeVars, playVars, fileVars, connVars, workVars, termVars,
     skipVars
<1>2. GoroutinesTypeOK'
  BY DEF GoroutinesTypeOK, IdlerPcs, Idlers, IdlerGoes, workVars, termVars
<1>3. StartInv'
  BY DEF StartInv, IdlerGoes, workVars
<1>4. ConnSafe'
  BY DEF ConnSafe, UsesConn, ConnClosed, IdlerGoes, lifeVars, connVars,
     workVars
<1> QED BY <1>1, <1>2, <1>3, <1>4

\* runIdleVoiceKeepAlive sees the cancelled context.
LEMMA KeepAliveEndsStep ==
  ASSUME Inv, KeepAliveEnds PROVE Inv'
<1> USE DEF Inv, TypeOK, KeepAliveEnds
<1>1. StateTypeOK' /\ FilesTypeOK' /\ SkipsTypeOK' /\ PhaseInv' /\ RequestInv'
      /\ TrackedInv' /\ DoomedInv' /\ TrackFileAvailable' /\ NoOrphanFile'
      /\ NoLostWakeup' /\ ClosedIsFinal' /\ CurrentIsWorkers'
      /\ PlaybackClearsIdleFlag'
  BY DEF StateTypeOK, FilesTypeOK, SkipsTypeOK, PhaseInv, RequestInv,
     TrackedInv, DoomedInv, TrackFileAvailable, NoOrphanFile, NoLostWakeup,
     ClosedIsFinal, CurrentIsWorkers, PlaybackClearsIdleFlag, Holding,
     ConnClosed, lifeVars, playVars, fileVars, connVars, workVars, termVars,
     skipVars
<1>2. GoroutinesTypeOK'
  BY DEF GoroutinesTypeOK, IdlerPcs, Idlers, IdlerGoes, workVars, termVars
<1>3. StartInv'
  BY DEF StartInv, IdlerGoes, workVars
<1>4. ConnSafe'
  BY DEF ConnSafe, UsesConn, ConnClosed, IdlerGoes, lifeVars, connVars,
     workVars
<1> QED BY <1>1, <1>2, <1>3, <1>4

\* A silence writer announces Speaking.
LEMMA IdlerSpeaksStep ==
  ASSUME Inv, NEW p \in Idlers, IdlerSpeaks(p) PROVE Inv'
<1> USE DEF Inv, TypeOK, IdlerSpeaks
<1>1. FilesTypeOK' /\ SkipsTypeOK' /\ PhaseInv' /\ RequestInv' /\ TrackedInv'
      /\ DoomedInv' /\ TrackFileAvailable' /\ NoOrphanFile' /\ NoLostWakeup'
      /\ CurrentIsWorkers'
  BY DEF FilesTypeOK, SkipsTypeOK, PhaseInv, RequestInv, TrackedInv,
     DoomedInv, TrackFileAvailable, NoOrphanFile, NoLostWakeup,
     CurrentIsWorkers, Holding, ConnClosed, lifeVars, playVars, fileVars,
     workVars, termVars, skipVars
<1>2. StateTypeOK'
  BY DEF StateTypeOK, Idlers, SetIdleSpeakingActive, lifeVars, playVars
<1>3. GoroutinesTypeOK'
  BY DEF GoroutinesTypeOK, IdlerPcs, Idlers, IdlerGoes, AfterFrame, workVars,
     termVars
<1>4. StartInv'
  BY DEF StartInv, IdlerGoes, AfterFrame, workVars
<1>5. ConnSafe'
  BY DEF ConnSafe, UsesConn, ConnClosed, IdlerGoes, AfterFrame, lifeVars,
     workVars, GoroutinesTypeOK, Idlers
<1>6. ClosedIsFinal'
  BY DEF ClosedIsFinal, SetIdleSpeakingActive, lifeVars, playVars, fileVars
<1>7. PlaybackClearsIdleFlag'
  BY DEF PlaybackClearsIdleFlag, SetIdleSpeakingActive, workVars, ConnSafe,
     UsesConn, Idlers
<1> QED BY <1>1, <1>2, <1>3, <1>4, <1>5, <1>6, <1>7

\* A silence writer writes its frame.
LEMMA IdlerWritesStep ==
  ASSUME Inv, NEW p \in Idlers, IdlerWrites(p) PROVE Inv'
<1> USE DEF Inv, TypeOK, IdlerWrites
<1>1. FilesTypeOK' /\ SkipsTypeOK' /\ PhaseInv' /\ RequestInv' /\ TrackedInv'
      /\ DoomedInv' /\ TrackFileAvailable' /\ NoOrphanFile' /\ NoLostWakeup'
      /\ CurrentIsWorkers'
  BY DEF FilesTypeOK, SkipsTypeOK, PhaseInv, RequestInv, TrackedInv,
     DoomedInv, TrackFileAvailable, NoOrphanFile, NoLostWakeup,
     CurrentIsWorkers, Holding, ConnClosed, lifeVars, playVars, fileVars,
     workVars, termVars, skipVars
<1>2. StateTypeOK'
  BY DEF StateTypeOK, Idlers, SetIdleSpeakingActive, lifeVars, playVars
<1>3. GoroutinesTypeOK'
  BY DEF GoroutinesTypeOK, IdlerPcs, Idlers, IdlerGoes, AfterFrame, workVars,
     termVars
<1>4. StartInv'
  BY DEF StartInv, IdlerGoes, AfterFrame, workVars
<1>5. ConnSafe'
  BY DEF ConnSafe, UsesConn, ConnClosed, IdlerGoes, AfterFrame, lifeVars,
     workVars, GoroutinesTypeOK, Idlers
<1>6. ClosedIsFinal'
  BY DEF ClosedIsFinal, SetIdleSpeakingActive, lifeVars, playVars, fileVars
<1>7. PlaybackClearsIdleFlag'
  BY DEF PlaybackClearsIdleFlag, SetIdleSpeakingActive, workVars
<1> QED BY <1>1, <1>2, <1>3, <1>4, <1>5, <1>6, <1>7

\* WaitForVoiceServerRecovery resets the idle flag.
LEMMA GatewayLostStep ==
  ASSUME Inv, GatewayLost PROVE Inv'
<1> USE DEF Inv, TypeOK, GatewayLost
<1>1. FilesTypeOK' /\ GoroutinesTypeOK' /\ SkipsTypeOK' /\ PhaseInv'
      /\ StartInv' /\ RequestInv' /\ TrackedInv' /\ DoomedInv' /\ ConnSafe'
      /\ TrackFileAvailable' /\ NoOrphanFile' /\ NoLostWakeup'
      /\ CurrentIsWorkers'
  BY DEF FilesTypeOK, GoroutinesTypeOK, SkipsTypeOK, PhaseInv, StartInv,
     RequestInv, TrackedInv, DoomedInv, ConnSafe, TrackFileAvailable,
     NoOrphanFile, NoLostWakeup, CurrentIsWorkers, Holding, UsesConn,
     ConnClosed, lifeVars, playVars, fileVars, workVars, termVars, skipVars
<1>2. StateTypeOK'
  BY DEF StateTypeOK, SetIdleSpeakingActive, lifeVars, playVars
<1>3. ClosedIsFinal'
  BY DEF ClosedIsFinal, SetIdleSpeakingActive, lifeVars, playVars, fileVars
<1>4. PlaybackClearsIdleFlag'
  BY DEF PlaybackClearsIdleFlag, SetIdleSpeakingActive, workVars
<1> QED BY <1>1, <1>2, <1>3, <1>4

----------------------------------------------------------------------------
\* /dterm, /dstop and /dnext.

\* /dterm gets the session.
LEMMA TermGetsStep ==
  ASSUME Inv, NEW t \in Terms, TermGets(t) PROVE Inv'
<1> USE DEF Inv, TypeOK, TermGets
<1>1. StateTypeOK' /\ FilesTypeOK' /\ SkipsTypeOK' /\ PhaseInv' /\ StartInv'
      /\ RequestInv' /\ TrackedInv' /\ ConnSafe' /\ TrackFileAvailable'
      /\ NoOrphanFile' /\ NoLostWakeup' /\ ClosedIsFinal' /\ CurrentIsWorkers'
      /\ PlaybackClearsIdleFlag'
  BY DEF StateTypeOK, FilesTypeOK, SkipsTypeOK, PhaseInv, StartInv,
     RequestInv, TrackedInv, ConnSafe, TrackFileAvailable, NoOrphanFile,
     NoLostWakeup, ClosedIsFinal, CurrentIsWorkers, PlaybackClearsIdleFlag,
     Holding, UsesConn, ConnClosed, lifeVars, playVars, fileVars, connVars,
     workVars, skipVars
<1>2. GoroutinesTypeOK'
  BY DEF GoroutinesTypeOK, TermPcs, TermGoes, workVars
<1>3. DoomedInv'
  BY DEF DoomedInv, TermGoes, lifeVars, playVars, fileVars, workVars
<1> QED BY <1>1, <1>2, <1>3

\* ClearQueue takes the tracked files of the queue with it.
LEMMA ClearQueueStep ==
  ASSUME Inv, NEW t \in Terms, ClearQueue(t) PROVE Inv'
<1> USE DEF Inv, TypeOK
<1>1. /\ term[t] = "clear" /\ TermGoes(t, "unlink")
      /\ cleared' = [cleared EXCEPT ![t] = Range(queue) \cap tempFiles]
      /\ tempFiles' = tempFiles \ Range(queue)
      /\ queue' = <<>>
      /\ UNCHANGED <<lifeVars, current, cancelled, disk, connVars, call,
                     workVars, idler, skipVars, closer>>
  BY DEF ClearQueue
<1>2. /\ queue' \in Seq(Items) /\ Range(queue') = {} /\ NoDup(queue')
      /\ Range(queue) \subseteq Items /\ Direct \subseteq Items
  BY <1>1, RangeEmpty, NoDupEmpty, RangeItems, DirectAssumption DEF StateTypeOK
<1> USE <1>1, <1>2 DEF lifeVars, connVars, workVars, skipVars, TermGoes
<1>3. StateTypeOK' /\ SkipsTypeOK' /\ PhaseInv' /\ StartInv' /\ ConnSafe'
  BY DEF StateTypeOK, SkipsTypeOK, PhaseInv, StartInv, ConnSafe, UsesConn,
         ConnClosed
<1>4. FilesTypeOK'
  BY DEF FilesTypeOK
<1>5. GoroutinesTypeOK'
  BY DEF GoroutinesTypeOK, TermPcs
<1>6. RequestInv'
  BY DEF RequestInv
<1>7. TrackedInv'
  BY DEF TrackedInv, RequestInv
<1>8. DoomedInv'
  BY DEF DoomedInv, RequestInv, GoroutinesTypeOK, FilesTypeOK
<1>9. TrackFileAvailable'
  BY DEF TrackFileAvailable, ConnClosed
<1>10. NoOrphanFile'
  BY DEF NoOrphanFile, DoomedInv, FilesTypeOK
<1>11. /\ NoLostWakeup' /\ ClosedIsFinal' /\ CurrentIsWorkers'
       /\ PlaybackClearsIdleFlag'
  BY DEF NoLostWakeup, ClosedIsFinal, CurrentIsWorkers, PlaybackClearsIdleFlag
<1> QED BY <1>3, <1>4, <1>5, <1>6, <1>7, <1>8, <1>9, <1>10, <1>11

\* ClearQueue removes those files.
LEMMA TermUnlinksStep ==
  ASSUME Inv, NEW t \in Terms, TermUnlinks(t) PROVE Inv'
<1> USE DEF Inv, TypeOK, TermUnlinks
<1>1. StateTypeOK' /\ SkipsTypeOK' /\ PhaseInv' /\ StartInv' /\ RequestInv'
      /\ ConnSafe' /\ NoLostWakeup' /\ ClosedIsFinal' /\ CurrentIsWorkers'
      /\ PlaybackClearsIdleFlag'
  BY DEF StateTypeOK, SkipsTypeOK, PhaseInv, StartInv, RequestInv, ConnSafe,
     NoLostWakeup, ClosedIsFinal, CurrentIsWorkers, PlaybackClearsIdleFlag,
     Holding, UsesConn, ConnClosed, lifeVars, playVars, connVars, workVars,
     skipVars
<1>2. FilesTypeOK'
  BY DEF FilesTypeOK, lifeVars
<1>3. GoroutinesTypeOK'
  BY DEF GoroutinesTypeOK, TermPcs, TermGoes, workVars
<1>4. TrackedInv'
  BY DEF TrackedInv, lifeVars, playVars, workVars, DoomedInv
<1>5. DoomedInv'
  BY DEF DoomedInv, TermGoes, lifeVars, playVars, workVars, FilesTypeOK
<1>6. TrackFileAvailable'
  BY DEF TrackFileAvailable, ConnClosed, lifeVars, playVars, workVars,
     DoomedInv
<1>7. NoOrphanFile'
  BY DEF NoOrphanFile, lifeVars, workVars
<1> QED BY <1>1, <1>2, <1>3, <1>4, <1>5, <1>6, <1>7

\* The SkipCurrent of /dterm.
LEMMA TermSkipsStep ==
  ASSUME Inv, NEW t \in Terms, TermSkips(t) PROVE Inv'
<1> USE DEF Inv, TypeOK, TermSkips
<1>1. FilesTypeOK' /\ SkipsTypeOK' /\ PhaseInv' /\ StartInv' /\ RequestInv'
      /\ TrackedInv' /\ ConnSafe' /\ TrackFileAvailable' /\ NoOrphanFile'
      /\ NoLostWakeup' /\ ClosedIsFinal' /\ CurrentIsWorkers'
      /\ PlaybackClearsIdleFlag'
  BY DEF FilesTypeOK, SkipsTypeOK, PhaseInv, StartInv, RequestInv, TrackedInv,
     ConnSafe, TrackFileAvailable, NoOrphanFile, NoLostWakeup, ClosedIsFinal,
     CurrentIsWorkers, PlaybackClearsIdleFlag, Holding, UsesConn, ConnClosed,
     lifeVars, fileVars, connVars, workVars, skipVars
<1>2. StateTypeOK'
  BY DEF StateTypeOK, CancelCurrent, lifeVars, connVars
<1>3. GoroutinesTypeOK'
  BY DEF GoroutinesTypeOK, TermPcs, TermGoes, workVars
<1>4. DoomedInv'
  BY DEF DoomedInv, TermGoes, lifeVars, fileVars, workVars
<1> QED BY <1>1, <1>2, <1>3, <1>4

\* The Close of /dterm has returned.
LEMMA TermClosedStep ==
  ASSUME Inv, NEW t \in Terms, TermClosed(t) PROVE Inv'
<1> USE DEF Inv, TypeOK, TermClosed
<1>1. StateTypeOK' /\ FilesTypeOK' /\ SkipsTypeOK' /\ PhaseInv' /\ StartInv'
      /\ RequestInv' /\ TrackedInv' /\ ConnSafe' /\ TrackFileAvailable'
      /\ NoOrphanFile' /\ NoLostWakeup' /\ ClosedIsFinal' /\ CurrentIsWorkers'
      /\ PlaybackClearsIdleFlag'
  BY DEF StateTypeOK, FilesTypeOK, SkipsTypeOK, PhaseInv, StartInv,
     RequestInv, TrackedInv, ConnSafe, TrackFileAvailable, NoOrphanFile,
     NoLostWakeup, ClosedIsFinal, CurrentIsWorkers, PlaybackClearsIdleFlag,
     Holding, UsesConn, ConnClosed, lifeVars, playVars, fileVars, connVars,
     workVars, skipVars
<1>2. GoroutinesTypeOK'
  BY DEF GoroutinesTypeOK, TermPcs, TermGoes, workVars
<1>3. DoomedInv'
  BY DEF DoomedInv, TermGoes, lifeVars, playVars, fileVars, workVars
<1> QED BY <1>1, <1>2, <1>3

\* /dstop reads the current track.
LEMMA SkipReadsStep ==
  ASSUME Inv, NEW k \in Skips, SkipReads(k) PROVE Inv'
<1> USE DEF Inv, TypeOK, SkipReads
<1>1. StateTypeOK' /\ FilesTypeOK' /\ GoroutinesTypeOK' /\ PhaseInv'
      /\ StartInv' /\ RequestInv' /\ TrackedInv' /\ DoomedInv' /\ ConnSafe'
      /\ TrackFileAvailable' /\ NoOrphanFile' /\ NoLostWakeup' /\ ClosedIsFinal'
      /\ CurrentIsWorkers' /\ PlaybackClearsIdleFlag'
  BY DEF StateTypeOK, FilesTypeOK, GoroutinesTypeOK, PhaseInv, StartInv,
     RequestInv, TrackedInv, DoomedInv, ConnSafe, TrackFileAvailable,
     NoOrphanFile, NoLostWakeup, ClosedIsFinal, CurrentIsWorkers,
     PlaybackClearsIdleFlag, Holding, UsesConn, ConnClosed, lifeVars,
     playVars, fileVars, connVars, workVars, termVars
<1>2. SkipsTypeOK'
  BY DEF SkipsTypeOK, SkipPcs, StateTypeOK
<1> QED BY <1>1, <1>2

\* /dstop stops the current track.
LEMMA SkipCurrentStep ==
  ASSUME Inv, NEW k \in Skips, SkipCurrent(k) PROVE Inv'
<1> USE DEF Inv, TypeOK, SkipCurrent
<1>1. FilesTypeOK' /\ GoroutinesTypeOK' /\ PhaseInv' /\ StartInv'
      /\ RequestInv' /\ TrackedInv' /\ DoomedInv' /\ ConnSafe'
      /\ TrackFileAvailable' /\ NoOrphanFile' /\ NoLostWakeup' /\ ClosedIsFinal'
      /\ CurrentIsWorkers' /\ PlaybackClearsIdleFlag'
  BY DEF FilesTypeOK, GoroutinesTypeOK, PhaseInv, StartInv, RequestInv,
     TrackedInv, DoomedInv, ConnSafe, TrackFileAvailable, NoOrphanFile,
     NoLostWakeup, ClosedIsFinal, CurrentIsWorkers, PlaybackClearsIdleFlag,
     Holding, UsesConn, ConnClosed, lifeVars, fileVars, connVars, workVars,
     termVars
<1>2. StateTypeOK'
  BY DEF StateTypeOK, CancelCurrent, lifeVars, connVars
<1>3. SkipsTypeOK'
  BY DEF SkipsTypeOK, SkipPcs, StateTypeOK
<1> QED BY <1>1, <1>2, <1>3

----------------------------------------------------------------------------
\* The inductive invariant.

\* The invariant holds when the session has been created.
LEMMA InitInv == Init => Inv
<1> SUFFICES ASSUME Init PROVE Inv
  OBVIOUS
<1>1. /\ Range(queue) = {} /\ NoDup(queue) /\ queue \in Seq(Items)
      /\ Creator \in Items /\ NoItem \notin Items /\ Direct \subseteq Items
  BY RangeEmpty, NoDupEmpty, ItemsAssumption, DirectAssumption DEF Init
<1>2. StateTypeOK
  BY <1>1 DEF Init, StateTypeOK, ClosePhases
<1>3. FilesTypeOK
  BY DEF Init, FilesTypeOK
<1>4. GoroutinesTypeOK
  BY <1>1 DEF Init, GoroutinesTypeOK, CallPcs, WorkerPcs, Idlers, IdlerPcs,
              TermPcs, CloserPcs
<1>5. SkipsTypeOK
  BY DEF Init, SkipsTypeOK, SkipPcs
<1>6. PhaseInv
  BY DEF Init, PhaseInv
<1>7. StartInv
  BY <1>1 DEF Init, StartInv
<1>8. RequestInv
  BY <1>1 DEF Init, RequestInv, Holding
<1>9. TrackedInv
  BY <1>1 DEF Init, TrackedInv
<1>10. DoomedInv
  BY <1>1 DEF Init, DoomedInv
<1>11. ConnSafe
  BY DEF Init, ConnSafe, UsesConn, Idlers
<1>12. TrackFileAvailable
  BY <1>1 DEF Init, TrackFileAvailable
<1>13. NoOrphanFile
  BY <1>1 DEF Init, NoOrphanFile
<1>14. /\ NoLostWakeup /\ ClosedIsFinal /\ CurrentIsWorkers
       /\ PlaybackClearsIdleFlag
  BY DEF Init, NoLostWakeup, ClosedIsFinal, CurrentIsWorkers,
         PlaybackClearsIdleFlag
<1> QED
  BY <1>2, <1>3, <1>4, <1>5, <1>6, <1>7, <1>8, <1>9, <1>10, <1>11, <1>12,
     <1>13, <1>14 DEF Inv, TypeOK

\* Every step of a /dplay call keeps the invariant.
LEMMA CallStepInv ==
  ASSUME Inv, NEW i \in Items, CallStep(i) PROVE Inv'
BY ResolveStep, ResolveFailsStep, OpenSucceedsStep, OpenFailsStep,
   TrackTempFileStep, EnqueueStep, CallUntracksStep, CallUnlinksStep,
   CallDestroysStep, CallClosedStep, CallCleansUpStep, StartGoroutinesStep
   DEF CallStep

\* Every step of the playback worker keeps the invariant.
LEMMA WorkerStepInv ==
  ASSUME Inv, WorkerStep \/ EndOfStream \/ WorkerAcquires PROVE Inv'
BY WorkerPcSteps, WaitDequeueStep, StartCurrentStep, OpenStreamStep,
   WorkerAcquiresStep, WorkerReleasesStep, WorkerUntracksStep,
   WorkerUnlinksStep, FinishCurrentStep, WorkerDestroysStep
   DEF WorkerStep, EndOfStream, StopCancelled

\* Every step of a /dterm call keeps the invariant.
LEMMA TermStepInv ==
  ASSUME Inv, NEW t \in Terms, TermGets(t) \/ TermStep(t) PROVE Inv'
BY TermGetsStep, ClearQueueStep, TermUnlinksStep, TermSkipsStep,
   TermDestroysStep, TermClosedStep DEF TermStep

\* So does a step that changes nothing.
LEMMA StutterInv ==
  ASSUME Inv, UNCHANGED vars PROVE Inv'
<1> USE DEF Inv, TypeOK, vars, lifeVars, playVars, fileVars, connVars,
            workVars, termVars, skipVars
<1>1. StateTypeOK' /\ FilesTypeOK' /\ GoroutinesTypeOK' /\ SkipsTypeOK'
  BY DEF StateTypeOK, FilesTypeOK, GoroutinesTypeOK, SkipsTypeOK
<1>2. PhaseInv' /\ StartInv' /\ RequestInv' /\ TrackedInv' /\ DoomedInv'
  BY DEF PhaseInv, StartInv, RequestInv, TrackedInv, DoomedInv
<1>3. ConnSafe' /\ TrackFileAvailable' /\ NoOrphanFile'
  BY DEF ConnSafe, UsesConn, ConnClosed, TrackFileAvailable, NoOrphanFile
<1>4. /\ NoLostWakeup' /\ ClosedIsFinal' /\ CurrentIsWorkers'
      /\ PlaybackClearsIdleFlag'
  BY DEF NoLostWakeup, ClosedIsFinal, CurrentIsWorkers, PlaybackClearsIdleFlag
<1> QED BY <1>1, <1>2, <1>3, <1>4

\* The invariant is inductive.
LEMMA NextInv == Inv /\ [Next]_vars => Inv'
<1> SUFFICES ASSUME Inv, [Next]_vars PROVE Inv'
  OBVIOUS
<1>1. ASSUME NEW i \in Items, CallStep(i) PROVE Inv'
  BY <1>1, CallStepInv
<1>2. CASE WorkerStep \/ EndOfStream \/ WorkerAcquires
  BY <1>2, WorkerStepInv
<1>3. ASSUME NEW p \in Idlers, IdlerAcquires(p) \/ IdlerStep(p) PROVE Inv'
  BY <1>3, IdlerAcquiresStep, IdlerSpeaksStep, IdlerWritesStep DEF IdlerStep
<1>4. CASE PrimeRefused \/ KeepAliveEnds \/ GatewayLost
  BY <1>4, PrimeRefusedStep, KeepAliveEndsStep, GatewayLostStep
<1>5. ASSUME NEW t \in Terms, TermGets(t) \/ TermStep(t) PROVE Inv'
  BY <1>5, TermStepInv
<1>6. ASSUME NEW k \in Skips, SkipReads(k) \/ SkipCurrent(k) PROVE Inv'
  BY <1>6, SkipReadsStep, SkipCurrentStep
<1>7. ASSUME NEW d \in Closers \cup {Detached},
             CloserDestroys(d) \/ CloserClosed(d)
      PROVE  Inv'
  BY <1>7, CloserDestroysStep, CloserClosedStep
<1>8. CASE CloseStep \/ CloseConn
  BY <1>8, CloseCancelStep, CloseFilesStep, CloseUnregisterStep, CloseConnStep
     DEF CloseStep
<1>9. CASE DetachedLate
  BY <1>9, DetachedLateStep
<1>10. CASE Finished \/ UNCHANGED vars
  BY <1>10, StutterInv DEF Finished
<1> QED
  BY <1>1, <1>2, <1>3, <1>4, <1>5, <1>6, <1>7, <1>8, <1>9, <1>10 DEF Next

\* Inv holds in every state of every instance.
THEOREM InductiveInvariant == SafetySpec => []Inv
BY InitInv, NextInv, PTL DEF SafetySpec

\* Every variable stays in its range: what New, Enqueue, Close and all the
\* other steps assign.
THEOREM TypeCorrect == SafetySpec => []TypeOK
<1>1. Inv => TypeOK
  BY DEF Inv
<1> QED BY <1>1, InductiveInvariant, PTL

\* WithConnExclusive and Close: the voice connection has one user at a time,
\* and none once it is closed.
THEOREM OneUserOfTheConnection == SafetySpec => []ConnSafe
<1>1. Inv => ConnSafe
  BY DEF Inv
<1> QED BY <1>1, InductiveInvariant, PTL

\* Neither Close nor ClearQueue removes the file of a track that is to be
\* played.
THEOREM FilesOutliveTheirTracks == SafetySpec => []TrackFileAvailable
<1>1. Inv => TrackFileAvailable
  BY DEF Inv
<1> QED BY <1>1, InductiveInvariant, PTL

\* Whoever wins a race between TrackTempFile, Enqueue, ClearQueue and Close,
\* a download that is still on disk will be removed by somebody.
THEOREM EveryFileHasARemover == SafetySpec => []NoOrphanFile
<1>1. Inv => NoOrphanFile
  BY DEF Inv
<1> QED BY <1>1, InductiveInvariant, PTL

\* WaitDequeue never sleeps on a queue that has a track, nor on a closed
\* session.
THEOREM NoWakeupIsLost == SafetySpec => []NoLostWakeup
<1>1. Inv => NoLostWakeup
  BY DEF Inv
<1> QED BY <1>1, InductiveInvariant, PTL

\* No late call brings anything back into a session after Close.
THEOREM ClosedStaysClosed == SafetySpec => []ClosedIsFinal
<1>1. Inv => ClosedIsFinal
  BY DEF Inv
<1> QED BY <1>1, InductiveInvariant, PTL

\* s.current is the request of the worker, so StartCurrent never refuses one
\* because another is in flight.
THEOREM CurrentIsBeingPlayed == SafetySpec => []CurrentIsWorkers
<1>1. Inv => CurrentIsWorkers
  BY DEF Inv
<1> QED BY <1>1, InductiveInvariant, PTL

\* idleSpeaking is off while a track is sent: the silence that follows it
\* announces Speaking again.
THEOREM FlagIsOffDuringPlayback == SafetySpec => []PlaybackClearsIdleFlag
<1>1. Inv => PlaybackClearsIdleFlag
  BY DEF Inv
<1> QED BY <1>1, InductiveInvariant, PTL

----------------------------------------------------------------------------
(***************************************************************************)
(* Nobody waits for good: HolderInv and HandedOverInv, one lemma for each  *)
(* kind of goroutine.                                                      *)
(***************************************************************************)
RestInv == HolderInv /\ HandedOverInv

\* Entering Close ends every claim that is made of open sessions.
LEMMA CloseKeepsRest ==
  ASSUME Inv, RestInv, NEW w, Close(w),
         w = worker \/ (worker = "destroy" /\ w = "closing"),
         \A i \in Items : call'[i] = call[i] \/ call'[i] = "closing"
  PROVE  RestInv'
<1> USE DEF Inv, TypeOK, RestInv
<1>1. closed'
  BY DEF Close, BeginClose, JoinClose, PhaseInv
<1>2. /\ UNCHANGED <<sendMu, idler, registered>>
      /\ worker' = w \/ worker' = Woken(w)
  BY DEF Close, BeginClose, JoinClose
<1>3. sendMu' # "none" => UsesConn(sendMu)'
  BY <1>2 DEF HolderInv, UsesConn, Woken
<1>4. HandedOverInv'
  BY <1>1, <1>2, ItemsAssumption DEF HandedOverInv, Woken
<1>5. (closePhase \in {"unregister", "done"} => closeFiles = {})'
  BY DEF Close, BeginClose, JoinClose, HolderInv
<1> QED BY <1>1, <1>3, <1>4, <1>5 DEF HolderInv

\* A call that does not touch the queue, the worker or the entry.
LEMMA QuietCallKeepsRest ==
  ASSUME Inv, RestInv, NEW i \in Items,
         UNCHANGED <<closed, registered, queue, worker, idler, sendMu, term,
                     closer, closePhase, closeFiles>>,
         NEW pc, CallGoes(i, pc), pc \notin {"resolving", "closing", "accepted"},
         i = Creator /\ pc \in {"cleanup", "rejected"} =>
           closed \/ ~registered
  PROVE  RestInv'
<1> USE DEF Inv, TypeOK, RestInv
<1>1. \A j \in Items : call'[j] = IF j = i THEN pc ELSE call[j]
  BY DEF CallGoes, GoroutinesTypeOK
<1>2. HolderInv'
  BY <1>1 DEF HolderInv, UsesConn
<1>3. HandedOverInv'
  BY <1>1, ItemsAssumption DEF HandedOverInv
<1> QED BY <1>2, <1>3

\* A /dplay call: the creator that is refused has destroyed the session, or
\* found it detached.
LEMMA CallKeepsRest ==
  ASSUME Inv, RestInv, NEW i \in Items, CallStep(i)
  PROVE  RestInv'
<1> USE DEF lifeVars, playVars, connVars, workVars, termVars
<1>1. CASE Resolve(i) \/ ResolveFails(i)
  <2>1. i # Creator
    BY <1>1 DEF RestInv, HandedOverInv, Resolve, ResolveFails
  <2> QED BY <1>1, <2>1, QuietCallKeepsRest DEF Resolve, ResolveFails
<1>2. CASE i = Creator /\ OpenSucceeds
  BY <1>2, QuietCallKeepsRest DEF OpenSucceeds
<1>3. CASE i = Creator /\ OpenFails
  BY <1>3, ItemsAssumption, DetachedAssumption
     DEF OpenFails, CallGoes, Inv, TypeOK, StateTypeOK, GoroutinesTypeOK,
         RestInv, HolderInv, HandedOverInv, UsesConn
<1>4. CASE TrackTempFile(i) \/ CallUntracks(i)
  BY <1>4, QuietCallKeepsRest DEF TrackTempFile, CallUntracks
<1>5. CASE Enqueue(i)
  <2>1. CASE Refused(i) /\ UNCHANGED <<queue, worker>>
    <3>1. UNCHANGED <<closed, registered, queue, worker, idler, sendMu, term,
                      closer, closePhase, closeFiles>>
      BY <1>5, <2>1 DEF Enqueue
    <3> QED
      BY <2>1, <3>1, QuietCallKeepsRest DEF Refused, AfterRemoval
  <2>2. CASE queue' = Queued(i) /\ worker' = Woken(worker) /\ Accepted(i)
    <3>1. queue' # <<>>
      BY <2>2 DEF Queued, Inv, TypeOK, StateTypeOK
    <3> QED
      BY <1>5, <2>2, <3>1, ItemsAssumption
         DEF Enqueue, Accepted, CallGoes, Woken, Inv, TypeOK, GoroutinesTypeOK,
             RestInv, HolderInv, HandedOverInv, UsesConn
  <2> QED BY <1>5, <2>1, <2>2 DEF Enqueue
<1>6. CASE CallUnlinks(i)
  BY <1>6, QuietCallKeepsRest DEF CallUnlinks, AfterRemoval
<1>7. CASE CallDestroys(i)
  <2>1. CASE Close(worker) /\ CallGoes(i, "closing")
    BY <2>1, CloseKeepsRest DEF CallGoes, Inv, TypeOK, GoroutinesTypeOK
  <2>2. CASE ~registered /\ CallGoes(i, "cleanup")
    BY <1>7, <2>2, QuietCallKeepsRest
       DEF CallDestroys, Close, BeginClose, JoinClose
  <2> QED BY <1>7, <2>1, <2>2 DEF CallDestroys
<1>8. CASE CallClosed(i) \/ CallCleansUp(i)
  <2>1. closed \/ ~registered \/ i # Creator
    BY <1>8 DEF CallClosed, CallCleansUp, RestInv, HandedOverInv, Inv, PhaseInv
  <2> QED BY <1>8, <2>1, QuietCallKeepsRest DEF CallClosed, CallCleansUp
<1>9. CASE StartGoroutines(i)
  <2>1. i = Creator /\ worker = "unborn"
        /\ \A p \in Idlers : idler[p] = "unborn"
    BY <1>9 DEF StartGoroutines, Inv, StartInv
  <2>2. sendMu = "none"
    BY <2>1 DEF Inv, TypeOK, StateTypeOK, RestInv, HolderInv, UsesConn
  <2>3. HolderInv'
    BY <1>9, <2>2 DEF StartGoroutines, CallGoes, RestInv, HolderInv,
       Inv, TypeOK, GoroutinesTypeOK
  <2>4. HandedOverInv'
    BY <1>9, <2>1 DEF StartGoroutines, CallGoes, RestInv, HandedOverInv,
       Inv, TypeOK, GoroutinesTypeOK, StartInv
  <2> QED BY <2>3, <2>4 DEF RestInv
<1> QED
  BY <1>1, <1>2, <1>3, <1>4, <1>5, <1>6, <1>7, <1>8, <1>9 DEF CallStep
\* A step of the worker: it parks, or leaves, only where somebody else takes
\* over.
LEMMA WorkerKeepsRest ==
  ASSUME Inv, RestInv, WorkerStep \/ EndOfStream \/ WorkerAcquires
  PROVE  RestInv'
<1> USE DEF RestInv, lifeVars, playVars, connVars, workVars, termVars
<1>1. CASE WorkerCheck
  <2>1. ~closed /\ queue = <<>> => worker' # "dequeue"
    BY <1>1 DEF WorkerCheck, WorkerGoes, ShouldAutoDisconnect, Inv, PhaseInv,
       CurrentIsWorkers
  <2>2. ~closed => worker' # "exit"
    BY <1>1 DEF WorkerCheck, WorkerGoes, Inv, PhaseInv
  <2> QED
    BY <1>1, <2>1, <2>2
       DEF WorkerCheck, WorkerGoes, HolderInv, HandedOverInv, UsesConn
<1>2. CASE WaitDequeue
  <2>1. ~closed => worker' # "exit"
    BY <1>2 DEF WaitDequeue, WorkerGoes, Inv, PhaseInv
  <2> QED
    BY <1>2, <2>1
       DEF WaitDequeue, WorkerGoes, HolderInv, HandedOverInv, UsesConn
<1>3. CASE \/ StartCurrent \/ OpenStream \/ WorkerUntracks \/ WorkerUnlinks
           \/ FinishCurrent \/ WorkerRecheck
  BY <1>3
     DEF StartCurrent, OpenStream, WorkerUntracks, WorkerUnlinks,
         FinishCurrent, WorkerRecheck, WorkerGoes, CleanupPc, HolderInv,
         HandedOverInv, UsesConn
<1>4. CASE WorkerAcquires
  <2>1. /\ UNCHANGED <<closed, registered, queue, call, idler, term, closer,
                       closePhase, closeFiles>>
        /\ worker' \in {"untrack", "finish", "sending"}
        /\ sendMu' = "none" \/ (sendMu' = "worker" /\ worker' = "sending")
    BY <1>4 DEF WorkerAcquires, WorkerGoes, CleanupPc, SendMuFree
  <2> QED BY <2>1 DEF HolderInv, HandedOverInv, UsesConn
<1>5. CASE WorkerReleases
  BY <1>5 DEF WorkerReleases, CleanupPc, HolderInv, HandedOverInv
<1>6. CASE WorkerDestroys
  <2>1. CASE Close("closing")
    BY <1>6, <2>1, CloseKeepsRest DEF WorkerDestroys, WorkerGoes
  <2>2. CASE ~registered /\ WorkerGoes("exit")
    BY <1>6, <2>2 DEF WorkerDestroys, WorkerGoes, HolderInv, HandedOverInv,
       UsesConn
  <2> QED BY <1>6, <2>1, <2>2 DEF WorkerDestroys
<1>7. CASE WorkerClosed
  BY <1>7 DEF WorkerClosed, WorkerGoes, HolderInv, HandedOverInv, UsesConn,
     Inv, PhaseInv
<1> QED
  BY <1>1, <1>2, <1>3, <1>4, <1>5, <1>6, <1>7
     DEF WorkerStep, EndOfStream, StopCancelled

\* A silence writer lets go of the connection when it is done with it.
LEMMA IdlerKeepsRest ==
  ASSUME Inv, RestInv,
         \/ \E p \in Idlers : IdlerAcquires(p) \/ IdlerStep(p)
         \/ PrimeRefused \/ KeepAliveEnds \/ GatewayLost
  PROVE  RestInv'
<1> USE DEF RestInv, Inv, TypeOK, GoroutinesTypeOK, IdlerGoes, lifeVars,
      playVars, connVars, workVars, termVars, Idlers
<1>1. UNCHANGED <<closed, registered, queue, call, worker, term, closer,
                  closePhase, closeFiles>>
  BY DEF IdlerAcquires, IdlerStep, IdlerSpeaks, IdlerWrites, PrimeRefused,
     KeepAliveEnds, GatewayLost
<1>2. HandedOverInv'
  BY <1>1 DEF HandedOverInv
<1>3. sendMu' # "none" => UsesConn(sendMu)'
  <2>1. ASSUME NEW p \in Idlers, IdlerAcquires(p)
        PROVE  sendMu' # "none" => UsesConn(sendMu)'
    BY <2>1 DEF IdlerAcquires, UsesConn
  <2>2. ASSUME NEW p \in Idlers, IdlerStep(p)
        PROVE  sendMu' # "none" => UsesConn(sendMu)'
    <3>1. idler[p] \in {"speak", "write"} /\ sendMu = p
      BY <2>2 DEF IdlerStep, IdlerSpeaks, IdlerWrites, ConnSafe, UsesConn
    <3>2. sendMu' = "none" \/ (sendMu' = p /\ idler'[p] = "write")
      BY <2>2, <3>1 DEF IdlerStep, IdlerSpeaks, IdlerWrites
    <3> QED BY <3>2 DEF UsesConn
  <2>3. CASE PrimeRefused \/ KeepAliveEnds
    BY <2>3, <1>1 DEF PrimeRefused, KeepAliveEnds, HolderInv, UsesConn,
       StateTypeOK
  <2>4. CASE GatewayLost
    BY <2>4 DEF GatewayLost, HolderInv, UsesConn
  <2> QED BY <2>1, <2>2, <2>3, <2>4
<1> QED BY <1>1, <1>2, <1>3 DEF HolderInv

\* A /dterm that has emptied the queue destroys the session, unless the entry
\* is gone.
LEMMA TermKeepsRest ==
  ASSUME Inv, RestInv, NEW t \in Terms, TermGets(t) \/ TermStep(t)
  PROVE  RestInv'
<1> USE DEF RestInv, Inv, TypeOK, GoroutinesTypeOK, TermGoes, lifeVars,
      playVars, connVars, workVars
<1>1. CASE TermGets(t) \/ ClearQueue(t) \/ TermUnlinks(t) \/ TermSkips(t)
  BY <1>1 DEF TermGets, ClearQueue, TermUnlinks, TermSkips, HolderInv,
     HandedOverInv, UsesConn
<1>2. CASE TermDestroys(t)
  <2>1. CASE Close(worker)
    BY <1>2, <2>1, CloseKeepsRest DEF TermDestroys
  <2>2. CASE ~registered /\ TermGoes(t, "done")
    BY <1>2, <2>2 DEF TermDestroys, Close, BeginClose, JoinClose, HolderInv,
       HandedOverInv, UsesConn
  <2> QED BY <1>2, <2>1, <2>2 DEF TermDestroys
<1>3. CASE TermClosed(t)
  BY <1>3 DEF TermClosed, HolderInv, HandedOverInv, UsesConn, PhaseInv
<1> QED BY <1>1, <1>2, <1>3 DEF TermStep

\* Whoever comes to close, and Detach, which sends somebody.
LEMMA CloserKeepsRest ==
  ASSUME Inv, RestInv,
         \/ \E d \in Closers \cup {Detached} :
              CloserDestroys(d) \/ CloserClosed(d)
         \/ DetachedLate
  PROVE  RestInv'
<1> USE DEF RestInv, Inv, TypeOK, GoroutinesTypeOK, CloserGoes, lifeVars,
      playVars, connVars, workVars, termVars
<1>1. ASSUME NEW d \in Closers \cup {Detached}, CloserDestroys(d)
      PROVE  RestInv'
  BY <1>1, CloseKeepsRest DEF CloserDestroys
<1>2. ASSUME NEW d \in Closers \cup {Detached}, CloserClosed(d)
      PROVE  RestInv'
  BY <1>2 DEF CloserClosed, HolderInv, HandedOverInv, UsesConn, PhaseInv
<1>3. CASE DetachedLate
  BY <1>3 DEF DetachedLate, HolderInv, HandedOverInv, UsesConn
<1> QED BY <1>1, <1>2, <1>3

\* Close itself, and what changes nothing of the above.
LEMMA OthersKeepRest ==
  ASSUME Inv, RestInv,
         \/ CloseStep \/ CloseConn
         \/ \E k \in Skips : SkipReads(k) \/ SkipCurrent(k)
         \/ UNCHANGED vars
  PROVE  RestInv'
<1>1. /\ UNCHANGED <<closed, queue, call, worker, idler, sendMu, term, closer>>
      /\ ~closed => registered' = registered
      /\ \/ closePhase' = "unregister" /\ closeFiles' = {}
         \/ closePhase = "unregister" /\ closeFiles' = closeFiles
         \/ closePhase' = closePhase /\ closeFiles' = closeFiles
         \/ closePhase' \notin {"unregister", "done"}
  BY DEF CloseStep, CloseCancel, CloseConn, CloseFiles, CloseUnregister,
     SkipReads, SkipCurrent, vars, lifeVars, playVars, connVars, workVars,
     termVars, Inv, PhaseInv
<1> QED BY <1>1 DEF RestInv, HolderInv, HandedOverInv, UsesConn

\* RestInv holds in every reachable state.
LEMMA RestInvariant == SafetySpec => []RestInv
<1>1. Init => RestInv
  BY DetachedAssumption, ItemsAssumption
     DEF Init, RestInv, HolderInv, HandedOverInv, Idlers
<1>2. Inv /\ RestInv /\ [Next]_vars => RestInv'
  BY CallKeepsRest, WorkerKeepsRest, IdlerKeepsRest, TermKeepsRest,
     CloserKeepsRest, OthersKeepRest DEF Next, Finished
<1> QED BY <1>1, <1>2, InductiveInvariant, PTL DEF SafetySpec

\* For any number of calls, /dterms, skips and closers: as long as no track is
\* being sent, somebody can move until the session is over.
THEOREM NobodyWaitsForGood == SafetySpec => []RestsOnlyWhilePlaying
<1>1. Inv /\ RestInv => RestsOnlyWhilePlaying
  <2> SUFFICES ASSUME Inv, RestInv, ~SomebodyMoves,
                      ~(worker = "sending" /\ ~closed)
               PROVE  /\ closePhase = "done"
                      /\ worker \in {"unborn", "exit"}
                      /\ \A p \in Idlers : idler[p] \in {"unborn", "exit"}
                      /\ disk = {}
    BY DEF RestsOnlyWhilePlaying
  <2> USE DEF Inv, TypeOK, RestInv, SomebodyMoves
  <2>1. closed <=> closePhase # "open"
    BY DEF PhaseInv
  <2>2. sendMu = "none"
    <3>1. worker # "sending"
      BY <2>1 DEF WorkerMoves, CloseMoves, PhaseInv, ConnSafe, UsesConn,
         ConnClosed
    <3> QED
      BY <3>1 DEF HolderInv, UsesConn, IdlerMoves, StateTypeOK
  <2>3. closePhase \in {"open", "done"}
    BY <2>2 DEF CloseMoves, SendMuFree
  <2>4. closed
    <3> SUFFICES ASSUME ~closed PROVE FALSE
      OBVIOUS
    <3>1. registered
      BY DEF HandedOverInv, CloserMoves
    <3>2. worker = "waiting"
      <4>1. worker # "unborn"
        BY <3>1, ItemsAssumption DEF HandedOverInv, CallMoves, HolderInv,
           GoroutinesTypeOK
      <4> QED
        BY <2>2, <3>1, <4>1 DEF HandedOverInv, HolderInv, WorkerMoves,
           SendMuFree
    <3>3. \E t \in Terms : term[t] \in {"unlink", "skip", "destroy"}
      BY <3>1, <3>2 DEF HandedOverInv, NoLostWakeup
    <3> QED BY <3>3 DEF TermMoves
  <2>5. closePhase = "done" /\ ctxDone
    BY <2>1, <2>3, <2>4 DEF PhaseInv
  <2>6. worker \in {"unborn", "exit"}
    BY <2>2, <2>4, <2>5 DEF WorkerMoves, SendMuFree, NoLostWakeup
  <2>7. \A p \in Idlers : idler[p] \in {"unborn", "exit"}
    BY <2>2, <2>5 DEF IdlerMoves, SendMuFree, GoroutinesTypeOK, IdlerPcs
  <2>8. disk = {}
    <3> SUFFICES ASSUME NEW i \in disk PROVE FALSE
      OBVIOUS
    <3>1. i \in Items
      BY DirectAssumption DEF FilesTypeOK
    <3>2. call[i] \in {"accepted", "rejected"}
      BY <2>5, <3>1 DEF CallMoves
    <3>3. i \notin tempFiles /\ i \notin closeFiles
      BY <2>4, <2>5 DEF ClosedIsFinal, HolderInv
    <3>4. \A t \in Terms : cleared[t] = {}
      BY DEF DoomedInv, TermMoves
    <3> QED BY <2>6, <3>2, <3>3, <3>4 DEF NoOrphanFile
  <2> QED BY <2>5, <2>6, <2>7, <2>8
<1> QED BY <1>1, InductiveInvariant, RestInvariant, PTL
=============================================================================
