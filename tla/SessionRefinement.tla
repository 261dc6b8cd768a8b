------------------------- MODULE SessionRefinement -------------------------
(***************************************************************************)
(* Session implements PlaybackQueue, what its users are promised: a step   *)
(* of the abstract player or a stutter answers every step of the session.  *)
(* The mapping is INSTANCE PQ of Session; only Enqueue, WaitDequeue,       *)
(* StartCurrent, FinishCurrent, ClearQueue and Close change what it shows, *)
(* and the start of a /dterm.                                              *)
(*                                                                         *)
(* It also implements SessionLife, what its guild takes it for: the second *)
(* half, with the mapping INSTANCE Life.                                   *)
(***************************************************************************)
EXTENDS SessionProofs

\* The tracks answered with success.
Announced == {i \in Items : call[i] \in {"start", "accepted"}}

\* The /dterm commands that are about to clear the queue.
Clearing == {t \in Terms : term[t] = "clear"}

\* Putting the request the worker holds before the queue.
LEMMA PushFront ==
  ASSUME NEW S, NEW h \in S, NEW q \in Seq(S)
  PROVE  /\ <<h>> \o q \in Seq(S)
         /\ <<h>> \o q # <<>>
         /\ Len(<<h>> \o q) = Len(q) + 1
         /\ Head(<<h>> \o q) = h
         /\ Tail(<<h>> \o q) = q
OBVIOUS

\* A queue is its head before the rest, and appending commutes with that.
LEMMA HeadBeforeTail ==
  ASSUME NEW S, NEW q \in Seq(S), q # <<>>
  PROVE  <<Head(q)>> \o Tail(q) = q
OBVIOUS

\* Enqueue adds behind the request the worker holds.
LEMMA AppendBehind ==
  ASSUME NEW S, NEW h \in S, NEW q \in Seq(S), NEW e \in S
  PROVE  <<h>> \o Append(q, e) = Append(<<h>> \o q, e)
OBVIOUS

\* What the steps rely on about the pending tracks.
LEMMA PendingFacts ==
  ASSUME Inv
  PROVE  /\ queue \in Seq(Items) /\ Pending \in Seq(Items)
         /\ worker = "start" => hand \in Items
         /\ Len(Pending) <= Len(queue) + 1
         /\ current \in Items \cup {NoItem}
         /\ ctxDone => closed
<1>1. /\ queue \in Seq(Items) /\ current \in Items \cup {NoItem}
      /\ worker = "start" => hand \in Items
  BY ItemsAssumption DEF Inv, TypeOK, StateTypeOK, GoroutinesTypeOK,
                         RequestInv, Holding
<1>2. Pending \in Seq(Items) /\ Len(Pending) <= Len(queue) + 1
  BY <1>1, PushFront DEF Pending
<1>3. ctxDone => closed
  BY DEF Inv, PhaseInv
<1> QED BY <1>1, <1>2, <1>3

\* A step that changes nothing the mapping shows is a stutter.
LEMMA Stutter ==
  ASSUME Announced' = Announced, Pending' = Pending,
         current' = current, closed' = closed, Clearing' = Clearing
  PROVE  UNCHANGED PQ!vars
BY DEF PQ!vars, Announced, Clearing

\* Enqueue is Accept, or it changes nothing the mapping shows.
LEMMA EnqueueRefines ==
  ASSUME Inv, NEW i \in Items, Enqueue(i) PROVE [PQ!Next]_(PQ!vars)
<1>1. /\ call \in [Items -> CallPcs] /\ call[i] = "enqueue"
      /\ UNCHANGED <<current, closed, hand, term>>
  BY DEF Inv, TypeOK, GoroutinesTypeOK, Enqueue, lifeVars, termVars
<1>2. CASE UNCHANGED <<queue, worker>> /\ Refused(i)
  <2>1. Announced' = Announced
    BY <1>1, <1>2 DEF Announced, Refused, AfterRemoval, CallGoes
  <2>2. Pending' = Pending
    BY <1>1, <1>2 DEF Pending
  <2> QED BY <1>1, <2>1, <2>2, Stutter DEF Clearing
<1>3. CASE /\ ~Gone /\ Len(queue) < QueueCap
           /\ queue' = Queued(i) /\ worker' = Woken(worker) /\ Accepted(i)
  <2>1. ~closed /\ queue' = Append(queue, i) /\ Len(queue) < QueueCap
    BY <1>3 DEF Gone, Queued
  <2>2. Announced' = Announced \cup {i} /\ i \notin Announced
    BY <1>1, <1>3 DEF Announced, Accepted, CallGoes
  <2>3. Pending' = Append(Pending, i)
    <3>1. worker' = "start" <=> worker = "start"
      BY <1>3 DEF Woken
    <3> QED BY <1>1, <2>1, <3>1, PendingFacts, AppendBehind DEF Pending
  <2>4. Len(Pending) <= QueueCap
    BY <2>1, PendingFacts, QueueCapAssumption
  <2>5. PQ!Accept(i)
    BY <1>1, <2>1, <2>2, <2>3, <2>4 DEF PQ!Accept, Announced
  <2> QED BY <2>5 DEF PQ!Next
<1> QED BY <1>2, <1>3 DEF Enqueue

\* What WaitDequeue takes is still pending.
LEMMA WaitDequeueRefines ==
  ASSUME Inv, WaitDequeue PROVE [PQ!Next]_(PQ!vars)
<1>1. UNCHANGED <<current, closed, call, term>> /\ worker = "dequeue"
  BY DEF WaitDequeue, WorkerGoes, lifeVars, playVars, termVars
<1>2. Pending' = Pending
  <2>1. CASE worker' # "start"
    BY <1>1, <2>1 DEF WaitDequeue, WorkerGoes, playVars, Pending
  <2>2. CASE worker' = "start"
    BY <1>1, <2>2, PendingFacts, HeadBeforeTail
       DEF WaitDequeue, WorkerGoes, Pending
  <2> QED BY <2>1, <2>2
<1> QED BY <1>1, <1>2, Stutter DEF Announced, Clearing

\* StartCurrent is Start; after Close it is Forget.
LEMMA StartCurrentRefines ==
  ASSUME Inv, StartCurrent PROVE [PQ!Next]_(PQ!vars)
<1>1. /\ worker = "start" /\ UNCHANGED <<closed, call, queue, term>>
      /\ worker' # "start"
  BY DEF StartCurrent, lifeVars, termVars
<1>2. /\ Pending = <<hand>> \o queue /\ Pending' = queue
      /\ Head(Pending) = hand /\ Tail(Pending) = queue /\ Pending # <<>>
  BY <1>1, PendingFacts, PushFront DEF Pending
<1>3. CASE ~Gone /\ current = NoItem /\ current' = hand
  <2>1. PQ!Start
    BY <1>1, <1>2, <1>3 DEF PQ!Start, Gone
  <2> QED BY <2>1 DEF PQ!Next
<1>4. CASE (Gone \/ current # NoItem) /\ UNCHANGED current
  <2>1. closed /\ queue = <<>>
    BY <1>1, <1>4, PendingFacts DEF Inv, CurrentIsWorkers, ClosedIsFinal, Gone
  <2>2. PQ!Forget
    BY <1>1, <1>2, <1>4, <2>1 DEF PQ!Forget
  <2> QED BY <2>2 DEF PQ!Next
<1> QED BY <1>3, <1>4 DEF StartCurrent

\* FinishCurrent is Stop, unless Close has been there before.
LEMMA FinishCurrentRefines ==
  ASSUME Inv, FinishCurrent PROVE [PQ!Next]_(PQ!vars)
<1>1. /\ UNCHANGED <<closed, call, queue, term>> /\ current' = NoItem
      /\ Pending' = Pending
  BY DEF FinishCurrent, ClearCurrent, lifeVars, termVars, Pending
<1>2. CASE current = NoItem
  BY <1>1, <1>2, Stutter DEF Announced, Clearing
<1>3. CASE current # NoItem
  <2>1. PQ!Stop
    BY <1>1, <1>3 DEF PQ!Stop
  <2> QED BY <2>1 DEF PQ!Next
<1> QED BY <1>2, <1>3

\* ClearQueue is the Clear of its /dterm; a closed session has nothing left.
LEMMA ClearQueueRefines ==
  ASSUME Inv, NEW t \in Terms, ClearQueue(t) PROVE [PQ!Next]_(PQ!vars)
<1>1. /\ UNCHANGED <<closed, call, current, worker, hand>>
      /\ queue' = <<>> /\ term[t] = "clear"
      /\ term' = [term EXCEPT ![t] = "unlink"] /\ term \in [Terms -> TermPcs]
  BY DEF ClearQueue, TermGoes, lifeVars, workVars, Inv, TypeOK,
         GoroutinesTypeOK
<1>2. Pending' = IF worker = "start" THEN <<hand>> ELSE <<>>
  BY <1>1, PendingFacts DEF Pending
<1>3. worker = "start" => Pending # <<>> /\ Head(Pending) = hand
  BY PendingFacts, PushFront DEF Pending
<1>4. t \in Clearing /\ Clearing' = Clearing \ {t}
  BY <1>1 DEF Clearing
<1>5. PQ!Clear(t)
  BY <1>1, <1>2, <1>3, <1>4 DEF PQ!Clear, PQ!Leftover, Clearing
<1> QED BY <1>5 DEF PQ!Next

\* The other steps of a /dterm: its start is Terminate, unless the guild has
\* no session any more.
LEMMA TermRefines ==
  ASSUME Inv, NEW t \in Terms,
         TermGets(t) \/ TermUnlinks(t) \/ TermSkips(t) \/ TermClosed(t)
  PROVE  [PQ!Next]_(PQ!vars)
<1>1. /\ UNCHANGED <<closed, queue, current, worker, hand, call>>
      /\ term[t] # "clear" /\ term \in [Terms -> TermPcs]
      /\ \E pc \in TermPcs : term' = [term EXCEPT ![t] = pc]
  BY DEF TermGets, TermUnlinks, TermSkips, TermClosed, TermGoes, TermPcs,
         lifeVars, playVars, workVars, Inv, TypeOK, GoroutinesTypeOK
<1>2. Announced' = Announced /\ Pending' = Pending
  BY <1>1 DEF Announced, Pending
<1>3. CASE term'[t] = "clear"
  <2>1. Clearing' = Clearing \cup {t}
    BY <1>1, <1>3 DEF Clearing
  <2>2. PQ!Terminate(t)
    BY <1>1, <1>2, <2>1 DEF PQ!Terminate, Announced, Clearing
  <2> QED BY <2>2 DEF PQ!Next
<1>4. CASE term'[t] # "clear"
  <2>1. Clearing' = Clearing
    BY <1>1, <1>4 DEF Clearing
  <2> QED BY <1>1, <1>2, <2>1, Stutter
<1> QED BY <1>3, <1>4

\* The first to enter Close does Shut.
LEMMA CloseRefines ==
  ASSUME Inv, NEW w, Close(w), Announced' = Announced, Clearing' = Clearing,
         w = "start" <=> worker = "start"
  PROVE  [PQ!Next]_(PQ!vars)
<1>1. UNCHANGED hand
  BY DEF Close
<1>2. CASE closePhase # "open"
  <2>1. UNCHANGED <<closed, current, queue>> /\ worker' = w
    BY <1>2 DEF Close, JoinClose
  <2> QED BY <1>1, <2>1, Stutter DEF Pending
<1>3. CASE closePhase = "open"
  <2>1. /\ closed' = TRUE /\ current' = NoItem /\ queue' = <<>>
        /\ worker' = Woken(w)
    BY <1>3 DEF Close, BeginClose, ClearCurrent
  <2>2. Pending' = IF worker = "start" THEN <<hand>> ELSE <<>>
    BY <1>1, <2>1, PendingFacts DEF Pending, Woken
  <2>3. worker = "start" => Pending # <<>> /\ Head(Pending) = hand
    BY PendingFacts, PushFront DEF Pending
  <2>4. ~closed
    BY <1>3 DEF Inv, PhaseInv
  <2>5. PQ!Shut
    BY <2>1, <2>2, <2>3, <2>4 DEF PQ!Shut, PQ!Leftover, Announced, Clearing
  <2> QED BY <2>5 DEF PQ!Next
<1> QED BY <1>2, <1>3

\* The destroying steps enter Close, or find the session unregistered.
LEMMA DestroyRefines ==
  ASSUME Inv,
         \/ \E i \in Items : CallDestroys(i)
         \/ WorkerDestroys
         \/ \E t \in Terms : TermDestroys(t)
         \/ \E d \in Closers \cup {Detached} : CloserDestroys(d)
  PROVE  [PQ!Next]_(PQ!vars)
<1>1. ASSUME NEW i \in Items, CallDestroys(i) PROVE [PQ!Next]_(PQ!vars)
  <2>1. Announced' = Announced
    BY <1>1 DEF CallDestroys, CallGoes, Announced, Inv, TypeOK,
                GoroutinesTypeOK
  <2>2. Clearing' = Clearing
    BY <1>1 DEF CallDestroys, Clearing
  <2>3. CASE Close(worker)
    BY <2>1, <2>2, <2>3, CloseRefines
  <2>4. CASE UNCHANGED <<lifeVars, playVars, workVars>>
    BY <2>1, <2>2, <2>4, Stutter DEF lifeVars, playVars, workVars, Pending
  <2> QED BY <1>1, <2>3, <2>4 DEF CallDestroys
<1>2. ASSUME WorkerDestroys PROVE [PQ!Next]_(PQ!vars)
  <2>1. CASE Close("closing") /\ UNCHANGED <<call, term>>
    BY <1>2, <2>1, CloseRefines DEF WorkerDestroys, Announced, Clearing
  <2>2. CASE WorkerGoes("exit")
    BY <1>2, <2>2, Stutter DEF WorkerDestroys, WorkerGoes, lifeVars, playVars,
                               termVars, Pending, Announced, Clearing
  <2> QED BY <1>2, <2>1, <2>2 DEF WorkerDestroys
<1>3. ASSUME NEW t \in Terms, TermDestroys(t) PROVE [PQ!Next]_(PQ!vars)
  <2>1. Clearing' = Clearing
    BY <1>3 DEF TermDestroys, TermGoes, Clearing, Inv, TypeOK,
                GoroutinesTypeOK
  <2>2. CASE Close(worker)
    BY <1>3, <2>1, <2>2, CloseRefines DEF TermDestroys, Announced
  <2>3. CASE UNCHANGED <<lifeVars, playVars, workVars>>
    BY <1>3, <2>1, <2>3, Stutter DEF TermDestroys, lifeVars, playVars,
                                     workVars, Pending, Announced
  <2> QED BY <1>3, <2>2, <2>3 DEF TermDestroys
<1>4. ASSUME NEW d \in Closers \cup {Detached}, CloserDestroys(d)
      PROVE  [PQ!Next]_(PQ!vars)
  BY <1>4, CloseRefines DEF CloserDestroys, Announced, Clearing
<1> QED BY <1>1, <1>2, <1>3, <1>4

\* The steps of a /dplay call that only move the call or a file.
LEMMA CallStepRefines ==
  ASSUME Inv, NEW i \in Items, CallStep(i) PROVE [PQ!Next]_(PQ!vars)
<1>1. CASE \/ Resolve(i) \/ ResolveFails(i) \/ TrackTempFile(i)
           \/ CallUntracks(i) \/ CallUnlinks(i) \/ CallClosed(i)
           \/ CallCleansUp(i)
           \/ i = Creator /\ (OpenSucceeds \/ OpenFails)
  <2>1. UNCHANGED <<closed, queue, current, worker, hand, term>>
    BY <1>1 DEF Resolve, ResolveFails, TrackTempFile, CallUntracks,
                CallUnlinks, CallClosed, CallCleansUp, OpenSucceeds,
                OpenFails, lifeVars, playVars, workVars, termVars
  <2>2. Announced' = Announced
    <3>1. \E pc \in CallPcs \ {"start", "accepted"} :
            call' = [call EXCEPT ![i] = pc]
      BY <1>1 DEF Resolve, ResolveFails, TrackTempFile, CallUntracks,
                  CallUnlinks, CallClosed, CallCleansUp, OpenSucceeds,
                  OpenFails, CallGoes, AfterRemoval, CallPcs
    <3>2. call \in [Items -> CallPcs] /\ call[i] \notin {"start", "accepted"}
      BY <1>1 DEF Resolve, ResolveFails, TrackTempFile, CallUntracks,
                  CallUnlinks, CallClosed, CallCleansUp, OpenSucceeds,
                  OpenFails, Inv, TypeOK, GoroutinesTypeOK
    <3> QED BY <3>1, <3>2 DEF Announced
  <2> QED BY <2>1, <2>2, Stutter DEF Pending, Clearing
<1>2. CASE StartGoroutines(i)
  <2>1. /\ call \in [Items -> CallPcs]
        /\ call[Creator] # "accepted" => worker = "unborn"
        /\ i = Creator
    BY <1>2 DEF StartGoroutines, Inv, TypeOK, GoroutinesTypeOK, StartInv
  <2>2. Announced' = Announced
    BY <1>2, <2>1 DEF StartGoroutines, CallGoes, Announced
  <2>3. Pending' = Pending /\ UNCHANGED <<closed, current, term>>
    BY <1>2, <2>1 DEF StartGoroutines, lifeVars, playVars, termVars, Pending
  <2> QED BY <2>2, <2>3, Stutter DEF Clearing
<1> QED
  BY <1>1, <1>2, EnqueueRefines, DestroyRefines DEF CallStep

\* The worker's other steps leave the queue alone.
LEMMA WorkerStepRefines ==
  ASSUME Inv, WorkerStep \/ EndOfStream \/ WorkerAcquires
  PROVE  [PQ!Next]_(PQ!vars)
<1>1. CASE \/ WorkerCheck \/ WorkerRecheck \/ OpenStream \/ WorkerAcquires
           \/ WorkerReleases \/ WorkerUntracks \/ WorkerUnlinks \/ WorkerClosed
  <2>1. /\ UNCHANGED <<closed, queue, current, call, term>>
        /\ worker # "start" /\ worker' # "start"
    BY <1>1 DEF WorkerCheck, WorkerRecheck, OpenStream, WorkerAcquires,
                WorkerReleases, WorkerUntracks, WorkerUnlinks, WorkerClosed,
                WorkerGoes, CleanupPc, lifeVars, playVars, termVars
  <2> QED BY <2>1, Stutter DEF Pending, Announced, Clearing
<1> QED
  BY <1>1, WaitDequeueRefines, StartCurrentRefines, FinishCurrentRefines,
     DestroyRefines DEF WorkerStep, EndOfStream, StopCancelled

\* All the other goroutines change nothing the mapping shows.
LEMMA OthersRefine ==
  ASSUME \/ \E p \in Idlers : IdlerAcquires(p) \/ IdlerStep(p)
         \/ PrimeRefused \/ KeepAliveEnds \/ GatewayLost
         \/ \E k \in Skips : SkipReads(k) \/ SkipCurrent(k)
         \/ \E d \in Closers \cup {Detached} : CloserClosed(d)
         \/ DetachedLate \/ CloseStep \/ CloseConn \/ Finished
         \/ UNCHANGED vars
  PROVE  UNCHANGED PQ!vars
<1>1. UNCHANGED <<closed, queue, current, worker, hand, call, term>>
  <2>1. CASE \/ \E p \in Idlers : IdlerAcquires(p) \/ IdlerStep(p)
             \/ PrimeRefused \/ KeepAliveEnds \/ GatewayLost
    BY <2>1 DEF IdlerAcquires, IdlerStep, IdlerSpeaks, IdlerWrites,
                PrimeRefused, KeepAliveEnds, GatewayLost, lifeVars, playVars,
                workVars, termVars
  <2>2. CASE \E k \in Skips : SkipReads(k) \/ SkipCurrent(k)
    BY <2>2 DEF SkipReads, SkipCurrent, lifeVars, playVars, workVars,
                termVars
  <2>3. CASE \/ \E d \in Closers \cup {Detached} : CloserClosed(d)
             \/ DetachedLate \/ CloseStep \/ CloseConn
    BY <2>3 DEF CloserClosed, DetachedLate, CloseStep, CloseCancel, CloseFiles,
                CloseUnregister, CloseConn, lifeVars, playVars, workVars,
                termVars
  <2>4. CASE Finished \/ UNCHANGED vars
    BY <2>4 DEF Finished, vars, lifeVars, playVars, workVars, termVars
  <2> QED BY <2>1, <2>2, <2>3, <2>4
<1> QED BY <1>1, Stutter DEF Pending, Announced, Clearing

\* Every step of the session is a step of the player or a stutter.
LEMMA StepRefines ==
  Inv /\ [Next]_vars => [PQ!Next]_(PQ!vars)
<1> SUFFICES ASSUME Inv, [Next]_vars PROVE [PQ!Next]_(PQ!vars)
  OBVIOUS
<1>1. CASE \E i \in Items : CallStep(i)
  BY <1>1, CallStepRefines
<1>2. CASE WorkerStep \/ EndOfStream \/ WorkerAcquires
  BY <1>2, WorkerStepRefines
<1>3. CASE \E t \in Terms : ClearQueue(t) \/ TermDestroys(t)
  BY <1>3, ClearQueueRefines, DestroyRefines
<1>4. CASE \E d \in Closers \cup {Detached} : CloserDestroys(d)
  BY <1>4, DestroyRefines
<1>5. CASE \E t \in Terms : TermGets(t) \/ TermUnlinks(t) \/ TermSkips(t)
                            \/ TermClosed(t)
  BY <1>5, TermRefines
<1> QED
  BY <1>1, <1>2, <1>3, <1>4, <1>5, OthersRefine DEF Next, TermStep

\* A new session is a new player.
LEMMA InitRefines == Init => PQ!Init
BY ItemsAssumption DEF Init, PQ!Init, Pending

\* The session implements the player of PlaybackQueue: acceptance only while
\* open and within the capacity, tracks started in the order of acceptance,
\* one at a time and once each, nothing after Close.
THEOREM ImplementsQueue == SafetySpec => ImplementsPlaybackQueue
<1>1. SafetySpec => PQ!Init
  BY InitRefines DEF SafetySpec
<1>2. SafetySpec => [][PQ!Next]_(PQ!vars)
  BY InductiveInvariant, StepRefines, PTL DEF SafetySpec
<1> QED BY <1>1, <1>2, PTL DEF ImplementsPlaybackQueue, PQ!Spec

----------------------------------------------------------------------------
(***************************************************************************)
(* Session also implements SessionLife, which is what SessionManager keeps *)
(* of a session.                                                           *)
(***************************************************************************)
\* What the mapping shows of closeOnce and of the worker.
LEMMA LifeFacts ==
  ASSUME Inv
  PROVE  /\ Stage = "open" <=> ~closed
         /\ Stage \in {"open", "closing", "left", "gone"}
         /\ Stage = "gone" => ~registered
         /\ ctxDone => closed
         /\ worker = "sending" => sendMu = "worker"
         /\ worker \in {"dequeue", "waiting"} => WorkerOf = "dequeue"
         /\ worker \in {"destroy", "closing"} => WorkerOf = "destroy"
         /\ worker \in {"check", "recheck"} => WorkerOf = "check"
         /\ worker \in {"unborn", "exit"} => WorkerOf = worker
         /\ worker \in Holding =>
              WorkerOf = IF worker = "sending" \/ ~closed THEN "play"
                         ELSE "check"
         /\ queue \in Seq(Items) /\ Len(queue) \in Nat
         /\ Len(queue) = 0 <=> queue = <<>>
<1>1. closePhase \in ClosePhases /\ queue \in Seq(Items)
  BY DEF Inv, TypeOK, StateTypeOK
<1>2. /\ closed <=> closePhase # "open"
      /\ ctxDone => closed
      /\ closePhase = "done" => ~registered
  BY DEF Inv, PhaseInv
<1>3. /\ Stage = "open" <=> closePhase = "open"
      /\ Stage = "gone" <=> closePhase = "done"
      /\ Stage \in {"open", "closing", "left", "gone"}
  BY <1>1 DEF Stage, ClosePhases
<1>4. worker = "sending" => sendMu = "worker"
  BY DEF Inv, ConnSafe, UsesConn
<1>5. /\ worker \in {"dequeue", "waiting"} => WorkerOf = "dequeue"
      /\ worker \in {"destroy", "closing"} => WorkerOf = "destroy"
      /\ worker \in {"check", "recheck"} => WorkerOf = "check"
      /\ worker \in {"unborn", "exit"} => WorkerOf = worker
  BY DEF WorkerOf, Holding
<1>6. worker \in Holding =>
        WorkerOf = IF worker = "sending" \/ ~closed THEN "play" ELSE "check"
  BY DEF WorkerOf, Holding
<1>7. Len(queue) \in Nat /\ (Len(queue) = 0 <=> queue = <<>>)
  BY <1>1
<1> QED BY <1>1, <1>2, <1>3, <1>4, <1>5, <1>6, <1>7

\* A step that changes nothing the guild sees.
LEMMA LifeStutter ==
  ASSUME UNCHANGED <<closePhase, closed, registered, queue, worker>>
  PROVE  UNCHANGED Life!vars
BY DEF Life!vars, Stage, WorkerOf

\* Whoever calls Close begins it or joins it.
LEMMA CloseLives ==
  ASSUME Inv, Inv', NEW pc, Close(pc),
         pc = worker \/ (worker = "destroy" /\ pc = "closing")
  PROVE  [Life!Next]_(Life!vars)
<1>1. registered' = registered /\ worker \in WorkerPcs
  BY DEF Close, Inv, TypeOK, GoroutinesTypeOK
<1>2. CASE closePhase = "open"
  <2>1. /\ closed' = TRUE /\ queue' = <<>> /\ closePhase' = "cancel"
        /\ worker' = Woken(pc)
    BY <1>2 DEF Close, BeginClose
  <2>2. Stage = "open" /\ Stage' = "closing"
    BY <1>2, <2>1 DEF Stage
  <2>3. \/ WorkerOf' = WorkerOf
        \/ WorkerOf = "play" /\ WorkerOf' = "check"
    BY <1>1, <2>1, <2>2, LifeFacts
       DEF WorkerOf, Woken, Holding, WorkerPcs
  <2>4. Life!BeginClose
    BY <1>1, <2>1, <2>2, <2>3 DEF Life!BeginClose
  <2> QED BY <2>4 DEF Life!Next
<1>3. CASE closePhase # "open"
  <2>1. UNCHANGED <<closed, queue, closePhase>> /\ worker' = pc
    BY <1>3 DEF Close, JoinClose
  <2>2. Stage' = Stage
    BY <2>1 DEF Stage
  <2>3. WorkerOf' = WorkerOf
    BY <2>1 DEF WorkerOf, Holding
  <2> QED BY <1>1, <2>1, <2>2, <2>3 DEF Life!vars
<1> QED BY <1>2, <1>3

\* The rest of Close.
LEMMA CloseStepLives ==
  ASSUME Inv, CloseStep \/ CloseConn
  PROVE  [Life!Next]_(Life!vars)
<1>1. UNCHANGED <<closed, queue, worker>>
  BY DEF CloseStep, CloseConn, CloseCancel, CloseFiles, CloseUnregister,
         playVars, workVars
<1>2. WorkerOf' = WorkerOf
  BY <1>1 DEF WorkerOf
<1>3. CASE CloseCancel
  BY <1>1, <1>2, <1>3 DEF CloseCancel, Stage, Life!vars
<1>4. CASE CloseConn
  <2>1. Stage = "closing" /\ Stage' = "left" /\ registered' = registered
    BY <1>4 DEF CloseConn, Stage
  <2>2. worker # "sending" /\ closed
    BY <1>4, <2>1, LifeFacts DEF CloseConn, SendMuFree
  <2>3. worker \in WorkerPcs
    BY DEF Inv, TypeOK, GoroutinesTypeOK
  <2>4. WorkerOf # "play"
    BY <2>2, <2>3 DEF WorkerOf, Holding, WorkerPcs
  <2>5. Life!CloseConn
    BY <1>1, <1>2, <2>1, <2>4 DEF Life!CloseConn
  <2> QED BY <2>5 DEF Life!Next
<1>5. CASE CloseFiles
  BY <1>1, <1>2, <1>5 DEF CloseFiles, Stage, Life!vars
<1>6. CASE CloseUnregister
  <2>1. Life!Remove
    BY <1>1, <1>2, <1>6 DEF CloseUnregister, Stage, Life!Remove
  <2> QED BY <2>1 DEF Life!Next
<1> QED BY <1>3, <1>4, <1>5, <1>6 DEF CloseStep

\* /dplay calls: Enqueue, a failed Open, the start of the worker, and the
\* Destroy of a creator that was refused.
LEMMA CallStepLives ==
  ASSUME Inv, Inv', NEW i \in Items, CallStep(i)
  PROVE  [Life!Next]_(Life!vars)
<1>1. CASE Enqueue(i)
  <2>1. UNCHANGED <<closePhase, closed, registered>> /\ Stage' = Stage
    BY <1>1 DEF Enqueue, lifeVars, Stage
  <2>2. CASE UNCHANGED <<queue, worker>>
    BY <2>1, <2>2, LifeStutter
  <2>3. CASE ~Gone /\ Len(queue) < QueueCap /\ queue' = Queued(i)
             /\ worker' = Woken(worker)
    <3>1. Len(queue') = Len(queue) + 1
      BY <2>3, LifeFacts DEF Queued
    <3>2. WorkerOf' = WorkerOf
      BY <2>1, <2>3 DEF Woken, WorkerOf, Holding
    <3>3. Stage = "open"
      BY <2>3, LifeFacts DEF Gone
    <3>4. Life!Enqueue
      BY <2>1, <2>3, <3>1, <3>2, <3>3 DEF Life!Enqueue
    <3> QED BY <3>4 DEF Life!Next
  <2> QED BY <1>1, <2>2, <2>3 DEF Enqueue
<1>2. CASE OpenFails
  <2>1. UNCHANGED <<closePhase, closed, queue, worker>> /\ registered' = FALSE
    BY <1>2 DEF OpenFails, playVars, workVars
  <2>2. Stage' = Stage /\ WorkerOf' = WorkerOf
    BY <2>1 DEF Stage, WorkerOf
  <2>3. CASE registered
    <3>1. Life!Detach
      BY <2>1, <2>2, <2>3 DEF Life!Detach
    <3> QED BY <3>1 DEF Life!Next
  <2>4. CASE ~registered
    <3>1. registered' = registered
      BY <2>1, <2>4 DEF Inv, TypeOK, StateTypeOK
    <3> QED BY <2>1, <3>1, LifeStutter
  <2> QED BY <2>3, <2>4
<1>3. CASE StartGoroutines(i)
  <2>1. /\ UNCHANGED <<closePhase, closed, registered, queue>>
        /\ worker' = "check" /\ Stage' = Stage
    BY <1>3 DEF StartGoroutines, lifeVars, playVars, Stage
  <2>2. worker = "unborn"
    BY <1>3 DEF StartGoroutines, Inv, StartInv
  <2>3. WorkerOf = "unborn" /\ WorkerOf' = "check"
    BY <2>1, <2>2 DEF WorkerOf, Holding
  <2>4. Life!WorkerGoes("unborn", "check")
    BY <2>1, <2>3 DEF Life!WorkerGoes
  <2> QED BY <2>4 DEF Life!Next, Life!WorkerStep
<1>4. CASE CallDestroys(i)
  <2>1. CASE Close(worker)
    BY <2>1, CloseLives
  <2>2. CASE UNCHANGED <<lifeVars, playVars, workVars>>
    BY <2>2, LifeStutter DEF lifeVars, playVars, workVars
  <2> QED BY <1>4, <2>1, <2>2 DEF CallDestroys
<1>5. CASE \/ Resolve(i) \/ ResolveFails(i) \/ OpenSucceeds
           \/ TrackTempFile(i) \/ CallUntracks(i) \/ CallUnlinks(i)
           \/ CallClosed(i) \/ CallCleansUp(i)
  <2>1. UNCHANGED <<closePhase, closed, registered, queue, worker>>
    BY <1>5 DEF Resolve, ResolveFails, OpenSucceeds, TrackTempFile,
                CallUntracks, CallUnlinks, CallClosed, CallCleansUp,
                lifeVars, playVars, workVars
  <2> QED BY <2>1, LifeStutter
<1> QED BY <1>1, <1>2, <1>3, <1>4, <1>5 DEF CallStep

\* The worker's tests and its wait for a track.
LEMMA WorkerTestsLive ==
  ASSUME Inv, WorkerCheck \/ WorkerRecheck \/ WaitDequeue
  PROVE  [Life!Next]_(Life!vars)
<1>1. UNCHANGED <<closePhase, closed, registered>> /\ Stage' = Stage
  BY DEF WorkerCheck, WorkerRecheck, WaitDequeue, WorkerGoes, lifeVars, Stage
<1>2. ~closed /\ worker \in {"check", "recheck", "dequeue"} => current = NoItem
  BY DEF Inv, CurrentIsWorkers
<1>3. CASE WorkerCheck \/ WorkerRecheck
  <2>1. UNCHANGED queue /\ worker \in {"check", "recheck"}
    BY <1>3 DEF WorkerCheck, WorkerRecheck, WorkerGoes, playVars
  <2>2. WorkerOf = "check" /\ Len(queue') = Len(queue)
    BY <2>1, LifeFacts
  <2>3. CASE ctxDone /\ worker' = "exit"
    <3>1. WorkerOf' = "exit" /\ Stage # "open"
      BY <2>3, LifeFacts DEF WorkerOf, Holding
    <3>2. Life!Check
      BY <1>1, <2>1, <2>2, <3>1 DEF Life!Check, Life!WorkerGoes
    <3> QED BY <3>2 DEF Life!Next, Life!WorkerStep
  <2>4. CASE ShouldAutoDisconnect /\ worker' = "destroy"
    <3>1. WorkerOf' = "destroy"
      BY <2>4 DEF WorkerOf, Holding
    <3>2. Stage = "open" /\ Len(queue) = 0
      BY <2>4, LifeFacts DEF ShouldAutoDisconnect
    <3>3. Life!Check
      BY <1>1, <2>1, <2>2, <3>1, <3>2 DEF Life!Check, Life!WorkerGoes
    <3> QED BY <3>3 DEF Life!Next, Life!WorkerStep
  <2>5. CASE ~ShouldAutoDisconnect /\ worker' = "dequeue"
    <3>1. WorkerOf' = "dequeue"
      BY <2>5 DEF WorkerOf, Holding
    <3>2. Stage = "open" => Len(queue) > 0
      BY <1>2, <2>1, <2>5, LifeFacts DEF ShouldAutoDisconnect
    <3>3. Life!Check
      BY <1>1, <2>1, <2>2, <3>1, <3>2 DEF Life!Check, Life!WorkerGoes
    <3> QED BY <3>3 DEF Life!Next, Life!WorkerStep
  <2>6. CASE worker' = "check"
    <3>1. WorkerOf' = "check"
      BY <2>6 DEF WorkerOf, Holding
    <3> QED BY <1>1, <2>1, <2>2, <3>1 DEF Life!vars
  <2> QED BY <1>3, <2>3, <2>4, <2>5, <2>6
          DEF WorkerCheck, WorkerRecheck, WorkerGoes
<1>4. CASE WaitDequeue
  <2>1. worker = "dequeue" /\ WorkerOf = "dequeue"
    BY <1>4, LifeFacts DEF WaitDequeue
  <2>2. CASE (closed \/ (queue # <<>> /\ ctxDone)) /\ WorkerGoes("exit")
    <3>1. worker' = "exit" /\ UNCHANGED queue /\ WorkerOf' = "exit"
      BY <2>2 DEF WorkerGoes, playVars, WorkerOf, Holding
    <3>2. Stage # "open"
      BY <2>2, LifeFacts
    <3>3. Life!Dequeue
      BY <1>1, <2>1, <3>1, <3>2 DEF Life!Dequeue
    <3> QED BY <3>3 DEF Life!Next, Life!WorkerStep
  <2>3. CASE WorkerGoes("waiting")
    <3>1. worker' = "waiting" /\ UNCHANGED queue /\ WorkerOf' = "dequeue"
      BY <2>3 DEF WorkerGoes, playVars, WorkerOf, Holding
    <3> QED BY <1>1, <2>1, <3>1 DEF Life!vars
  <2>4. CASE ~closed /\ queue # <<>> /\ queue' = Tail(queue)
             /\ worker' = "start"
    <3>1. WorkerOf' = "play"
      BY <1>1, <2>4 DEF WorkerOf, Holding
    <3>2. Stage = "open" /\ Len(queue) > 0 /\ Len(queue') = Len(queue) - 1
      BY <2>4, LifeFacts
    <3>3. Life!Dequeue
      BY <1>1, <2>1, <3>1, <3>2 DEF Life!Dequeue
    <3> QED BY <3>3 DEF Life!Next, Life!WorkerStep
  <2> QED BY <1>4, <2>2, <2>3, <2>4 DEF WaitDequeue
<1> QED BY <1>3, <1>4

\* A track from StartCurrent to FinishCurrent.
LEMMA TrackLives ==
  ASSUME Inv, \/ StartCurrent \/ OpenStream \/ WorkerAcquires \/ WorkerReleases
              \/ WorkerUntracks \/ WorkerUnlinks \/ FinishCurrent
  PROVE  [Life!Next]_(Life!vars)
<1>1. /\ UNCHANGED <<closePhase, closed, registered, queue>>
      /\ Stage' = Stage /\ Len(queue') = Len(queue)
  BY DEF StartCurrent, OpenStream, WorkerAcquires, WorkerReleases,
         WorkerUntracks, WorkerUnlinks, FinishCurrent, WorkerGoes, lifeVars,
         playVars, Stage
<1>2. /\ worker \in Holding /\ worker' \in Holding \cup {"recheck"}
      /\ worker' = "sending" => ~closed
      /\ worker' = "recheck" /\ ~closed => worker = "finish"
  BY DEF StartCurrent, OpenStream, WorkerAcquires, WorkerReleases,
         WorkerUntracks, WorkerUnlinks, FinishCurrent, WorkerGoes, CleanupPc,
         Holding, Gone, Inv, CurrentIsWorkers, PhaseInv
<1>3. WorkerOf = IF worker = "sending" \/ ~closed THEN "play" ELSE "check"
  BY <1>2, LifeFacts
<1>4. WorkerOf' = IF worker' # "recheck" /\ ~closed THEN "play" ELSE "check"
  BY <1>1, <1>2 DEF WorkerOf, Holding
<1>5. CASE WorkerOf' = WorkerOf
  BY <1>1, <1>5 DEF Life!vars
<1>6. CASE WorkerOf = "play" /\ WorkerOf' = "check"
  <2>1. Life!WorkerGoes("play", "check")
    BY <1>1, <1>6 DEF Life!WorkerGoes
  <2> QED BY <2>1 DEF Life!Next, Life!WorkerStep
<1> QED BY <1>2, <1>3, <1>4, <1>5, <1>6

\* The worker's Destroy.
LEMMA WorkerEndsLive ==
  ASSUME Inv, Inv', WorkerDestroys \/ WorkerClosed
  PROVE  [Life!Next]_(Life!vars)
<1>1. CASE worker = "destroy" /\ Close("closing")
  BY <1>1, CloseLives
<1>2. CASE \/ worker = "destroy" /\ ~registered /\ WorkerGoes("exit")
           \/ WorkerClosed
  <2>1. /\ UNCHANGED <<closePhase, closed, registered, queue>>
        /\ Stage' = Stage /\ worker' = "exit"
    BY <1>2 DEF WorkerClosed, WorkerGoes, lifeVars, playVars, Stage
  <2>2. WorkerOf = "destroy" /\ WorkerOf' = "exit"
    BY <1>2, <2>1 DEF WorkerClosed, WorkerOf, Holding
  <2>3. ~registered
    BY <1>2 DEF WorkerClosed, Inv, PhaseInv
  <2>4. Life!Destroyed
    BY <2>1, <2>2, <2>3 DEF Life!Destroyed, Life!WorkerGoes
  <2> QED BY <2>4 DEF Life!Next, Life!WorkerStep
<1> QED BY <1>1, <1>2 DEF WorkerDestroys

\* The commands, the events and the silence writers.
LEMMA OthersLive ==
  ASSUME Inv, Inv',
         \/ \E t \in Terms : TermGets(t) \/ TermStep(t)
         \/ \E k \in Skips : SkipReads(k) \/ SkipCurrent(k)
         \/ \E d \in Closers \cup {Detached} :
              CloserDestroys(d) \/ CloserClosed(d)
         \/ DetachedLate
         \/ \E p \in Idlers : IdlerAcquires(p) \/ IdlerStep(p)
         \/ PrimeRefused \/ KeepAliveEnds \/ GatewayLost
         \/ Finished \/ UNCHANGED vars
  PROVE  [Life!Next]_(Life!vars)
<1>1. CASE \E t \in Terms : ClearQueue(t)
  <2>1. /\ UNCHANGED <<closePhase, closed, registered, worker>>
        /\ queue' = <<>>
    BY <1>1 DEF ClearQueue, lifeVars, workVars
  <2>2. Stage' = Stage /\ WorkerOf' = WorkerOf /\ Len(queue') = 0
    BY <2>1 DEF Stage, WorkerOf
  <2>3. Life!Clear
    BY <2>1, <2>2 DEF Life!Clear
  <2> QED BY <2>3 DEF Life!Next
<1>2. CASE \/ \E t \in Terms : TermDestroys(t)
           \/ \E d \in Closers \cup {Detached} : CloserDestroys(d)
  <2>1. CASE Close(worker)
    BY <2>1, CloseLives
  <2>2. CASE UNCHANGED <<lifeVars, playVars, workVars>>
    BY <2>2, LifeStutter DEF lifeVars, playVars, workVars
  <2> QED BY <1>2, <2>1, <2>2 DEF TermDestroys, CloserDestroys
<1>3. CASE DetachedLate
  <2>1. /\ UNCHANGED <<closePhase, closed, queue, worker>>
        /\ registered /\ registered' = FALSE
    BY <1>3 DEF DetachedLate, playVars, workVars
  <2>2. Stage' = Stage /\ WorkerOf' = WorkerOf
    BY <2>1 DEF Stage, WorkerOf
  <2>3. Life!Detach
    BY <2>1, <2>2 DEF Life!Detach
  <2> QED BY <2>3 DEF Life!Next
<1>4. CASE \/ \E t \in Terms : TermGets(t) \/ TermUnlinks(t) \/ TermSkips(t)
                               \/ TermClosed(t)
           \/ \E k \in Skips : SkipReads(k) \/ SkipCurrent(k)
           \/ \E d \in Closers \cup {Detached} : CloserClosed(d)
  <2>1. UNCHANGED <<closePhase, closed, registered, queue, worker>>
    BY <1>4 DEF TermGets, TermUnlinks, TermSkips, TermClosed, SkipReads,
                SkipCurrent, CloserClosed, lifeVars, playVars, workVars
  <2> QED BY <2>1, LifeStutter
<1>5. CASE \/ \E p \in Idlers : IdlerAcquires(p) \/ IdlerStep(p)
           \/ PrimeRefused \/ KeepAliveEnds \/ GatewayLost
  <2>1. UNCHANGED <<closePhase, closed, registered, queue, worker>>
    BY <1>5 DEF IdlerAcquires, IdlerStep, IdlerSpeaks, IdlerWrites,
                PrimeRefused, KeepAliveEnds, GatewayLost, lifeVars, playVars,
                workVars
  <2> QED BY <2>1, LifeStutter
<1>6. CASE Finished \/ UNCHANGED vars
  <2>1. UNCHANGED <<closePhase, closed, registered, queue, worker>>
    BY <1>6 DEF Finished, vars, lifeVars, playVars, workVars
  <2> QED BY <2>1, LifeStutter
<1> QED BY <1>1, <1>2, <1>3, <1>4, <1>5, <1>6 DEF TermStep

\* Every step of the session is a step of its life or a stutter.
LEMMA StepLives ==
  Inv /\ Inv' /\ [Next]_vars => [Life!Next]_(Life!vars)
<1> SUFFICES ASSUME Inv, Inv', [Next]_vars PROVE [Life!Next]_(Life!vars)
  OBVIOUS
<1>1. ASSUME NEW i \in Items, CallStep(i)
      PROVE  [Life!Next]_(Life!vars)
  BY <1>1, CallStepLives
<1>2. CASE WorkerStep \/ EndOfStream \/ WorkerAcquires
  BY <1>2, WorkerTestsLive, TrackLives, WorkerEndsLive
     DEF WorkerStep, EndOfStream, StopCancelled
<1>3. CASE CloseStep \/ CloseConn
  BY <1>3, CloseStepLives
<1> QED BY <1>1, <1>2, <1>3, OthersLive DEF Next

\* A new session has just been created.
LEMMA InitLives == Init => Life!Init
<1> SUFFICES ASSUME Init PROVE Life!Init
  OBVIOUS
<1>1. Stage = "open" /\ WorkerOf = "unborn" /\ Len(queue) = 0
  BY DEF Init, Stage, WorkerOf, Holding
<1> QED BY <1>1 DEF Init, Life!Init

\* A session lives as its guild takes it to live: it enters the map once, the
\* worker leaves an open session only when the queue is empty and then not
\* before the session has left the map, nothing waits in a closed one, and
\* the connection is closed only when no track is being sent.
THEOREM ImplementsTheLife == SafetySpec => ImplementsLife
<1>1. SafetySpec => Life!Init
  BY InitLives DEF SafetySpec
<1>2. SafetySpec => [][Life!Next]_(Life!vars)
  BY InductiveInvariant, StepLives, PTL DEF SafetySpec
<1> QED BY <1>1, <1>2, PTL DEF ImplementsLife, Life!Spec
============================================================================
