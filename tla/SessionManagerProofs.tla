------------------------ MODULE SessionManagerProofs ------------------------
(***************************************************************************)
(* The safety properties of SessionManager hold for every number of calls, *)
(* /dterms and leave events and every queue capacity.  Inv is preserved by *)
(* every step: one lemma per action, one step per part of Inv.             *)
(***************************************************************************)
EXTENDS SessionManager, TLAPS

----------------------------------------------------------------------------
\* Closers.

\* Every goroutine that calls Close is a closer.
LEMMA ClosersExist ==
  /\ \A c \in Calls :
       Creator(c) \in Closers /\ Worker(c) \in Closers /\ Cleanup(c) \in Closers
  /\ \A t \in Terms : Term(t) \in Closers
  /\ \A l \in Leaves : Leave(l) \in Closers
  /\ Shutdown \in Closers
BY DEF Closers, Creator, Worker, Cleanup, Term, Leave, Shutdown

\* No two goroutines are the same closer.
LEMMA ClosersDiffer ==
  /\ \A c, e : /\ Creator(c) = Creator(e) => c = e
               /\ Worker(c) = Worker(e) => c = e
               /\ Cleanup(c) = Cleanup(e) => c = e
               /\ Term(c) = Term(e) => c = e
               /\ Leave(c) = Leave(e) => c = e
  /\ \A c, e : /\ Creator(c) # Worker(e) /\ Creator(c) # Cleanup(e)
               /\ Creator(c) # Term(e) /\ Creator(c) # Leave(e)
               /\ Worker(c) # Cleanup(e) /\ Worker(c) # Term(e)
               /\ Worker(c) # Leave(e)
               /\ Cleanup(c) # Term(e) /\ Cleanup(c) # Leave(e)
               /\ Term(c) # Leave(e)
  /\ \A c : /\ Creator(c) # Shutdown /\ Worker(c) # Shutdown
            /\ Cleanup(c) # Shutdown /\ Term(c) # Shutdown
            /\ Leave(c) # Shutdown
BY DEF Creator, Worker, Cleanup, Term, Leave, Shutdown

\* A closer that had nobody finds the guild's session: from then on that
\* session, and whoever was being closed before, is being closed.
LEMMA FindsKeeps ==
  ASSUME TypeOK, NEW d \in Closers, victim[d] = NoSession, DestroyFinds(d)
  PROVE  /\ victim' \in [Closers -> Sessions \cup {NoSession}]
         /\ entry \in Sessions
         /\ \A s \in Sessions : s = entry => BeingClosed(s)'
         /\ \A s \in Sessions : BeingClosed(s) => BeingClosed(s)'
<1>1. entry \in Sessions /\ victim' = [victim EXCEPT ![d] = entry]
  BY DEF TypeOK, DestroyFinds
<1>2. victim' \in [Closers -> Sessions \cup {NoSession}] /\ victim'[d] = entry
  BY <1>1 DEF TypeOK
<1>3. ASSUME NEW s \in Sessions, NEW e \in Closers, victim[e] = s
      PROVE  victim'[e] = s
  BY <1>1, <1>3, CallsAssumption DEF TypeOK, Sessions
<1> QED BY <1>1, <1>2, <1>3 DEF BeingClosed

\* A closer whose Close returned leaves nobody unattended who is not gone.
LEMMA ReturnsKeeps ==
  ASSUME TypeOK, NEW d \in Closers, CloseReturns(d)
  PROVE  /\ victim' \in [Closers -> Sessions \cup {NoSession}]
         /\ \A s \in Sessions :
              BeingClosed(s) /\ phase[s] # "gone" => BeingClosed(s)'
BY CallsAssumption DEF TypeOK, CloseReturns, BeingClosed, Sessions

----------------------------------------------------------------------------
\* Every action keeps Inv.

\* A call that reads the entry owns no session yet.
LEMMA CallGetsInv ==
  ASSUME Inv, NEW c \in Calls, CallGets(c)
  PROVE  Inv'
<1> USE DEF Inv, CallGets, mapVars, sessVars, connVars, termVars, endVars,
      CallGoes
<1>1. TypeOK'
  BY DEF TypeOK, CallPcs, Sessions
<1>2. OwnerInv'
  BY CallsAssumption DEF TypeOK, OwnerInv, EntryIsAlive, Sessions
<1>3. VictimInv'
  BY DEF TypeOK, VictimInv, Sessions
<1>4. EntryIsAlive'
  BY DEF TypeOK, EntryIsAlive, Sessions
<1>5. SomeoneEndsIt'
  BY CallsAssumption DEF TypeOK, SomeoneEndsIt, Sessions, BeingClosed,
        OwnerInv
<1>6. NobodyParksForGood'
  BY CallsAssumption DEF TypeOK, NobodyParksForGood, Sessions, BeingClosed
<1> QED BY <1>1, <1>2, <1>3, <1>4, <1>5, <1>6

\* A resolved URL changes the state of its call only.
LEMMA ResolveInv ==
  ASSUME Inv, NEW c \in Calls, Resolve(c)
  PROVE  Inv'
<1> USE DEF Inv, Resolve, mapVars, sessVars, connVars, termVars, endVars,
      CallGoes
<1>1. TypeOK'
  BY DEF TypeOK, CallPcs, Sessions
<1>2. OwnerInv'
  BY CallsAssumption DEF TypeOK, OwnerInv, EntryIsAlive, Sessions
<1>3. VictimInv'
  BY DEF TypeOK, VictimInv, Sessions
<1>4. EntryIsAlive'
  BY DEF TypeOK, EntryIsAlive, Sessions
<1>5. SomeoneEndsIt'
  BY CallsAssumption DEF TypeOK, SomeoneEndsIt, Sessions, BeingClosed,
        OwnerInv
<1>6. NobodyParksForGood'
  BY CallsAssumption DEF TypeOK, NobodyParksForGood, Sessions, BeingClosed
<1> QED BY <1>1, <1>2, <1>3, <1>4, <1>5, <1>6

\* CreateConn touches connections, of which Inv says nothing.
LEMMA CreateConnInv ==
  ASSUME Inv, NEW c \in Calls, CreateConn(c)
  PROVE  Inv'
<1> USE DEF Inv, CreateConn, mapVars, sessVars, termVars, endVars, CallGoes
<1>1. TypeOK'
  BY DEF TypeOK, CallPcs, Sessions
<1>2. OwnerInv'
  BY CallsAssumption DEF TypeOK, OwnerInv, EntryIsAlive, Sessions
<1>3. VictimInv'
  BY DEF TypeOK, VictimInv, Sessions
<1>4. EntryIsAlive'
  BY DEF TypeOK, EntryIsAlive, Sessions
<1>5. SomeoneEndsIt'
  BY CallsAssumption DEF TypeOK, SomeoneEndsIt, Sessions, BeingClosed,
        OwnerInv
<1>6. NobodyParksForGood'
  BY CallsAssumption DEF TypeOK, NobodyParksForGood, Sessions, BeingClosed
<1> QED BY <1>1, <1>2, <1>3, <1>4, <1>5, <1>6

\* Create fills an empty entry: the other open sessions are already being
\* closed, and the new one has its creator.
LEMMA CreateInv ==
  ASSUME Inv, NEW c \in Calls, Create(c)
  PROVE  Inv'
<1> USE DEF Inv, Create, connVars, termVars, endVars, CallGoes
<1>1. TypeOK'
  BY DEF TypeOK, CallPcs, Phases, Sessions
<1>2. OwnerInv'
  BY CallsAssumption DEF TypeOK, OwnerInv, EntryIsAlive, Sessions
<1>3. VictimInv'
  BY DEF TypeOK, VictimInv, Sessions
<1>4. EntryIsAlive'
  BY CallsAssumption DEF TypeOK, EntryIsAlive, Sessions
<1>5. SomeoneEndsIt'
  BY CallsAssumption DEF TypeOK, SomeoneEndsIt, Sessions, BeingClosed,
        OwnerInv
<1>6. NobodyParksForGood'
  BY CallsAssumption DEF TypeOK, NobodyParksForGood, Sessions, BeingClosed,
        OwnerInv
<1> QED BY <1>1, <1>2, <1>3, <1>4, <1>5, <1>6

\* The creator goes on with its open session.
LEMMA OpenSucceedsInv ==
  ASSUME Inv, NEW c \in Calls, OpenSucceeds(c)
  PROVE  Inv'
<1> USE DEF Inv, OpenSucceeds, mapVars, sessVars, termVars, endVars, CallGoes
<1>1. TypeOK'
  BY DEF TypeOK, CallPcs, Sessions
<1>2. OwnerInv'
  BY CallsAssumption DEF TypeOK, OwnerInv, EntryIsAlive, Sessions
<1>3. VictimInv'
  BY DEF TypeOK, VictimInv, Sessions
<1>4. EntryIsAlive'
  BY DEF TypeOK, EntryIsAlive, Sessions
<1>5. SomeoneEndsIt'
  BY CallsAssumption DEF TypeOK, SomeoneEndsIt, Sessions, BeingClosed,
        OwnerInv
<1>6. NobodyParksForGood'
  BY CallsAssumption DEF TypeOK, NobodyParksForGood, Sessions, BeingClosed
<1> QED BY <1>1, <1>2, <1>3, <1>4, <1>5, <1>6

\* The creator goes on to detach its session.
LEMMA OpenFailsInv ==
  ASSUME Inv, NEW c \in Calls, OpenFails(c)
  PROVE  Inv'
<1> USE DEF Inv, OpenFails, mapVars, sessVars, termVars, endVars, CallGoes
<1>1. TypeOK'
  BY DEF TypeOK, CallPcs, Sessions
<1>2. OwnerInv'
  BY CallsAssumption DEF TypeOK, OwnerInv, EntryIsAlive, Sessions
<1>3. VictimInv'
  BY DEF TypeOK, VictimInv, Sessions
<1>4. EntryIsAlive'
  BY DEF TypeOK, EntryIsAlive, Sessions
<1>5. SomeoneEndsIt'
  BY CallsAssumption DEF TypeOK, SomeoneEndsIt, Sessions, BeingClosed,
        OwnerInv
<1>6. NobodyParksForGood'
  BY CallsAssumption DEF TypeOK, NobodyParksForGood, Sessions, BeingClosed
<1> QED BY <1>1, <1>2, <1>3, <1>4, <1>5, <1>6

\* Detach frees the entry and hands the session to a closer.
LEMMA DetachInv ==
  ASSUME Inv, NEW c \in Calls, Detach(c)
  PROVE  Inv'
<1> USE DEF Inv, Detach, sessVars, connVars, termVars, endVars, CallGoes
<1>1. victim[Cleanup(c)] = NoSession /\ Cleanup(c) \in Closers
  BY ClosersExist DEF VictimInv, Sessions
<1>2. TypeOK'
  BY <1>1, FindsKeeps DEF TypeOK, CallPcs, Sessions, DestroyMisses
<1>3. OwnerInv'
  BY CallsAssumption DEF TypeOK, OwnerInv, EntryIsAlive, Sessions
<1>4. VictimInv'
  BY ClosersExist, ClosersDiffer DEF TypeOK, VictimInv, DestroyFinds,
        Sessions, DestroyMisses
<1>5. EntryIsAlive'
  BY CallsAssumption DEF TypeOK, EntryIsAlive, Sessions
<1>6. SomeoneEndsIt'
  BY <1>1, FindsKeeps, CallsAssumption DEF TypeOK, SomeoneEndsIt, Sessions,
        DestroyMisses, BeingClosed, OwnerInv
<1>7. NobodyParksForGood'
  BY <1>1, FindsKeeps, CallsAssumption DEF TypeOK, NobodyParksForGood,
        Sessions, DestroyMisses, BeingClosed
<1> QED BY <1>2, <1>3, <1>4, <1>5, <1>6, <1>7

\* A refused creator goes on to destroy, an accepted one to start.
LEMMA EnqueueInv ==
  ASSUME Inv, NEW c \in Calls, Enqueue(c)
  PROVE  Inv'
<1> USE DEF Inv, Enqueue, mapVars, connVars, termVars, endVars, CallGoes
<1>1. TypeOK'
  BY QueueCapAssumption DEF TypeOK, CallPcs, Sessions, Refuses, OwnerInv
<1>2. OwnerInv'
  BY CallsAssumption DEF TypeOK, OwnerInv, EntryIsAlive, Sessions
<1>3. VictimInv'
  BY DEF TypeOK, VictimInv, Sessions
<1>4. EntryIsAlive'
  BY DEF TypeOK, EntryIsAlive, Sessions
<1>5. SomeoneEndsIt'
  BY CallsAssumption DEF TypeOK, SomeoneEndsIt, Sessions, BeingClosed,
        OwnerInv
<1>6. NobodyParksForGood'
  BY CallsAssumption DEF TypeOK, NobodyParksForGood, Sessions, BeingClosed
<1> QED BY <1>1, <1>2, <1>3, <1>4, <1>5, <1>6

\* A refused creator leaves its session to Destroy, or to its closer.
LEMMA CallDestroysInv ==
  ASSUME Inv, NEW c \in Calls, CallDestroys(c)
  PROVE  Inv'
<1> USE DEF Inv, CallDestroys, mapVars, sessVars, connVars, termVars, endVars,
      CallGoes
<1>1. victim[Creator(c)] = NoSession /\ Creator(c) \in Closers
  BY ClosersExist DEF VictimInv, Sessions
<1>2. TypeOK'
  BY <1>1, FindsKeeps DEF TypeOK, CallPcs, Sessions, DestroyMisses
<1>3. OwnerInv'
  BY CallsAssumption DEF TypeOK, OwnerInv, EntryIsAlive, Sessions
<1>4. VictimInv'
  BY ClosersExist, ClosersDiffer DEF TypeOK, VictimInv, DestroyFinds,
        Sessions, DestroyMisses
<1>5. EntryIsAlive'
  BY DEF TypeOK, EntryIsAlive, Sessions
<1>6. SomeoneEndsIt'
  BY <1>1, FindsKeeps, CallsAssumption DEF TypeOK, SomeoneEndsIt, Sessions,
        DestroyMisses, BeingClosed
<1>7. NobodyParksForGood'
  BY <1>1, FindsKeeps, CallsAssumption DEF TypeOK, NobodyParksForGood,
        Sessions, DestroyMisses, BeingClosed
<1> QED BY <1>2, <1>3, <1>4, <1>5, <1>6, <1>7

\* The creator returns when its victim is gone.
LEMMA CallClosedInv ==
  ASSUME Inv, NEW c \in Calls, CallClosed(c)
  PROVE  Inv'
<1> USE DEF Inv, CallClosed, mapVars, sessVars, connVars, termVars, endVars,
      CallGoes
<1>1. Creator(c) \in Closers
  BY ClosersExist DEF Sessions
<1>2. TypeOK'
  BY <1>1, ReturnsKeeps DEF TypeOK, CallPcs, Sessions
<1>3. OwnerInv'
  BY CallsAssumption DEF TypeOK, OwnerInv, EntryIsAlive, Sessions
<1>4. VictimInv'
  BY ClosersExist, ClosersDiffer DEF TypeOK, VictimInv, CloseReturns, Sessions
<1>5. EntryIsAlive'
  BY DEF TypeOK, EntryIsAlive, Sessions
<1>6. SomeoneEndsIt'
  BY <1>1, ReturnsKeeps, CallsAssumption DEF TypeOK, SomeoneEndsIt, Sessions,
        BeingClosed
<1>7. NobodyParksForGood'
  BY <1>1, ReturnsKeeps, CallsAssumption DEF TypeOK, NobodyParksForGood,
        Sessions, BeingClosed
<1> QED BY <1>2, <1>3, <1>4, <1>5, <1>6, <1>7

\* The worker takes the session over from its creator.
LEMMA StartWorkerInv ==
  ASSUME Inv, NEW c \in Calls, StartWorker(c)
  PROVE  Inv'
<1> USE DEF Inv, StartWorker, mapVars, sessVars, connVars, termVars, endVars,
      CallGoes, WorkerGoes
<1>1. TypeOK'
  BY DEF TypeOK, CallPcs, WorkerPcs, Sessions
<1>2. OwnerInv'
  BY CallsAssumption DEF TypeOK, OwnerInv, EntryIsAlive, Sessions
<1>3. VictimInv'
  BY DEF TypeOK, VictimInv, Sessions, OwnerInv
<1>4. EntryIsAlive'
  BY DEF TypeOK, EntryIsAlive, Sessions
<1>5. SomeoneEndsIt'
  BY CallsAssumption DEF TypeOK, SomeoneEndsIt, Sessions, BeingClosed,
        OwnerInv
<1>6. NobodyParksForGood'
  BY CallsAssumption DEF TypeOK, NobodyParksForGood, Sessions, BeingClosed,
        OwnerInv
<1> QED BY <1>1, <1>2, <1>3, <1>4, <1>5, <1>6

\* The goroutine of a failed Open ends when its victim is gone.
LEMMA CleanupClosedInv ==
  ASSUME Inv, NEW c \in Calls, CleanupClosed(c)
  PROVE  Inv'
<1> USE DEF Inv, CleanupClosed, mapVars, sessVars, connVars, callVars,
      termVars, endVars
<1>1. Cleanup(c) \in Closers
  BY ClosersExist DEF Sessions
<1>2. TypeOK'
  BY <1>1, ReturnsKeeps DEF TypeOK, Sessions
<1>3. OwnerInv'
  BY CallsAssumption DEF TypeOK, OwnerInv, EntryIsAlive, Sessions
<1>4. VictimInv'
  BY ClosersExist, ClosersDiffer DEF TypeOK, VictimInv, CloseReturns, Sessions
<1>5. EntryIsAlive'
  BY DEF TypeOK, EntryIsAlive, Sessions
<1>6. SomeoneEndsIt'
  BY <1>1, ReturnsKeeps, CallsAssumption DEF TypeOK, SomeoneEndsIt, Sessions,
        BeingClosed
<1>7. NobodyParksForGood'
  BY <1>1, ReturnsKeeps, CallsAssumption DEF TypeOK, NobodyParksForGood,
        Sessions, BeingClosed
<1> QED BY <1>2, <1>3, <1>4, <1>5, <1>6, <1>7

\* The worker leaves its loop only for Destroy or on a closed session.
LEMMA WorkerCheckInv ==
  ASSUME Inv, NEW s \in Sessions, WorkerCheck(s)
  PROVE  Inv'
<1> USE DEF Inv, WorkerCheck, mapVars, sessVars, connVars, callVars, termVars,
      endVars, WorkerGoes
<1>1. TypeOK'
  BY DEF TypeOK, WorkerPcs, Sessions
<1>2. OwnerInv'
  BY CallsAssumption DEF TypeOK, OwnerInv, EntryIsAlive, Sessions
<1>3. VictimInv'
  BY DEF TypeOK, VictimInv, Sessions
<1>4. EntryIsAlive'
  BY DEF TypeOK, EntryIsAlive, Sessions
<1>5. SomeoneEndsIt'
  BY CallsAssumption DEF TypeOK, SomeoneEndsIt, Sessions, BeingClosed
<1>6. NobodyParksForGood'
  BY CallsAssumption DEF TypeOK, NobodyParksForGood, Sessions, BeingClosed,
        SomeoneEndsIt
<1> QED BY <1>1, <1>2, <1>3, <1>4, <1>5, <1>6

\* The worker takes a track, or finds its session closed.
LEMMA WaitDequeueInv ==
  ASSUME Inv, NEW s \in Sessions, WaitDequeue(s)
  PROVE  Inv'
<1> USE DEF Inv, WaitDequeue, mapVars, connVars, callVars, termVars, endVars,
      WorkerGoes
<1>1. TypeOK'
  BY QueueCapAssumption DEF TypeOK, WorkerPcs, Sessions
<1>2. OwnerInv'
  BY CallsAssumption DEF TypeOK, OwnerInv, EntryIsAlive, Sessions
<1>3. VictimInv'
  BY DEF TypeOK, VictimInv, Sessions
<1>4. EntryIsAlive'
  BY DEF TypeOK, EntryIsAlive, Sessions
<1>5. SomeoneEndsIt'
  BY CallsAssumption DEF TypeOK, SomeoneEndsIt, Sessions, BeingClosed
<1>6. NobodyParksForGood'
  BY CallsAssumption DEF TypeOK, NobodyParksForGood, Sessions, BeingClosed
<1> QED BY <1>1, <1>2, <1>3, <1>4, <1>5, <1>6

\* The worker goes back to its test.
LEMMA TrackEndsInv ==
  ASSUME Inv, NEW s \in Sessions, TrackEnds(s)
  PROVE  Inv'
<1> USE DEF Inv, TrackEnds, mapVars, sessVars, connVars, callVars, termVars,
      endVars, WorkerGoes
<1>1. TypeOK'
  BY DEF TypeOK, WorkerPcs, Sessions
<1>2. OwnerInv'
  BY CallsAssumption DEF TypeOK, OwnerInv, EntryIsAlive, Sessions
<1>3. VictimInv'
  BY DEF TypeOK, VictimInv, Sessions
<1>4. EntryIsAlive'
  BY DEF TypeOK, EntryIsAlive, Sessions
<1>5. SomeoneEndsIt'
  BY CallsAssumption DEF TypeOK, SomeoneEndsIt, Sessions, BeingClosed
<1>6. NobodyParksForGood'
  BY CallsAssumption DEF TypeOK, NobodyParksForGood, Sessions, BeingClosed
<1> QED BY <1>1, <1>2, <1>3, <1>4, <1>5, <1>6

\* The worker leaves its session to Destroy, or to its closer.
LEMMA WorkerDestroysInv ==
  ASSUME Inv, NEW s \in Sessions, WorkerDestroys(s)
  PROVE  Inv'
<1> USE DEF Inv, WorkerDestroys, mapVars, sessVars, connVars, callVars,
      termVars, endVars, WorkerGoes
<1>1. victim[Worker(s)] = NoSession /\ Worker(s) \in Closers
  BY ClosersExist DEF VictimInv, Sessions
<1>2. TypeOK'
  BY <1>1, FindsKeeps DEF TypeOK, WorkerPcs, Sessions, DestroyMisses
<1>3. OwnerInv'
  BY CallsAssumption DEF TypeOK, OwnerInv, EntryIsAlive, Sessions
<1>4. VictimInv'
  BY ClosersExist, ClosersDiffer DEF TypeOK, VictimInv, DestroyFinds,
        Sessions, DestroyMisses
<1>5. EntryIsAlive'
  BY DEF TypeOK, EntryIsAlive, Sessions
<1>6. SomeoneEndsIt'
  BY <1>1, FindsKeeps, CallsAssumption DEF TypeOK, SomeoneEndsIt, Sessions,
        DestroyMisses, BeingClosed
<1>7. NobodyParksForGood'
  BY <1>1, FindsKeeps, CallsAssumption DEF TypeOK, NobodyParksForGood,
        Sessions, DestroyMisses, BeingClosed
<1> QED BY <1>2, <1>3, <1>4, <1>5, <1>6, <1>7

\* The worker exits when its victim is gone.
LEMMA WorkerClosedInv ==
  ASSUME Inv, NEW s \in Sessions, WorkerClosed(s)
  PROVE  Inv'
<1> USE DEF Inv, WorkerClosed, mapVars, sessVars, connVars, callVars,
      termVars, endVars, WorkerGoes
<1>1. Worker(s) \in Closers
  BY ClosersExist DEF Sessions
<1>2. TypeOK'
  BY <1>1, ReturnsKeeps DEF TypeOK, WorkerPcs, Sessions
<1>3. OwnerInv'
  BY CallsAssumption DEF TypeOK, OwnerInv, EntryIsAlive, Sessions
<1>4. VictimInv'
  BY ClosersExist, ClosersDiffer DEF TypeOK, VictimInv, CloseReturns, Sessions
<1>5. EntryIsAlive'
  BY DEF TypeOK, EntryIsAlive, Sessions
<1>6. SomeoneEndsIt'
  BY <1>1, ReturnsKeeps, CallsAssumption DEF TypeOK, SomeoneEndsIt, Sessions,
        BeingClosed
<1>7. NobodyParksForGood'
  BY <1>1, ReturnsKeeps, CallsAssumption DEF TypeOK, NobodyParksForGood,
        Sessions, BeingClosed
<1> QED BY <1>2, <1>3, <1>4, <1>5, <1>6, <1>7

\* A /dterm that reads the entry holds a session, or is done.
LEMMA TermGetsInv ==
  ASSUME Inv, NEW t \in Terms, TermGets(t)
  PROVE  Inv'
<1> USE DEF Inv, TermGets, mapVars, sessVars, connVars, callVars, endVars,
      TermGoes
<1>1. TypeOK'
  BY DEF TypeOK, TermPcs, Sessions
<1>2. OwnerInv'
  BY CallsAssumption DEF TypeOK, OwnerInv, EntryIsAlive, Sessions
<1>3. VictimInv'
  BY DEF TypeOK, VictimInv, Sessions
<1>4. EntryIsAlive'
  BY DEF TypeOK, EntryIsAlive, Sessions
<1>5. SomeoneEndsIt'
  BY CallsAssumption DEF TypeOK, SomeoneEndsIt, Sessions, BeingClosed
<1>6. NobodyParksForGood'
  BY CallsAssumption DEF TypeOK, NobodyParksForGood, Sessions, BeingClosed
<1> QED BY <1>1, <1>2, <1>3, <1>4, <1>5, <1>6

\* A /dterm that empties a queue is about to destroy.
LEMMA ClearQueueInv ==
  ASSUME Inv, NEW t \in Terms, ClearQueue(t)
  PROVE  Inv'
<1> USE DEF Inv, ClearQueue, mapVars, connVars, callVars, endVars, TermGoes
<1>1. TypeOK'
  BY QueueCapAssumption DEF TypeOK, TermPcs, Sessions, OwnerInv
<1>2. OwnerInv'
  BY CallsAssumption DEF TypeOK, OwnerInv, EntryIsAlive, Sessions
<1>3. VictimInv'
  BY DEF TypeOK, VictimInv, Sessions
<1>4. EntryIsAlive'
  BY DEF TypeOK, EntryIsAlive, Sessions
<1>5. SomeoneEndsIt'
  BY CallsAssumption DEF TypeOK, SomeoneEndsIt, Sessions, BeingClosed
<1>6. NobodyParksForGood'
  BY CallsAssumption DEF TypeOK, NobodyParksForGood, Sessions, BeingClosed,
        SomeoneEndsIt
<1> QED BY <1>1, <1>2, <1>3, <1>4, <1>5, <1>6

\* A /dterm closes what it finds: a worker parked on the queue it emptied is
\* being closed, or was already.
LEMMA TermDestroysInv ==
  ASSUME Inv, NEW t \in Terms, TermDestroys(t)
  PROVE  Inv'
<1> USE DEF Inv, TermDestroys, mapVars, sessVars, connVars, callVars, endVars,
      TermGoes
<1>1. victim[Term(t)] = NoSession /\ Term(t) \in Closers
  BY ClosersExist DEF VictimInv, Sessions
<1>2. TypeOK'
  BY <1>1, FindsKeeps DEF TypeOK, TermPcs, Sessions, DestroyMisses
<1>3. OwnerInv'
  BY CallsAssumption DEF TypeOK, OwnerInv, EntryIsAlive, Sessions
<1>4. VictimInv'
  BY ClosersExist, ClosersDiffer DEF TypeOK, VictimInv, DestroyFinds,
        Sessions, DestroyMisses
<1>5. EntryIsAlive'
  BY DEF TypeOK, EntryIsAlive, Sessions
<1>6. SomeoneEndsIt'
  BY <1>1, FindsKeeps, CallsAssumption DEF TypeOK, SomeoneEndsIt, Sessions,
        DestroyMisses, BeingClosed
<1>7. NobodyParksForGood'
  BY <1>1, FindsKeeps, CallsAssumption DEF TypeOK, NobodyParksForGood,
        Sessions, DestroyMisses, BeingClosed
<1> QED BY <1>2, <1>3, <1>4, <1>5, <1>6, <1>7

\* The /dterm returns when its victim is gone.
LEMMA TermClosedInv ==
  ASSUME Inv, NEW t \in Terms, TermClosed(t)
  PROVE  Inv'
<1> USE DEF Inv, TermClosed, mapVars, sessVars, connVars, callVars, endVars,
      TermGoes
<1>1. Term(t) \in Closers
  BY ClosersExist DEF Sessions
<1>2. TypeOK'
  BY <1>1, ReturnsKeeps DEF TypeOK, TermPcs, Sessions
<1>3. OwnerInv'
  BY CallsAssumption DEF TypeOK, OwnerInv, EntryIsAlive, Sessions
<1>4. VictimInv'
  BY ClosersExist, ClosersDiffer DEF TypeOK, VictimInv, CloseReturns, Sessions
<1>5. EntryIsAlive'
  BY DEF TypeOK, EntryIsAlive, Sessions
<1>6. SomeoneEndsIt'
  BY <1>1, ReturnsKeeps, CallsAssumption DEF TypeOK, SomeoneEndsIt, Sessions,
        BeingClosed
<1>7. NobodyParksForGood'
  BY <1>1, ReturnsKeeps, CallsAssumption DEF TypeOK, NobodyParksForGood,
        Sessions, BeingClosed
<1> QED BY <1>2, <1>3, <1>4, <1>5, <1>6, <1>7

\* A leave event closes what it finds.
LEMMA LeaveDestroysInv ==
  ASSUME Inv, NEW l \in Leaves, LeaveDestroys(l)
  PROVE  Inv'
<1> USE DEF Inv, LeaveDestroys, mapVars, sessVars, connVars, callVars,
      termVars
<1>1. victim[Leave(l)] = NoSession /\ Leave(l) \in Closers
  BY ClosersExist DEF VictimInv, Sessions
<1>2. TypeOK'
  BY <1>1, FindsKeeps DEF TypeOK, LeavePcs, Sessions, DestroyMisses
<1>3. OwnerInv'
  BY CallsAssumption DEF TypeOK, OwnerInv, EntryIsAlive, Sessions
<1>4. VictimInv'
  BY ClosersExist, ClosersDiffer DEF TypeOK, VictimInv, DestroyFinds,
        Sessions, DestroyMisses
<1>5. EntryIsAlive'
  BY DEF TypeOK, EntryIsAlive, Sessions
<1>6. SomeoneEndsIt'
  BY <1>1, FindsKeeps, CallsAssumption DEF TypeOK, SomeoneEndsIt, Sessions,
        DestroyMisses, BeingClosed
<1>7. NobodyParksForGood'
  BY <1>1, FindsKeeps, CallsAssumption DEF TypeOK, NobodyParksForGood,
        Sessions, DestroyMisses, BeingClosed
<1> QED BY <1>2, <1>3, <1>4, <1>5, <1>6, <1>7

\* The leave event returns when its victim is gone.
LEMMA LeaveClosedInv ==
  ASSUME Inv, NEW l \in Leaves, LeaveClosed(l)
  PROVE  Inv'
<1> USE DEF Inv, LeaveClosed, mapVars, sessVars, connVars, callVars, termVars
<1>1. Leave(l) \in Closers
  BY ClosersExist DEF Sessions
<1>2. TypeOK'
  BY <1>1, ReturnsKeeps DEF TypeOK, LeavePcs, Sessions
<1>3. OwnerInv'
  BY CallsAssumption DEF TypeOK, OwnerInv, EntryIsAlive, Sessions
<1>4. VictimInv'
  BY ClosersExist, ClosersDiffer DEF TypeOK, VictimInv, CloseReturns, Sessions
<1>5. EntryIsAlive'
  BY DEF TypeOK, EntryIsAlive, Sessions
<1>6. SomeoneEndsIt'
  BY <1>1, ReturnsKeeps, CallsAssumption DEF TypeOK, SomeoneEndsIt, Sessions,
        BeingClosed
<1>7. NobodyParksForGood'
  BY <1>1, ReturnsKeeps, CallsAssumption DEF TypeOK, NobodyParksForGood,
        Sessions, BeingClosed
<1> QED BY <1>2, <1>3, <1>4, <1>5, <1>6, <1>7

\* The shutdown closes what its snapshot holds.
LEMMA ShutdownSnapshotsInv ==
  ASSUME Inv, ShutdownSnapshots
  PROVE  Inv'
<1> USE DEF Inv, ShutdownSnapshots, mapVars, sessVars, connVars, callVars,
      termVars
<1>1. victim[Shutdown] = NoSession /\ Shutdown \in Closers
  BY ClosersExist DEF VictimInv, Sessions
<1>2. TypeOK'
  BY <1>1, FindsKeeps DEF TypeOK, MainPcs, Sessions, DestroyMisses
<1>3. OwnerInv'
  BY CallsAssumption DEF TypeOK, OwnerInv, EntryIsAlive, Sessions
<1>4. VictimInv'
  BY ClosersExist, ClosersDiffer DEF TypeOK, VictimInv, DestroyFinds,
        Sessions, DestroyMisses
<1>5. EntryIsAlive'
  BY DEF TypeOK, EntryIsAlive, Sessions
<1>6. SomeoneEndsIt'
  BY <1>1, FindsKeeps, CallsAssumption DEF TypeOK, SomeoneEndsIt, Sessions,
        DestroyMisses, BeingClosed
<1>7. NobodyParksForGood'
  BY <1>1, FindsKeeps, CallsAssumption DEF TypeOK, NobodyParksForGood,
        Sessions, DestroyMisses, BeingClosed
<1> QED BY <1>2, <1>3, <1>4, <1>5, <1>6, <1>7

\* The shutdown returns when its victim is gone.
LEMMA ShutdownClosedInv ==
  ASSUME Inv, ShutdownClosed
  PROVE  Inv'
<1> USE DEF Inv, ShutdownClosed, mapVars, sessVars, connVars, callVars,
      termVars
<1>1. Shutdown \in Closers
  BY ClosersExist DEF Sessions
<1>2. TypeOK'
  BY <1>1, ReturnsKeeps DEF TypeOK, MainPcs, Sessions
<1>3. OwnerInv'
  BY CallsAssumption DEF TypeOK, OwnerInv, EntryIsAlive, Sessions
<1>4. VictimInv'
  BY ClosersExist, ClosersDiffer DEF TypeOK, VictimInv, CloseReturns, Sessions
<1>5. EntryIsAlive'
  BY DEF TypeOK, EntryIsAlive, Sessions
<1>6. SomeoneEndsIt'
  BY <1>1, ReturnsKeeps, CallsAssumption DEF TypeOK, SomeoneEndsIt, Sessions,
        BeingClosed
<1>7. NobodyParksForGood'
  BY <1>1, ReturnsKeeps, CallsAssumption DEF TypeOK, NobodyParksForGood,
        Sessions, BeingClosed
<1> QED BY <1>2, <1>3, <1>4, <1>5, <1>6, <1>7

\* A session in Close is open no more.
LEMMA BeginCloseInv ==
  ASSUME Inv, NEW s \in Sessions, BeginClose(s)
  PROVE  Inv'
<1> USE DEF Inv, BeginClose, mapVars, connVars, callVars, termVars, endVars
<1>1. TypeOK'
  BY QueueCapAssumption DEF TypeOK, Phases, Sessions
<1>2. OwnerInv'
  BY CallsAssumption DEF TypeOK, OwnerInv, EntryIsAlive, Sessions
<1>3. VictimInv'
  BY DEF TypeOK, VictimInv, Sessions
<1>4. EntryIsAlive'
  BY DEF TypeOK, EntryIsAlive, Sessions
<1>5. SomeoneEndsIt'
  BY CallsAssumption DEF TypeOK, SomeoneEndsIt, Sessions, BeingClosed
<1>6. NobodyParksForGood'
  BY CallsAssumption DEF TypeOK, NobodyParksForGood, Sessions, BeingClosed
<1> QED BY <1>1, <1>2, <1>3, <1>4, <1>5, <1>6

\* beforeClose leaves the manager alone.
LEMMA BeforeCloseInv ==
  ASSUME Inv, NEW s \in Sessions, BeforeClose(s)
  PROVE  Inv'
<1> USE DEF Inv, BeforeClose, mapVars, callVars, termVars, endVars
<1>1. TypeOK'
  BY DEF TypeOK, Phases, Sessions
<1>2. OwnerInv'
  BY CallsAssumption DEF TypeOK, OwnerInv, EntryIsAlive, Sessions
<1>3. VictimInv'
  BY DEF TypeOK, VictimInv, Sessions
<1>4. EntryIsAlive'
  BY DEF TypeOK, EntryIsAlive, Sessions
<1>5. SomeoneEndsIt'
  BY CallsAssumption DEF TypeOK, SomeoneEndsIt, Sessions, BeingClosed
<1>6. NobodyParksForGood'
  BY CallsAssumption DEF TypeOK, NobodyParksForGood, Sessions, BeingClosed
<1> QED BY <1>1, <1>2, <1>3, <1>4, <1>5, <1>6

\* Closing the connection leaves the manager alone.
LEMMA CloseConnInv ==
  ASSUME Inv, NEW s \in Sessions, CloseConn(s)
  PROVE  Inv'
<1> USE DEF Inv, CloseConn, mapVars, callVars, termVars, endVars
<1>1. TypeOK'
  BY DEF TypeOK, Phases, Sessions
<1>2. OwnerInv'
  BY CallsAssumption DEF TypeOK, OwnerInv, EntryIsAlive, Sessions
<1>3. VictimInv'
  BY DEF TypeOK, VictimInv, Sessions
<1>4. EntryIsAlive'
  BY DEF TypeOK, EntryIsAlive, Sessions
<1>5. SomeoneEndsIt'
  BY CallsAssumption DEF TypeOK, SomeoneEndsIt, Sessions, BeingClosed
<1>6. NobodyParksForGood'
  BY CallsAssumption DEF TypeOK, NobodyParksForGood, Sessions, BeingClosed
<1> QED BY <1>1, <1>2, <1>3, <1>4, <1>5, <1>6

\* remove takes out a session that is gone, and no other.
LEMMA RemoveInv ==
  ASSUME Inv, NEW s \in Sessions, Remove(s)
  PROVE  Inv'
<1> USE DEF Inv, Remove, connVars, callVars, termVars, endVars
<1>1. TypeOK'
  BY DEF TypeOK, Phases, Sessions
<1>2. OwnerInv'
  BY CallsAssumption DEF TypeOK, OwnerInv, EntryIsAlive, Sessions
<1>3. VictimInv'
  BY DEF TypeOK, VictimInv, Sessions
<1>4. EntryIsAlive'
  BY CallsAssumption DEF TypeOK, EntryIsAlive, Sessions
<1>5. SomeoneEndsIt'
  BY CallsAssumption DEF TypeOK, SomeoneEndsIt, Sessions, BeingClosed
<1>6. NobodyParksForGood'
  BY CallsAssumption DEF TypeOK, NobodyParksForGood, Sessions, BeingClosed
<1> QED BY <1>1, <1>2, <1>3, <1>4, <1>5, <1>6

----------------------------------------------------------------------------
\* A stuttering step changes nothing.
LEMMA StutterInv ==
  ASSUME Inv, UNCHANGED vars
  PROVE  Inv'
<1> USE DEF vars, mapVars, sessVars, connVars, callVars, termVars, endVars
<1>1. TypeOK'
  BY DEF Inv, TypeOK
<1>2. OwnerInv' /\ VictimInv' /\ EntryIsAlive'
  BY DEF Inv, OwnerInv, VictimInv, EntryIsAlive
<1>3. SomeoneEndsIt' /\ NobodyParksForGood'
  BY DEF Inv, SomeoneEndsIt, NobodyParksForGood, BeingClosed
<1> QED BY <1>1, <1>2, <1>3 DEF Inv

\* Inv holds initially.
LEMMA InitInv == Init => Inv
<1> SUFFICES ASSUME Init PROVE Inv
  OBVIOUS
<1>1. TypeOK
  BY QueueCapAssumption DEF Init, TypeOK, Phases, CallPcs, WorkerPcs, TermPcs,
      LeavePcs, MainPcs
<1>2. OwnerInv /\ EntryIsAlive
  BY CallsAssumption DEF Init, OwnerInv, EntryIsAlive, Sessions
<1>3. VictimInv
  BY ClosersExist DEF Init, VictimInv
<1>4. SomeoneEndsIt /\ NobodyParksForGood
  BY DEF Init, SomeoneEndsIt, NobodyParksForGood
<1> QED BY <1>1, <1>2, <1>3, <1>4 DEF Inv

\* Every step of the guild keeps Inv.
LEMMA NextInv == Inv /\ [Next]_vars => Inv'
<1> SUFFICES ASSUME Inv, [Next]_vars PROVE Inv'
  OBVIOUS
<1>1. ASSUME NEW c \in Calls, CallGets(c) \/ CallStep(c) \/ CleanupClosed(c)
      PROVE  Inv'
  BY <1>1, CallGetsInv, ResolveInv, CreateConnInv, CreateInv,
     OpenSucceedsInv, OpenFailsInv, DetachInv, EnqueueInv, CallDestroysInv,
     CallClosedInv, StartWorkerInv, CleanupClosedInv
     DEF CallStep
<1>2. ASSUME NEW s \in Sessions, WorkerStep(s) \/ TrackEnds(s) \/ CloseStep(s)
      PROVE  Inv'
  BY <1>2, WorkerCheckInv, WaitDequeueInv, TrackEndsInv, WorkerDestroysInv,
     WorkerClosedInv, BeginCloseInv, BeforeCloseInv, CloseConnInv, RemoveInv
     DEF WorkerStep, CloseStep
<1>3. ASSUME NEW t \in Terms, TermGets(t) \/ TermStep(t)
      PROVE  Inv'
  BY <1>3, TermGetsInv, ClearQueueInv, TermDestroysInv, TermClosedInv
     DEF TermStep
<1>4. ASSUME NEW l \in Leaves, LeaveDestroys(l) \/ LeaveClosed(l)
      PROVE  Inv'
  BY <1>4, LeaveDestroysInv, LeaveClosedInv
<1>5. CASE ShutdownSnapshots \/ ShutdownClosed
  BY <1>5, ShutdownSnapshotsInv, ShutdownClosedInv
<1>6. CASE Finished
  BY <1>6, StutterInv DEF Finished
<1>7. CASE UNCHANGED vars
  BY <1>7, StutterInv
<1> QED BY <1>1, <1>2, <1>3, <1>4, <1>5, <1>6, <1>7 DEF Next

\* The invariant of the guild: Inv holds in every reachable state.
THEOREM GuildInvariant == SafetySpec => []Inv
<1> QED BY InitInv, NextInv, PTL DEF SafetySpec

\* Every variable of the manager's model stays in its range.
THEOREM ManagerTypeCorrect == SafetySpec => []TypeOK
<1>1. Inv => TypeOK
  BY DEF Inv
<1> QED BY <1>1, GuildInvariant, PTL

\* No session is left open with nobody to end it.
THEOREM NoZombieSession == SafetySpec => []SomeoneEndsIt
<1>1. Inv => SomeoneEndsIt
  BY DEF Inv
<1> QED BY <1>1, GuildInvariant, PTL

\* A worker parks only where somebody is about to wake it.
THEOREM NoParkedWorker == SafetySpec => []NobodyParksForGood
<1>1. Inv => NobodyParksForGood
  BY DEF Inv
<1> QED BY <1>1, GuildInvariant, PTL

\* Manager.Get never hands out a session that is already gone.
THEOREM RegisteredSessionIsAlive == SafetySpec => []EntryIsAlive
<1>1. Inv => EntryIsAlive
  BY DEF Inv
<1> QED BY <1>1, GuildInvariant, PTL

\* The guild is freed only by the end of its session, or by the cleanup that
\* takes the session over: no late remove frees it under a newer session.
THEOREM GuildIsFreedInTurn == SafetySpec => GuildFreedInTurn
<1> DEFINE Freed ==
      entry # NoSession /\ entry' # entry =>
        \/ phase'[entry] = "gone"
        \/ \E c \in Calls : victim'[Cleanup(c)] = entry
<1> USE DEF mapVars, sessVars, connVars, callVars, termVars, endVars
<1>1. ASSUME TypeOK, NEW c \in Calls,
             CallGets(c) \/ CallStep(c) \/ CleanupClosed(c)
      PROVE  Freed
  <2>1. CASE Detach(c)
    BY <1>1, <2>1, ClosersExist
       DEF TypeOK, Detach, DestroyFinds, DestroyMisses
  <2>2. CASE Create(c)
    BY <2>2 DEF Create
  <2>3. CASE ~Detach(c) /\ ~Create(c)
    BY <1>1, <2>3 DEF CallGets, CallStep, CleanupClosed, Resolve, CreateConn,
       OpenSucceeds, OpenFails, Enqueue, CallDestroys, CallClosed, StartWorker
  <2> QED BY <2>1, <2>2, <2>3
<1>2. ASSUME TypeOK, NEW s \in Sessions,
             WorkerStep(s) \/ TrackEnds(s) \/ CloseStep(s)
      PROVE  Freed
  <2>1. CASE Remove(s)
    BY <1>2, <2>1 DEF TypeOK, Remove
  <2>2. CASE ~Remove(s)
    BY <1>2, <2>2 DEF WorkerStep, CloseStep, WorkerCheck, WaitDequeue,
       TrackEnds, WorkerDestroys, WorkerClosed, BeginClose, BeforeClose,
       CloseConn
  <2> QED BY <2>1, <2>2
<1>3. ASSUME NEW t \in Terms, TermGets(t) \/ TermStep(t)
      PROVE  Freed
  BY <1>3 DEF TermGets, TermStep, ClearQueue, TermDestroys, TermClosed
<1>4. ASSUME NEW l \in Leaves, LeaveDestroys(l) \/ LeaveClosed(l)
      PROVE  Freed
  BY <1>4 DEF LeaveDestroys, LeaveClosed
<1>5. ASSUME ShutdownSnapshots \/ ShutdownClosed \/ Finished
      PROVE  Freed
  BY <1>5 DEF ShutdownSnapshots, ShutdownClosed, Finished, vars
<1>6. Inv /\ [Next]_vars => [Freed]_vars
  BY <1>1, <1>2, <1>3, <1>4, <1>5 DEF Next, Inv
<1> QED BY <1>6, GuildInvariant, PTL DEF SafetySpec, GuildFreedInTurn

----------------------------------------------------------------------------
(***************************************************************************)
(* Whoever is in Close, and that nobody waits there for good.              *)
(***************************************************************************)
\* Nobody is in Close initially.
LEMMA InitCloser == Init => CloserInv
BY DEF Init, CloserInv, Sessions

\* The session that a closer finds has been created.
LEMMA FindsCreated ==
  ASSUME Inv, CloserInv, NEW d \in Closers, DestroyFinds(d)
  PROVE  /\ \A e \in Closers : victim'[e] = IF e = d THEN entry ELSE victim[e]
         /\ \A e \in Closers :
              victim'[e] # NoSession => phase[victim'[e]] # "none"
BY DEF Inv, TypeOK, EntryIsAlive, DestroyFinds, CloserInv

\* A closer that returns leaves the other ones where they are.
LEMMA ReturnsCreated ==
  ASSUME Inv, CloserInv, NEW d \in Closers, CloseReturns(d)
  PROVE  /\ \A e \in Closers : victim'[e] = IF e = d THEN NoSession ELSE victim[e]
         /\ \A e \in Closers :
              victim'[e] # NoSession => phase[victim'[e]] # "none"
BY DEF Inv, TypeOK, CloseReturns, CloserInv

\* Every step of a call keeps CloserInv: the one that gives the entry to a
\* session finds its worker unborn.
LEMMA CallKeepsCloser ==
  ASSUME Inv, CloserInv, NEW c \in Calls,
         CallGets(c) \/ CallStep(c) \/ CleanupClosed(c)
  PROVE  CloserInv'
<1> USE DEF Inv, TypeOK, Sessions, mapVars, sessVars
<1>1. CASE Create(c)
  BY <1>1, CallsAssumption, ClosersExist DEF Create, OwnerInv, CloserInv
<1>2. CASE Detach(c)
  BY <1>2, ClosersExist, ClosersDiffer, FindsCreated, CallsAssumption
     DEF Detach, DestroyMisses, CloserInv
<1>3. CASE CallDestroys(c)
  BY <1>3, ClosersExist, ClosersDiffer, FindsCreated
     DEF CallDestroys, DestroyMisses, CloserInv
<1>4. CASE CallClosed(c)
  BY <1>4, ClosersExist, ClosersDiffer, ReturnsCreated
     DEF CallClosed, CloserInv
<1>5. CASE CleanupClosed(c)
  BY <1>5, ClosersExist, ClosersDiffer, ReturnsCreated
     DEF CleanupClosed, CloserInv
<1>6. CASE StartWorker(c)
  BY <1>6 DEF StartWorker, WorkerGoes, CloserInv
<1>7. CASE CallGets(c) \/ Resolve(c) \/ CreateConn(c) \/ OpenSucceeds(c)
             \/ OpenFails(c) \/ Enqueue(c)
  BY <1>7 DEF CallGets, Resolve, CreateConn, OpenSucceeds, OpenFails, Enqueue,
     CloserInv
<1> QED BY <1>1, <1>2, <1>3, <1>4, <1>5, <1>6, <1>7 DEF CallStep

\* Every step of a worker and of Close keeps CloserInv.
LEMMA SessionKeepsCloser ==
  ASSUME Inv, CloserInv, NEW s \in Sessions,
         WorkerStep(s) \/ TrackEnds(s) \/ CloseStep(s)
  PROVE  CloserInv'
<1> USE DEF Inv, TypeOK, Sessions, mapVars, sessVars, WorkerGoes
<1>1. CASE WorkerDestroys(s)
  BY <1>1, ClosersExist, ClosersDiffer, FindsCreated, CallsAssumption
     DEF WorkerDestroys, DestroyFinds, DestroyMisses, CloserInv
<1>2. CASE WorkerClosed(s)
  BY <1>2, ClosersExist, ClosersDiffer, ReturnsCreated
     DEF WorkerClosed, CloserInv
<1>3. CASE WorkerCheck(s) \/ WaitDequeue(s) \/ TrackEnds(s)
  BY <1>3 DEF WorkerCheck, WaitDequeue, TrackEnds, CloserInv
<1>4. CASE CloseStep(s)
  BY <1>4, CallsAssumption DEF CloseStep, BeginClose, BeforeClose, CloseConn,
     Remove, CloserInv
<1> QED BY <1>1, <1>2, <1>3, <1>4 DEF WorkerStep

\* Every other step keeps CloserInv.
LEMMA OthersKeepCloser ==
  ASSUME Inv, CloserInv,
         \/ \E t \in Terms : TermGets(t) \/ TermStep(t)
         \/ \E l \in Leaves : LeaveDestroys(l) \/ LeaveClosed(l)
         \/ ShutdownSnapshots \/ ShutdownClosed \/ Finished \/ UNCHANGED vars
  PROVE  CloserInv'
<1>1. UNCHANGED <<entry, phase, worker>>
  BY DEF TermGets, TermStep, ClearQueue, TermDestroys, TermClosed,
     LeaveDestroys, LeaveClosed, ShutdownSnapshots, ShutdownClosed, Finished,
     vars, mapVars, sessVars
<1>2. \/ UNCHANGED victim
      \/ \E d \in Closers :
           /\ DestroyFinds(d) \/ CloseReturns(d)
           /\ \A s \in Sessions : d # Worker(s)
  BY ClosersExist, ClosersDiffer
     DEF TermGets, TermStep, ClearQueue, TermDestroys, TermClosed,
         LeaveDestroys, LeaveClosed, ShutdownSnapshots, ShutdownClosed,
         Finished, DestroyMisses, vars
<1>3. CASE UNCHANGED victim
  BY <1>1, <1>3 DEF CloserInv
<1>4. ASSUME NEW d \in Closers, DestroyFinds(d) \/ CloseReturns(d),
             \A s \in Sessions : d # Worker(s)
      PROVE  CloserInv'
  BY <1>1, <1>4, FindsCreated, ReturnsCreated, ClosersExist
     DEF CloserInv, Sessions
<1> QED BY <1>2, <1>3, <1>4

\* CloserInv holds in every reachable state.
LEMMA CloserInvariant == SafetySpec => []CloserInv
<1>1. Inv /\ CloserInv /\ [Next]_vars => CloserInv'
  BY CallKeepsCloser, SessionKeepsCloser, OthersKeepCloser DEF Next
<1> QED BY InitCloser, <1>1, GuildInvariant, PTL DEF SafetySpec

\* Whoever is in Close waits for a session that can get on, and for nobody
\* else: destroys, closes and the workers of a guild make no circle.
THEOREM GuildWaitsForNoone == SafetySpec => []RestsOnlyWhilePlaying
<1>1. Inv /\ CloserInv => RestsOnlyWhilePlaying
  <2> SUFFICES ASSUME Inv, CloserInv, ~SomebodyMoves
               PROVE  /\ \A d \in Closers : victim[d] = NoSession
                      /\ \A s \in Sessions :
                           \/ /\ phase[s] \in {"none", "gone"}
                              /\ worker[s] \in {"unborn", "exit"}
                           \/ /\ phase[s] = "open" /\ worker[s] = "play"
                              /\ entry = s
    BY DEF RestsOnlyWhilePlaying
  <2> USE DEF Inv, TypeOK, Sessions, SomebodyMoves
  <2>1. \A s \in Sessions :
          /\ phase[s] \in {"none", "open", "gone"}
          /\ phase[s] = "open" => ~BeingClosed(s)
    BY DEF CloseMoves, WorkerMoves, Phases
  <2>2. ASSUME NEW d \in Closers PROVE victim[d] = NoSession
    <3> SUFFICES ASSUME victim[d] # NoSession PROVE FALSE
      OBVIOUS
    <3>1. Returned(d)
      BY <2>1 DEF CloserInv, BeingClosed, Returned
    <3>2. \/ \E c \in Calls :
               d = Creator(c) \/ d = Worker(c) \/ d = Cleanup(c)
          \/ \E t \in Terms : d = Term(t)
          \/ \E l \in Leaves : d = Leave(l)
          \/ d = Shutdown
      BY DEF Closers, Creator, Worker, Cleanup, Term, Leave, Shutdown
    <3> QED
      BY <3>1, <3>2 DEF VictimInv, CallMoves, WorkerMoves, TermMoves
  <2>3. ASSUME NEW s \in Sessions, phase[s] = "open"
        PROVE  worker[s] = "play" /\ entry = s
    <3>1. /\ entry = s
          /\ \/ call[s] \in {"open", "detach", "enqueue", "destroy", "start"}
             \/ worker[s] \in {"check", "dequeue", "play", "destroy"}
      BY <2>1, <2>3 DEF SomeoneEndsIt
    <3>2. worker[s] \in {"dequeue", "play"}
      BY <3>1 DEF CallMoves, WorkerMoves
    <3>3. worker[s] # "dequeue"
      BY <2>1, <2>3 DEF WorkerMoves, TermMoves, NobodyParksForGood
    <3> QED BY <3>1, <3>2, <3>3
  <2>4. ASSUME NEW s \in Sessions, phase[s] # "open"
        PROVE  worker[s] \in {"unborn", "exit"}
    <3>1. worker[s] # "closing"
      BY <2>2, ClosersExist DEF CloserInv
    <3> QED BY <2>4, <3>1 DEF WorkerMoves, WorkerPcs
  <2> QED BY <2>1, <2>2, <2>3, <2>4
<1> QED BY <1>1, GuildInvariant, CloserInvariant, PTL

----------------------------------------------------------------------------
(***************************************************************************)
(* Whoever closes a session that is not its own has not left its own.      *)
(***************************************************************************)
\* A session once created stays created, and only a new one gets the guild.
Moves ==
  /\ \A s \in Sessions : phase[s] # "none" => phase'[s] # "none"
  /\ \/ entry' \in {entry, NoSession}
     \/ entry' \in Sessions /\ phase[entry'] = "none"

\* A closer that finds nobody new.
LEMMA AstrayKept ==
  ASSUME Moves, NEW d \in Closers, NEW s \in Sessions, Astray(d, s),
         victim'[d] \in {victim[d], NoSession}
  PROVE  Astray(d, s)'
BY CallsAssumption DEF Moves, Astray, Sessions

\* A closer that finds the guild's session: its own, or its own has lost the
\* guild.
LEMMA AstrayFound ==
  ASSUME TypeOK, NEW d \in Closers, NEW s \in Sessions, DestroyFinds(d),
         phase[s] # "none", UNCHANGED phase, entry' \in {entry, NoSession}
  PROVE  Astray(d, s)'
BY CallsAssumption DEF TypeOK, DestroyFinds, Astray, Sessions

\* What every step does to the sessions and to the entry.
LEMMA StepMoves ==
  ASSUME Inv, [Next]_vars PROVE Moves
<1> USE DEF mapVars, sessVars, Moves
<1>1. ASSUME NEW c \in Calls, CallGets(c) \/ CallStep(c) \/ CleanupClosed(c)
      PROVE  Moves
  <2>1. CASE Create(c)
    BY <2>1, CallsAssumption DEF Create, Inv, TypeOK, OwnerInv, Sessions
  <2>2. CASE ~Create(c)
    BY <1>1, <2>2 DEF CallGets, CallStep, CleanupClosed, Resolve, CreateConn,
       OpenSucceeds, OpenFails, Detach, Enqueue, CallDestroys, CallClosed,
       StartWorker
  <2> QED BY <2>1, <2>2
<1>2. ASSUME NEW s \in Sessions, WorkerStep(s) \/ TrackEnds(s)
      PROVE  Moves
  BY <1>2 DEF WorkerStep, WorkerCheck, WaitDequeue, TrackEnds, WorkerDestroys,
     WorkerClosed
<1>3. ASSUME NEW s \in Sessions, CloseStep(s)
      PROVE  Moves
  BY <1>3 DEF CloseStep, BeginClose, BeforeClose, CloseConn, Remove, Inv,
     TypeOK
<1>4. CASE \/ \E t \in Terms : TermGets(t) \/ TermStep(t)
           \/ \E l \in Leaves : LeaveDestroys(l) \/ LeaveClosed(l)
           \/ ShutdownSnapshots \/ ShutdownClosed \/ Finished
           \/ UNCHANGED vars
  BY <1>4 DEF TermGets, TermStep, ClearQueue, TermDestroys, TermClosed,
     LeaveDestroys, LeaveClosed, ShutdownSnapshots, ShutdownClosed, Finished,
     vars
<1> QED BY <1>1, <1>2, <1>3, <1>4 DEF Next

\* A step in which at most one closer, and no /dterm, finds a session.
LEMMA StrayKept ==
  ASSUME Inv, StrayInv, Moves, UNCHANGED termVars, NEW d \in Closers,
         \A t \in Terms : d # Term(t),
         \/ UNCHANGED victim \/ CloseReturns(d)
         \/ /\ DestroyFinds(d) /\ UNCHANGED phase
            /\ entry' \in {entry, NoSession}
            /\ \A c \in Calls : d \in {Creator(c), Worker(c), Cleanup(c)} =>
                                  phase[c] # "none"
  PROVE  StrayInv'
<1>1. /\ \A e \in Closers \ {d} : victim'[e] = victim[e]
      /\ \/ victim'[d] \in {victim[d], NoSession}
         \/ /\ DestroyFinds(d) /\ UNCHANGED phase
            /\ entry' \in {entry, NoSession}
            /\ \A c \in Calls : d \in {Creator(c), Worker(c), Cleanup(c)} =>
                                  phase[c] # "none"
  BY DEF Inv, TypeOK, CloseReturns, DestroyFinds
<1>2. ASSUME NEW c \in Calls, NEW e \in {Creator(c), Worker(c), Cleanup(c)}
      PROVE  Astray(e, c)'
  <2>1. e \in Closers /\ c \in Sessions /\ Astray(e, c)
    BY ClosersExist DEF StrayInv, Sessions
  <2>2. CASE victim'[e] \in {victim[e], NoSession}
    BY <2>1, <2>2, AstrayKept
  <2>3. CASE victim'[e] \notin {victim[e], NoSession}
    <3>1. e = d /\ DestroyFinds(e) /\ phase[c] # "none" /\ UNCHANGED phase
          /\ entry' \in {entry, NoSession}
      BY <1>1, <2>1, <2>3
    <3> QED BY <2>1, <3>1, AstrayFound DEF Inv
  <2> QED BY <2>2, <2>3
<1>3. ASSUME NEW t \in Terms, term[t] \in {"clear", "destroy", "closing"}
      PROVE  /\ termOf[t] # NoSession /\ phase'[termOf[t]] # "none"
             /\ Astray(Term(t), termOf[t])'
  <2>1. /\ termOf[t] \in Sessions /\ termOf[t] # NoSession
        /\ phase[termOf[t]] # "none" /\ Astray(Term(t), termOf[t])
        /\ Term(t) \in Closers \ {d} /\ termOf' = termOf
    BY <1>3, ClosersExist DEF StrayInv, Inv, TypeOK, termVars
  <2>2. phase'[termOf[t]] # "none"
    BY <2>1 DEF Moves
  <2>3. \A s \in Sessions : Astray(Term(t), s) => Astray(Term(t), s)'
    BY <1>1, <2>1, AstrayKept
  <2> QED BY <2>1, <2>2, <2>3 DEF Astray
<1> QED BY <1>2, <1>3 DEF StrayInv, termVars

\* The steps of everybody but the /dterm commands.
LEMMA OthersKeepStray ==
  ASSUME Inv, StrayInv, Moves,
         \/ \E c \in Calls : CallGets(c) \/ CallStep(c) \/ CleanupClosed(c)
         \/ \E s \in Sessions : WorkerStep(s) \/ TrackEnds(s) \/ CloseStep(s)
         \/ \E l \in Leaves : LeaveDestroys(l) \/ LeaveClosed(l)
         \/ ShutdownSnapshots \/ ShutdownClosed \/ Finished \/ UNCHANGED vars
  PROVE  StrayInv'
<1> USE DEF mapVars, sessVars
<1>1. ASSUME NEW c \in Calls,
             Detach(c) \/ CallDestroys(c) \/ CallClosed(c) \/ CleanupClosed(c)
      PROVE  StrayInv'
  <2>1. Detach(c) \/ CallDestroys(c) => phase[c] # "none"
    BY DEF Detach, CallDestroys, Inv, OwnerInv
  <2>2. CASE Detach(c) \/ CleanupClosed(c)
    <3>1. Cleanup(c) \in Closers /\ \A t \in Terms : Cleanup(c) # Term(t)
      BY ClosersExist, ClosersDiffer
    <3>2. \A e \in Calls :
            Cleanup(c) \in {Creator(e), Worker(e), Cleanup(e)} => e = c
      BY ClosersDiffer
    <3> QED
      BY <2>1, <2>2, <3>1, <3>2, StrayKept
         DEF Detach, CleanupClosed, DestroyMisses
  <2>3. CASE CallDestroys(c) \/ CallClosed(c)
    <3>1. Creator(c) \in Closers /\ \A t \in Terms : Creator(c) # Term(t)
      BY ClosersExist, ClosersDiffer
    <3>2. \A e \in Calls :
            Creator(c) \in {Creator(e), Worker(e), Cleanup(e)} => e = c
      BY ClosersDiffer
    <3> QED
      BY <2>1, <2>3, <3>1, <3>2, StrayKept
         DEF CallDestroys, CallClosed, DestroyMisses
  <2> QED BY <1>1, <2>2, <2>3
<1>2. ASSUME NEW s \in Sessions, WorkerDestroys(s) \/ WorkerClosed(s)
      PROVE  StrayInv'
  <2>1. phase[s] # "none"
    BY <1>2 DEF WorkerDestroys, WorkerClosed, Inv, OwnerInv, Sessions
  <2>2. Worker(s) \in Closers /\ \A t \in Terms : Worker(s) # Term(t)
    BY ClosersExist, ClosersDiffer DEF Sessions
  <2>3. \A e \in Calls :
          Worker(s) \in {Creator(e), Worker(e), Cleanup(e)} => e = s
    BY ClosersDiffer
  <2> QED
    BY <1>2, <2>1, <2>2, <2>3, StrayKept
       DEF WorkerDestroys, WorkerClosed, DestroyMisses
<1>3. ASSUME NEW l \in Leaves, LeaveDestroys(l) \/ LeaveClosed(l)
      PROVE  StrayInv'
  <2>1. /\ Leave(l) \in Closers /\ \A t \in Terms : Leave(l) # Term(t)
        /\ \A e \in Calls : Leave(l) \notin {Creator(e), Worker(e), Cleanup(e)}
    BY ClosersExist, ClosersDiffer
  <2> QED
    BY <1>3, <2>1, StrayKept DEF LeaveDestroys, LeaveClosed, DestroyMisses
<1>4. /\ Shutdown \in Closers /\ \A t \in Terms : Shutdown # Term(t)
      /\ \A e \in Calls : Shutdown \notin {Creator(e), Worker(e), Cleanup(e)}
  BY ClosersExist, ClosersDiffer
<1>5. CASE ShutdownSnapshots \/ ShutdownClosed
  BY <1>4, <1>5, StrayKept DEF ShutdownSnapshots, ShutdownClosed, DestroyMisses
<1>6. CASE UNCHANGED victim /\ UNCHANGED termVars
  BY <1>4, <1>6, StrayKept
<1>7. \/ \E c \in Calls : Detach(c) \/ CallDestroys(c) \/ CallClosed(c)
                          \/ CleanupClosed(c)
      \/ \E s \in Sessions : WorkerDestroys(s) \/ WorkerClosed(s)
      \/ \E l \in Leaves : LeaveDestroys(l) \/ LeaveClosed(l)
      \/ ShutdownSnapshots \/ ShutdownClosed
      \/ UNCHANGED victim /\ UNCHANGED termVars
  BY DEF CallGets, CallStep, Resolve, CreateConn, Create, OpenSucceeds,
     OpenFails, Enqueue, StartWorker, WorkerStep, WorkerCheck, WaitDequeue,
     TrackEnds, CloseStep, BeginClose, BeforeClose, CloseConn, Remove,
     Finished, vars
<1> QED BY <1>1, <1>2, <1>3, <1>5, <1>6, <1>7

\* The steps of a /dterm: what it reads has been created, and what it finds
\* is that session, or that session has lost the guild.
LEMMA TermKeepsStray ==
  ASSUME Inv, StrayInv, Moves, NEW t \in Terms, TermGets(t) \/ TermStep(t)
  PROVE  StrayInv'
<1> USE DEF mapVars, sessVars, termVars, TermGoes
<1>1. /\ UNCHANGED <<entry, phase>> /\ Term(t) \in Closers
      /\ \A e \in Closers \ {Term(t)} : victim'[e] = victim[e]
      /\ \A u \in Terms \ {t} : term'[u] = term[u] /\ termOf'[u] = termOf[u]
  BY ClosersExist
     DEF TermGets, TermStep, ClearQueue, TermDestroys, TermClosed, Inv, TypeOK,
         DestroyFinds, DestroyMisses, CloseReturns
<1>2. \A c \in Calls : /\ Astray(Creator(c), c)' /\ Astray(Worker(c), c)'
                       /\ Astray(Cleanup(c), c)'
  <2>1. \A c \in Calls :
          /\ Creator(c) \in Closers \ {Term(t)}
          /\ Worker(c) \in Closers \ {Term(t)}
          /\ Cleanup(c) \in Closers \ {Term(t)}
    BY ClosersExist, ClosersDiffer
  <2>2. ASSUME NEW c \in Calls, NEW e \in Closers \ {Term(t)}, Astray(e, c)
        PROVE  Astray(e, c)'
    BY <1>1, <2>2 DEF Astray
  <2> QED BY <2>1, <2>2 DEF StrayInv
<1>3. ASSUME NEW u \in Terms \ {t}, term'[u] \in {"clear", "destroy", "closing"}
      PROVE  /\ termOf'[u] # NoSession /\ phase'[termOf'[u]] # "none"
             /\ Astray(Term(u), termOf[u])'
  <2>1. Term(u) \in Closers \ {Term(t)}
    BY ClosersExist, ClosersDiffer
  <2> QED BY <1>1, <1>3, <2>1 DEF StrayInv, Astray
<1>4. ASSUME term'[t] \in {"clear", "destroy", "closing"}
      PROVE  /\ termOf'[t] # NoSession /\ phase'[termOf'[t]] # "none"
             /\ Astray(Term(t), termOf[t])'
  <2>1. CASE TermGets(t)
    BY <1>1, <1>4, <2>1
       DEF TermGets, Inv, TypeOK, EntryIsAlive, VictimInv, Astray
  <2>2. CASE TermStep(t)
    <3>1. /\ termOf[t] # NoSession /\ termOf[t] \in Sessions
          /\ phase[termOf[t]] # "none" /\ Astray(Term(t), termOf[t])
          /\ UNCHANGED termOf
      BY <2>2 DEF TermStep, ClearQueue, TermDestroys, TermClosed, StrayInv,
                  Inv, TypeOK
    <3>2. \/ victim'[Term(t)] \in {victim[Term(t)], NoSession}
          \/ victim'[Term(t)] = entry
      BY <1>1, <2>2 DEF TermStep, ClearQueue, TermDestroys, TermClosed, Inv,
         TypeOK, DestroyFinds, DestroyMisses, CloseReturns
    <3> QED BY <1>1, <3>1, <3>2 DEF Astray
  <2> QED BY <2>1, <2>2
<1> QED BY <1>2, <1>3, <1>4 DEF StrayInv

\* StrayInv holds in every reachable state.
LEMMA StrayInvariant == SafetySpec => []StrayInv
<1>1. Init => StrayInv
  BY ClosersExist DEF Init, StrayInv, Astray
<1>2. Inv /\ StrayInv /\ [Next]_vars => StrayInv'
  <2> SUFFICES ASSUME Inv, StrayInv, [Next]_vars PROVE StrayInv'
    OBVIOUS
  <2>1. Moves
    BY StepMoves
  <2> QED BY <2>1, OthersKeepStray, TermKeepsStray DEF Next
<1> QED BY <1>1, <1>2, GuildInvariant, PTL DEF SafetySpec

\* A late destroy by guild id may hit another session than its caller's own,
\* but only when its own has begun to end or somebody is about to close it.
THEOREM NoSessionForgotten == SafetySpec => []DestroysOwnFirst
<1>1. Inv /\ StrayInv => DestroysOwnFirst
  <2> SUFFICES ASSUME Inv, StrayInv PROVE DestroysOwnFirst
    OBVIOUS
  <2>1. ASSUME NEW d \in Closers, NEW s \in Sessions, Astray(d, s)
        PROVE  LeavesNothing(d, s)
    BY <2>1 DEF Inv, SomeoneEndsIt, Astray, LeavesNothing
  <2>2. ASSUME NEW c \in Calls
        PROVE  \A d \in {Creator(c), Worker(c), Cleanup(c)} :
                 LeavesNothing(d, c)
    BY <2>1, ClosersExist DEF StrayInv, Sessions
  <2>3. ASSUME NEW t \in Terms
        PROVE  LeavesNothing(Term(t), termOf[t])
    <3>1. CASE term[t] = "closing"
      BY <2>1, <3>1, ClosersExist DEF StrayInv, Inv, TypeOK
    <3>2. CASE term[t] # "closing"
      BY <3>2 DEF Inv, VictimInv, LeavesNothing
    <3> QED BY <3>1, <3>2
  <2> QED BY <2>2, <2>3 DEF DestroysOwnFirst
<1> QED BY <1>1, GuildInvariant, StrayInvariant, PTL

----------------------------------------------------------------------------
(***************************************************************************)
(* Each session lives the life of SessionLife, whatever the other sessions *)
(* of the guild and the calls by guild id do.                              *)
(***************************************************************************)
\* A step that changes nothing of session r is none of its life.
LEMMA LifeStutters ==
  ASSUME NEW r \in Sessions,
         phase'[r] = phase[r], entry' = r <=> entry = r,
         waiting'[r] = waiting[r], worker'[r] = worker[r]
  PROVE  UNCHANGED Life(r)!vars
BY DEF Life!vars

\* Create gives life to one session, and takes none: the entry was empty.
LEMMA CreateLives ==
  ASSUME Inv, NEW c \in Calls, Create(c), NEW r \in Sessions
  PROVE  [Life(r)!Next]_(Life(r)!vars)
<1> USE DEF Inv, TypeOK, Sessions
<1>1. phase[c] = "none"
  BY DEF Create, OwnerInv
<1>2. CASE entry = NoSession /\ r = c
  BY <1>1, <1>2, CallsAssumption DEF Create, Life!Next, Life!Create
<1>3. CASE entry # NoSession \/ r # c
  BY <1>3, LifeStutters, CallsAssumption DEF Create
<1> QED BY <1>2, <1>3

\* Enqueue fills the queue of a session that is open and has room.
LEMMA EnqueueLives ==
  ASSUME Inv, NEW c \in Calls, Enqueue(c), NEW r \in Sessions
  PROVE  [Life(r)!Next]_(Life(r)!vars)
<1> USE DEF Inv, TypeOK, Sessions
<1>1. target[c] \in Sessions
  BY DEF Enqueue, OwnerInv
<1>2. CASE ~Refuses(target[c]) /\ r = target[c]
  <2>1. phase[r] = "open" /\ waiting[r] < QueueCap
    BY <1>2, QueueCapAssumption DEF Refuses
  <2>2. Life(r)!Enqueue
    BY <1>1, <1>2, <2>1 DEF Enqueue, Life!Enqueue, mapVars
  <2> QED BY <2>2 DEF Life!Next
<1>3. CASE Refuses(target[c]) \/ r # target[c]
  BY <1>1, <1>3, LifeStutters DEF Enqueue, mapVars
<1> QED BY <1>2, <1>3

\* The other steps of a call: Detach takes the entry from whoever has it.
LEMMA CallLives ==
  ASSUME Inv, NEW c \in Calls,
         CallGets(c) \/ CallStep(c) \/ CleanupClosed(c), NEW r \in Sessions
  PROVE  [Life(r)!Next]_(Life(r)!vars)
<1> USE DEF Inv, TypeOK, Sessions
<1>1. CASE Detach(c)
  <2>1. CASE entry = r
    BY <1>1, <2>1, CallsAssumption
       DEF Detach, Life!Next, Life!Detach, sessVars
  <2>2. CASE entry # r
    BY <1>1, <2>2, LifeStutters, CallsAssumption DEF Detach, sessVars
  <2> QED BY <2>1, <2>2
<1>2. CASE StartWorker(c)
  <2>1. worker[c] = "unborn"
    BY <1>2 DEF StartWorker, OwnerInv
  <2>2. CASE r = c
    BY <1>2, <2>1, <2>2
       DEF StartWorker, WorkerGoes, Life!Next, Life!WorkerStep,
           Life!WorkerGoes, mapVars, sessVars
  <2>3. CASE r # c
    BY <1>2, <2>3, LifeStutters
       DEF StartWorker, WorkerGoes, mapVars, sessVars
  <2> QED BY <2>2, <2>3
<1>3. CASE CallGets(c) \/ Resolve(c) \/ CreateConn(c) \/ OpenSucceeds(c)
             \/ OpenFails(c) \/ CallDestroys(c) \/ CallClosed(c)
             \/ CleanupClosed(c)
  BY <1>3, LifeStutters DEF CallGets, Resolve, CreateConn, OpenSucceeds,
     OpenFails, CallDestroys, CallClosed, CleanupClosed, mapVars, sessVars
<1> QED BY <1>1, <1>2, <1>3, CreateLives, EnqueueLives DEF CallStep

\* A worker: that its Destroy returned, or found nothing, means that its own
\* session has left the map, even when it closed another.
LEMMA WorkerLives ==
  ASSUME Inv, CloserInv, NEW s \in Sessions, WorkerStep(s) \/ TrackEnds(s)
  PROVE  [Life(s)!Next]_(Life(s)!vars)
<1> USE DEF Inv, TypeOK, Sessions, WorkerGoes, mapVars, sessVars
<1>1. CASE WorkerCheck(s)
  <2>1. Life(s)!Check
    BY <1>1 DEF WorkerCheck, Life!Check, Life!WorkerGoes, Phases
  <2> QED BY <2>1 DEF Life!Next, Life!WorkerStep
<1>2. CASE WaitDequeue(s)
  <2>1. Life(s)!Dequeue
    BY <1>2 DEF WaitDequeue, Life!Dequeue, Phases
  <2> QED BY <2>1 DEF Life!Next, Life!WorkerStep
<1>3. CASE TrackEnds(s)
  BY <1>3 DEF TrackEnds, Life!Next, Life!WorkerStep, Life!WorkerGoes
<1>4. CASE WorkerDestroys(s)
  <2>1. CASE DestroyMisses
    BY <1>4, <2>1, CallsAssumption
       DEF WorkerDestroys, DestroyFinds, DestroyMisses, Life!Next,
           Life!WorkerStep, Life!Destroyed, Life!WorkerGoes
  <2>2. CASE DestroyFinds(Worker(s))
    BY <1>4, <2>2 DEF WorkerDestroys, DestroyFinds, DestroyMisses, Life!vars
  <2> QED BY <1>4, <2>1, <2>2 DEF WorkerDestroys
<1>5. CASE WorkerClosed(s)
  <2>1. entry # s
    BY <1>5, CallsAssumption
       DEF WorkerClosed, CloseReturns, CloserInv, EntryIsAlive
  <2> QED BY <1>5, <2>1
       DEF WorkerClosed, Life!Next, Life!WorkerStep, Life!Destroyed,
           Life!WorkerGoes
<1> QED BY <1>1, <1>2, <1>3, <1>4, <1>5 DEF WorkerStep

\* Close of a session.
LEMMA ClosingLives ==
  ASSUME Inv, NEW s \in Sessions, CloseStep(s)
  PROVE  [Life(s)!Next]_(Life(s)!vars)
<1> USE DEF Inv, TypeOK, Sessions, mapVars
<1>1. CASE BeginClose(s)
  BY <1>1 DEF BeginClose, Life!Next, Life!BeginClose
<1>2. CASE BeforeClose(s)
  BY <1>2 DEF BeforeClose, Life!vars
<1>3. CASE CloseConn(s)
  BY <1>3 DEF CloseConn, Life!Next, Life!CloseConn
<1>4. CASE Remove(s)
  BY <1>4, CallsAssumption DEF Remove, Life!Next, Life!Remove
<1> QED BY <1>1, <1>2, <1>3, <1>4 DEF CloseStep

\* A step of one session's worker or Close is none of another's life.
LEMMA ApartLives ==
  ASSUME Inv, NEW s \in Sessions, WorkerStep(s) \/ TrackEnds(s) \/ CloseStep(s),
         NEW r \in Sessions, r # s
  PROVE  UNCHANGED Life(r)!vars
<1>1. /\ phase'[r] = phase[r] /\ waiting'[r] = waiting[r]
      /\ worker'[r] = worker[r]
  BY DEF Inv, TypeOK, Sessions, WorkerStep, WorkerCheck, WaitDequeue,
     TrackEnds, WorkerDestroys, WorkerClosed, CloseStep, BeginClose,
     BeforeClose, CloseConn, Remove, WorkerGoes, sessVars
<1>2. entry' = r <=> entry = r
  BY CallsAssumption DEF Sessions, WorkerStep, WorkerCheck, WaitDequeue,
     TrackEnds, WorkerDestroys, WorkerClosed, CloseStep, BeginClose,
     BeforeClose, CloseConn, Remove, mapVars
<1> QED BY <1>1, <1>2, LifeStutters

\* A /dterm, a leave event and the shutdown: only ClearQueue shows.
LEMMA OthersLives ==
  ASSUME Inv, NEW r \in Sessions,
         \/ \E t \in Terms : TermGets(t) \/ TermStep(t)
         \/ \E l \in Leaves : LeaveDestroys(l) \/ LeaveClosed(l)
         \/ ShutdownSnapshots \/ ShutdownClosed \/ Finished \/ UNCHANGED vars
  PROVE  [Life(r)!Next]_(Life(r)!vars)
<1>1. ASSUME NEW t \in Terms, ClearQueue(t)
      PROVE  [Life(r)!Next]_(Life(r)!vars)
  <2>1. CASE termOf[t] = r
    BY <1>1, <2>1 DEF Inv, TypeOK, ClearQueue, Life!Next, Life!Clear, mapVars
  <2>2. CASE termOf[t] # r
    BY <1>1, <2>2, LifeStutters DEF Inv, TypeOK, ClearQueue, mapVars
  <2> QED BY <2>1, <2>2
<1>2. ASSUME ~\E t \in Terms : ClearQueue(t)
      PROVE  UNCHANGED <<entry, phase, waiting, worker>>
  BY <1>2 DEF TermGets, TermStep, TermDestroys, TermClosed, LeaveDestroys,
     LeaveClosed, ShutdownSnapshots, ShutdownClosed, Finished, vars, mapVars,
     sessVars
<1> QED BY <1>1, <1>2, LifeStutters

\* Every session implements SessionLife, through every interleaving with the
\* other sessions of its guild: a Detach, a Destroy or a remove that was meant
\* for another session takes no step that Session does not take.
THEOREM SessionsImplementLife == SafetySpec => ImplementsLives
<1>1. Init => \A s \in Sessions : Life(s)!Init
  <2> SUFFICES ASSUME Init, NEW s \in Sessions PROVE Life(s)!Init
    OBVIOUS
  <2>1. /\ phase[s] = "none" /\ entry # s
        /\ waiting[s] = 0 /\ worker[s] = "unborn"
    BY CallsAssumption DEF Init, Sessions
  <2> QED BY <2>1 DEF Life!Init
<1>2. Inv /\ CloserInv /\ [Next]_vars =>
        \A s \in Sessions : [Life(s)!Next]_(Life(s)!vars)
  <2> SUFFICES ASSUME Inv, CloserInv, [Next]_vars, NEW r \in Sessions
               PROVE  [Life(r)!Next]_(Life(r)!vars)
    OBVIOUS
  <2>1. ASSUME NEW c \in Calls, CallGets(c) \/ CallStep(c) \/ CleanupClosed(c)
        PROVE  [Life(r)!Next]_(Life(r)!vars)
    BY <2>1, CallLives
  <2>2. ASSUME NEW s \in Sessions, WorkerStep(s) \/ TrackEnds(s) \/ CloseStep(s)
        PROVE  [Life(r)!Next]_(Life(r)!vars)
    BY <2>2, WorkerLives, ClosingLives, ApartLives
  <2>3. CASE \/ \E t \in Terms : TermGets(t) \/ TermStep(t)
             \/ \E l \in Leaves : LeaveDestroys(l) \/ LeaveClosed(l)
             \/ ShutdownSnapshots \/ ShutdownClosed \/ Finished
             \/ UNCHANGED vars
    BY <2>3, OthersLives
  <2> QED BY <2>1, <2>2, <2>3 DEF Next
<1>3. Inv /\ CloserInv /\ [Next]_vars =>
        [\A s \in Sessions : [Life(s)!Next]_(Life(s)!vars)]_vars
  BY <1>2
<1> QED BY <1>1, <1>3, GuildInvariant, CloserInvariant, PTL
     DEF SafetySpec, ImplementsLives
=============================================================================
