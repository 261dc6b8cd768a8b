------------------------ MODULE VoiceRecoveryProofs ------------------------
(***************************************************************************)
(* The safety properties of VoiceRecovery hold for every number of         *)
(* sessions, gateway closes and timers.  The invariants the runs check are *)
(* not inductive: what makes them so is which timer belongs to which       *)
(* recovery, and that the id of a recovery never comes back.               *)
(***************************************************************************)
EXTENDS VoiceRecovery, TLAPS

\* Every timer that was started is filed: its recovery has it as its timer,
\* or an extension has replaced it.
TimersAreFiled ==
  /\ replaced \subseteq 1..armed
  /\ \A t \in 1..armed :
       recOf[t] \in 1..made /\ (timerOf[recOf[t]] = t \/ t \in replaced)
  /\ \A r \in 1..made : timerOf[r] \in 1..armed /\ recOf[timerOf[r]] = r
  /\ \A r \in Recoveries : r > made => timerOf[r] = 0

\* A canceller stops a timer whose recovery is over.
StoppedIsPast ==
  \A c \in Cancellers : stopping[c] # 0 => recOf[stopping[c]] # pending

\* A timer that has decided is alone with a recovery that is over.
DecidedIsAlone ==
  \A t \in Timers : timer[t] = "decided" =>
    /\ recOf[t] # pending
    /\ fallbacks[recOf[t]] = 0
    /\ recOf[t] \notin recovered
    /\ \A u \in Timers : timer[u] = "decided" /\ recOf[u] = recOf[t] => u = t

\* A recovery that is pending, or not made yet, has come to no end.
OpenIsFresh ==
  \A r \in Recoveries :
    r = pending \/ r > made => fallbacks[r] = 0 /\ r \notin recovered

\* A recovery ends in one way.
OneEnd ==
  \A r \in Recoveries :
    fallbacks[r] <= 1 /\ (r \in recovered => fallbacks[r] = 0)

Inv ==
  /\ TypeOK
  /\ TimersAreFiled
  /\ StoppedIsPast
  /\ PendingHasTimer
  /\ ArmedTimerIsOwned
  /\ DecidedIsAlone
  /\ OpenIsFresh
  /\ OneEnd

----------------------------------------------------------------------------
\* Timers.

\* Stop stops an armed timer and leaves every other alone.
LEMMA StopEffect ==
  ASSUME TypeOK, NEW t \in 0..armed
  PROVE  /\ Stop(timer, t) \in [Timers -> TimerStates]
         /\ \A u \in Timers : Stop(timer, t)[u] =
              IF u = t /\ timer[u] = "armed" THEN "stopped" ELSE timer[u]
BY BoundsAssumption DEF TypeOK, Stop, Timers, TimerStates

\* Arm starts the next timer, files it with its recovery, and leaves every
\* other timer and recovery alone.
LEMMA ArmEffect ==
  ASSUME TypeOK, NEW ts \in [Timers -> TimerStates],
         NEW r \in 1..MaxRecoveries, Arm(ts, r)
  PROVE  /\ armed' = armed + 1 /\ armed' \in Timers
         /\ timer' \in [Timers -> TimerStates]
         /\ \A u \in Timers :
              /\ timer'[u] = IF u = armed + 1 THEN "armed" ELSE ts[u]
              /\ recOf'[u] = IF u = armed + 1 THEN r ELSE recOf[u]
         /\ \A q \in Recoveries :
              timerOf'[q] = IF q = r THEN armed + 1 ELSE timerOf[q]
         /\ recOf' \in [Timers -> 0..MaxRecoveries]
         /\ timerOf' \in [Recoveries -> 0..armed + 1]
<1>1. armed' = armed + 1 /\ armed' \in Timers
  BY BoundsAssumption DEF TypeOK, Arm, Timers
<1>2. /\ timer' \in [Timers -> TimerStates]
      /\ \A u \in Timers :
           timer'[u] = IF u = armed + 1 THEN "armed" ELSE ts[u]
  BY <1>1 DEF Arm, TimerStates
<1>3. /\ recOf' \in [Timers -> 0..MaxRecoveries]
      /\ \A u \in Timers : recOf'[u] = IF u = armed + 1 THEN r ELSE recOf[u]
  BY <1>1, BoundsAssumption DEF TypeOK, Arm
<1>4. /\ timerOf' \in [Recoveries -> 0..armed + 1]
      /\ \A q \in Recoveries :
           timerOf'[q] = IF q = r THEN armed + 1 ELSE timerOf[q]
  BY <1>1, BoundsAssumption DEF TypeOK, Arm, Recoveries, Timers
<1> QED BY <1>1, <1>2, <1>3, <1>4

\* What TypeOK and TimersAreFiled say of one timer, and of one recovery.
LEMMA Filing ==
  ASSUME TypeOK, TimersAreFiled
  PROVE  /\ \A t \in Timers :
              timer[t] # "new" =>
                /\ t \in 1..armed /\ recOf[t] \in 1..made
                /\ recOf[t] \in Recoveries
                /\ timerOf[recOf[t]] = t \/ t \in replaced
         /\ \A r \in 1..made :
              /\ r \in Recoveries /\ timerOf[r] \in 1..armed
              /\ timerOf[r] \in Timers /\ recOf[timerOf[r]] = r
         /\ \A t \in 1..armed : t \in Timers /\ timer[t] # "new"
<1>1. 1..armed \subseteq Timers /\ 1..made \subseteq Recoveries
  BY BoundsAssumption DEF TypeOK, Timers, Recoveries
<1>2. \A t \in Timers : timer[t] = "new" <=> t > armed
  BY DEF TypeOK
<1>3. \A t \in Timers : timer[t] # "new" <=> t \in 1..armed
  BY <1>2, BoundsAssumption DEF TypeOK, Timers
<1>4. \A t \in 1..armed :
        recOf[t] \in 1..made /\ (timerOf[recOf[t]] = t \/ t \in replaced)
  BY DEF TimersAreFiled
<1>5. \A r \in 1..made : timerOf[r] \in 1..armed /\ recOf[timerOf[r]] = r
  BY DEF TimersAreFiled
<1> QED BY <1>1, <1>3, <1>4, <1>5

----------------------------------------------------------------------------
\* Steps that change neither a timer nor a recovery.

\* Before the first session nothing is armed, pending or reported.
LEMMA InitInv == Init => Inv
<1> SUFFICES ASSUME Init PROVE Inv
  OBVIOUS
<1> USE BoundsAssumption DEF Init, Timers, Recoveries, Cancellers, TimerStates
<1>1. TypeOK
  <2>1. /\ timerOf \in [Recoveries -> 0..armed]
        /\ recOf \in [Timers -> 0..made]
        /\ timer \in [Timers -> TimerStates]
        /\ stopping \in [Cancellers -> 0..armed]
        /\ fallbacks \in [Recoveries -> Nat]
    OBVIOUS
  <2>2. \A t \in Timers : timer[t] = "new" <=> t > armed
    OBVIOUS
  <2>3. 0 \in 0..MaxSessions /\ 0 \in 0..MaxRecoveries /\ 0 \in 0..MaxTimers
    OBVIOUS
  <2>4. session \in 0..started /\ pending \in 0..made
    OBVIOUS
  <2> HIDE DEF Timers, Recoveries, Cancellers, TimerStates
  <2> QED BY <2>1, <2>2, <2>3, <2>4 DEF TypeOK
<1>2. TimersAreFiled /\ StoppedIsPast /\ PendingHasTimer
  BY DEF TimersAreFiled, StoppedIsPast, PendingHasTimer
<1>3. ArmedTimerIsOwned /\ DecidedIsAlone
  BY DEF ArmedTimerIsOwned, DecidedIsAlone
<1>4. OpenIsFresh /\ OneEnd
  BY DEF OpenIsFresh, OneEnd
<1> QED BY <1>1, <1>2, <1>3, <1>4 DEF Inv

\* The invariant says of the sessions and of the flags only what they range
\* over.
LEMMA QuietInv ==
  ASSUME Inv, UNCHANGED <<pending, made, timerVars, falling, stopping, reportVars>>,
         started' \in 0..MaxSessions, session' \in 0..started',
         waiting' \in BOOLEAN, extending' \in BOOLEAN, leaving' \in BOOLEAN
  PROVE  Inv'
<1> USE DEF Inv, timerVars, reportVars
<1>1. TypeOK'
  BY DEF TypeOK
<1>2. TimersAreFiled' /\ StoppedIsPast' /\ PendingHasTimer'
  BY DEF TimersAreFiled, StoppedIsPast, PendingHasTimer
<1>3. ArmedTimerIsOwned' /\ DecidedIsAlone'
  BY DEF ArmedTimerIsOwned, DecidedIsAlone
<1>4. OpenIsFresh' /\ OneEnd'
  BY DEF OpenIsFresh, OneEnd
<1> QED BY <1>1, <1>2, <1>3, <1>4

\* The flags' and the sessions' own actions.
LEMMA FlagsInv ==
  ASSUME Inv, \/ Terminated \/ ServerUpdate \/ LeaveDestroys
              \/ SessionStarts \/ SessionEnds \/ UNCHANGED vars
  PROVE  Inv'
<1> USE DEF timerVars, eventVars, reportVars, sessionVars
<1>1. UNCHANGED <<pending, made, timerVars, falling, stopping, reportVars>>
  BY DEF Terminated, ServerUpdate, LeaveDestroys, SessionStarts, SessionEnds,
         vars
<1>2. /\ started \in 0..MaxSessions /\ session \in 0..started
      /\ waiting \in BOOLEAN /\ extending \in BOOLEAN /\ leaving \in BOOLEAN
  BY DEF Inv, TypeOK
<1>3. started' \in 0..MaxSessions /\ session' \in 0..started'
  BY <1>2, BoundsAssumption
     DEF Terminated, ServerUpdate, LeaveDestroys, SessionStarts, SessionEnds,
         vars
<1>4. waiting' \in BOOLEAN /\ extending' \in BOOLEAN /\ leaving' \in BOOLEAN
  BY <1>2 DEF Terminated, ServerUpdate, LeaveDestroys, SessionStarts,
              SessionEnds, vars
<1> QED BY <1>1, <1>3, <1>4, QuietInv

----------------------------------------------------------------------------
\* The function of a timer.

\* An expired timer is still the timer of its recovery until it decides.
LEMMA ExpireInv ==
  ASSUME Inv, NEW t \in Timers, Expire(t)
  PROVE  Inv'
<1> USE DEF sessionVars, eventVars, reportVars
<1>1. /\ timer[t] = "armed"
      /\ timer' = [timer EXCEPT ![t] = "firing"]
      /\ UNCHANGED <<session, started, pending, made, timerOf, armed, recOf,
                     waiting, extending, leaving, falling, stopping,
                     replaced, recovered, fallbacks>>
  BY DEF Expire
<1>2. TypeOK'
  BY <1>1 DEF Inv, TypeOK, TimerStates
<1>3. /\ timer'[t] = "firing"
      /\ \A u \in Timers : u # t => timer'[u] = timer[u]
  BY <1>1 DEF Inv, TypeOK
<1>4. TimersAreFiled' /\ StoppedIsPast'
  BY <1>1 DEF Inv, TimersAreFiled, StoppedIsPast
<1>5. PendingHasTimer'
  BY <1>1, <1>3, Filing DEF Inv, PendingHasTimer, TypeOK
<1>6. ArmedTimerIsOwned'
  <2> SUFFICES ASSUME NEW u \in Timers, timer'[u] = "armed"
               PROVE  /\ timerOf[recOf[u]] = u
                      /\ \/ pending = recOf[u]
                         \/ \E c \in Cancellers : stopping[c] = u
                         \/ \E w \in replaced :
                              /\ recOf[w] = recOf[u]
                              /\ timer'[w] \in {"decided", "done"}
    BY <1>1 DEF ArmedTimerIsOwned
  <2>1. timer[u] = "armed"
    BY <1>1, <1>3
  <2>2. ASSUME NEW w \in replaced, timer[w] \in {"decided", "done"}
        PROVE  timer'[w] \in {"decided", "done"}
    BY <1>1, <1>3, <2>2 DEF Inv, TypeOK
  <2> QED BY <2>1, <2>2 DEF Inv, ArmedTimerIsOwned
<1>7. DecidedIsAlone' /\ OpenIsFresh' /\ OneEnd'
  BY <1>1, <1>3 DEF Inv, DecidedIsAlone, OpenIsFresh, OneEnd
<1> QED BY <1>2, <1>4, <1>5, <1>6, <1>7 DEF Inv

\* A timer that finds its recovery pending takes it and decides to fall
\* back; a timer that an extension started meanwhile is left behind with it.
LEMMA DecideInv ==
  ASSUME Inv, NEW t \in Timers, Decide(t)
  PROVE  Inv'
<1> USE DEF sessionVars, eventVars, reportVars
<1>1. /\ timer[t] = "firing"
      /\ UNCHANGED <<session, started, made, timerOf, armed, recOf,
                     waiting, extending, leaving, falling, stopping,
                     replaced, recovered, fallbacks>>
  BY DEF Decide
<1>2. TypeOK /\ TimersAreFiled
  BY DEF Inv
<1>3. /\ recOf[t] \in 1..made /\ recOf[t] \in Recoveries
      /\ timerOf[recOf[t]] = t \/ t \in replaced
  BY <1>1, <1>2, Filing
<1>4. CASE pending = recOf[t]
  <2>1. pending' = 0 /\ timer' = [timer EXCEPT ![t] = "decided"]
    BY <1>4 DEF Decide, StillPending, Delete
  <2>2. TypeOK'
    BY <1>1, <1>2, <2>1 DEF TypeOK, TimerStates
  <2>3. /\ timer'[t] = "decided"
        /\ \A u \in Timers : u # t => timer'[u] = timer[u]
    BY <1>2, <2>1 DEF TypeOK
  <2>4. TimersAreFiled'
    BY <1>1, <1>2 DEF TimersAreFiled
  <2>5. StoppedIsPast'
    <3> SUFFICES ASSUME NEW c \in Cancellers, stopping[c] # 0
                 PROVE  recOf[stopping[c]] # 0
      BY <1>1, <2>1 DEF StoppedIsPast
    <3>1. stopping[c] \in 1..armed
      BY <1>2 DEF TypeOK
    <3> QED BY <3>1, <1>2, Filing DEF TypeOK
  <2>6. PendingHasTimer'
    BY <2>1 DEF PendingHasTimer
  <2>7. ArmedTimerIsOwned'
    <3> SUFFICES ASSUME NEW u \in Timers, timer'[u] = "armed"
                 PROVE  /\ timerOf[recOf[u]] = u
                        /\ \/ \E c \in Cancellers : stopping[c] = u
                           \/ \E w \in replaced :
                                /\ recOf[w] = recOf[u]
                                /\ timer'[w] \in {"decided", "done"}
      BY <1>1 DEF ArmedTimerIsOwned
    <3>1. timer[u] = "armed" /\ u # t
      BY <1>1, <2>3
    <3>2. CASE recOf[u] = pending
      <4>1. timerOf[recOf[u]] = u
        BY <3>1 DEF Inv, ArmedTimerIsOwned
      <4>2. t \in replaced
        BY <1>3, <1>4, <3>1, <3>2, <4>1
      <4> QED BY <1>4, <2>3, <3>2, <4>1, <4>2
    <3>3. CASE recOf[u] # pending
      <4>1. ASSUME NEW w \in replaced, timer[w] \in {"decided", "done"}
            PROVE  timer'[w] \in {"decided", "done"}
        BY <1>1, <1>2, <2>3, <4>1 DEF TypeOK
      <4> QED BY <3>1, <3>3, <4>1 DEF Inv, ArmedTimerIsOwned
    <3> QED BY <3>2, <3>3
  <2>8. DecidedIsAlone'
    <3> SUFFICES ASSUME NEW u \in Timers, timer'[u] = "decided"
                 PROVE  /\ recOf[u] # 0
                        /\ fallbacks[recOf[u]] = 0
                        /\ recOf[u] \notin recovered
                        /\ \A w \in Timers :
                             timer'[w] = "decided" /\ recOf[w] = recOf[u]
                               => w = u
      BY <1>1, <2>1 DEF DecidedIsAlone
    <3>1. recOf[u] # 0
      <4>1. timer[u] # "new"
        BY <1>1, <2>3
      <4>2. recOf[u] \in 1..made
        BY <4>1, <1>2, Filing
      <4> QED BY <4>2, <1>2 DEF TypeOK
    <3>2. /\ fallbacks[recOf[t]] = 0 /\ recOf[t] \notin recovered
      BY <1>3, <1>4 DEF Inv, OpenIsFresh
    <3>3. \A w \in Timers : timer[w] = "decided" => recOf[w] # recOf[t]
      BY <1>4 DEF Inv, DecidedIsAlone
    <3>4. CASE u = t
      BY <2>3, <3>1, <3>2, <3>3, <3>4
    <3>5. CASE u # t
      BY <2>3, <3>1, <3>3, <3>5 DEF Inv, DecidedIsAlone
    <3> QED BY <3>4, <3>5
  <2>9. OpenIsFresh' /\ OneEnd'
    BY <1>1, <1>2, <2>1 DEF Inv, OpenIsFresh, OneEnd, Recoveries
  <2> QED BY <2>2, <2>4, <2>5, <2>6, <2>7, <2>8, <2>9 DEF Inv
<1>5. CASE pending # recOf[t]
  <2>1. pending' = pending /\ timer' = [timer EXCEPT ![t] = "done"]
    BY <1>5 DEF Decide, StillPending
  <2>2. TypeOK'
    BY <1>1, <1>2, <2>1 DEF TypeOK, TimerStates
  <2>3. /\ timer'[t] = "done"
        /\ \A u \in Timers : u # t => timer'[u] = timer[u]
    BY <1>2, <2>1 DEF TypeOK
  <2>4. TimersAreFiled' /\ StoppedIsPast'
    BY <1>1, <2>1 DEF Inv, TimersAreFiled, StoppedIsPast
  <2>5. PendingHasTimer'
    <3> SUFFICES ASSUME pending # 0
                 PROVE  timer'[timerOf[pending]] \in {"armed", "firing"}
      BY <1>1, <2>1 DEF PendingHasTimer
    <3>1. pending \in 1..made
      BY <1>2 DEF TypeOK
    <3>2. timerOf[pending] \in Timers /\ recOf[timerOf[pending]] = pending
      BY <1>2, <3>1, Filing
    <3> QED BY <1>5, <2>3, <3>2 DEF Inv, PendingHasTimer
  <2>6. ArmedTimerIsOwned'
    <3> SUFFICES ASSUME NEW u \in Timers, timer'[u] = "armed"
                 PROVE  /\ timerOf[recOf[u]] = u
                        /\ \/ pending = recOf[u]
                           \/ \E c \in Cancellers : stopping[c] = u
                           \/ \E w \in replaced :
                                /\ recOf[w] = recOf[u]
                                /\ timer'[w] \in {"decided", "done"}
      BY <1>1, <2>1 DEF ArmedTimerIsOwned
    <3>1. timer[u] = "armed"
      BY <1>1, <2>3
    <3>2. ASSUME NEW w \in replaced, timer[w] \in {"decided", "done"}
          PROVE  timer'[w] \in {"decided", "done"}
      BY <1>1, <1>2, <2>3, <3>2 DEF TypeOK
    <3> QED BY <3>1, <3>2 DEF Inv, ArmedTimerIsOwned
  <2>7. DecidedIsAlone' /\ OpenIsFresh' /\ OneEnd'
    BY <1>1, <2>1, <2>3 DEF Inv, DecidedIsAlone, OpenIsFresh, OneEnd
  <2> QED BY <2>2, <2>4, <2>5, <2>6, <2>7 DEF Inv
<1> QED BY <1>4, <1>5

\* A timer's function that has found a session still has its recovery given
\* up.
LEMMA LookInv ==
  ASSUME Inv, NEW t \in Timers, Look(t), session # 0
  PROVE  Inv'
<1> USE DEF reportVars
<1>1. /\ timer[t] = "decided" /\ falling' = falling \cup {t}
      /\ UNCHANGED <<sessionVars, pending, made, timerVars, waiting,
                     extending, leaving, stopping, reportVars>>
  BY DEF Look, timerVars
<1> USE DEF sessionVars, timerVars
<1>2. TypeOK'
  BY <1>1 DEF Inv, TypeOK
<1>3. TimersAreFiled' /\ StoppedIsPast' /\ PendingHasTimer'
  BY <1>1 DEF Inv, TimersAreFiled, StoppedIsPast, PendingHasTimer
<1>4. ArmedTimerIsOwned' /\ DecidedIsAlone'
  BY <1>1 DEF Inv, ArmedTimerIsOwned, DecidedIsAlone
<1>5. OpenIsFresh' /\ OneEnd'
  BY <1>1 DEF Inv, OpenIsFresh, OneEnd
<1> QED BY <1>2, <1>3, <1>4, <1>5 DEF Inv

\* The function of a timer ends, with the fallback or without a session: the
\* recovery is over and nobody else has ended it.
LEMMA FallBackInv ==
  ASSUME Inv, NEW t \in Timers, FallBack(t) \/ (Look(t) /\ session = 0)
  PROVE  Inv'
<1> USE DEF sessionVars, eventVars
<1> DEFINE r == recOf[t]
<1>1. /\ timer[t] = "decided"
      /\ timer' = [timer EXCEPT ![t] = "done"]
      /\ falling' = falling \ {t}
      /\ UNCHANGED <<session, started, pending, made, timerOf, armed, recOf,
                     waiting, extending, leaving, stopping, replaced,
                     recovered>>
  BY DEF FallBack, Look, reportVars, Inv, TypeOK
<1>2. TypeOK /\ TimersAreFiled
  BY DEF Inv
<1>3. r \in 1..made /\ r \in Recoveries
  BY <1>1, <1>2, Filing
<1>4. r # pending /\ fallbacks[r] = 0 /\ r \notin recovered
  BY <1>1 DEF Inv, DecidedIsAlone
<1>5. /\ fallbacks' \in [Recoveries -> Nat]
      /\ fallbacks'[r] \in {0, 1}
      /\ \A q \in Recoveries : q # r => fallbacks'[q] = fallbacks[q]
  <2>1. \/ fallbacks' = [fallbacks EXCEPT ![r] = fallbacks[r] + 1]
        \/ fallbacks' = fallbacks
    BY DEF FallBack, Look, reportVars
  <2>2. fallbacks \in [Recoveries -> Nat]
    BY <1>2 DEF TypeOK
  <2> HIDE DEF r
  <2> QED BY <1>3, <1>4, <2>1, <2>2
<1>6. TypeOK'
  BY <1>1, <1>2, <1>5 DEF TypeOK, TimerStates
<1>7. /\ timer'[t] = "done"
      /\ \A u \in Timers : u # t => timer'[u] = timer[u]
  BY <1>1, <1>2 DEF TypeOK
<1>8. TimersAreFiled' /\ StoppedIsPast'
  BY <1>1 DEF Inv, TimersAreFiled, StoppedIsPast
<1>9. PendingHasTimer'
  <2> SUFFICES ASSUME pending # 0
               PROVE  timer'[timerOf[pending]] \in {"armed", "firing"}
    BY <1>1 DEF PendingHasTimer
  <2>1. pending \in 1..made
    BY <1>2 DEF TypeOK
  <2>2. timerOf[pending] \in Timers /\ recOf[timerOf[pending]] = pending
    BY <1>2, <2>1, Filing
  <2> QED BY <1>4, <1>7, <2>2 DEF Inv, PendingHasTimer
<1>10. ArmedTimerIsOwned'
  <2> SUFFICES ASSUME NEW u \in Timers, timer'[u] = "armed"
               PROVE  /\ timerOf[recOf[u]] = u
                      /\ \/ pending = recOf[u]
                         \/ \E c \in Cancellers : stopping[c] = u
                         \/ \E w \in replaced :
                              /\ recOf[w] = recOf[u]
                              /\ timer'[w] \in {"decided", "done"}
    BY <1>1 DEF ArmedTimerIsOwned
  <2>1. timer[u] = "armed"
    BY <1>1, <1>7
  <2>2. ASSUME NEW w \in replaced, timer[w] \in {"decided", "done"}
        PROVE  timer'[w] \in {"decided", "done"}
    BY <1>1, <1>2, <1>7, <2>2 DEF TypeOK
  <2> QED BY <2>1, <2>2 DEF Inv, ArmedTimerIsOwned
<1>11. DecidedIsAlone'
  <2> SUFFICES ASSUME NEW u \in Timers, timer'[u] = "decided"
               PROVE  /\ recOf[u] # pending
                      /\ fallbacks'[recOf[u]] = 0
                      /\ recOf[u] \notin recovered
                      /\ \A w \in Timers :
                           timer'[w] = "decided" /\ recOf[w] = recOf[u]
                             => w = u
    BY <1>1 DEF DecidedIsAlone
  <2>1. timer[u] = "decided" /\ u # t
    BY <1>7
  <2>2. recOf[u] # r /\ recOf[u] \in Recoveries
    BY <1>1, <1>2, <2>1, Filing DEF Inv, DecidedIsAlone
  <2> QED BY <1>5, <1>7, <2>1, <2>2 DEF Inv, DecidedIsAlone
<1>12. OpenIsFresh' /\ OneEnd'
  <2>1. ASSUME NEW q \in Recoveries, q # r
        PROVE  fallbacks'[q] = fallbacks[q]
    BY <1>5, <2>1
  <2>2. fallbacks'[r] <= 1 /\ r \notin recovered /\ ~(r > made) /\ r # pending
    BY <1>2, <1>3, <1>4, <1>5 DEF TypeOK
  <2> HIDE DEF r
  <2> QED BY <1>1, <2>1, <2>2 DEF Inv, OpenIsFresh, OneEnd
<1> QED BY <1>6, <1>8, <1>9, <1>10, <1>11, <1>12 DEF Inv

----------------------------------------------------------------------------
\* New timers.

\* A new recovery: its id is fresh, and the timer of the one it replaces is
\* stopped in time or has expired.
LEMMA RecoverInv ==
  ASSUME Inv, Recover
  PROVE  Inv'
<1> USE DEF sessionVars, reportVars
<1> DEFINE r == made + 1
           n == armed + 1
           old == IF pending = 0 THEN 0 ELSE timerOf[pending]
<1>1. TypeOK /\ TimersAreFiled
  BY DEF Inv
<1>2. /\ made < MaxRecoveries /\ made' = r /\ pending' = r
      /\ waiting' = FALSE
      /\ UNCHANGED <<session, started, extending, leaving, falling, stopping,
                     replaced, recovered, fallbacks>>
      /\ Arm(IF pending = 0 THEN timer ELSE Stop(timer, timerOf[pending]), r)
  BY DEF Recover
<1>3. /\ r \in Recoveries /\ r \in 1..MaxRecoveries /\ r # pending
      /\ made \in Nat /\ pending \in 0..made /\ armed \in Nat
      /\ made \in 0..MaxRecoveries
  BY <1>1, <1>2, BoundsAssumption DEF TypeOK, Recoveries
<1>4. pending # 0 => /\ pending \in 1..made /\ timerOf[pending] \in 1..armed
                     /\ recOf[timerOf[pending]] = pending
  BY <1>1, <1>3, Filing
<1>5. PICK ts \in [Timers -> TimerStates] :
        /\ Arm(ts, r)
        /\ \A u \in Timers :
             ts[u] = IF u = old /\ timer[u] = "armed" THEN "stopped"
                     ELSE timer[u]
  <2>1. CASE pending = 0
    <3>1. \A u \in Timers : u # old
      BY <2>1 DEF Timers
    <3>2. timer \in [Timers -> TimerStates] /\ Arm(timer, r)
      BY <1>1, <1>2, <2>1 DEF TypeOK
    <3> QED BY <3>1, <3>2
  <2>2. CASE pending # 0
    BY <1>1, <1>2, <1>4, <2>2, StopEffect DEF TypeOK
  <2> QED BY <2>1, <2>2
<1>6. /\ armed' = n /\ n \in Timers
      /\ timer' \in [Timers -> TimerStates]
      /\ \A u \in Timers :
           /\ timer'[u] = IF u = n THEN "armed"
                          ELSE IF u = old /\ timer[u] = "armed" THEN "stopped"
                          ELSE timer[u]
           /\ recOf'[u] = IF u = n THEN r ELSE recOf[u]
      /\ \A q \in Recoveries : timerOf'[q] = IF q = r THEN n ELSE timerOf[q]
      /\ recOf' \in [Timers -> 0..MaxRecoveries]
      /\ timerOf' \in [Recoveries -> 0..n]
  BY <1>1, <1>3, <1>5, ArmEffect
<1>7. /\ \A t \in 1..armed : t \in Timers /\ timer[t] # "new"
      /\ \A t \in Timers : timer[t] # "new" =>
           /\ t \in 1..armed /\ t # n
           /\ recOf[t] \in 1..made /\ recOf[t] \in Recoveries /\ recOf[t] # r
  BY <1>1, <1>3, Filing
<1> HIDE DEF r, n, old
<1>8. TypeOK'
  <2>1. \A u \in Timers : recOf'[u] \in 0..made'
    BY <1>1, <1>2, <1>3, <1>6 DEF TypeOK, r
  <2>2. recOf' \in [Timers -> 0..made']
    BY <1>6, <2>1
  <2>3. \A u \in Timers : timer'[u] = "new" <=> u > armed'
    <3> SUFFICES ASSUME NEW u \in Timers
                 PROVE  timer'[u] = "new" <=> u > armed'
      OBVIOUS
    <3>1. timer[u] = "new" <=> u > armed
      BY <1>1 DEF TypeOK
    <3>2. u \in Nat
      BY BoundsAssumption DEF Timers
    <3> QED BY <1>3, <1>6, <3>1, <3>2 DEF n
  <2>4. /\ made' \in 0..MaxRecoveries /\ pending' \in 0..made'
        /\ armed' \in 0..MaxTimers
    BY <1>2, <1>3, <1>6, BoundsAssumption DEF r, n, Timers
  <2>5. stopping' \in [Cancellers -> 0..armed']
    BY <1>1, <1>2, <1>3, <1>6 DEF TypeOK, n
  <2>6. falling' \subseteq {u \in Timers : timer'[u] = "decided"}
    BY <1>1, <1>2, <1>6, <1>7 DEF TypeOK
  <2> QED BY <1>1, <1>2, <1>6, <2>2, <2>3, <2>4, <2>5, <2>6 DEF TypeOK
<1>9. TimersAreFiled'
  <2>1. replaced' \subseteq 1..armed'
    BY <1>1, <1>2, <1>3, <1>6 DEF TimersAreFiled, n
  <2>2. ASSUME NEW t \in 1..armed'
        PROVE  /\ recOf'[t] \in 1..made'
               /\ timerOf'[recOf'[t]] = t \/ t \in replaced'
    <3>1. t = n \/ t \in 1..armed
      BY <1>3, <1>6, <2>2 DEF n
    <3>2. CASE t = n
      BY <1>2, <1>3, <1>6, <3>2 DEF r
    <3>3. CASE t \in 1..armed
      <4>1. t \in Timers /\ recOf'[t] = recOf[t] /\ recOf[t] # r
        BY <1>6, <1>7, <3>3
      <4>2. recOf[t] \in 1..made /\ recOf[t] \in Recoveries
        BY <1>7, <3>3
      <4>3. timerOf'[recOf[t]] = timerOf[recOf[t]]
        BY <1>6, <4>1, <4>2
      <4>4. timerOf[recOf[t]] = t \/ t \in replaced
        BY <1>1, <3>3 DEF TimersAreFiled
      <4> QED BY <1>2, <1>3, <4>1, <4>2, <4>3, <4>4 DEF r
    <3> QED BY <3>1, <3>2, <3>3
  <2>3. ASSUME NEW q \in 1..made'
        PROVE  timerOf'[q] \in 1..armed' /\ recOf'[timerOf'[q]] = q
    <3>1. q = r \/ q \in 1..made
      BY <1>2, <1>3, <2>3 DEF r
    <3>2. CASE q = r
      BY <1>3, <1>6, <3>2 DEF n
    <3>3. CASE q \in 1..made /\ q # r
      <4>1. /\ q \in Recoveries /\ timerOf[q] \in 1..armed
            /\ timerOf[q] \in Timers /\ recOf[timerOf[q]] = q
        BY <1>1, <3>3, Filing
      <4>2. timerOf[q] # n
        BY <1>7, <4>1
      <4> QED BY <1>3, <1>6, <3>3, <4>1, <4>2 DEF n
    <3> QED BY <3>1, <3>2, <3>3
  <2>4. ASSUME NEW q \in Recoveries, q > made'
        PROVE  timerOf'[q] = 0
    <3>1. q # r /\ q > made
      BY <1>2, <1>3, <2>4, BoundsAssumption DEF r, Recoveries
    <3> QED BY <1>1, <1>6, <3>1 DEF TimersAreFiled
  <2> QED BY <2>1, <2>2, <2>3, <2>4 DEF TimersAreFiled
<1>10. StoppedIsPast'
  <2> SUFFICES ASSUME NEW c \in Cancellers, stopping[c] # 0
               PROVE  recOf'[stopping[c]] # r
    BY <1>2 DEF StoppedIsPast
  <2>1. stopping[c] \in 1..armed
    BY <1>1 DEF TypeOK
  <2> QED BY <1>6, <1>7, <2>1
<1>11. PendingHasTimer'
  BY <1>2, <1>3, <1>6 DEF PendingHasTimer
<1>12. ArmedTimerIsOwned'
  <2> SUFFICES ASSUME NEW u \in Timers, timer'[u] = "armed"
               PROVE  /\ timerOf'[recOf'[u]] = u
                      /\ \/ r = recOf'[u]
                         \/ \E c \in Cancellers : stopping[c] = u
                         \/ \E w \in replaced :
                              /\ recOf'[w] = recOf'[u]
                              /\ timer'[w] \in {"decided", "done"}
    BY <1>2 DEF ArmedTimerIsOwned
  <2>1. CASE u = n
    BY <1>3, <1>6, <2>1
  <2>2. CASE u # n
    <3>1. timer[u] = "armed" /\ u # old /\ recOf'[u] = recOf[u]
      BY <1>6, <2>2
    <3>2. recOf[u] \in Recoveries /\ recOf[u] # r /\ timerOf[recOf[u]] = u
      BY <1>7, <3>1 DEF Inv, ArmedTimerIsOwned
    <3>3. recOf[u] # pending
      <4>1. recOf[u] # 0
        BY <1>3, <1>7, <3>1
      <4> QED BY <3>1, <3>2, <4>1 DEF old
    <3>4. timerOf'[recOf[u]] = u
      BY <1>6, <3>2
    <3>5. ASSUME NEW w \in replaced, timer[w] \in {"decided", "done"}
          PROVE  recOf'[w] = recOf[w] /\ timer'[w] \in {"decided", "done"}
      BY <1>1, <1>6, <1>7, <3>5 DEF TypeOK
    <3> QED BY <3>1, <3>2, <3>3, <3>4, <3>5 DEF Inv, ArmedTimerIsOwned
  <2> QED BY <2>1, <2>2
<1>13. DecidedIsAlone'
  <2> SUFFICES ASSUME NEW u \in Timers, timer'[u] = "decided"
               PROVE  /\ recOf'[u] # r
                      /\ fallbacks[recOf'[u]] = 0
                      /\ recOf'[u] \notin recovered
                      /\ \A w \in Timers :
                           timer'[w] = "decided" /\ recOf'[w] = recOf'[u]
                             => w = u
    BY <1>2 DEF DecidedIsAlone
  <2>1. \A w \in Timers : timer'[w] = "decided" =>
          timer[w] = "decided" /\ recOf'[w] = recOf[w] /\ recOf[w] # r
    BY <1>6, <1>7
  <2> QED BY <2>1 DEF Inv, DecidedIsAlone
<1>14. OpenIsFresh'
  <2>1. \A q \in Recoveries : q = r \/ q > r => q > made
    BY <1>3, BoundsAssumption DEF r, Recoveries
  <2> QED BY <1>2, <2>1 DEF Inv, OpenIsFresh
<1>15. OneEnd'
  BY <1>2 DEF Inv, OneEnd
<1> QED BY <1>8, <1>9, <1>10, <1>11, <1>12, <1>13, <1>14, <1>15 DEF Inv

\* An extension: the recovery stays, its timer is stopped in time or has
\* expired, and is replaced.
LEMMA ExtendInv ==
  ASSUME Inv, Extend
  PROVE  Inv'
<1> USE DEF sessionVars, timerVars
<1>1. TypeOK /\ TimersAreFiled
  BY DEF Inv
<1>2. CASE pending = 0
  <2>1. UNCHANGED <<pending, made, timerVars, falling, stopping, reportVars>>
    BY <1>2 DEF Extend, reportVars
  <2>2. /\ started' \in 0..MaxSessions /\ session' \in 0..started'
        /\ waiting' \in BOOLEAN /\ extending' \in BOOLEAN
        /\ leaving' \in BOOLEAN
    BY <1>1 DEF Extend, TypeOK
  <2> QED BY <2>1, <2>2, QuietInv
<1>3. CASE pending # 0
  <2> DEFINE r == pending
             n == armed + 1
             old == timerOf[pending]
  <2>1. /\ extending' = FALSE
        /\ UNCHANGED <<session, started, pending, made, waiting, leaving,
                       falling, stopping, recovered, fallbacks>>
        /\ Arm(Stop(timer, old), r)
        /\ replaced' = replaced \cup {old}
    BY <1>3 DEF Extend
  <2>2. /\ r \in 1..made /\ r \in Recoveries /\ r \in 1..MaxRecoveries
        /\ made \in Nat /\ armed \in Nat
        /\ old \in 1..armed /\ old \in Timers /\ recOf[old] = r
    <3>1. /\ r \in 1..made /\ made \in Nat /\ armed \in Nat
          /\ r \in 1..MaxRecoveries
      BY <1>1, <1>3, BoundsAssumption DEF TypeOK
    <3> QED BY <1>1, <3>1, Filing
  <2>3. /\ Stop(timer, old) \in [Timers -> TimerStates]
        /\ \A u \in Timers : Stop(timer, old)[u] =
             IF u = old /\ timer[u] = "armed" THEN "stopped" ELSE timer[u]
    BY <1>1, <2>2, StopEffect
  <2>4. /\ armed' = n /\ n \in Timers
        /\ timer' \in [Timers -> TimerStates]
        /\ \A u \in Timers :
             /\ timer'[u] = IF u = n THEN "armed"
                            ELSE IF u = old /\ timer[u] = "armed"
                                 THEN "stopped" ELSE timer[u]
             /\ recOf'[u] = IF u = n THEN r ELSE recOf[u]
        /\ \A q \in Recoveries : timerOf'[q] = IF q = r THEN n ELSE timerOf[q]
        /\ recOf' \in [Timers -> 0..MaxRecoveries]
        /\ timerOf' \in [Recoveries -> 0..n]
    BY <1>1, <2>1, <2>2, <2>3, ArmEffect
  <2>5. /\ \A t \in 1..armed : t \in Timers /\ timer[t] # "new"
        /\ \A t \in Timers : timer[t] # "new" =>
             /\ t \in 1..armed /\ t # n
             /\ recOf[t] \in 1..made /\ recOf[t] \in Recoveries
    BY <1>1, <2>2, Filing
  <2> HIDE DEF r, n, old
  <2>6. TypeOK'
    <3>1. \A u \in Timers : recOf'[u] \in 0..made
      BY <1>1, <2>2, <2>4 DEF TypeOK
    <3>2. recOf' \in [Timers -> 0..made]
      BY <2>4, <3>1
    <3>3. \A u \in Timers : timer'[u] = "new" <=> u > armed'
      <4> SUFFICES ASSUME NEW u \in Timers
                   PROVE  timer'[u] = "new" <=> u > armed'
        OBVIOUS
      <4>1. timer[u] = "new" <=> u > armed
        BY <1>1 DEF TypeOK
      <4>2. u \in Nat
        BY BoundsAssumption DEF Timers
      <4> QED BY <2>2, <2>4, <4>1, <4>2 DEF n
    <3>4. armed' \in 0..MaxTimers
      BY <2>2, <2>4, BoundsAssumption DEF n, Timers
    <3>5. stopping' \in [Cancellers -> 0..armed'] /\ replaced' \subseteq Timers
      BY <1>1, <2>1, <2>2, <2>4 DEF TypeOK, n
    <3>6. falling' \subseteq {u \in Timers : timer'[u] = "decided"}
      BY <1>1, <2>1, <2>4, <2>5 DEF TypeOK
    <3> QED BY <1>1, <2>1, <2>4, <3>2, <3>3, <3>4, <3>5, <3>6 DEF TypeOK
  <2>7. TimersAreFiled'
    <3>1. replaced' \subseteq 1..armed'
      BY <1>1, <2>1, <2>2, <2>4 DEF TimersAreFiled, n
    <3>2. ASSUME NEW t \in 1..armed'
          PROVE  /\ recOf'[t] \in 1..made'
                 /\ timerOf'[recOf'[t]] = t \/ t \in replaced'
      <4>1. t = n \/ t \in 1..armed
        BY <2>2, <2>4, <3>2 DEF n
      <4>2. CASE t = n
        BY <2>1, <2>2, <2>4, <4>2
      <4>3. CASE t \in 1..armed
        <5>1. /\ t \in Timers /\ recOf'[t] = recOf[t]
              /\ recOf[t] \in 1..made /\ recOf[t] \in Recoveries
          BY <2>4, <2>5, <4>3
        <5>2. timerOf[recOf[t]] = t \/ t \in replaced
          BY <1>1, <4>3 DEF TimersAreFiled
        <5>3. CASE recOf[t] = r
          BY <2>1, <5>1, <5>2, <5>3 DEF r, old
        <5>4. CASE recOf[t] # r
          BY <2>1, <2>4, <5>1, <5>2, <5>4
        <5> QED BY <5>3, <5>4
      <4> QED BY <4>1, <4>2, <4>3
    <3>3. ASSUME NEW q \in 1..made'
          PROVE  timerOf'[q] \in 1..armed' /\ recOf'[timerOf'[q]] = q
      <4>1. /\ q \in Recoveries /\ timerOf[q] \in 1..armed
            /\ timerOf[q] \in Timers /\ recOf[timerOf[q]] = q
        BY <1>1, <2>1, <3>3, Filing
      <4>2. timerOf[q] # n
        BY <2>5, <4>1
      <4> QED BY <2>2, <2>4, <4>1, <4>2 DEF n
    <3>4. ASSUME NEW q \in Recoveries, q > made'
          PROVE  timerOf'[q] = 0
      <4>1. q # r /\ q > made
        BY <2>1, <2>2, <3>4
      <4> QED BY <1>1, <2>4, <4>1 DEF TimersAreFiled
    <3> QED BY <3>1, <3>2, <3>3, <3>4 DEF TimersAreFiled
  <2>8. StoppedIsPast'
    <3> SUFFICES ASSUME NEW c \in Cancellers, stopping[c] # 0
                 PROVE  recOf'[stopping[c]] # pending
      BY <2>1 DEF StoppedIsPast
    <3>1. stopping[c] \in 1..armed
      BY <1>1 DEF TypeOK
    <3>2. recOf'[stopping[c]] = recOf[stopping[c]]
      BY <2>4, <2>5, <3>1
    <3> QED BY <3>2 DEF Inv, StoppedIsPast
  <2>9. PendingHasTimer'
    BY <2>1, <2>2, <2>4 DEF PendingHasTimer, r
  <2>10. ArmedTimerIsOwned'
    <3> SUFFICES ASSUME NEW u \in Timers, timer'[u] = "armed"
                 PROVE  /\ timerOf'[recOf'[u]] = u
                        /\ \/ pending = recOf'[u]
                           \/ \E c \in Cancellers : stopping[c] = u
                           \/ \E w \in replaced' :
                                /\ recOf'[w] = recOf'[u]
                                /\ timer'[w] \in {"decided", "done"}
      BY <2>1 DEF ArmedTimerIsOwned
    <3>1. CASE u = n
      BY <2>2, <2>4, <3>1 DEF r
    <3>2. CASE u # n
      <4>1. timer[u] = "armed" /\ u # old /\ recOf'[u] = recOf[u]
        BY <2>4, <3>2
      <4>2. recOf[u] \in Recoveries /\ timerOf[recOf[u]] = u
        BY <2>5, <4>1 DEF Inv, ArmedTimerIsOwned
      <4>3. recOf[u] # r
        BY <4>1, <4>2 DEF r, old
      <4>4. timerOf'[recOf[u]] = u
        BY <2>4, <4>2, <4>3
      <4>5. ASSUME NEW w \in replaced, timer[w] \in {"decided", "done"}
            PROVE  /\ w \in replaced'
                   /\ recOf'[w] = recOf[w]
                   /\ timer'[w] \in {"decided", "done"}
        BY <1>1, <2>1, <2>4, <2>5, <4>5 DEF TypeOK
      <4> QED BY <4>1, <4>3, <4>4, <4>5 DEF Inv, ArmedTimerIsOwned, r
    <3> QED BY <3>1, <3>2
  <2>11. DecidedIsAlone'
    <3> SUFFICES ASSUME NEW u \in Timers, timer'[u] = "decided"
                 PROVE  /\ recOf'[u] # pending
                        /\ fallbacks[recOf'[u]] = 0
                        /\ recOf'[u] \notin recovered
                        /\ \A w \in Timers :
                             timer'[w] = "decided" /\ recOf'[w] = recOf'[u]
                               => w = u
      BY <2>1 DEF DecidedIsAlone
    <3>1. \A w \in Timers : timer'[w] = "decided" =>
            timer[w] = "decided" /\ recOf'[w] = recOf[w]
      BY <2>4, <2>5
    <3> QED BY <3>1 DEF Inv, DecidedIsAlone
  <2>12. OpenIsFresh' /\ OneEnd'
    BY <2>1 DEF Inv, OpenIsFresh, OneEnd
  <2> QED BY <2>6, <2>7, <2>8, <2>9, <2>10, <2>11, <2>12 DEF Inv
<1> QED BY <1>2, <1>3

----------------------------------------------------------------------------
\* Cancellation.

\* A canceller stops a timer that no pending recovery has.
LEMMA StopTimerInv ==
  ASSUME Inv, NEW c \in Cancellers, StopTimer(c)
  PROVE  Inv'
<1> USE DEF sessionVars, eventVars, reportVars
<1> DEFINE t == stopping[c]
<1>1. TypeOK /\ TimersAreFiled
  BY DEF Inv
<1>2. /\ t # 0 /\ timer' = Stop(timer, t)
      /\ stopping' = [stopping EXCEPT ![c] = 0]
      /\ UNCHANGED <<session, started, pending, made, timerOf, armed, recOf,
                     waiting, extending, leaving, falling, replaced,
                     recovered, fallbacks>>
  BY DEF StopTimer
<1>3. t \in 0..armed /\ t \in 1..armed
  BY <1>1, <1>2 DEF TypeOK
<1>4. /\ timer' \in [Timers -> TimerStates]
      /\ \A u \in Timers : timer'[u] =
           IF u = t /\ timer[u] = "armed" THEN "stopped" ELSE timer[u]
  BY <1>1, <1>2, <1>3, StopEffect
<1>5. /\ stopping' \in [Cancellers -> 0..armed]
      /\ \A d \in Cancellers :
           stopping'[d] = IF d = c THEN 0 ELSE stopping[d]
  BY <1>1, <1>2 DEF TypeOK
<1> HIDE DEF t
<1>6. TypeOK'
  BY <1>1, <1>2, <1>4, <1>5 DEF TypeOK
<1>7. TimersAreFiled' /\ StoppedIsPast'
  BY <1>2, <1>5 DEF Inv, TimersAreFiled, StoppedIsPast
<1>8. PendingHasTimer'
  <2> SUFFICES ASSUME pending # 0
               PROVE  timer'[timerOf[pending]] \in {"armed", "firing"}
    BY <1>2 DEF PendingHasTimer
  <2>1. pending \in 1..made
    BY <1>1 DEF TypeOK
  <2>2. timerOf[pending] \in Timers /\ recOf[timerOf[pending]] = pending
    BY <1>1, <2>1, Filing
  <2>3. recOf[t] # pending
    BY <1>2 DEF Inv, StoppedIsPast, t
  <2> QED BY <1>4, <2>2, <2>3 DEF Inv, PendingHasTimer
<1>9. ArmedTimerIsOwned'
  <2> SUFFICES ASSUME NEW u \in Timers, timer'[u] = "armed"
               PROVE  /\ timerOf[recOf[u]] = u
                      /\ \/ pending = recOf[u]
                         \/ \E d \in Cancellers : stopping'[d] = u
                         \/ \E w \in replaced :
                              /\ recOf[w] = recOf[u]
                              /\ timer'[w] \in {"decided", "done"}
    BY <1>2 DEF ArmedTimerIsOwned
  <2>1. timer[u] = "armed" /\ u # t
    BY <1>4
  <2>2. ASSUME NEW w \in replaced, timer[w] \in {"decided", "done"}
        PROVE  timer'[w] \in {"decided", "done"}
    BY <1>1, <1>4, <2>2 DEF TypeOK
  <2>3. ASSUME NEW d \in Cancellers, stopping[d] = u
        PROVE  stopping'[d] = u
    BY <1>5, <2>1, <2>3 DEF t
  <2> QED BY <2>1, <2>2, <2>3 DEF Inv, ArmedTimerIsOwned
<1>10. DecidedIsAlone' /\ OpenIsFresh' /\ OneEnd'
  BY <1>2, <1>4 DEF Inv, DecidedIsAlone, OpenIsFresh, OneEnd
<1> QED BY <1>6, <1>7, <1>8, <1>9, <1>10 DEF Inv

\* Readiness, a leave event and the shutdown cancel alike: the timer of the
\* recovery that was pending is left to its canceller.
LEMMA CancelInv ==
  ASSUME Inv, NEW c \in Cancellers, Cancel(c),
         UNCHANGED <<sessionVars, made, timerVars, falling, replaced, fallbacks>>,
         waiting' \in BOOLEAN, extending' \in BOOLEAN, leaving' \in BOOLEAN
  PROVE  Inv'
<1> USE DEF sessionVars, timerVars
<1>1. TypeOK /\ TimersAreFiled
  BY DEF Inv
<1>2. /\ stopping[c] = 0 /\ pending' = 0
      /\ stopping' = [stopping EXCEPT ![c] = IF pending = 0 THEN 0
                                             ELSE timerOf[pending]]
      /\ recovered' = recovered \cup ({pending} \ {0})
  BY DEF Cancel, Delete, Reported
<1>3. pending # 0 =>
        /\ pending \in 1..made /\ pending \in Recoveries
        /\ timerOf[pending] \in 1..armed /\ recOf[timerOf[pending]] = pending
  <2>1. pending # 0 => pending \in 1..made
    BY <1>1 DEF TypeOK
  <2> QED BY <1>1, <2>1, Filing
<1>4. /\ stopping' \in [Cancellers -> 0..armed]
      /\ \A d \in Cancellers :
           stopping'[d] = IF d = c /\ pending # 0 THEN timerOf[pending]
                          ELSE stopping[d]
  <2>1. (IF pending = 0 THEN 0 ELSE timerOf[pending]) \in 0..armed
    BY <1>1, <1>3 DEF TypeOK
  <2> QED BY <1>1, <1>2, <2>1 DEF TypeOK
<1>5. TypeOK'
  BY <1>1, <1>2, <1>3, <1>4 DEF TypeOK
<1>6. TimersAreFiled'
  BY DEF Inv, TimersAreFiled
<1>7. StoppedIsPast'
  <2> SUFFICES ASSUME NEW d \in Cancellers, stopping'[d] # 0
               PROVE  recOf[stopping'[d]] # 0
    BY <1>2 DEF StoppedIsPast
  <2>1. stopping'[d] \in 1..armed /\ made \in Nat
    BY <1>1, <1>4 DEF TypeOK
  <2>2. recOf[stopping'[d]] \in 1..made
    BY <1>1, <2>1 DEF TimersAreFiled
  <2> QED BY <2>1, <2>2
<1>8. PendingHasTimer'
  BY <1>2 DEF PendingHasTimer
<1>9. ArmedTimerIsOwned'
  <2> SUFFICES ASSUME NEW u \in Timers, timer[u] = "armed"
               PROVE  /\ timerOf[recOf[u]] = u
                      /\ \/ \E d \in Cancellers : stopping'[d] = u
                         \/ \E w \in replaced :
                              /\ recOf[w] = recOf[u]
                              /\ timer[w] \in {"decided", "done"}
    BY DEF ArmedTimerIsOwned
  <2>1. u \in 1..armed /\ recOf[u] \in 1..made /\ made \in Nat
    BY <1>1, Filing DEF TypeOK
  <2>2. CASE pending = recOf[u]
    <3>1. pending # 0 /\ timerOf[pending] = u
      BY <2>1, <2>2 DEF Inv, ArmedTimerIsOwned
    <3> QED BY <1>4, <2>2, <3>1
  <2>3. CASE pending # recOf[u]
    <3>1. ASSUME NEW d \in Cancellers, stopping[d] = u
          PROVE  stopping'[d] = u
      BY <1>2, <1>4, <2>1, <3>1
    <3> QED BY <2>3, <3>1 DEF Inv, ArmedTimerIsOwned
  <2> QED BY <2>2, <2>3
<1>10. DecidedIsAlone'
  <2> SUFFICES ASSUME NEW u \in Timers, timer[u] = "decided"
               PROVE  recOf[u] # 0 /\ recOf[u] \notin recovered'
    BY <1>2 DEF Inv, DecidedIsAlone
  <2>1. recOf[u] \in 1..made /\ made \in Nat
    BY <1>1, Filing DEF TypeOK
  <2> QED BY <1>2, <2>1 DEF Inv, DecidedIsAlone
<1>11. OpenIsFresh'
  <2> SUFFICES ASSUME NEW q \in Recoveries, q = 0 \/ q > made
               PROVE  fallbacks[q] = 0 /\ q \notin recovered'
    BY <1>2 DEF OpenIsFresh
  <2>1. q > made /\ q # pending
    BY <1>1, BoundsAssumption DEF TypeOK, Recoveries
  <2> QED BY <1>2, <2>1 DEF Inv, OpenIsFresh
<1>12. OneEnd'
  <2> SUFFICES ASSUME NEW q \in Recoveries
               PROVE  /\ fallbacks[q] <= 1
                      /\ q \in recovered' => fallbacks[q] = 0
    BY DEF OneEnd
  <2>1. q = pending => fallbacks[q] = 0
    BY DEF Inv, OpenIsFresh
  <2> QED BY <1>2, <2>1 DEF Inv, OneEnd
<1> QED BY <1>5, <1>6, <1>7, <1>8, <1>9, <1>10, <1>11, <1>12 DEF Inv

\* The three callers of cancelPendingVoiceGatewayClose.
LEMMA CancellersInv ==
  ASSUME Inv, GatewayReady \/ Leave \/ Shutdown
  PROVE  Inv'
<1> USE DEF eventVars
<1>1. waiting \in BOOLEAN /\ extending \in BOOLEAN /\ leaving \in BOOLEAN
  BY DEF Inv, TypeOK
<1>2. /\ waiting' \in BOOLEAN /\ extending' \in BOOLEAN
      /\ leaving' \in BOOLEAN
      /\ UNCHANGED <<sessionVars, made, timerVars, falling, replaced, fallbacks>>
      /\ Cancel("gateway") \/ Cancel("loop") \/ Cancel("main")
  BY <1>1 DEF GatewayReady, Leave, Shutdown
<1>3. {"gateway", "loop", "main"} \subseteq Cancellers
  BY DEF Cancellers
<1> QED BY <1>2, <1>3, CancelInv

----------------------------------------------------------------------------
\* Every step preserves the invariant.
LEMMA NextInv == Inv /\ [Next]_vars => Inv'
<1> SUFFICES ASSUME Inv, [Next]_vars PROVE Inv'
  OBVIOUS
<1>1. ASSUME NEW t \in Timers,
             Expire(t) \/ Decide(t) \/ Look(t) \/ FallBack(t)
      PROVE  Inv'
  BY <1>1, ExpireInv, DecideInv, LookInv, FallBackInv
<1>2. CASE Recover \/ Extend
  BY <1>2, RecoverInv, ExtendInv
<1>3. ASSUME NEW c \in Cancellers, StopTimer(c)
      PROVE  Inv'
  BY <1>3, StopTimerInv
<1>4. CASE GatewayReady \/ Leave \/ Shutdown
  BY <1>4, CancellersInv
<1>5. CASE Terminated \/ ServerUpdate \/ LeaveDestroys \/ SessionStarts
           \/ SessionEnds \/ UNCHANGED vars
  BY <1>5, FlagsInv
<1> QED BY <1>1, <1>2, <1>3, <1>4, <1>5 DEF Next

\* The inductive invariant of a guild's recoveries.
THEOREM RecoveryInvariant == SafetySpec => []Inv
<1> QED BY InitInv, NextInv, PTL DEF SafetySpec

\* Every variable of the recovery's model stays in its range.
THEOREM RecoveryTypeCorrect == SafetySpec => []TypeOK
<1>1. Inv => TypeOK
  BY DEF Inv
<1> QED BY <1>1, RecoveryInvariant, PTL

\* No recovery closes the connection twice, however often voice server
\* updates extend it.
THEOREM FallsBackOnce == SafetySpec => []AtMostOneFallback
<1>1. Inv => AtMostOneFallback
  BY DEF Inv, OneEnd, AtMostOneFallback
<1> QED BY <1>1, RecoveryInvariant, PTL

\* A recovery that readiness, a leave event or the shutdown has cancelled does
\* not fall back, although its timer may already have expired.
THEOREM CancelledStaysCancelled == SafetySpec => []NoFallbackAfterCancel
<1>1. Inv => NoFallbackAfterCancel
  <2> SUFFICES ASSUME Inv, NEW r \in recovered
               PROVE  /\ fallbacks[r] = 0
                      /\ \A t \in Timers : recOf[t] = r => timer[t] # "decided"
    BY DEF NoFallbackAfterCancel
  <2>1. r \in Recoveries
    BY DEF Inv, TypeOK
  <2> QED BY <2>1 DEF Inv, OneEnd, DecidedIsAlone
<1> QED BY <1>1, RecoveryInvariant, PTL

\* No timer that can still expire is forgotten.
THEOREM NoForgottenTimer == SafetySpec => []ArmedTimerIsOwned
<1>1. Inv => ArmedTimerIsOwned
  BY DEF Inv
<1> QED BY <1>1, RecoveryInvariant, PTL

\* A pending recovery, which mutes the keepalive, always has a timer that will
\* decide about it.
THEOREM PendingIsTimed == SafetySpec => []PendingHasTimer
<1>1. Inv => PendingHasTimer
  BY DEF Inv
<1> QED BY <1>1, RecoveryInvariant, PTL

----------------------------------------------------------------------------
(***************************************************************************)
(* The timers implement the recoveries of Recovery: a timer that decides   *)
(* gives its recovery up, and the call that follows falls back for it.     *)
(***************************************************************************)
\* Nobody starts or ends a decision.
LEMMA GivenUpStays ==
  ASSUME \A t \in Timers :
           /\ timer'[t] = "decided" <=> timer[t] = "decided"
           /\ timer[t] = "decided" => recOf'[t] = recOf[t]
  PROVE  GivenUp' = GivenUp
BY DEF GivenUp

\* Arming a timer, after another was stopped, decides nothing.
LEMMA ArmDecidesNothing ==
  ASSUME TypeOK, TimersAreFiled, NEW t \in 0..armed, NEW r \in 1..MaxRecoveries,
         Arm(Stop(timer, t), r) \/ Arm(timer, r)
  PROVE  GivenUp' = GivenUp
<1>1. /\ timer \in [Timers -> TimerStates]
      /\ armed + 1 \in Timers /\ timer[armed + 1] # "decided"
  <2>1. armed + 1 \in Timers /\ armed \in Nat
    BY BoundsAssumption DEF Arm, TypeOK, Timers
  <2>2. timer[armed + 1] = "new"
    BY <2>1 DEF TypeOK
  <2> QED BY <2>1, <2>2 DEF TypeOK
<1>2. CASE Arm(Stop(timer, t), r)
  <2>1. /\ Stop(timer, t) \in [Timers -> TimerStates]
        /\ \A u \in Timers : Stop(timer, t)[u] =
             IF u = t /\ timer[u] = "armed" THEN "stopped" ELSE timer[u]
    BY StopEffect
  <2>2. \A u \in Timers :
          /\ timer'[u] = IF u = armed + 1 THEN "armed"
                         ELSE Stop(timer, t)[u]
          /\ recOf'[u] = IF u = armed + 1 THEN r ELSE recOf[u]
    BY <1>2, <2>1, ArmEffect
  <2> QED BY <1>1, <2>1, <2>2, GivenUpStays
<1>3. CASE Arm(timer, r)
  <2>1. \A u \in Timers :
          /\ timer'[u] = IF u = armed + 1 THEN "armed" ELSE timer[u]
          /\ recOf'[u] = IF u = armed + 1 THEN r ELSE recOf[u]
    BY <1>1, <1>3, ArmEffect
  <2> QED BY <1>1, <2>1, GivenUpStays
<1> QED BY <1>2, <1>3

\* A timer gives up the recovery it finds pending, and no other.
LEMMA DecideRefines ==
  ASSUME Inv, NEW t \in Timers, Decide(t)
  PROVE  [Abstract!Next]_(Abstract!vars)
<1>1. timer[t] = "firing" /\ UNCHANGED <<made, recOf>>
  BY DEF Decide
<1>2. TypeOK /\ TimersAreFiled
  BY DEF Inv
<1>3. recOf[t] \in 1..made /\ recOf[t] \in Recoveries /\ made \in Nat
  BY <1>1, <1>2, Filing DEF TypeOK
<1>4. CASE StillPending(t)
  <2>1. /\ pending = recOf[t] /\ pending' = 0
        /\ timer' = [timer EXCEPT ![t] = "decided"]
    BY <1>4 DEF Decide, StillPending, Delete
  <2>2. \A u \in Timers :
          timer'[u] = IF u = t THEN "decided" ELSE timer[u]
    BY <1>2, <2>1 DEF TypeOK
  <2>3. GivenUp' = GivenUp \cup {pending}
    BY <1>1, <1>3, <2>1, <2>2 DEF GivenUp
  <2>4. Abstract!GiveUp
    BY <1>1, <1>3, <2>1, <2>3 DEF Abstract!GiveUp
  <2> QED BY <2>4 DEF Abstract!Next
<1>5. CASE ~StillPending(t)
  <2>1. pending' = pending /\ timer' = [timer EXCEPT ![t] = "done"]
    BY <1>5 DEF Decide
  <2>2. \A u \in Timers : timer'[u] = IF u = t THEN "done" ELSE timer[u]
    BY <1>2, <2>1 DEF TypeOK
  <2>3. GivenUp' = GivenUp
    BY <1>1, <2>2, GivenUpStays
  <2> QED BY <1>1, <2>1, <2>3 DEF Abstract!vars
<1> QED BY <1>4, <1>5

\* The end of its function is the end of that recovery: no other timer has
\* given it up.
LEMMA FallBackRefines ==
  ASSUME Inv, NEW t \in Timers, FallBack(t) \/ (Look(t) /\ session = 0)
  PROVE  recOf[t] \in Recoveries /\ Abstract!FallBack(recOf[t])
<1>1. /\ timer[t] = "decided" /\ timer' = [timer EXCEPT ![t] = "done"]
      /\ UNCHANGED <<pending, made, recOf>>
  BY DEF FallBack, Look, Inv, TypeOK
<1>2. recOf[t] \in Recoveries
  BY <1>1, Filing DEF Inv
<1>3. \A u \in Timers : timer'[u] = IF u = t THEN "done" ELSE timer[u]
  BY <1>1 DEF Inv, TypeOK
<1>4. \A u \in Timers :
        timer[u] = "decided" /\ recOf[u] = recOf[t] => u = t
  BY <1>1 DEF Inv, DecidedIsAlone
<1>5. recOf[t] \in GivenUp
  BY <1>1, <1>2 DEF GivenUp
<1>6. GivenUp' = GivenUp \ {recOf[t]}
  BY <1>1, <1>2, <1>3, <1>4 DEF GivenUp
<1> QED BY <1>1, <1>2, <1>5, <1>6 DEF Abstract!FallBack

\* A recovery starts in place of the one that was pending.
LEMMA RecoverRefines ==
  ASSUME Inv, Recover
  PROVE  [Abstract!Next]_(Abstract!vars)
<1> DEFINE r == made + 1
           old == IF pending = 0 THEN 0 ELSE timerOf[pending]
<1>1. TypeOK /\ TimersAreFiled
  BY DEF Inv
<1>2. /\ made < MaxRecoveries /\ made' = r /\ pending' = r
      /\ Arm(Stop(timer, old), r) \/ Arm(timer, r)
  BY DEF Recover
<1>3. r \in 1..MaxRecoveries /\ r \notin 1..made /\ 1..r = 1..made \cup {r}
  BY <1>1, <1>2, BoundsAssumption DEF TypeOK
<1>4. old \in 0..armed
  <2>1. pending # 0 => timerOf[pending] \in 1..armed
    BY <1>1, Filing DEF TypeOK
  <2> QED BY <1>1, <2>1 DEF TypeOK
<1> HIDE DEF r, old
<1>5. GivenUp' = GivenUp
  BY <1>1, <1>2, <1>3, <1>4, ArmDecidesNothing
<1>6. Abstract!Start(r)
  BY <1>2, <1>3, <1>5 DEF Abstract!Start, Recoveries
<1> QED BY <1>3, <1>6 DEF Abstract!Next, Recoveries

\* An extension is no step of a recovery.
LEMMA ExtendRefines ==
  ASSUME Inv, Extend
  PROVE  UNCHANGED Abstract!vars
<1>1. TypeOK /\ TimersAreFiled /\ UNCHANGED <<pending, made>>
  BY DEF Inv, Extend
<1>2. CASE pending = 0
  <2>1. UNCHANGED <<timer, recOf>>
    BY <1>2 DEF Extend, timerVars
  <2> QED BY <1>1, <2>1, GivenUpStays DEF Abstract!vars
<1>3. CASE pending # 0
  <2>1. pending \in 1..made /\ pending \in 1..MaxRecoveries
    BY <1>1, <1>3, BoundsAssumption DEF TypeOK
  <2>2. timerOf[pending] \in 0..armed
    BY <1>1, <2>1, Filing DEF TypeOK
  <2>3. Arm(Stop(timer, timerOf[pending]), pending)
    BY <1>3 DEF Extend
  <2> QED BY <1>1, <2>1, <2>2, <2>3, ArmDecidesNothing DEF Abstract!vars
<1> QED BY <1>2, <1>3

\* Whoever cancels ends the pending recovery, if there is one.
LEMMA CancelRefines ==
  ASSUME Inv, GatewayReady \/ Leave \/ Shutdown
  PROVE  [Abstract!Next]_(Abstract!vars)
<1>1. pending' = 0 /\ UNCHANGED <<made, timer, recOf>>
  BY DEF GatewayReady, Leave, Shutdown, Cancel, Delete, timerVars
<1>2. GivenUp' = GivenUp
  BY <1>1, GivenUpStays
<1>3. CASE pending = 0
  BY <1>1, <1>2, <1>3 DEF Abstract!vars
<1>4. CASE pending # 0
  BY <1>1, <1>2, <1>4 DEF Abstract!Cancel, Abstract!Next
<1> QED BY <1>3, <1>4

\* The other steps are not about a recovery.
LEMMA OthersRefine ==
  ASSUME Inv,
         \/ \E t \in Timers : Expire(t) \/ (Look(t) /\ session # 0)
         \/ \E c \in Cancellers : StopTimer(c)
         \/ Terminated \/ ServerUpdate \/ LeaveDestroys
         \/ SessionStarts \/ SessionEnds \/ UNCHANGED vars
  PROVE  UNCHANGED Abstract!vars
<1>1. UNCHANGED <<pending, made, recOf>>
  BY DEF Expire, Look, StopTimer, Terminated, ServerUpdate, LeaveDestroys,
         SessionStarts, SessionEnds, vars, timerVars
<1>2. \A u \in Timers : timer'[u] = "decided" <=> timer[u] = "decided"
  <2>1. ASSUME NEW t \in Timers, Expire(t) \/ (Look(t) /\ session # 0)
        PROVE  \A u \in Timers : timer'[u] = "decided" <=> timer[u] = "decided"
    BY <2>1 DEF Expire, Look, Inv, TypeOK
  <2>2. ASSUME NEW c \in Cancellers, StopTimer(c)
        PROVE  \A u \in Timers : timer'[u] = "decided" <=> timer[u] = "decided"
    <3>1. TypeOK /\ stopping[c] \in 0..armed
      BY DEF Inv, TypeOK
    <3>2. \A u \in Timers : Stop(timer, stopping[c])[u] =
            IF u = stopping[c] /\ timer[u] = "armed" THEN "stopped"
            ELSE timer[u]
      BY <3>1, StopEffect
    <3> QED BY <2>2, <3>2 DEF StopTimer
  <2>3. CASE \/ Terminated \/ ServerUpdate \/ LeaveDestroys
             \/ SessionStarts \/ SessionEnds \/ UNCHANGED vars
    BY <2>3 DEF Terminated, ServerUpdate, LeaveDestroys, SessionStarts,
                SessionEnds, vars, timerVars
  <2> QED BY <2>1, <2>2, <2>3
<1> QED BY <1>1, <1>2, GivenUpStays DEF Abstract!vars

\* Every step of the timers is a step of the recoveries or a stutter.
LEMMA StepRefines ==
  Inv /\ [Next]_vars => [Abstract!Next]_(Abstract!vars)
<1> SUFFICES ASSUME Inv, [Next]_vars
             PROVE  [Abstract!Next]_(Abstract!vars)
  OBVIOUS
<1>1. ASSUME NEW t \in Timers, Decide(t)
      PROVE  [Abstract!Next]_(Abstract!vars)
  BY <1>1, DecideRefines
<1>2. ASSUME NEW t \in Timers, FallBack(t) \/ (Look(t) /\ session = 0)
      PROVE  [Abstract!Next]_(Abstract!vars)
  BY <1>2, FallBackRefines DEF Abstract!Next
<1>3. CASE Recover \/ Extend
  BY <1>3, RecoverRefines, ExtendRefines
<1>4. CASE GatewayReady \/ Leave \/ Shutdown
  BY <1>4, CancelRefines
<1> QED BY <1>1, <1>2, <1>3, <1>4, OthersRefine DEF Next

\* Before the first close there is no recovery.
LEMMA InitRefines == Init => Abstract!Init
BY BoundsAssumption DEF Init, Abstract!Init, GivenUp

\* The recoveries' timers, which expire, are stopped, extended and overtaken
\* in any order, do what Recovery says: a close starts a recovery once, one
\* recovery is pending at a time, only a pending one is given up, and only
\* one that was given up falls back, once.
THEOREM TimersImplementRecovery == SafetySpec => ImplementsRecovery
<1>1. SafetySpec => Abstract!Init
  BY InitRefines DEF SafetySpec
<1>2. SafetySpec => [][Abstract!Next]_(Abstract!vars)
  BY RecoveryInvariant, StepRefines, PTL DEF SafetySpec
<1> QED BY <1>1, <1>2, PTL DEF ImplementsRecovery, Abstract!Spec
=============================================================================
