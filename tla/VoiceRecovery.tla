--------------------------- MODULE VoiceRecovery ---------------------------
(***************************************************************************)
(* How the handler survives the voice gateway's close code 4022 in one     *)
(* guild (internal/bot/events.go): a recovery is pending until the gateway *)
(* is ready again, the bot leaves the channel, or a timer gives up and     *)
(* runs the fallback, which closes the connection.  A voice server update  *)
(* extends the time.                                                       *)
(*                                                                         *)
(* A step is one critical section of voiceGatewayCloseMu or one call       *)
(* outside it.  time.Timer.Stop prevents only a function that has not been *)
(* started: a timer is "armed", then its function is "firing" (it waits    *)
(* for the mutex), then it has "decided" to give its recovery up, or it is *)
(* "done".                                                                 *)
(* Timers expire at any time.                                              *)
(***************************************************************************)
EXTENDS Naturals, FiniteSets

CONSTANTS MaxSessions,   \* sessions the guild has, one after the other
          MaxRecoveries, \* gateway closes, and
          MaxTimers      \* timers that are observed

ASSUME BoundsAssumption ==
  MaxSessions \in Nat /\ MaxRecoveries \in Nat /\ MaxTimers \in Nat

Recoveries == 1..MaxRecoveries
Timers == 1..MaxTimers

\* Who calls cancelPendingVoiceGatewayClose: the goroutine of the voice
\* gateway, the event loop of the bot, and main at shutdown.
Cancellers == {"gateway", "loop", "main"}

VARIABLES
  session,   \* the guild's registered session, 0 for none
  started,   \* how many sessions there have been
  pending,   \* voiceGatewayRecoveries[guildID], 0 for none
  made,      \* how many recoveries have been made
  timerOf,   \* recovery.timer
  armed,     \* how many timers have been started
  recOf,     \* the recovery a timer's function is about
  timer,     \* the state of each timer
  waiting,   \* WaitForVoiceServerRecovery is past its check of the session
  extending, \* OnVoiceServerUpdate is past its check of the session
  falling,   \* timers whose function is past its check of the session
  stopping,  \* the timer each canceller has yet to stop, 0 for none
  leaving,   \* OnGuildVoiceStateUpdate has yet to destroy the session
  replaced,  \* timers that an extension replaced
  recovered, \* recoveries whose cancellation was reported
  fallbacks  \* how often each recovery's fallback ran

sessionVars == <<session, started>>
timerVars == <<timerOf, armed, recOf, timer>>
eventVars == <<waiting, extending, leaving, falling>>
reportVars == <<replaced, recovered, fallbacks>>

vars == <<sessionVars, pending, made, timerVars, eventVars, stopping,
          reportVars>>

TimerStates == {"new", "armed", "stopped", "firing", "decided", "done"}

Init ==
  /\ session = 0 /\ started = 0
  /\ pending = 0 /\ made = 0
  /\ timerOf = [r \in Recoveries |-> 0]
  /\ armed = 0
  /\ recOf = [t \in Timers |-> 0]
  /\ timer = [t \in Timers |-> "new"]
  /\ waiting = FALSE /\ extending = FALSE /\ leaving = FALSE
  /\ falling = {}
  /\ stopping = [c \in Cancellers |-> 0]
  /\ replaced = {} /\ recovered = {}
  /\ fallbacks = [r \in Recoveries |-> 0]

----------------------------------------------------------------------------
(***************************************************************************)
(* Timers.  The operators named ...Fault are not part of the specification *)
(* but plausible slips in the operator after them.                         *)
(***************************************************************************)
NotStoppedFault(ts, t) == ts
\* timer.Stop()
Stop(ts, t) ==
  IF t # 0 /\ ts[t] = "armed" THEN [ts EXCEPT ![t] = "stopped"] ELSE ts

NotArmedFault(ts, r) ==
  /\ armed < MaxTimers
  /\ armed' = armed + 1
  /\ timer' = [ts EXCEPT ![armed + 1] = "stopped"]
  /\ recOf' = [recOf EXCEPT ![armed + 1] = r]
  /\ timerOf' = [timerOf EXCEPT ![r] = armed + 1]

\* recovery.timer = time.AfterFunc(gracePeriod, ...)
Arm(ts, r) ==
  /\ armed < MaxTimers
  /\ armed' = armed + 1
  /\ timer' = [ts EXCEPT ![armed + 1] = "armed"]
  /\ recOf' = [recOf EXCEPT ![armed + 1] = r]
  /\ timerOf' = [timerOf EXCEPT ![r] = armed + 1]

Expire(t) ==
  /\ timer[t] = "armed"
  /\ timer' = [timer EXCEPT ![t] = "firing"]
  /\ UNCHANGED <<sessionVars, pending, made, timerOf, armed, recOf, eventVars,
                 stopping, reportVars>>

AnyPendingFault(t) == pending # 0
\* current == recovery
StillPending(t) == pending = recOf[t]

NotDeletedFault == UNCHANGED pending
\* delete(h.voiceGatewayRecoveries, guildID)
Delete == pending' = 0

\* The function of a timer, under the mutex.
Decide(t) ==
  /\ timer[t] = "firing"
  /\ \/ /\ StillPending(t)
        /\ Delete
        /\ timer' = [timer EXCEPT ![t] = "decided"]
     \/ /\ ~StillPending(t)
        /\ timer' = [timer EXCEPT ![t] = "done"]
        /\ UNCHANGED pending
  /\ UNCHANGED <<sessionVars, made, timerOf, armed, recOf, eventVars,
                 stopping, reportVars>>

\* Its rest, after the mutex is released: first it looks for a session, ...
Look(t) ==
  /\ timer[t] = "decided" /\ t \notin falling
  /\ \/ /\ session # 0
        /\ falling' = falling \cup {t}
        /\ UNCHANGED timer
     \/ /\ session = 0
        /\ timer' = [timer EXCEPT ![t] = "done"]
        /\ UNCHANGED falling
  /\ UNCHANGED <<sessionVars, pending, made, timerOf, armed, recOf, waiting,
                 extending, leaving, stopping, reportVars>>

\* ... then it falls back, whether or not that session is still there.
FallBack(t) ==
  /\ t \in falling
  /\ falling' = falling \ {t}
  /\ timer' = [timer EXCEPT ![t] = "done"]
  /\ fallbacks' = [fallbacks EXCEPT ![recOf[t]] = @ + 1]
  /\ UNCHANGED <<sessionVars, pending, made, timerOf, armed, recOf, waiting,
                 extending, leaving, stopping, replaced, recovered>>

----------------------------------------------------------------------------
(***************************************************************************)
(* WaitForVoiceServerRecovery, called when a gateway closes with 4022.     *)
(* Without a session it runs its fallback at once: there is no recovery    *)
(* then, and no step here (RecoverableGateway has that one).               *)
(***************************************************************************)
Terminated ==
  /\ session # 0
  /\ ~waiting
  /\ waiting' = TRUE
  /\ UNCHANGED <<sessionVars, pending, made, timerVars, extending, leaving,
                 falling, stopping, reportVars>>

Recover ==
  /\ waiting
  /\ made < MaxRecoveries
  /\ waiting' = FALSE
  /\ made' = made + 1
  /\ pending' = made + 1
  /\ Arm(IF pending = 0 THEN timer ELSE Stop(timer, timerOf[pending]),
         made + 1)
  /\ UNCHANGED <<sessionVars, extending, leaving, falling, stopping, reportVars>>

----------------------------------------------------------------------------
\* OnVoiceServerUpdate, in the event loop.
LoopIdle == ~extending /\ ~leaving /\ stopping["loop"] = 0

ServerUpdate ==
  /\ LoopIdle
  /\ session # 0
  /\ extending' = TRUE
  /\ UNCHANGED <<sessionVars, pending, made, timerVars, waiting, leaving,
                 falling, stopping, reportVars>>

\* extendPendingVoiceGatewayClose keeps the recovery and replaces its timer.
Extend ==
  /\ extending
  /\ extending' = FALSE
  /\ \/ /\ pending # 0
        /\ Arm(Stop(timer, timerOf[pending]), pending)
        /\ replaced' = replaced \cup {timerOf[pending]}
     \/ /\ pending = 0
        /\ UNCHANGED <<timerVars, replaced>>
  /\ UNCHANGED <<sessionVars, pending, made, waiting, leaving, falling,
                 stopping, recovered, fallbacks>>

----------------------------------------------------------------------------
(***************************************************************************)
(* cancelPendingVoiceGatewayClose: the entry under the mutex, the timer    *)
(* after it.                                                               *)
(***************************************************************************)
AlwaysReportedFault == recovered \cup {pending}
\* return ok
Reported == recovered \cup ({pending} \ {0})

Cancel(c) ==
  /\ stopping[c] = 0
  /\ Delete
  /\ stopping' = [stopping EXCEPT ![c] = IF pending = 0 THEN 0
                                         ELSE timerOf[pending]]
  /\ recovered' = Reported

StopTimer(c) ==
  /\ stopping[c] # 0
  /\ timer' = Stop(timer, stopping[c])
  /\ stopping' = [stopping EXCEPT ![c] = 0]
  /\ UNCHANGED <<sessionVars, pending, made, timerOf, armed, recOf, eventVars,
                 reportVars>>

\* onVoiceGatewayEvent: Resumed or SessionDescription.
GatewayReady ==
  /\ pending # 0
  /\ Cancel("gateway")
  /\ UNCHANGED <<sessionVars, made, timerVars, eventVars, replaced, fallbacks>>

\* OnGuildVoiceStateUpdate: the bot has left its channel.
Leave ==
  /\ LoopIdle
  /\ Cancel("loop")
  /\ leaving' = TRUE
  /\ UNCHANGED <<sessionVars, made, timerVars, waiting, extending, falling,
                 replaced, fallbacks>>

LeaveDestroys ==
  /\ leaving
  /\ stopping["loop"] = 0
  /\ leaving' = FALSE
  /\ session' = 0
  /\ UNCHANGED <<started, pending, made, timerVars, waiting, extending,
                 falling, stopping, reportVars>>

\* cancelAllPendingVoiceGatewayCloses in Handler.Close.
Shutdown ==
  /\ pending # 0
  /\ Cancel("main")
  /\ UNCHANGED <<sessionVars, made, timerVars, eventVars, replaced, fallbacks>>

----------------------------------------------------------------------------
\* The guild's sessions come and go; nothing here follows a session that ends
\* for another reason than a leave event.
SessionStarts ==
  /\ session = 0
  /\ started < MaxSessions
  /\ started' = started + 1
  /\ session' = started + 1
  /\ UNCHANGED <<pending, made, timerVars, eventVars, stopping, reportVars>>

SessionEnds ==
  /\ session # 0
  /\ session' = 0
  /\ UNCHANGED <<started, pending, made, timerVars, eventVars, stopping,
                 reportVars>>

Next ==
  \/ \E t \in Timers : Expire(t) \/ Decide(t) \/ Look(t) \/ FallBack(t)
  \/ Terminated \/ Recover
  \/ ServerUpdate \/ Extend
  \/ \E c \in Cancellers : StopTimer(c)
  \/ GatewayReady \/ Leave \/ LeaveDestroys \/ Shutdown
  \/ SessionStarts \/ SessionEnds

\* The runtime fires armed timers and schedules every goroutine.
Fairness ==
  /\ \A t \in Timers : /\ WF_vars(Expire(t)) /\ WF_vars(Decide(t))
                       /\ WF_vars(Look(t) \/ FallBack(t))
  /\ \A c \in Cancellers : WF_vars(StopTimer(c))
  /\ WF_vars(Recover) /\ WF_vars(Extend) /\ WF_vars(LeaveDestroys)

SafetySpec == Init /\ [][Next]_vars
Spec == SafetySpec /\ Fairness

----------------------------------------------------------------------------
(***************************************************************************)
(* Properties.                                                             *)
(***************************************************************************)
TypeOK ==
  /\ started \in 0..MaxSessions /\ session \in 0..started
  /\ made \in 0..MaxRecoveries /\ pending \in 0..made
  /\ armed \in 0..MaxTimers
  /\ timerOf \in [Recoveries -> 0..armed]
  /\ recOf \in [Timers -> 0..made]
  /\ timer \in [Timers -> TimerStates]
  /\ \A t \in Timers : timer[t] = "new" <=> t > armed
  /\ waiting \in BOOLEAN /\ extending \in BOOLEAN /\ leaving \in BOOLEAN
  /\ falling \subseteq {t \in Timers : timer[t] = "decided"}
  /\ stopping \in [Cancellers -> 0..armed]
  /\ replaced \subseteq Timers /\ recovered \subseteq Recoveries
  /\ fallbacks \in [Recoveries -> Nat]

\* However many timers a recovery had, its fallback closes the connection at
\* most once.
AtMostOneFallback == \A r \in Recoveries : fallbacks[r] <= 1

\* Once the gateway was reported ready ("voice gateway recovery completed"),
\* or the bot left, the fallback of that recovery does not run any more,
\* although its timer may already have expired.
NoFallbackAfterCancel ==
  \A r \in recovered :
    /\ fallbacks[r] = 0
    /\ \A t \in Timers : recOf[t] = r => timer[t] # "decided"

\* No timer is forgotten: one that can still expire is the current timer of
\* the pending recovery, or of one whose canceller has yet to stop it, or of
\* one that an extension replaced too late: the old timer had expired already
\* and has taken the entry.
ArmedTimerIsOwned ==
  \A t \in Timers :
    timer[t] = "armed" =>
      /\ timerOf[recOf[t]] = t
      /\ \/ pending = recOf[t]
         \/ \E c \in Cancellers : stopping[c] = t
         \/ \E u \in replaced :
              recOf[u] = recOf[t] /\ timer[u] \in {"decided", "done"}

\* A pending recovery has a timer that will still decide about it.
PendingHasTimer ==
  pending # 0 =>
    timer[timerOf[pending]] \in {"armed", "firing"}

\* A pending recovery mutes the keepalive: it ends, by readiness, by a leave
\* event, by a newer recovery or by its fallback, when the voice server
\* updates that extend it have ceased.
RecoveryEnds == \A r \in Recoveries : []<>(pending # r)

\* The recoveries that were given up and have yet to fall back.
GivenUp == {r \in Recoveries :
              \E t \in Timers : recOf[t] = r /\ timer[t] = "decided"}

Abstract == INSTANCE Recovery WITH
              None <- 0, known <- 1..made, expired <- GivenUp

\* The timers implement the recoveries that Recovery describes.
ImplementsRecovery == Abstract!Spec

\* internal/bot/events_test.go:153, "fallback should be extended after voice
\* server update": a timer that an extension replaced does not fall back.
ExtensionHolds ==
  \A t \in replaced : timer[t] # "decided"
=============================================================================
