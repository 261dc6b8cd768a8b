------------------------- MODULE RecoverableGateway -------------------------
(***************************************************************************)
(* The voice gateway of one connection (internal/bot/voice_conn_factory.go)*)
(* outlives the library's gateways: when one of them ends with close code  *)
(* 4022 (call terminated), the next Open replaces it.  The close handler   *)
(* that NewVoiceConnCreateFunc installs turns a 4022 into a recovery       *)
(* instead of the end of the connection.                                   *)
(*                                                                         *)
(* The library's gateways are external: one can be opened, becomes ready,  *)
(* ends by itself at any time, and tells its close handler so in a         *)
(* goroutine; closed by its user it tells nobody.  VoiceRecovery has the   *)
(* timers of a recovery in detail; here a recovery just expires.           *)
(***************************************************************************)
EXTENDS Naturals

CONSTANTS Openers,     \* goroutines that call Open
          MaxGateways, \* gateways the library creates, and
          MaxEnds      \* gateway ends, that are observed

ASSUME GatewayAssumption ==
  MaxGateways \in Nat \ {0} /\ MaxEnds \in Nat

Gateways == 1..MaxGateways
Ends == 1..MaxEnds
Code == {"terminated", "lost"}  \* 4022, any other

VARIABLES
  current,  \* g.current
  recreate, \* g.recreateOnNextOpen
  gateway,  \* the state of the library's gateways
  picked,   \* the gateway each Open is about to open, 0 for none
  ends,     \* how many times a gateway has ended by itself
  ended,    \* the gateway that ended
  callback, \* and what its close callback is about to do: to mark the gateway,
            \* or to call the close handler with the code it ended with
  pending,  \* the end the pending recovery is about, 0 for none
  expired,  \* ends whose recovery was given up: its timer's function goes on
  falling,  \* those of them that have found the session: CloseConn is next
  session,  \* the guild has its session
  closed,   \* the connection has been closed
  overtaken \* history: gateways that were opened after they were replaced

endVars == <<ends, ended>>
recoveryVars == <<pending, expired, falling>>
connVars == <<session, closed>>
vars == <<current, recreate, gateway, picked, endVars, callback,
          recoveryVars, connVars, overtaken>>

Alive(g) == gateway[g] \in {"open", "ready"}

Init ==
  /\ current = 1 /\ recreate = FALSE
  /\ gateway = [g \in Gateways |-> IF g = 1 THEN "new" ELSE "none"]
  /\ picked = [o \in Openers |-> 0]
  /\ ends = 0
  /\ ended = [e \in Ends |-> 0]
  /\ callback = [e \in Ends |-> "none"]
  /\ pending = 0 /\ expired = {} /\ falling = {}
  /\ session = TRUE /\ closed = FALSE
  /\ overtaken = {}

----------------------------------------------------------------------------
(***************************************************************************)
(* Open.  The operators named ...Fault are not part of the specification   *)
(* but plausible slips in the operator after them.                         *)
(***************************************************************************)
NotClosedFault == [gateway EXCEPT ![current + 1] = "new"]
\* g.current.Close(); g.current = g.createUnderlying()
Recreated ==
  [gateway EXCEPT ![current] = "closed", ![current + 1] = "new"]

NotInstalledFault ==
  /\ current < MaxGateways
  /\ gateway' = Recreated
  /\ recreate' = FALSE
  /\ UNCHANGED current
Recreate ==
  /\ current < MaxGateways
  /\ current' = current + 1
  /\ gateway' = Recreated
  /\ recreate' = FALSE

\* The critical section: the flag, the old gateway and the new one.
Open(o) ==
  /\ picked[o] = 0
  /\ \/ recreate /\ Recreate
     \/ ~recreate /\ UNCHANGED <<current, recreate, gateway>>
  /\ picked' = [picked EXCEPT ![o] = current']
  /\ UNCHANGED <<endVars, callback, recoveryVars, connVars, overtaken>>

\* current.Open(ctx, state), after the mutex is released: it fails on a
\* gateway that is open, and can fail on any.  Another Open may have replaced
\* the gateway by then.
Dial(o) ==
  /\ picked[o] # 0
  /\ picked' = [picked EXCEPT ![o] = 0]
  /\ \/ /\ ~Alive(picked[o])
        /\ gateway' = [gateway EXCEPT ![picked[o]] = "open"]
        /\ overtaken' = overtaken \cup ({picked[o]} \ {current})
     \/ UNCHANGED <<gateway, overtaken>>
  /\ UNCHANGED <<current, recreate, endVars, callback, recoveryVars, connVars>>

----------------------------------------------------------------------------
(***************************************************************************)
(* The life of a gateway.                                                  *)
(***************************************************************************)
\* onVoiceGatewayEvent: cancelPendingVoiceGatewayClose
CancelPending == pending' = 0 /\ UNCHANGED <<expired, falling>>

Ready(g) ==
  /\ gateway[g] = "open"
  /\ gateway' = [gateway EXCEPT ![g] = "ready"]
  /\ CancelPending
  /\ UNCHANGED <<current, recreate, picked, endVars, callback, connVars,
                 overtaken>>

\* The listening goroutine reads a close frame or an error and starts the
\* close callback.
End(g) ==
  /\ Alive(g)
  /\ ends < MaxEnds
  /\ ends' = ends + 1
  /\ ended' = [ended EXCEPT ![ends + 1] = g]
  /\ \E c \in Code :
       /\ gateway' = [gateway EXCEPT ![g] = c]
       /\ callback' = [callback EXCEPT ![ends + 1] =
                         IF c = "terminated" THEN "mark" ELSE c]
  /\ UNCHANGED <<current, recreate, picked, recoveryVars, connVars, overtaken>>

NotMarkedFault == UNCHANGED recreate
\* g.recreateOnNextOpen = true, under the mutex.
SetRecreate == recreate' = TRUE

Mark(e) ==
  /\ callback[e] = "mark"
  /\ callback' = [callback EXCEPT ![e] = "terminated"]
  /\ SetRecreate
  /\ UNCHANGED <<current, gateway, picked, endVars, recoveryVars, connVars,
                 overtaken>>

\* The connection's close handler, and Conn.Close: g.Close() closes the
\* current gateway.
CloseConn ==
  /\ closed' = TRUE
  /\ gateway' = [gateway EXCEPT ![current] = "closed"]

DroppedFault(e) == UNCHANGED <<gateway, recoveryVars, closed>>
\* The wrapped close handler: a termination waits for a voice server update
\* while there is a session, and everything else closes the connection.
HandleEnd(e) ==
  \/ /\ callback[e] = "terminated" /\ session
     /\ pending' = e
     /\ UNCHANGED <<gateway, expired, falling, closed>>
  \/ /\ callback[e] = "lost" \/ ~session
     /\ CloseConn
     /\ UNCHANGED recoveryVars

Handle(e) ==
  /\ callback[e] \in Code
  /\ callback' = [callback EXCEPT ![e] = "done"]
  /\ HandleEnd(e)
  /\ UNCHANGED <<current, recreate, picked, endVars, session, overtaken>>

----------------------------------------------------------------------------
(***************************************************************************)
(* The recovery's timer, and the session.                                  *)
(***************************************************************************)
Expire ==
  /\ pending # 0
  /\ pending' = 0
  /\ expired' = expired \cup {pending}
  /\ UNCHANGED <<current, recreate, gateway, picked, endVars, callback,
                 falling, connVars, overtaken>>

\* The timer's function, after the mutex is released: first it looks for the
\* session, ...
Look(e) ==
  /\ e \in expired \ falling
  /\ \/ session /\ falling' = falling \cup {e} /\ UNCHANGED expired
     \/ ~session /\ expired' = expired \ {e} /\ UNCHANGED falling
  /\ UNCHANGED <<current, recreate, gateway, picked, endVars, callback,
                 pending, connVars, overtaken>>

\* ... then it falls back, whether or not the session is still there.
FallBack(e) ==
  /\ e \in falling
  /\ expired' = expired \ {e}
  /\ falling' = falling \ {e}
  /\ CloseConn
  /\ UNCHANGED <<current, recreate, picked, endVars, callback, pending,
                 session, overtaken>>

\* Session.Close closes the connection and only then leaves the manager.
SessionCloses ==
  /\ ~closed
  /\ CloseConn
  /\ UNCHANGED <<current, recreate, picked, endVars, callback, recoveryVars,
                 session, overtaken>>

SessionLeaves ==
  /\ closed /\ session
  /\ session' = FALSE
  /\ UNCHANGED <<current, recreate, gateway, picked, endVars, callback,
                 recoveryVars, closed, overtaken>>

Next ==
  \/ \E o \in Openers : Open(o) \/ Dial(o)
  \/ \E g \in Gateways : Ready(g) \/ End(g)
  \/ \E e \in Ends : Mark(e) \/ Handle(e) \/ Look(e) \/ FallBack(e)
  \/ Expire \/ SessionCloses \/ SessionLeaves

\* The goroutines of the callbacks and of the timers are scheduled, and timers
\* fire.  Nothing is assumed of the library's Open, of Discord's voice server
\* updates, or of the users.
Fairness ==
  /\ \A e \in Ends : /\ WF_vars(Mark(e) \/ Handle(e))
                     /\ WF_vars(Look(e) \/ FallBack(e))
  /\ WF_vars(Expire)

SafetySpec == Init /\ [][Next]_vars
Spec == SafetySpec /\ Fairness

----------------------------------------------------------------------------
(***************************************************************************)
(* Properties.                                                             *)
(***************************************************************************)
TypeOK ==
  /\ current \in Gateways
  /\ recreate \in BOOLEAN
  /\ gateway \in [Gateways ->
                    {"none", "new", "open", "ready", "closed"} \cup Code]
  /\ \A g \in Gateways : gateway[g] = "none" <=> g > current
  /\ picked \in [Openers -> 0..current]
  /\ ends \in 0..MaxEnds
  /\ ended \in [Ends -> 0..current]
  /\ callback \in [Ends -> {"none", "mark", "done"} \cup Code]
  /\ \A e \in Ends : callback[e] = "none" <=> e > ends
  /\ pending \in 0..ends
  /\ expired \subseteq 1..ends /\ falling \subseteq expired
  /\ overtaken \subseteq Gateways
  /\ session \in BOOLEAN /\ closed \in BOOLEAN

\* A terminated gateway is not opened again for good: either the next Open
\* replaces it, or its callback has yet to see to that.
TerminatedIsReplaced ==
  gateway[current] = "terminated" =>
    \/ recreate
    \/ \E e \in Ends : ended[e] = current /\ callback[e] = "mark"

\* A replacement leaves no gateway alive that g.Close() does not reach, not
\* even one that was opened again before it was marked: the only way to get
\* one is an Open that another Open overtook before it came to current.Open.
NoStrayGateway ==
  \A g \in Gateways : Alive(g) => g = current \/ g \in overtaken

Abstract == INSTANCE Recovery WITH
              Recoveries <- Ends, None <- 0,
              known <- {e \in Ends : callback[e] = "done"}

\* A recovery here takes the steps of Recovery and no other; VoiceRecovery,
\* whose timers implement Recovery as well, also has the cancellations by a
\* leave event and at shutdown, after which the session closes.
ImplementsRecovery == Abstract!Spec

Connected == \E g \in Gateways : Alive(g)

\* A connection without a gateway does not last: when the current one has
\* ended and no other is alive, one comes back, the current one is replaced,
\* or the connection is closed, whether or not a voice server update ever
\* arrives, and whatever Opens overlap.
StallEnds ==
  \A g \in Gateways :
    (gateway[g] \in Code /\ g = current /\ ~Connected) ~>
      (closed \/ g # current \/ Connected)
=============================================================================
