---------------------- MODULE RecoverableGatewayProofs ----------------------
(***************************************************************************)
(* What RecoverableGateway promises for every number of gateways, of ends  *)
(* and of concurrent calls of Open.                                        *)
(***************************************************************************)
EXTENDS RecoverableGateway, TLAPS

----------------------------------------------------------------------------
\* Types.

\* A replacement closes the old gateway and makes the next one.
LEMMA RecreatedType ==
  ASSUME TypeOK, current < MaxGateways
  PROVE  /\ current + 1 \in Gateways
         /\ Recreated \in [Gateways -> {"none", "new", "open", "ready",
                                        "closed"} \cup Code]
         /\ \A g \in Gateways : Recreated[g] = "none" <=> g > current + 1
         /\ Recreated[current + 1] = "new"
         /\ Recreated[current] = "closed"
         /\ \A g \in Gateways :
              g # current /\ g # current + 1 => Recreated[g] = gateway[g]
BY GatewayAssumption DEF TypeOK, Recreated, Gateways

\* The program starts with one new gateway.
LEMMA InitType == Init => TypeOK
<1> SUFFICES ASSUME Init PROVE TypeOK
  OBVIOUS
<1>1. /\ current = 1 /\ current \in Gateways /\ 0 \in 0..current
      /\ \A g \in Gateways : g = 1 \/ g > 1
  BY GatewayAssumption DEF Init, Gateways
<1>2. /\ gateway \in [Gateways -> {"none", "new", "open", "ready", "closed"}
                                  \cup Code]
      /\ \A g \in Gateways : gateway[g] = "none" <=> g > current
  BY <1>1 DEF Init
<1>3. /\ picked \in [Openers -> 0..current]
      /\ ended \in [Ends -> 0..current]
      /\ callback \in [Ends -> {"none", "mark", "done"} \cup Code]
  BY <1>1 DEF Init
<1>4. /\ ends \in 0..MaxEnds /\ pending \in 0..ends
      /\ expired \subseteq 1..ends /\ falling \subseteq expired
      /\ \A e \in Ends : callback[e] = "none" <=> e > ends
  BY GatewayAssumption DEF Init, Ends
<1> QED BY <1>1, <1>2, <1>3, <1>4 DEF Init, TypeOK

\* Open and the gateway's own steps keep every variable in its range.
LEMMA GatewayStepType ==
  ASSUME TypeOK,
         \/ \E o \in Openers : Open(o) \/ Dial(o)
         \/ \E g \in Gateways : Ready(g) \/ End(g)
  PROVE  TypeOK'
<1> USE DEF endVars, recoveryVars, connVars
<1>1. ASSUME NEW o \in Openers, Open(o)
      PROVE  TypeOK'
  <2>1. CASE recreate
    <3>1. current < MaxGateways /\ current' = current + 1
          /\ gateway' = Recreated /\ recreate' = FALSE
      BY <1>1, <2>1 DEF Open, Recreate
    <3>2. picked' \in [Openers -> 0..current']
      BY <1>1, <3>1, GatewayAssumption DEF Open, TypeOK, Gateways
    <3>3. ended' \in [Ends -> 0..current']
      BY <1>1, <3>1, GatewayAssumption DEF Open, TypeOK, Gateways
    <3> QED BY <1>1, <3>1, <3>2, <3>3, RecreatedType DEF Open, TypeOK
  <2>2. CASE ~recreate
    BY <1>1, <2>2, GatewayAssumption DEF Open, TypeOK, Gateways
  <2> QED BY <2>1, <2>2
<1>2. ASSUME NEW o \in Openers, Dial(o)
      PROVE  TypeOK'
  <2>1. picked[o] \in Gateways /\ picked[o] \in 1..current
    BY <1>2, GatewayAssumption DEF Dial, TypeOK, Gateways
  <2>2. gateway[picked[o]] # "none"
    BY <2>1, GatewayAssumption DEF TypeOK, Gateways
  <2>3. \/ gateway' = [gateway EXCEPT ![picked[o]] = "open"]
        \/ gateway' = gateway
    BY <1>2 DEF Dial
  <2>4. /\ gateway' \in [Gateways -> {"none", "new", "open", "ready",
                                      "closed"} \cup Code]
        /\ \A h \in Gateways : gateway'[h] = "none" <=> h > current
    BY <2>1, <2>2, <2>3 DEF TypeOK
  <2>5. picked' \in [Openers -> 0..current]
    BY <1>2, GatewayAssumption DEF Dial, TypeOK, Gateways
  <2>6. overtaken' \subseteq Gateways
    BY <1>2, <2>1 DEF Dial, TypeOK
  <2> QED BY <1>2, <2>4, <2>5, <2>6 DEF Dial, TypeOK
<1>3. ASSUME NEW g \in Gateways, Ready(g)
      PROVE  TypeOK'
  BY <1>3 DEF Ready, CancelPending, TypeOK
<1>4. ASSUME NEW g \in Gateways, End(g)
      PROVE  TypeOK'
  <2>1. gateway[g] # "none" /\ g \in 1..current
    BY <1>4, GatewayAssumption DEF End, Alive, TypeOK, Gateways
  <2>2. ends + 1 \in Ends /\ ends' = ends + 1 /\ ends \in Nat
    BY <1>4, GatewayAssumption DEF End, TypeOK, Ends
  <2>3. PICK c \in Code :
          /\ gateway' = [gateway EXCEPT ![g] = c]
          /\ callback' = [callback EXCEPT ![ends + 1] =
                            IF c = "terminated" THEN "mark" ELSE c]
    BY <1>4 DEF End
  <2>4. /\ gateway' \in [Gateways -> {"none", "new", "open", "ready",
                                      "closed"} \cup Code]
        /\ \A h \in Gateways : gateway'[h] = "none" <=> h > current
    BY <2>1, <2>3 DEF TypeOK, Code
  <2>5. /\ callback' \in [Ends -> {"none", "mark", "done"} \cup Code]
        /\ \A e \in Ends : callback'[e] = "none" <=> e > ends + 1
    BY <2>2, <2>3 DEF TypeOK, Ends, Code
  <2>6. ended' \in [Ends -> 0..current]
    BY <1>4, <2>1, <2>2, <2>3 DEF End, TypeOK
  <2>7. /\ ends' \in 0..MaxEnds /\ pending \in 0..ends'
        /\ expired \subseteq 1..ends'
    BY <2>2, GatewayAssumption DEF TypeOK, Ends
  <2> QED BY <1>4, <2>2, <2>4, <2>5, <2>6, <2>7 DEF End, TypeOK
<1> QED BY <1>1, <1>2, <1>3, <1>4

\* So do the callbacks, the recovery and the session.
LEMMA HandlerStepType ==
  ASSUME TypeOK,
         \/ \E e \in Ends : Mark(e) \/ Handle(e) \/ Look(e) \/ FallBack(e)
         \/ Expire \/ SessionCloses \/ SessionLeaves
         \/ UNCHANGED vars
  PROVE  TypeOK'
<1> USE DEF endVars, recoveryVars, connVars
<1>1. ASSUME CloseConn
      PROVE  /\ gateway' \in [Gateways -> {"none", "new", "open", "ready",
                                           "closed"} \cup Code]
             /\ \A h \in Gateways : gateway'[h] = "none" <=> h > current
             /\ closed' = TRUE
  BY <1>1, GatewayAssumption DEF CloseConn, TypeOK, Gateways
<1>2. ASSUME NEW e \in Ends, Mark(e)
      PROVE  TypeOK'
  BY <1>2 DEF Mark, SetRecreate, TypeOK, Code
<1>3. ASSUME NEW e \in Ends, Handle(e)
      PROVE  TypeOK'
  <2>1. e \in 1..ends /\ ends \in Nat
    BY <1>3, GatewayAssumption DEF Handle, TypeOK, Ends, Code
  <2>2. /\ callback' \in [Ends -> {"none", "mark", "done"} \cup Code]
        /\ \A d \in Ends : callback'[d] = "none" <=> d > ends
    BY <1>3 DEF Handle, TypeOK, Code
  <2>3. CASE CloseConn /\ UNCHANGED recoveryVars
    BY <1>1, <1>3, <2>2, <2>3 DEF Handle, TypeOK
  <2>4. CASE pending' = e /\ UNCHANGED <<gateway, expired, falling, closed>>
    BY <1>3, <2>1, <2>2, <2>4 DEF Handle, TypeOK
  <2> QED BY <1>3, <2>3, <2>4 DEF Handle, HandleEnd
<1>4. ASSUME NEW e \in Ends, Look(e) \/ FallBack(e)
      PROVE  TypeOK'
  BY <1>1, <1>4 DEF Look, FallBack, TypeOK
<1>5. CASE Expire
  BY <1>5 DEF Expire, TypeOK
<1>6. CASE SessionCloses \/ SessionLeaves
  BY <1>1, <1>6 DEF SessionCloses, SessionLeaves, TypeOK
<1>7. CASE UNCHANGED vars
  BY <1>7 DEF vars, TypeOK
<1> QED BY <1>2, <1>3, <1>4, <1>5, <1>6, <1>7

\* Every variable of the gateway's model stays in its range.
THEOREM GatewayTypeCorrect == SafetySpec => []TypeOK
<1>1. TypeOK /\ [Next]_vars => TypeOK'
  BY GatewayStepType, HandlerStepType DEF Next
<1> QED BY <1>1, InitType, PTL DEF SafetySpec

----------------------------------------------------------------------------
\* The callback of a gateway that ended as terminated sets the flag before it
\* does anything else, and only a replacement clears the flag.
LEMMA ReplacedStep ==
  ASSUME TypeOK, TerminatedIsReplaced, [Next]_vars
  PROVE  TerminatedIsReplaced'
<1> USE DEF endVars, recoveryVars, connVars
<1>1. ASSUME NEW o \in Openers, Open(o)
      PROVE  TerminatedIsReplaced'
  <2>1. CASE recreate
    <3>1. gateway'[current'] = "new"
      BY <1>1, <2>1, RecreatedType DEF Open, Recreate
    <3> QED BY <3>1 DEF TerminatedIsReplaced
  <2>2. CASE ~recreate
    BY <1>1, <2>2 DEF Open, TerminatedIsReplaced
  <2> QED BY <2>1, <2>2
<1>2. ASSUME NEW o \in Openers, Dial(o)
      PROVE  TerminatedIsReplaced'
  BY <1>2 DEF Dial, TypeOK, TerminatedIsReplaced
<1>3. ASSUME NEW g \in Gateways, Ready(g)
      PROVE  TerminatedIsReplaced'
  BY <1>3 DEF Ready, TypeOK, TerminatedIsReplaced
<1>4. ASSUME NEW g \in Gateways, End(g)
      PROVE  TerminatedIsReplaced'
  <2>1. ends + 1 \in Ends /\ callback[ends + 1] = "none"
    BY <1>4, GatewayAssumption DEF End, TypeOK, Ends
  <2>2. /\ ended' = [ended EXCEPT ![ends + 1] = g]
        /\ \A e \in Ends : callback[e] = "mark" =>
             ended'[e] = ended[e] /\ callback'[e] = "mark"
    BY <1>4, <2>1 DEF End, TypeOK
  <2>3. CASE g = current
    <3>1. gateway'[current] = "terminated" => callback'[ends + 1] = "mark"
      BY <1>4, <2>1, <2>3 DEF End, TypeOK, Code
    <3>2. ended'[ends + 1] = current
      BY <2>1, <2>2, <2>3 DEF TypeOK
    <3> QED BY <1>4, <2>1, <3>1, <3>2 DEF End, TerminatedIsReplaced
  <2>4. CASE g # current
    <3>1. gateway'[current] = gateway[current]
      BY <1>4, <2>4 DEF End, TypeOK
    <3> QED BY <1>4, <2>2, <3>1 DEF End, TerminatedIsReplaced
  <2> QED BY <2>3, <2>4
<1>5. ASSUME NEW e \in Ends, Mark(e)
      PROVE  TerminatedIsReplaced'
  BY <1>5 DEF Mark, SetRecreate, TerminatedIsReplaced
<1>6. ASSUME CloseConn, current' = current
      PROVE  TerminatedIsReplaced'
  BY <1>6 DEF CloseConn, TypeOK, TerminatedIsReplaced
<1>7. ASSUME NEW e \in Ends, Handle(e)
      PROVE  TerminatedIsReplaced'
  <2>1. \A d \in Ends : callback[d] = "mark" => callback'[d] = "mark"
    BY <1>7 DEF Handle, TypeOK, Code
  <2> QED BY <1>6, <1>7, <2>1 DEF Handle, HandleEnd, TerminatedIsReplaced
<1>8. ASSUME NEW e \in Ends, Look(e) \/ FallBack(e)
      PROVE  TerminatedIsReplaced'
  BY <1>6, <1>8 DEF Look, FallBack, TerminatedIsReplaced
<1>9. CASE Expire \/ SessionCloses \/ SessionLeaves \/ UNCHANGED vars
  BY <1>6, <1>9
     DEF Expire, SessionCloses, SessionLeaves, vars, TerminatedIsReplaced
<1> QED BY <1>1, <1>2, <1>3, <1>4, <1>5, <1>7, <1>8, <1>9 DEF Next

\* A terminated gateway is replaced by the next Open that begins after its
\* callback has marked it, whatever Opens run at the same time.
THEOREM TerminatedGatewayIsReplaced == SafetySpec => []TerminatedIsReplaced
<1>1. Init => TerminatedIsReplaced
  BY GatewayAssumption DEF Init, TerminatedIsReplaced, Gateways
<1> QED BY <1>1, GatewayTypeCorrect, ReplacedStep, PTL DEF SafetySpec

----------------------------------------------------------------------------
\* A replacement closes the gateway it replaces, g.Close() the current one,
\* and every other gateway comes alive only when it is dialled.
LEMMA StrayStep ==
  ASSUME TypeOK, NoStrayGateway, [Next]_vars
  PROVE  NoStrayGateway'
<1> USE DEF endVars, recoveryVars, connVars
<1>1. ASSUME NEW o \in Openers, Open(o)
      PROVE  NoStrayGateway'
  <2>1. CASE recreate
    BY <1>1, <2>1, RecreatedType DEF Open, Recreate, NoStrayGateway, Alive
  <2>2. CASE ~recreate
    BY <1>1, <2>2 DEF Open, NoStrayGateway, Alive
  <2> QED BY <2>1, <2>2
<1>2. ASSUME NEW o \in Openers, Dial(o)
      PROVE  NoStrayGateway'
  BY <1>2 DEF Dial, TypeOK, NoStrayGateway, Alive
<1>3. ASSUME NEW g \in Gateways, Ready(g) \/ End(g)
      PROVE  NoStrayGateway'
  BY <1>3 DEF Ready, End, TypeOK, NoStrayGateway, Alive
<1>4. ASSUME CloseConn, UNCHANGED <<current, overtaken>>
      PROVE  NoStrayGateway'
  BY <1>4 DEF CloseConn, TypeOK, NoStrayGateway, Alive
<1>5. ASSUME UNCHANGED <<current, gateway, overtaken>>
      PROVE  NoStrayGateway'
  BY <1>5 DEF NoStrayGateway, Alive
<1>6. ASSUME NEW e \in Ends, Mark(e) \/ Handle(e) \/ Look(e) \/ FallBack(e)
      PROVE  NoStrayGateway'
  BY <1>4, <1>5, <1>6 DEF Mark, Handle, HandleEnd, Look, FallBack
<1>7. CASE Expire \/ SessionCloses \/ SessionLeaves \/ UNCHANGED vars
  BY <1>4, <1>5, <1>7 DEF Expire, SessionCloses, SessionLeaves, vars
<1> QED BY <1>1, <1>2, <1>3, <1>6, <1>7 DEF Next

\* Whatever Opens overlap, the only gateways alive out of reach of g.Close()
\* are those whose Open dialled them after another Open had replaced them.
THEOREM OneGatewayAlive == SafetySpec => []NoStrayGateway
<1>1. Init => NoStrayGateway
  BY DEF Init, NoStrayGateway, Alive
<1> QED BY <1>1, StrayStep, GatewayTypeCorrect, PTL DEF SafetySpec

\* Nobody is about to open a gateway that has been replaced, nor ever was.
OpensCurrent == overtaken = {} /\ \A o \in Openers : picked[o] \in {0, current}

\* When Opens do not overlap there are no such gateways.
LEMMA NothingOvertaken ==
  ASSUME \A o, p \in Openers : o = p
  PROVE  SafetySpec => [](\A g \in Gateways : Alive(g) => g = current)
<1> USE DEF endVars, recoveryVars, connVars
<1>1. Init => OpensCurrent
  BY DEF Init, OpensCurrent
<1>2. ASSUME TypeOK, OpensCurrent, [Next]_vars
      PROVE  OpensCurrent'
  <2>1. ASSUME NEW o \in Openers, Open(o)
        PROVE  OpensCurrent'
    BY <1>2, <2>1 DEF Open, TypeOK, OpensCurrent
  <2>2. ASSUME NEW o \in Openers, Dial(o)
        PROVE  OpensCurrent'
    BY <1>2, <2>2 DEF Dial, TypeOK, OpensCurrent
  <2>3. CASE UNCHANGED <<current, picked, overtaken>>
    BY <1>2, <2>3 DEF OpensCurrent
  <2> QED BY <1>2, <2>1, <2>2, <2>3
          DEF Next, Ready, End, Mark, Handle, Look, FallBack, Expire,
              SessionCloses, SessionLeaves, vars
<1>3. NoStrayGateway /\ OpensCurrent
        => \A g \in Gateways : Alive(g) => g = current
  BY DEF NoStrayGateway, OpensCurrent
<1> QED BY <1>1, <1>2, <1>3, GatewayTypeCorrect, OneGatewayAlive, PTL
        DEF SafetySpec

----------------------------------------------------------------------------
(***************************************************************************)
(* What the recoveries do here is what Recovery says.                      *)
(***************************************************************************)
\* The ends whose callback has been handled.
Handled == {e \in Ends : callback[e] = "done"}

\* Handling an end starts its recovery or refuses it.
LEMMA HandleRefines ==
  ASSUME TypeOK, NEW e \in Ends, Handle(e)
  PROVE  [Abstract!Next]_(Abstract!vars)
<1>1. /\ callback[e] # "done"
      /\ \A d \in Ends : callback'[d] = IF d = e THEN "done" ELSE callback[d]
  BY DEF Handle, TypeOK, Code
<1>2. e \notin Handled /\ Handled' = Handled \cup {e}
  BY <1>1 DEF Handled
<1>3. \/ pending' = e /\ UNCHANGED expired
      \/ UNCHANGED <<pending, expired>>
  BY DEF Handle, HandleEnd, recoveryVars
<1>4. Abstract!Start(e) \/ Abstract!Refuse(e)
  BY <1>2, <1>3 DEF Handled, Abstract!Start, Abstract!Refuse
<1> QED BY <1>4 DEF Abstract!Next

\* Readiness cancels, the timer gives up, and its function falls back or
\* finds the session gone.
LEMMA RecoveryStepRefines ==
  ASSUME TypeOK,
         \/ \E g \in Gateways : Ready(g)
         \/ \E e \in Ends : Look(e) \/ FallBack(e)
         \/ Expire
  PROVE  [Abstract!Next]_(Abstract!vars)
<1>1. ASSUME NEW g \in Gateways, Ready(g)
      PROVE  [Abstract!Next]_(Abstract!vars)
  <2>1. pending' = 0 /\ UNCHANGED <<callback, expired>>
    BY <1>1 DEF Ready, CancelPending
  <2> QED BY <2>1 DEF Abstract!Next, Abstract!Cancel, Abstract!vars
<1>2. ASSUME NEW e \in Ends, Look(e) \/ FallBack(e)
      PROVE  [Abstract!Next]_(Abstract!vars)
  <2>1. CASE UNCHANGED <<callback, pending, expired>>
    BY <2>1 DEF Abstract!vars
  <2>2. CASE /\ e \in expired /\ expired' = expired \ {e}
             /\ UNCHANGED <<callback, pending>>
    <3>1. Abstract!FallBack(e)
      BY <2>2 DEF Abstract!FallBack
    <3> QED BY <3>1 DEF Abstract!Next
  <2> QED BY <1>2, <2>1, <2>2 DEF Look, FallBack, TypeOK
<1>3. CASE Expire
  <2>1. Abstract!GiveUp
    BY <1>3 DEF Expire, Abstract!GiveUp
  <2> QED BY <2>1 DEF Abstract!Next
<1> QED BY <1>1, <1>2, <1>3

\* Opens, gateways that end, the mark and the session leave the recoveries
\* alone.
LEMMA OthersRefine ==
  ASSUME TypeOK,
         \/ \E o \in Openers : Open(o) \/ Dial(o)
         \/ \E g \in Gateways : End(g)
         \/ \E e \in Ends : Mark(e)
         \/ SessionCloses \/ SessionLeaves \/ UNCHANGED vars
  PROVE  UNCHANGED Abstract!vars
<1>1. UNCHANGED <<pending, expired>>
  BY DEF Open, Dial, End, Mark, SessionCloses, SessionLeaves, vars,
         recoveryVars
<1>2. \A d \in Ends : callback'[d] = "done" <=> callback[d] = "done"
  <2>1. ASSUME NEW g \in Gateways, End(g)
        PROVE  \A d \in Ends : callback'[d] = "done" <=> callback[d] = "done"
    <3>1. ends + 1 \in Ends /\ callback[ends + 1] = "none"
      BY <2>1, GatewayAssumption DEF End, TypeOK, Ends
    <3>2. PICK state \in {"mark", "lost"} :
            callback' = [callback EXCEPT ![ends + 1] = state]
      BY <2>1 DEF End, Code
    <3> QED BY <3>1, <3>2 DEF TypeOK
  <2>2. ASSUME NEW e \in Ends, Mark(e)
        PROVE  \A d \in Ends : callback'[d] = "done" <=> callback[d] = "done"
    BY <2>2 DEF Mark, TypeOK, Code
  <2>3. CASE UNCHANGED callback
    BY <2>3
  <2> QED BY <2>1, <2>2, <2>3
          DEF Open, Dial, SessionCloses, SessionLeaves, vars
<1>3. Handled' = Handled
  BY <1>2 DEF Handled
<1> QED BY <1>1, <1>3 DEF Handled, Abstract!vars

\* The gateway's recoveries take no step that Recovery does not have: with
\* VoiceRecovery's theorem of the same kind, the two modules meet in it.
THEOREM RecoveriesAreAbstract == SafetySpec => ImplementsRecovery
<1>1. Init => Abstract!Init
  BY DEF Init, Abstract!Init
<1>2. TypeOK /\ [Next]_vars => [Abstract!Next]_(Abstract!vars)
  BY HandleRefines, RecoveryStepRefines, OthersRefine DEF Next
<1>3. SafetySpec => Abstract!Init
  BY <1>1 DEF SafetySpec
<1>4. SafetySpec => [][Abstract!Next]_(Abstract!vars)
  BY <1>2, GatewayTypeCorrect, PTL DEF SafetySpec
<1> QED BY <1>3, <1>4, PTL DEF ImplementsRecovery, Abstract!Spec
=============================================================================
