------------------------------ MODULE Recovery ------------------------------
(***************************************************************************)
(* What a recovery from close code 4022 comes to, without the timers that  *)
(* bring it about: the pending one is cancelled, superseded by a newer one *)
(* or given up; one that was given up falls back, once, or finds that its  *)
(* session is gone, and nothing else ever does.                            *)
(*                                                                         *)
(* It is the interface of two modules.  VoiceRecovery has the timers that  *)
(* implement it, and RecoverableGateway, which has what the recoveries are *)
(* for, takes no other step with them.                                     *)
(***************************************************************************)
CONSTANTS Recoveries, \* the gateway closes that are observed
          None        \* no recovery

VARIABLES known,   \* the closes that were handled so far
          pending, \* the recovery that waits for the gateway, or None
          expired  \* the ones that were given up and have yet to fall back

vars == <<known, pending, expired>>

Init == known = {} /\ pending = None /\ expired = {}

\* A close is handled once: it becomes the pending recovery, in place of an
\* older one, ...
Start(r) ==
  /\ r \in Recoveries \ known
  /\ known' = known \cup {r}
  /\ pending' = r
  /\ UNCHANGED expired

\* ... or there is nothing to recover.
Refuse(r) ==
  /\ r \in Recoveries \ known
  /\ known' = known \cup {r}
  /\ UNCHANGED <<pending, expired>>

\* The gateway is ready again, or the bot has left.
Cancel ==
  /\ pending # None
  /\ pending' = None
  /\ UNCHANGED <<known, expired>>

GiveUp ==
  /\ pending # None
  /\ pending' = None
  /\ expired' = expired \cup {pending}
  /\ UNCHANGED known

\* The timer's function comes to its end, with the fallback or without.
FallBack(r) ==
  /\ r \in expired
  /\ expired' = expired \ {r}
  /\ UNCHANGED <<known, pending>>

Next ==
  \/ \E r \in Recoveries : Start(r) \/ Refuse(r) \/ FallBack(r)
  \/ Cancel \/ GiveUp

Spec == Init /\ [][Next]_vars
=============================================================================
