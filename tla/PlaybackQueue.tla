--------------------------- MODULE PlaybackQueue ---------------------------
(***************************************************************************)
(* What a guild's player promises to the users who queue tracks, without   *)
(* the goroutines, locks and files that implement it.  Tracks are accepted *)
(* while the player is open, start in the order of acceptance, one at a    *)
(* time, each at most once.  Only the shutdown, and a clear that a /dterm  *)
(* asked for, forget what is pending, except that the one track already    *)
(* taken out of the queue may still start (clear) or be forgotten later    *)
(* (shutdown).  Nothing is accepted and nothing starts after the shutdown. *)
(***************************************************************************)
EXTENDS Naturals, Sequences

CONSTANTS Tracks,   \* the tracks users may ask for
          Terms,    \* the /dterm commands
          Capacity, \* the length of the waiting queue
          None      \* no track

VARIABLES accepted, \* the tracks whose /dplay was answered with success so far
          pending,  \* accepted tracks that have not started, oldest first
          playing,  \* the current track, or None
          clearing, \* the /dterm commands that are about to clear the queue
          open      \* FALSE once the player is shut down

vars == <<accepted, pending, playing, clearing, open>>

Init ==
  /\ accepted = {}
  /\ pending = <<>>
  /\ playing = None
  /\ clearing = {}
  /\ open = TRUE

\* One more track than the queue holds may be pending: the one taken out of
\* the queue that has not started yet.
Accept(t) ==
  /\ open
  /\ t \notin accepted
  /\ Len(pending) <= Capacity
  /\ accepted' = accepted \cup {t}
  /\ pending' = Append(pending, t)
  /\ UNCHANGED <<playing, clearing, open>>

Start ==
  /\ open
  /\ playing = None
  /\ pending # <<>>
  /\ playing' = Head(pending)
  /\ pending' = Tail(pending)
  /\ UNCHANGED <<accepted, clearing, open>>

\* The track ended, failed or was skipped.
Stop ==
  /\ playing # None
  /\ playing' = None
  /\ UNCHANGED <<accepted, pending, clearing, open>>

\* What a clear may leave: nothing, or the track already taken out.
Leftover(p) == p = <<>> \/ (pending # <<>> /\ p = <<Head(pending)>>)

Terminate(c) ==
  /\ clearing' = clearing \cup {c}
  /\ UNCHANGED <<accepted, pending, playing, open>>

Clear(c) ==
  /\ c \in clearing
  /\ clearing' = clearing \ {c}
  /\ Leftover(pending')
  /\ UNCHANGED <<accepted, playing, open>>

Shut ==
  /\ open
  /\ open' = FALSE
  /\ playing' = None
  /\ Leftover(pending')
  /\ UNCHANGED <<accepted, clearing>>

Forget ==
  /\ ~open
  /\ pending' = <<>>
  /\ UNCHANGED <<accepted, playing, clearing, open>>

Next ==
  \/ \E t \in Tracks : Accept(t)
  \/ Start
  \/ Stop
  \/ \E c \in Terms : Terminate(c) \/ Clear(c)
  \/ Shut
  \/ Forget

Spec == Init /\ [][Next]_vars
=============================================================================
