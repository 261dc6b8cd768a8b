-------------------------- MODULE MCSessionManager --------------------------
(***************************************************************************)
(* Instances of SessionManager for TLC.                                    *)
(***************************************************************************)
EXTENDS SessionManager, TLC

\* Calls from the same voice channel differ in nothing but their name.
Symmetry == Permutations(Calls \ Elsewhere)
=============================================================================
