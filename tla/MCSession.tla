----------------------------- MODULE MCSession -----------------------------
(***************************************************************************)
(* Instances of Session for TLC.                                           *)
(***************************************************************************)
EXTENDS Session, TLC

CONSTANTS c, a, b, t1, k1, e1, detached \* names for the model values

\* Calls that differ in nothing but their name.
Symmetry == Permutations(Items \ {Creator})
=============================================================================
