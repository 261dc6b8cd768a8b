---------------------------- MODULE MCPCMStream ----------------------------
(***************************************************************************)
(* Values of PCMStream's constants that a configuration cannot write.      *)
(***************************************************************************)
EXTENDS PCMStream

\* The volume whose halves are not exact, and the nearest ones /dvol refuses.
MCVolumes == {-1, 7, 11}
=============================================================================
