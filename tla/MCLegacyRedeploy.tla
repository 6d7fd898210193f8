-------------------------- MODULE MCLegacyRedeploy --------------------------
(* One artifact in two environments: artifacts share no names. *)
EXTENDS LegacyRedeploy, TLC

\* Builds differ in their requests only, which Init chooses freely.
BuildSymmetry == Permutations(Builds)
=============================================================================
