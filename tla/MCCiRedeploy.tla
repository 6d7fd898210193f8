---------------------------- MODULE MCCiRedeploy ----------------------------
(* CI and Redeploy of one artifact in dev11, and Redeploy of it in uat.     *)
EXTENDS CiRedeploy, TLC

CONSTANTS dev11, sDev, sUat

MCSpaceOf == [e \in Envs |-> IF e = dev11 THEN sDev ELSE sUat]
MCArtifactOf == [c \in CiBuilds |-> CHOOSE a \in Apps : TRUE]
MCPublished == Apps \X Versions

\* Builds of Redeploy differ in their requests only, which Init chooses freely; those of the
\* CI do not differ.
BuildSymmetry == Permutations(Builds) \cup Permutations(CiBuilds)

\* The version is always given; Redeploy's runs have the input step.
MCInit == CiInit /\ \A b \in Builds : req[b].version # NoVersion
MCSpec == MCInit /\ [][CiNext]_allVars
=============================================================================
