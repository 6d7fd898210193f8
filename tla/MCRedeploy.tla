----------------------------- MODULE MCRedeploy -----------------------------
(* Redeploy on a small foundation.  Every environment has one space.       *)
EXTENDS Redeploy, TLC

CONSTANTS dev11, uat, prod, sDev, sUat, sProd, v2

MCSpaceOf == [e \in Envs |-> CASE e = dev11 -> sDev [] e = uat -> sUat [] OTHER -> sProd]

\* v2 is a version nobody has published.
MCPublished == Apps \X (Versions \ {v2})

\* Builds differ in their requests only, which Init chooses freely.
BuildSymmetry == Permutations(Builds)

\* Without fairness, for symmetry is sound of safety only.
SafetySpec == Init /\ [][Next]_vars
=============================================================================
