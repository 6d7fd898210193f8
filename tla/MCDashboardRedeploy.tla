------------------------ MODULE MCDashboardRedeploy ------------------------
(* A dashboard of two applications, one environment and one pipeline job. *)
EXTENDS DashboardRedeploy

CONSTANTS a1, a2, v1, v2, dev11, j1, sDev

MCReleases  == [a \in Apps |-> IF a = a1 THEN {v1, v2} ELSE {v1}]
MCPublished == {<<a1, v1>>, <<a1, v2>>, <<a2, v1>>}
MCSpaceOf   == [e \in Envs |-> sDev]
OneRow      == {<<[names |-> {a1, a2}, types |-> Envs, buildJob |-> j1]>>}

\* Once Deploy was clicked the answers to come are those of deploy.
Decided  == (\E c \in Calls : place[c] # "free") => UNCHANGED <<appId, versionId>>
MCDRSpec == DRInit /\ [][DRNext /\ Decided]_allVars /\ DRFairness
=============================================================================
