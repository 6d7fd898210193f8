----------------------------- MODULE MCDashboard -----------------------------
(* A small dashboard: an application of two versions and one of one version, two environments. *)
EXTENDS Dashboard

CONSTANTS a1, a2, v1, v2, v3, dev11, uat, j1, j2

MCReleases == [a \in Apps |-> IF a = a1 THEN {v1, v2} ELSE {v3}]

RowDev == [names |-> {a1, a2}, types |-> {dev11}, buildJob |-> j1]
RowUat == [names |-> {a1}, types |-> {uat}, buildJob |-> j2]

OneRow      == {<<RowDev>>}
OneJob      == {<<>>, <<[RowUat EXCEPT !.buildJob = j1], RowDev>>}
SeveralRows == {<<>>, <<RowDev>>, <<RowUat, RowDev>>}

\* Without fairness, for the runs that check safety.
SafetySpec == DashInit /\ [][DashNext]_dashVars

\* Users who have asked for versions do not click before all of them have arrived, and
\* after the first click nothing more is selected.
Patient ==
  /\ (\E p \in Pages : asked[p] # {}) => UNCHANGED call
  /\ (\E c \in Calls : place[c] # "free") => UNCHANGED appId
PatientSpec == DashInit /\ [][DashNext /\ Patient]_dashVars /\ DashFairness
=============================================================================
