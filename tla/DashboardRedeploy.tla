------------------------- MODULE DashboardRedeploy -------------------------
(***************************************************************************)
(* The dashboard and the deployments it starts: the build of a deploy call *)
(* is a build of Redeploy.groovy with the parameters of the call           *)
(* (DashboardView.java:154-162), and the call waits for it.                *)
(*                                                                         *)
(* Both components keep their own actions; the steps they take together    *)
(* (a build leaves the queue, a build ends) are conjunctions of one action *)
(* of each.  The job's builds are numbered like the calls that schedule    *)
(* them.  req is chosen in the initial state, as Redeploy does it: a click *)
(* is one that asks for what req says of its build.                        *)
(***************************************************************************)
EXTENDS Dashboard, Redeploy

\* The jobs of the view are Redeploy.groovy with its three parameters: what deploy does
\* with a job that has lost them is Dashboard's.
ASSUME BuildsAreCalls == Builds = Calls /\ Droplets = Calls /\ "plain" \notin JobStates

VARIABLE later   \* later[b]: the builds begun after b ended; for the properties only

allVars == <<dashVars, vars, later>>

DRTypeOK == DashTypeOK /\ TypeOK /\ later \in [Calls -> SUBSET Calls]

DRInit == DashInit /\ Init /\ later = [b \in Calls |-> {}]

-----------------------------------------------------------------------------
\* The parameters version, envs and app of the build a call asks for.
Parameters(c) == [app |-> call[c].app, env |-> call[c].env, version |-> call[c].version]

\* What users and the administrator do, and the calls up to the wait for the build.
PageStep ==
  /\ \/ \E p \in Pages : Load(p) \/ OfferEnvironments(p) \/ Select(p) \/ FillVersions(p) \/ VersionsFail(p)
     \/ \E p \in Pages, c \in Calls : Click(p, c) /\ req[c] = Parameters(c)'
     \/ Submit \/ \E j \in Jobs : ChangeJob(j)
  /\ UNCHANGED <<vars, later>>

ServerStep(c) == (Handle(c) \/ Show(c)) /\ UNCHANGED <<vars, later>>

\* Jenkins gives the build of call c an executor.
BeginBuild(c) ==
  /\ Dequeue(c) /\ StartBuild(c)
  /\ later' = [b \in Calls |-> IF pc[b] \in Ended THEN later[b] \cup {c} ELSE later[b]]

CancelBuild(c) == Cancel(c) /\ UNCHANGED <<vars, later>>

\* A step of the script, the last of which gives the build its result.
Ends(c, result) == EndBuild(c) /\ build'[c] = result
Script(c) ==
  /\ Advance(c) /\ UNCHANGED later
  /\ CASE pc'[c] = "SUCCESS" -> Ends(c, "SUCCESS")
       [] pc'[c] = "REFUSED" -> Ends(c, "FAILURE")
       [] OTHER -> UNCHANGED dashVars

\* Somebody answers the input step, or aborts the build.
AnswerInput(c) == ChooseVersion(c) /\ UNCHANGED <<dashVars, later>>
AbortBuild(c)  == Abort(c) /\ Ends(c, "FAILURE") /\ UNCHANGED later

DRNext ==
  \/ PageStep
  \/ \E c \in Calls : \/ ServerStep(c) \/ BeginBuild(c) \/ CancelBuild(c)
                      \/ Script(c) \/ AnswerInput(c) \/ AbortBuild(c)

\* The fairness of the two components: nobody has to answer an input.
DRFairness ==
  \A c \in Calls : /\ WF_allVars(ServerStep(c)) /\ WF_allVars(Script(c))
                   /\ SF_allVars(BeginBuild(c))

DRSpec == DRInit /\ [][DRNext]_allVars /\ DRFairness
-----------------------------------------------------------------------------
(* Properties *)

\* The page says successful only of a deployment of the version that was asked for, by a
\* build whose droplet alone answers the live host of the application and the environment
\* chosen, until a later deployment of the same two begins
\* (DashboardView.java:154-176, Redeploy.groovy:106-116).
SuccessfulIsLive ==
  \A c \in Calls : Answered(c) /\ answer[c] = "successful" =>
    LET b == item[c]
    IN  /\ call[c].version \in {jarVersion[b], NoVersion}
        /\ req[b] = Parameters(c)
        /\ \/ /\ Serving(LiveRoute(b)) = {LiveApp(b)}
              /\ apps[LiveApp(b)].bits = b
           \/ \E d \in later[b] : LiveRoute(d) = LiveRoute(b)

\* Whatever answers the live host of an application and an environment was asked for by a
\* click on these two, in a version the click named or its user chose at the input, and
\* that the repository has of this application: a version list that belongs to the
\* application selected before, or came late, is caught before the push
\* (main.jelly:138-151, Redeploy.groovy:47-50 and 84-85).
LiveWasAskedFor ==
  \A a \in Apps, e \in Envs : \A x \in Serving(<<a, e, "live">>) :
    LET b == apps[x].bits
    IN  /\ call[b].app = a /\ call[b].env = e
        /\ call[b].version \in {jarVersion[b], NoVersion}
        /\ <<a, jarVersion[b]>> \in Published

\* Every click ends, unless the input step of some build waits for ever: a page whose
\* version list is empty sends an empty version, its build asks for one on a page of
\* its own, and holds up the builds and calls behind it
\* (main.jelly:31, Redeploy.groovy:47-48, DashboardView.java:168).
EveryClickIsAnswered ==
  \/ \A c \in Calls : place[c] = "lookup" ~> place[c] \in {"shown", "error"}
  \/ <>[](\E b \in Calls : pc[b] = "input")
=============================================================================
