------------------------------ MODULE Dashboard ------------------------------
(***************************************************************************)
(* The deployment dashboard: browser pages (main.jelly), the deploy and    *)
(* getArtifacts methods they call over AJAX (DashboardView.java), the      *)
(* view's configuration, and the Jenkins queue and jobs deploy works with  *)
(* (external).                                                             *)
(*                                                                         *)
(* A deploy call looks up a job, schedules a build and waits in its HTTP   *)
(* thread until the build is over; the answer becomes the message of the   *)
(* page, whatever else was clicked meanwhile.  A call that throws answers  *)
(* nothing: the page goes on saying "Please wait".                         *)
(***************************************************************************)
EXTENDS Naturals, Sequences, FiniteSets, Requests

CONSTANTS Pages,        \* browser pages showing the view
          Jobs,
          Workflow,     \* the jobs that are pipelines (the others are freestyle projects)
          JobStates,    \* the states jobs can be in, see jobs
          Configs,      \* the environment lists an administrator submits
          Releases,     \* Releases[a]: the versions a search of the Maven repository finds for a
          MaxCalls      \* bound on the deploy calls

Rows == [names : SUBSET Apps, types : SUBSET Envs, buildJob : Jobs]

ASSUME DashboardAssumption ==
  /\ Workflow \subseteq Jobs
  /\ JobStates \subseteq {"missing", "disabled", "plain", "ready"}
  /\ \A c \in Configs : c \in Seq(Rows)
  /\ Releases \in [Apps -> SUBSET Versions]
  /\ MaxCalls \in Nat

VARIABLES environments,  \* the configured rows
          jobs,          \* jobs[j]: missing, disabled, plain (no parameters) or ready
          rendered,      \* rendered[p]: the rows the applications of page p were rendered from
          offered,       \* offered[p]: the rows its environments were rendered from
          appId,         \* appId[p]: the selected application
          versionId,     \* versionId[p]: the options of the version list
          asked,         \* asked[p]: applications whose versions p has asked for
          msg,           \* msg[p]: the message of the page
          place,         \* place[c]: where deploy call c is
          call,          \* call[c]: the arguments of the call, and its page
          row,           \* row[c]: the environment found by the call
          item,          \* item[c]: the build the call waits for
          build,         \* build[c]: the build scheduled by call c
          answer         \* answer[c]: the string deploy returned

pages    == <<rendered, offered, appId, versionId, asked, msg>>
server   == <<place, call, row, item, answer>>
dashVars == <<environments, jobs, pages, server, build>>

Calls   == 1..MaxCalls
Answers == {"deploymentCannotBeExecuted", "buildJobFailed", "successful", "unknown reason"}
Request == [page : Pages, app : Apps, version : Versions \cup {NoVersion}, env : Envs]

\* The applications and environments of a list of rows, in any order.
AppList(rows) == UNION {rows[i].names : i \in DOMAIN rows}
EnvList(rows) == UNION {rows[i].types : i \in DOMAIN rows}

DashTypeOK ==
  /\ environments \in Configs
  /\ jobs \in [Jobs -> JobStates]
  /\ rendered \in [Pages -> Configs \cup {<<>>}] /\ offered \in [Pages -> Configs \cup {<<>>}]
  /\ \A p \in Pages : appId[p] \in AppList(rendered[p]) \/ rendered[p] = <<>>
  /\ versionId \in [Pages -> SUBSET Versions]
  /\ asked \in [Pages -> SUBSET Apps]
  /\ msg \in [Pages -> {"", "Please wait"} \cup Answers]
  /\ place \in [Calls -> {"free", "lookup", "schedule", "wait", "answer", "shown", "error"}]
  /\ \A c \in Calls : place[c] # "free" => call[c] \in Request
  /\ \A c \in Calls : place[c] \in {"schedule", "wait"} => row[c] \in Rows
  /\ item \in [Calls -> {0} \cup Calls]
  /\ build \in [Calls -> {"none", "queued", "running", "SUCCESS", "FAILURE", "cancelled"}]
  /\ answer \in [Calls -> {""} \cup Answers]

DashInit ==
  /\ environments \in Configs
  /\ jobs \in [Jobs -> JobStates]
  /\ rendered = [p \in Pages |-> <<>>] /\ offered = [p \in Pages |-> <<>>]
  /\ appId = [p \in Pages |-> ""]
  /\ versionId = [p \in Pages |-> {}] /\ asked = [p \in Pages |-> {}]
  /\ msg = [p \in Pages |-> ""]
  /\ place = [c \in Calls |-> "free"] /\ answer = [c \in Calls |-> ""]
  /\ call = [c \in Calls |-> <<>>] /\ row = [c \in Calls |-> <<>>]
  /\ item = [c \in Calls |-> 0] /\ build = [c \in Calls |-> "none"]

-----------------------------------------------------------------------------
(* The page *)

\* Mutant: the browser selects nothing.
LoadUnselected(p) ==
  /\ environments # <<>> /\ rendered[p] = <<>>
  /\ rendered' = [rendered EXCEPT ![p] = environments]
  /\ UNCHANGED <<environments, jobs, offered, appId, versionId, asked, msg, server, build>>

\* The list of applications is rendered; the browser selects one, and nothing fills the
\* version list until another one is selected.  A page without applications or
\* environments is not clicked.
Load(p) ==
  /\ environments # <<>> /\ rendered[p] = <<>>
  /\ rendered' = [rendered EXCEPT ![p] = environments]
  /\ \E a \in AppList(environments) : appId' = [appId EXCEPT ![p] = a]
  /\ UNCHANGED <<environments, jobs, offered, versionId, asked, msg, server, build>>

\* The list of environments is rendered, from a configuration read again.
OfferEnvironments(p) ==
  /\ rendered[p] # <<>> /\ offered[p] = <<>> /\ environments # <<>>
  /\ offered' = [offered EXCEPT ![p] = environments]
  /\ UNCHANGED <<environments, jobs, rendered, appId, versionId, asked, msg, server, build>>

\* onchange="addOption()": the versions of the new application are asked for.
Select(p) ==
  /\ \E a \in AppList(rendered[p]) \ {appId[p]} :
       /\ appId' = [appId EXCEPT ![p] = a]
       /\ asked' = [asked EXCEPT ![p] = @ \cup {a}]
  /\ UNCHANGED <<environments, jobs, rendered, offered, versionId, msg, server, build>>

\* What getArtifacts may answer: the list is empty without a type of repository, with a
\* type whose address is no URI and when Artifactory refuses the connection.
Found(a) == {Releases[a], {}}

\* An answer of getArtifacts arrives, in any order, and replaces the list: nothing compares
\* its application with the one selected by now.
FillVersions(p) ==
  /\ \E a \in asked[p] :
       /\ asked' = [asked EXCEPT ![p] = @ \ {a}]
       /\ \E found \in Found(a) : versionId' = [versionId EXCEPT ![p] = found]
  /\ UNCHANGED <<environments, jobs, rendered, offered, appId, msg, server, build>>

\* getArtifacts threw, like a search after a connection that was fine does when the
\* repository has gone in between: the callback finds no list in the answer, and leaves the
\* options of the application selected before.
VersionsFail(p) ==
  /\ \E a \in asked[p] : asked' = [asked EXCEPT ![p] = @ \ {a}]
  /\ UNCHANGED <<environments, jobs, rendered, offered, appId, versionId, msg, server, build>>

\* Deploy App is clicked: the selections are sent as they are now.
Click(p, c) ==
  /\ offered[p] # <<>>
  /\ place[c] = "free" /\ \A d \in Calls : d < c => place[d] # "free"
  /\ \E v \in IF versionId[p] = {} THEN {NoVersion} ELSE versionId[p], e \in EnvList(offered[p]) :
       call' = [call EXCEPT ![c] = [page |-> p, app |-> appId[p], version |-> v, env |-> e]]
  /\ place' = [place EXCEPT ![c] = "lookup"]
  /\ msg' = [msg EXCEPT ![p] = "Please wait"]
  /\ UNCHANGED <<environments, jobs, rendered, offered, appId, versionId, asked, row, item, answer, build>>

\* The callback of deploy: the answer replaces the message.
Show(c) ==
  /\ place[c] = "answer" /\ place' = [place EXCEPT ![c] = "shown"]
  /\ msg' = [msg EXCEPT ![call[c].page] = answer[c]]
  /\ UNCHANGED <<environments, jobs, rendered, offered, appId, versionId, asked, call, row, item, answer, build>>

-----------------------------------------------------------------------------
(* The deploy method *)

Proceed(c, step) == place' = [place EXCEPT ![c] = step] /\ UNCHANGED answer
Return(c, str)   == place' = [place EXCEPT ![c] = "answer"] /\ answer' = [answer EXCEPT ![c] = str]

\* The first row is taken, for every environment.  Without a row, or without
\* its job, a null is dereferenced.
Lookup(c) ==
  /\ place[c] = "lookup"
  /\ IF environments = <<>> THEN Proceed(c, "error") /\ UNCHANGED row ELSE
       /\ row' = [row EXCEPT ![c] = environments[1]]
       /\ CASE jobs[environments[1].buildJob] = "missing" -> Proceed(c, "error")
            [] jobs[environments[1].buildJob] = "plain"   -> Return(c, "deploymentCannotBeExecuted")
            [] OTHER -> Proceed(c, "schedule")
  /\ UNCHANGED <<environments, jobs, pages, call, item, build>>

\* Mutant: a queued build for the same application and environment will do.
Similar(c, d) ==
  row[c].buildJob = row[d].buildJob /\ \A k \in {"app", "env"} : call[c][k] = call[d][k]

\* Two calls ask for the same build: the queue tells items apart by job and parameters.
Same(c, d) ==
  row[c].buildJob = row[d].buildJob /\ \A k \in {"app", "version", "env"} : call[c][k] = call[d][k]

\* scheduleBuild2.  A job that cannot be built gives a null future, whose
\* use throws, and throws again in the catch block; one that lost its parameters
\* since the lookup is built all the same.  A queued build with the same parameters is joined.
Schedule(c) ==
  /\ place[c] = "schedule"
  /\ LET twins == {d \in Calls : build[d] = "queued" /\ Same(c, d)}
         refuses == jobs[row[c].buildJob] \in {"missing", "disabled"}
     IN  CASE refuses -> Proceed(c, "error") /\ UNCHANGED <<item, build>>
           [] ~refuses /\ twins # {} ->
                /\ Proceed(c, "wait") /\ UNCHANGED build
                /\ \E d \in twins : item' = [item EXCEPT ![c] = d]
           [] OTHER -> /\ Proceed(c, "wait")
                       /\ item' = [item EXCEPT ![c] = c] /\ build' = [build EXCEPT ![c] = "queued"]
  /\ UNCHANGED <<environments, jobs, pages, call, row>>

\* Mutant: only a finished build is waited for.
AwaitEnd(c) ==
  /\ place[c] = "wait"
  /\ \/ build[item[c]] = "SUCCESS" /\ Return(c, "successful")
     \/ build[item[c]] = "FAILURE" /\ Return(c, "unknown reason")
  /\ UNCHANGED <<environments, jobs, pages, call, row, item, build>>

\* The future completes.  A freestyle build is no WorkflowRun: the cast
\* throws, like a cancelled item does, and is caught.
Await(c) ==
  /\ place[c] = "wait" /\ build[item[c]] \in {"SUCCESS", "FAILURE", "cancelled"}
  /\ Return(c, CASE build[item[c]] = "cancelled" \/ row[c].buildJob \notin Workflow -> "buildJobFailed"
                 [] build[item[c]] = "SUCCESS" /\ row[c].buildJob \in Workflow -> "successful"
                 [] OTHER -> "unknown reason")
  /\ UNCHANGED <<environments, jobs, pages, call, row, item, build>>

-----------------------------------------------------------------------------
(* The administrator, and Jenkins *)

\* The configuration of the view is submitted.
Submit ==
  /\ environments' \in Configs
  /\ UNCHANGED <<jobs, pages, server, build>>

ChangeJob(j) ==
  /\ jobs' \in {[jobs EXCEPT ![j] = s] : s \in JobStates}
  /\ UNCHANGED <<environments, pages, server, build>>

Becomes(c, s) ==
  build' = [build EXCEPT ![c] = s] /\ UNCHANGED <<environments, jobs, pages, server>>

\* One build of a job at a time leaves the queue.
Dequeue(c) ==
  /\ build[c] = "queued"
  /\ \A d \in Calls : row[d] # <<>> /\ row[c].buildJob = row[d].buildJob =>
       build[d] # "running"
  /\ Becomes(c, "running")
EndBuild(c) == build[c] = "running" /\ \E r \in {"SUCCESS", "FAILURE"} : Becomes(c, r)
Cancel(c)   == build[c] = "queued" /\ Becomes(c, "cancelled")

-----------------------------------------------------------------------------
Handle(c) == Lookup(c) \/ Schedule(c) \/ Await(c)

DashNext ==
  \/ \E p \in Pages : \/ Load(p) \/ OfferEnvironments(p) \/ Select(p)
                      \/ FillVersions(p) \/ VersionsFail(p) \/ \E c \in Calls : Click(p, c)
  \/ \E c \in Calls : Handle(c) \/ Show(c) \/ Dequeue(c) \/ EndBuild(c) \/ Cancel(c)
  \/ Submit \/ \E j \in Jobs : ChangeJob(j)

\* HTTP threads run and answers arrive.  Jenkins serves its queue in turn, so a
\* build that may start again and again does start.  Nothing makes a build end: the
\* input of Redeploy.groovy:48 waits without a timeout.
DashFairness ==
  \A c \in Calls : WF_dashVars(Handle(c)) /\ WF_dashVars(Show(c)) /\ SF_dashVars(Dequeue(c))

DashSpec == DashInit /\ [][DashNext]_dashVars /\ DashFairness
-----------------------------------------------------------------------------
(* Properties *)

Answered(c) == place[c] \in {"answer", "shown"}

\* What deploy answers is true of a build with exactly the arguments of the
\* call, be it another user's: it says successful of a build that succeeded
\* and failed of one that did not (DashboardView.java:154-180).
AnswersAreTrue ==
  \A c \in Calls : Answered(c) /\ item[c] # 0 =>
    LET d == item[c]
    IN  /\ answer[c] = "successful" <=> build[d] = "SUCCESS"
        /\ [call[d] EXCEPT !.page = call[c].page] = call[c] /\ row[d].buildJob = row[c].buildJob

\* A build of the job call c starts never ends.
HeldForEver(c) ==
  \E d \in Calls :
    <>[](build[d] = "running" /\ row[c] # <<>> /\ row[d] # <<>> /\ row[d].buildJob = row[c].buildJob)

\* A click is answered, or its call has thrown, unless a build of its job runs for ever:
\* the queue, a build that is cancelled, a job that changes between lookup and schedule
\* and other clicks do not keep it waiting (DashboardView.java:162-180).
EveryClickEnds ==
  \A c \in Calls : (place[c] = "lookup" ~> place[c] \in {"shown", "error"}) \/ HeldForEver(c)

\* The job that is started is the one configured for the environment
\* ("Get the environment with corresponding build-job", DashboardView.java:127).
CorrespondingJob ==
  \A c \in Calls : place[c] = "wait" => call[c].env \in row[c].types

\* Whatever became of its job, a call says so: the messages for a job that is
\* missing or disabled (Messages.properties:11-12) are sent, deploy does not throw.
JobProblemsAreReported == \A c \in Calls : place[c] = "error" => row[c] = <<>>
=============================================================================
