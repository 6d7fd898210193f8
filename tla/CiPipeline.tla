----------------------------- MODULE CiPipeline -----------------------------
(***************************************************************************)
(* The merge request pipeline jenkins-pipeline/github_pipeline.groovy, run *)
(* as numbered builds of one Jenkins job that serves many repositories.    *)
(*                                                                         *)
(* A build walks through ten stages, each reported to GitLab as a commit   *)
(* status, tests an artifact, pushes it to dev11 in place, uploads it to   *)
(* the Maven repository and tells people on Slack when something is wrong. *)
(* Any step may throw: an error, or the interruption of an aborted build.  *)
(*                                                                         *)
(* Builds run side by side, also those of one repository: nothing in the   *)
(* script keeps two of them apart.  All builds of an artifact have the     *)
(* same pom.version, as successive builds of a development version do.     *)
(***************************************************************************)
EXTENDS Integers, FiniteSets

CONSTANTS Apps,            \* artifacts, one per GitLab repository
          NotDeployable,   \* the list notDeployable
          Coverages,       \* what JaCoCo may measure: enough, less than required ("low")
                           \*   or less than the minimum ("too low")
          Old,             \* builds 1..Old ended before the behaviour starts
          OldResults,      \* the results they may have ended with
          Last,            \* number of the last build
          NoBuild

ASSUME CiAssumption ==
  /\ NotDeployable \subseteq Apps /\ NoBuild \notin 1..Last
  /\ Coverages \subseteq {"enough", "low", "too low"}
  /\ Old \in Nat /\ Last \in Nat /\ Old < Last
  /\ OldResults \subseteq {"SUCCESS", "UNSTABLE", "FAILURE", "ABORTED"}

VARIABLES pc,              \* pc[b]: the stage build b executes, or the block after them
          app,             \* app[b]: gitlabTargetRepoName
          tests,           \* tests[b]: what the test report says: total and failed
          coverage,        \* coverage[b]: the line coverage measured by JaCoCo
          result,          \* result[b]: currentBuild.result, of ended builds their result
          coverageStatus,  \* coverageStatus[b]
          unstableBuilds,  \* unstableBuilds[b]: its size
          attempt,         \* attempt[b]: failed attempts of the running retry(2)
          thrown,          \* thrown[b]: an exception is on its way out of the script
          catchError,      \* catchError[b]
          status,          \* status[b][s]: the commit status s of GitLab
          notices,         \* notices[b]: the Slack messages that went out
          slackFailed,     \* slackFailed[b]: the curl of a Slack message failed
          manifestOf,      \* manifestOf[a]: the build whose manifest the repository has
          jarOf,           \* jarOf[a]: the build whose jar the repository has
          crossed          \* crossed[b]: the builds of b's artifact that put their manifest
                           \*   while b was between its two uploads (a history variable)

verdict   == <<tests, coverage, coverageStatus, unstableBuilds>>
messages  == <<notices, slackFailed>>
artifacts == <<manifestOf, jarOf, crossed>>
outcome   == <<thrown, catchError>>
vars == <<pc, app, result, attempt, outcome, status, verdict, messages, artifacts>>

Builds == (Old + 1)..Last

Stages == {"checkout", "preparations", "build", "Executing Test", "Post Test", "Configuration",
           "Deploy", "Uploading Artifact", "Publishing Results", "Send Slack Notification"}
\* The steps of the try block.  Some stages have several: the coverage and the count of
\* bad builds after the tests, the jar and its status after the manifest, the statuses
\* after the message.
Steps    == Stages \cup {"gitlabBuilds", "jacoco", "count", "jar", "uploaded", "report"}
Statuses == Stages \cup {"Jenkins"}
Results  == {"null", "SUCCESS", "UNSTABLE", "FAILURE", "ABORTED"}
Bad      == {"UNSTABLE", "FAILURE"}
Failed   == {"FAILURE", "ABORTED"}

TypeOK ==
  /\ pc \in [Builds -> {"queued", "script", "stopped", "catch", "finally", "ended"} \cup Steps]
  /\ app \in [Builds -> Apps]
  /\ tests \in [Builds -> {"none", "passed", "failed"}]
  /\ coverage \in [Builds -> {"enough", "low", "too low"}]
  /\ result \in [1..Last -> Results]
  /\ coverageStatus \in [Builds -> {"", "Success", "SUCCESS"} \cup Bad]
  /\ unstableBuilds \in [Builds -> 0..Last]
  /\ attempt \in [Builds -> 0..1]
  /\ thrown \in [Builds -> BOOLEAN]
  /\ catchError \in [Builds -> BOOLEAN]
  /\ status \in [Builds -> [Statuses -> {"none", "pending", "success", "failed"}]]
  /\ notices \in [Builds -> SUBSET {"tests", "coverage", "tests and coverage", "caught", "failed"}]
  /\ slackFailed \in [Builds -> BOOLEAN]
  /\ manifestOf \in [Apps -> Builds \cup {NoBuild}]
  /\ jarOf \in [Apps -> Builds \cup {NoBuild}]
  /\ crossed \in [Builds -> SUBSET Builds]

Init ==
  /\ pc = [b \in Builds |-> "queued"]
  /\ app \in [Builds -> Apps]
  /\ \E r \in [1..Old -> OldResults] :
       result = [b \in 1..Last |-> IF b > Old THEN "null" ELSE r[b]]
  /\ tests = [b \in Builds |-> "none"] /\ coverage = [b \in Builds |-> "enough"]
  /\ coverageStatus = [b \in Builds |-> ""]
  /\ unstableBuilds = [b \in Builds |-> 0] /\ attempt = [b \in Builds |-> 0]
  /\ thrown = [b \in Builds |-> FALSE] /\ catchError = [b \in Builds |-> FALSE]
  /\ status = [b \in Builds |-> [s \in Statuses |-> "none"]]
  /\ notices = [b \in Builds |-> {}] /\ slackFailed = [b \in Builds |-> FALSE]
  /\ manifestOf = [a \in Apps |-> NoBuild] /\ jarOf = [a \in Apps |-> NoBuild]
  /\ crossed = [b \in Builds |-> {}]

-----------------------------------------------------------------------------
InTry(b)      == pc[b] \in Steps
Low(b)        == coverageStatus[b] \in Bad
Deployable(b) == app[b] \notin NotDeployable

Goes(b, from, to) == pc[b] = from /\ pc' = [pc EXCEPT ![b] = to]

\* A stage is over: its status is set, the next step follows.
Finish(b, step, stage, next) ==
  /\ Goes(b, step, next)
  /\ status' = [status EXCEPT ![b][stage] = "success"]
  /\ UNCHANGED <<app, outcome, messages>>

\* An exception leaves the try block: the gitlabBuilds step reports the
\* stages that are still pending as failed.
Escape(b, st) ==
  /\ pc' = [pc EXCEPT ![b] = "catch"]
  /\ thrown' = [thrown EXCEPT ![b] = TRUE]
  /\ status' = [status EXCEPT ![b] =
                  [s \in Statuses |-> IF st[s] = "pending" THEN "failed" ELSE st[s]]]
  /\ UNCHANGED <<app, result, catchError, verdict, messages>>

-----------------------------------------------------------------------------
\* Jenkins starts the builds in the order of their numbers.
StartBuild(b) ==
  /\ \A c \in Builds : c < b => pc[c] # "queued"
  /\ Goes(b, "queued", "script")
  /\ UNCHANGED <<app, result, attempt, outcome, status, verdict, messages, artifacts>>

\* The build gets its node and enters the try block.
EnterNode(b) ==
  /\ Goes(b, "script", "gitlabBuilds")
  /\ UNCHANGED <<app, result, attempt, outcome, status, verdict, messages, artifacts>>

\* It ends before: a parameter of the webhook is missing, or it is aborted
\* while it waits for the node.  Nobody is told.
StopOutside(b) ==
  /\ Goes(b, "script", "stopped")
  /\ \E r \in Failed : result' = [result EXCEPT ![b] = r]
  /\ UNCHANGED <<app, attempt, outcome, status, verdict, messages, artifacts>>

\* gitlabBuilds announces the stages.
Announce(b) ==
  /\ Goes(b, "gitlabBuilds", "checkout")
  /\ status' = [status EXCEPT ![b] = [s \in Statuses |-> IF s \in Stages THEN "pending" ELSE @[s]]]
  /\ UNCHANGED <<app, result, attempt, outcome, verdict, messages, artifacts>>

\* A merge request with conflicts stops here.
Checkout(b) ==
  \/ Finish(b, "checkout", "checkout", "preparations") /\ UNCHANGED <<result, attempt, verdict, artifacts>>
  \/ /\ pc[b] = "checkout"
     /\ Escape(b, [status[b] EXCEPT !["preparations"] = "failed", !["Jenkins"] = "failed"])
     /\ UNCHANGED <<attempt, artifacts>>

Preparations(b) ==
  Finish(b, "preparations", "preparations", "build") /\ UNCHANGED <<result, attempt, verdict, artifacts>>
Compile(b) ==
  Finish(b, "build", "build", "Executing Test") /\ UNCHANGED <<result, attempt, verdict, artifacts>>
ExecuteTests(b) ==
  Finish(b, "Executing Test", "Executing Test", "Post Test") /\ UNCHANGED <<result, attempt, verdict, artifacts>>

\* junit makes a build with failed tests UNSTABLE.  Without tests the
\* coverage counts as good.
JUnit(b) ==
  /\ \/ /\ Goes(b, "Post Test", "count")
        /\ coverageStatus' = [coverageStatus EXCEPT ![b] = "SUCCESS"]
        /\ UNCHANGED <<tests, result>>
     \/ /\ Goes(b, "Post Test", "jacoco")
        /\ \/ tests' = [tests EXCEPT ![b] = "passed"] /\ UNCHANGED result
           \/ tests' = [tests EXCEPT ![b] = "failed"] /\ result' = [result EXCEPT ![b] = "UNSTABLE"]
        /\ UNCHANGED coverageStatus
  /\ UNCHANGED <<app, attempt, outcome, status, coverage, unstableBuilds, messages, artifacts>>

\* jacoco worsens the result by the coverage, and may turn a null result
\* into SUCCESS.  The result of both is kept as the status of the coverage.
Jacoco(b) ==
  /\ Goes(b, "jacoco", "count")
  /\ \E c \in Coverages, good \in {"null", "SUCCESS"} :
       LET r == CASE c = "too low" -> "FAILURE"
                  [] c = "low" \/ (c = "enough" /\ tests[b] = "failed") -> "UNSTABLE"
                  [] OTHER -> good
       IN  /\ coverage' = [coverage EXCEPT ![b] = c]
           /\ result' = [result EXCEPT ![b] = r]
           /\ coverageStatus' = [coverageStatus EXCEPT ![b] = IF r = "null" THEN "Success" ELSE r]
  /\ UNCHANGED <<app, attempt, outcome, status, tests, unstableBuilds, messages, artifacts>>

\* The build lastSuccessfullBuild looks at next.
NextRead(b) == b - 1 - unstableBuilds[b]

\* Mutant: a build that still runs, with a null result, counts as a bad one.
CountsAsBadOrNull(k) == k > 0 /\ result[k] # "SUCCESS"

\* A build that still runs with a null result, or was aborted, ends the
\* count like a good one.
CountsAsBad(k) == k > 0 /\ result[k] \in Bad

\* lastSuccessfullBuild walks back from the build before b and reads one
\* result at a time, while the other builds go on.
CountOne(b) ==
  /\ pc[b] = "count" /\ CountsAsBad(NextRead(b))
  /\ unstableBuilds' = [unstableBuilds EXCEPT ![b] = @ + 1]
  /\ UNCHANGED <<pc, app, result, attempt, outcome, status, tests, coverage, coverageStatus, messages, artifacts>>

Counted(b) ==
  /\ ~ CountsAsBad(NextRead(b))
  /\ Finish(b, "count", "Post Test", "Configuration") /\ UNCHANGED <<result, attempt, verdict, artifacts>>

Configuration(b) ==
  Finish(b, "Configuration", "Configuration", "Deploy") /\ UNCHANGED <<result, attempt, verdict, artifacts>>

\* pushToCloudFoundry; what it does to dev11 is in CiRedeploy.
Deploy(b) ==
  /\ Finish(b, "Deploy", "Deploy", "Uploading Artifact")
  /\ attempt' = [attempt EXCEPT ![b] = 0]
  /\ UNCHANGED <<result, verdict, artifacts>>

\* Mutant: the push is tried again however often it failed.
DeployRetriesForever(b) ==
  /\ pc[b] = "Deploy" /\ Deployable(b)
  /\ attempt' = [attempt EXCEPT ![b] = @ + 1]
  /\ UNCHANGED <<pc, app, result, outcome, status, verdict, messages, artifacts>>

\* The second failure of retry(2) is the stage's.
DeployFails(b) ==
  /\ pc[b] = "Deploy" /\ Deployable(b)
  /\ attempt' = [attempt EXCEPT ![b] = 1 - @]
  /\ IF attempt[b] = 0 THEN UNCHANGED <<pc, app, result, outcome, status, verdict, messages>>
                       ELSE Escape(b, status[b])
  /\ UNCHANGED artifacts

\* The builds of b's artifact between their two uploads.
Between(b) == {c \in Builds \ {b} : pc[c] = "jar" /\ app[c] = app[b]}

\* Mutant: the manifest is left out when the repository has one.
UploadManifestOnce(b) ==
  /\ Goes(b, "Uploading Artifact", "jar")
  /\ manifestOf' = [manifestOf EXCEPT ![app[b]] = IF @ = NoBuild THEN b ELSE @]
  /\ UNCHANGED <<app, result, attempt, outcome, status, verdict, messages, jarOf, crossed>>

\* The manifest is put with curl, the jar and the pom by the Artifactory plugin.
UploadManifest(b) ==
  /\ Goes(b, "Uploading Artifact", "jar")
  /\ manifestOf' = [manifestOf EXCEPT ![app[b]] = b]
  /\ crossed' = [c \in Builds |-> IF c \in Between(b) THEN crossed[c] \cup {b} ELSE crossed[c]]
  /\ UNCHANGED <<app, result, attempt, outcome, status, verdict, messages, jarOf>>

UploadJar(b) ==
  /\ Goes(b, "jar", "uploaded")
  /\ jarOf' = [jarOf EXCEPT ![app[b]] = b]
  /\ UNCHANGED <<app, result, attempt, outcome, status, verdict, messages, manifestOf, crossed>>

Uploaded(b) ==
  /\ Finish(b, "uploaded", "Uploading Artifact", "Publishing Results")
  /\ UNCHANGED <<result, attempt, verdict, artifacts>>

Publish(b) ==
  /\ Finish(b, "Publishing Results", "Publishing Results", "Send Slack Notification")
  /\ UNCHANGED <<result, attempt, verdict, artifacts>>

\* The message of the Slack stage, and the curl that sends it.
Notice(b) == CASE tests[b] = "failed" /\ Low(b) -> "tests and coverage"
               [] tests[b] = "failed" /\ ~ Low(b) -> "tests"
               [] OTHER -> "coverage"
Send(b, what) == notices' = [notices EXCEPT ![b] = @ \cup {what}] /\ UNCHANGED slackFailed
SendFails(b)  == slackFailed' = [slackFailed EXCEPT ![b] = TRUE] /\ UNCHANGED notices

\* Mutant: only the coverage is announced.
NotifyLow(b) ==
  /\ Goes(b, "Send Slack Notification", "report")
  /\ IF coverage[b] # "enough" THEN Send(b, Notice(b)) ELSE UNCHANGED messages
  /\ UNCHANGED <<app, result, attempt, outcome, status, verdict, artifacts>>

Notify(b) ==
  /\ \/ /\ Goes(b, "Send Slack Notification", "report")
        /\ IF tests[b] = "failed" \/ Low(b) THEN Send(b, Notice(b)) ELSE UNCHANGED messages
        /\ UNCHANGED <<thrown, status>>
     \/ /\ tests[b] = "failed" \/ Low(b)
        /\ SendFails(b)
        /\ Goes(b, "Send Slack Notification", "catch") /\ thrown' = [thrown EXCEPT ![b] = TRUE]
        /\ status' = [status EXCEPT ![b]["Send Slack Notification"] = "failed"]
  /\ UNCHANGED <<app, result, attempt, catchError, verdict, artifacts>>

Report(b) ==
  /\ Goes(b, "report", "finally")
  /\ status' = [status EXCEPT ![b]["Send Slack Notification"] = "success", ![b]["Jenkins"] = "success"]
  /\ UNCHANGED <<app, result, attempt, outcome, verdict, messages, artifacts>>

\* The statuses a build may have set in its present step before it throws.
SetSoFar(b) == IF pc[b] # "report" THEN {{}}
               ELSE {{}, {"Send Slack Notification"}, {"Send Slack Notification", "Jenkins"}}

\* Any step of the try block throws, or the build is aborted there.
Throw(b) ==
  /\ InTry(b)
  /\ \E set \in SetSoFar(b) :
       Escape(b, [s \in Statuses |-> IF s \in set THEN "success" ELSE status[b][s]])
  /\ attempt' = [attempt EXCEPT ![b] = 0]
  /\ UNCHANGED artifacts

\* The catch block after catchError = true.
TellCaught(b) == catchError' = [catchError EXCEPT ![b] = TRUE] /\ (Send(b, "caught") \/ SendFails(b))

\* Mutant: the status of the whole build is left alone.
CatchQuietly(b) ==
  /\ Goes(b, "catch", "finally")
  /\ result' = [result EXCEPT ![b] = "FAILURE"]
  /\ TellCaught(b) /\ UNCHANGED <<app, attempt, thrown, status, verdict, artifacts>>

\* catch (e).  The status of the whole build may itself throw, before
\* catchError is set.  An exception leaves the block in any case: e, that of
\* the status or the curl, or the interruption of a build aborted meanwhile.
Catch(b) ==
  /\ Goes(b, "catch", "finally")
  /\ result' = [result EXCEPT ![b] = "FAILURE"]
  /\ \/ TellCaught(b) /\ status' = [status EXCEPT ![b]["Jenkins"] = "failed"]
     \/ UNCHANGED <<catchError, status, messages>>
  /\ UNCHANGED <<app, attempt, thrown, verdict, artifacts>>

\* The results Jenkins may give a build whose script is over: by the exception
\* that ends it, an error or an interruption, or else the result so far.
FinalResults(exception, r) ==
  IF exception THEN Failed ELSE IF r = "null" THEN {"SUCCESS"} ELSE {r}

\* Mutant: the coverage is forgotten in the condition.
TellFailedAgain(b) == result[b] \in {"null", "FAILURE"} /\ ~ catchError[b]

\* The condition of the finally block.
TellFailed(b) == result[b] \in {"null", "FAILURE"} /\ ~ catchError[b] /\ coverageStatus[b] # "FAILURE"

\* finally: tells that the build failed; the script ends, with another
\* exception when this message cannot be sent.
Finally(b) ==
  /\ Goes(b, "finally", "ended")
  /\ \/ /\ IF TellFailed(b) THEN Send(b, "failed") ELSE UNCHANGED messages
        /\ \E r \in FinalResults(thrown[b], result[b]) : result' = [result EXCEPT ![b] = r]
     \/ /\ TellFailed(b) /\ SendFails(b)
        /\ \E r \in FinalResults(TRUE, result[b]) : result' = [result EXCEPT ![b] = r]
  /\ UNCHANGED <<app, attempt, outcome, status, verdict, artifacts>>

-----------------------------------------------------------------------------
Step(b) ==
  \/ StartBuild(b) \/ EnterNode(b) \/ StopOutside(b) \/ Announce(b) \/ Checkout(b)
  \/ Preparations(b) \/ Compile(b) \/ ExecuteTests(b) \/ JUnit(b) \/ Jacoco(b)
  \/ CountOne(b) \/ Counted(b) \/ Configuration(b) \/ Deploy(b) \/ DeployFails(b)
  \/ UploadManifest(b) \/ UploadJar(b) \/ Uploaded(b) \/ Publish(b) \/ Notify(b) \/ Report(b)
  \/ Throw(b) \/ Catch(b) \/ Finally(b)

\* Every build has ended: nothing is left to do.
Done == (\A b \in Builds : pc[b] \in {"ended", "stopped"}) /\ UNCHANGED vars

Next == Done \/ \E b \in Builds : Step(b)

Spec == Init /\ [][Next]_vars
-----------------------------------------------------------------------------
(* Properties *)

\* The build entered the try block and is over.
Ended(b) == pc[b] = "ended"

\* The status of the whole build, the first thing the catch block reports, threw (line 323).
StatusThrew(b) == thrown[b] /\ ~ catchError[b]

\* A build that entered the try block and does not end SUCCESS has been announced,
\* by the Slack stage, the catch block or the finally block (lines 272, 325, 350).
\* It is silent only when a curl failed, or when line 323 threw before catchError
\* was set and the coverage had already failed the build, which the finally
\* block takes for announced.
NoFailureUnannounced ==
  \A b \in Builds : Ended(b) /\ result[b] # "SUCCESS" =>
    \/ notices[b] # {} \/ slackFailed[b]
    \/ StatusThrew(b) /\ coverageStatus[b] = "FAILURE"

\* The finally block speaks only for builds nobody has spoken for: its
\* condition (line 350) rules out every way the other two announce a build,
\* unless line 323 threw.
FinallyOnlyIfSilent ==
  \A b \in Builds : "failed" \in notices[b] /\ ~ StatusThrew(b) => notices[b] = {"failed"}

\* What GitLab shows of a build that entered the try block and is over: no status is
\* pending; all are a success if nothing was thrown; 'Jenkins' has failed if the catch
\* block got past line 323; and wherever 'Jenkins' is a success, so are all stages, and
\* the repository has a manifest and a jar of the artifact (lines 94-318, 323).
StatusesSettled ==
  \A b \in Builds : Ended(b) =>
    /\ \A s \in Statuses : status[b][s] # "pending"
    /\ ~ thrown[b] => \A s \in Statuses : status[b][s] = "success"
    /\ catchError[b] => status[b]["Jenkins"] = "failed"
    /\ status[b]["Jenkins"] = "success" =>
         /\ \A s \in Stages : status[b][s] = "success"
         /\ \A c \in {manifestOf[app[b]], jarOf[app[b]]} : c \in Builds /\ app[c] = app[b]

\* The repository's manifest and jar of an artifact come from the same build, unless
\* the upload of the manifest's build is not over (it is between the two, or it died
\* and its 'Uploading Artifact' is no success), or it put its manifest between the two
\* uploads of the jar's build: the uploads of two builds of a repository can cross
\* (lines 206 and 208).
RepositoryWhole ==
  \A a \in Apps : manifestOf[a] # jarOf[a] =>
    LET m == manifestOf[a]
    IN  /\ m \in Builds
        /\ status[m]["Uploading Artifact"] = "success" => jarOf[a] \in Builds /\ m \in crossed[jarOf[a]]

\* The number of builds a message calls failed or unstable (unstableBuilds.size() + 1,
\* lines 39-49 and 224), when it has been counted, one result after another while other
\* builds run: each build counted is over or on its way to a bad end (none of them
\* has recovered or is still undecided), and the build before them is not bad now.
CountIsRunOfBadStep ==
  \A b \in Builds : pc[b] = "count" /\ pc'[b] = "Configuration" =>
    LET n == unstableBuilds[b]
    IN  /\ \A k \in (b - n)..(b - 1) : result[k] \notin {"null", "SUCCESS"}
        /\ b - n > 1 => result[b - n - 1] \notin Bad
CountIsRunOfBad == [][CountIsRunOfBadStep]_vars

\* The finally block's message "build for the ... failed" (line 355) is sent
\* of builds that failed; the same script calls a null result "Success" (line 223).
OnlyFailedCalledFailed ==
  \A b \in Builds : Ended(b) /\ "failed" \in notices[b] => result[b] = "FAILURE"

\* A message that coverage fell below its limit (lines 230 and 241) is sent
\* of builds whose coverage did.
CoverageBlamedOnlyIfLow ==
  \A b \in Builds : notices[b] \cap {"coverage", "tests and coverage"} # {} => coverage[b] # "enough"
=============================================================================
