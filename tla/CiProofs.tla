------------------------------ MODULE CiProofs ------------------------------
(***************************************************************************)
(* Theorems about the merge request pipeline, for any artifacts, any       *)
(* number of builds, overlapping in any way, and any results of the builds *)
(* before them.                                                            *)
(***************************************************************************)
EXTENDS CiPipeline, TLAPS

-----------------------------------------------------------------------------
(* The inductive invariant *)

BeforeTests  == {"checkout", "preparations", "build", "Executing Test", "Post Test"}
BeforeDeploy == BeforeTests \cup {"Configuration"}

\* The stages that are over when a build comes to a step.
Over(step) ==
  CASE step = "checkout" -> {}
    [] step = "preparations" -> {"checkout"}
    [] step = "build" -> {"checkout", "preparations"}
    [] step = "Executing Test" -> {"checkout", "preparations", "build"}
    [] step \in {"Post Test", "jacoco", "count"} -> BeforeTests \ {"Post Test"}
    [] step = "Configuration" -> BeforeTests
    [] step = "Deploy" -> BeforeDeploy
    [] step \in {"Uploading Artifact", "jar", "uploaded"} -> BeforeDeploy \cup {"Deploy"}
    [] step = "Publishing Results" -> BeforeDeploy \cup {"Deploy", "Uploading Artifact"}
    [] OTHER -> Stages \ {"Send Slack Notification"}

Outside == {"queued", "script", "stopped"}
After   == {"catch", "finally", "ended"}

\* What is thrown goes to the catch block, which alone sets catchError.
ThrownOK(b) ==
  /\ pc[b] \in Outside \cup Steps => ~ thrown[b]
  /\ pc[b] = "catch" => thrown[b]
  /\ catchError[b] => thrown[b] /\ pc[b] \in {"finally", "ended"}

\* Each stage is reported in its turn; an exception reports the rest.
StatusOK(b) ==
  /\ pc[b] \in Outside \cup {"gitlabBuilds"} => \A s \in Statuses : status[b][s] = "none"
  /\ pc[b] \in Steps \ {"gitlabBuilds"} =>
       /\ status[b]["Jenkins"] = "none"
       /\ \A s \in Stages : status[b][s] = IF s \in Over(pc[b]) THEN "success" ELSE "pending"
  /\ pc[b] \in After =>
       /\ \A s \in Statuses : status[b][s] # "pending"
       /\ status[b]["Jenkins"] = "success" => \A s \in Stages : status[b][s] = "success"
       /\ ~ thrown[b] => \A s \in Statuses : status[b][s] = "success"
       /\ catchError[b] => status[b]["Jenkins"] = "failed"

\* From the coverage on a bad result is its status until something is thrown, failed
\* tests make it bad, and a good one has nothing to announce.
ResultOK(b) ==
  /\ pc[b] \in {"queued", "script", "gitlabBuilds"} \cup BeforeTests =>
       result[b] = "null" /\ tests[b] = "none"
  /\ pc[b] = "jacoco" => result[b] \in {"null", "UNSTABLE"} /\ (result[b] = "UNSTABLE" => tests[b] = "failed")
  /\ pc[b] \in Outside \cup {"gitlabBuilds", "jacoco"} \cup BeforeTests => coverageStatus[b] = ""
  /\ pc[b] = "finally" /\ thrown[b] => result[b] = "FAILURE"
  /\ \/ pc[b] \in (Steps \ {"gitlabBuilds", "jacoco"}) \ BeforeTests
     \/ pc[b] = "finally" /\ ~ thrown[b]
     => /\ result[b] # "ABORTED"
        /\ IF result[b] \in Bad THEN coverageStatus[b] = result[b]
                                ELSE tests[b] # "failed" /\ ~ Low(b)

\* Who has spoken, or tried to, at each point of the script.
NoticesOK(b) ==
  /\ pc[b] # "ended" => "failed" \notin notices[b]
  /\ pc[b] \in Outside \cup (Steps \ {"report"}) => notices[b] = {}
  /\ pc[b] \in {"report", "finally"} /\ ~ thrown[b] =>
       (notices[b] # {} <=> tests[b] = "failed" \/ Low(b))
  /\ pc[b] = "finally" /\ catchError[b] => notices[b] # {} \/ slackFailed[b]
  /\ pc[b] = "ended" =>
       /\ "failed" \in notices[b] => notices[b] = {"failed"} \/ StatusThrew(b)
       /\ result[b] # "SUCCESS" => \/ notices[b] # {} \/ slackFailed[b]
                                   \/ StatusThrew(b) /\ coverageStatus[b] = "FAILURE"

BuildOK(b) == ThrownOK(b) /\ StatusOK(b) /\ ResultOK(b) /\ NoticesOK(b)

\* While build b counts, the builds counted have ended badly or will.
BeforeCount == {"queued", "script", "gitlabBuilds", "jacoco"} \cup BeforeTests
Decided(k)  == result[k] \notin {"null", "SUCCESS"}
CountOK(b) ==
  /\ pc[b] \in BeforeCount => unstableBuilds[b] = 0
  /\ pc[b] = "count" => \A k \in (b - unstableBuilds[b])..(b - 1) : k \in 1..Last /\ Decided(k)

\* Whose manifest and jar the repository has, and what builds between or past their
\* uploads know of them.
Shared(b)  == status[b]["Uploading Artifact"] = "success"
Provenance ==
  /\ \A a \in Apps : manifestOf[a] # NoBuild => app[manifestOf[a]] = a
  /\ \A a \in Apps : jarOf[a] # NoBuild => app[jarOf[a]] = a
  /\ \A b \in Builds : pc[b] \in {"jar", "uploaded"} \/ Shared(b) => manifestOf[app[b]] # NoBuild
  /\ \A b \in Builds : pc[b] = "uploaded" \/ Shared(b) => jarOf[app[b]] # NoBuild
  /\ \A a \in Apps : jarOf[a] # NoBuild => manifestOf[a] # NoBuild

\* Build m has put its manifest and not its jar, or will not say that it has.
HalfUploaded(m) == pc[m] = "jar" \/ (pc[m] \in After /\ ~ Shared(m))

Crossings ==
  /\ \A a \in Apps : manifestOf[a] # NoBuild =>
       \/ manifestOf[a] = jarOf[a] \/ HalfUploaded(manifestOf[a])
       \/ jarOf[a] \in Builds /\ manifestOf[a] \in crossed[jarOf[a]]
  /\ \A b \in Builds : pc[b] = "jar" => manifestOf[app[b]] = b \/ manifestOf[app[b]] \in crossed[b]

CiInv == TypeOK /\ Provenance /\ Crossings /\ \A b \in Builds : BuildOK(b) /\ CountOK(b)

-----------------------------------------------------------------------------
(* Types and frames *)

LEMMA BuildsAreNumbers ==
  /\ \A b \in Builds : b \in 1..Last /\ b \in Int /\ b # NoBuild
  /\ Builds \subseteq 1..Last /\ NoBuild \notin Builds /\ Last \in Nat
<1>1. Last \in Nat /\ Old \in Nat /\ NoBuild \notin 1..Last
  BY CiAssumption, Zenon
<1>2. Builds \subseteq 1..Last /\ \A b \in 1..Last : b \in Int
  BY <1>1 DEF Builds
<1> QED
  BY <1>1, <1>2, Zenon

Places       == {"queued", "script", "stopped", "catch", "finally", "ended"} \cup Steps
StatusValues == {"none", "pending", "success", "failed"}
NoticeValues == {"tests", "coverage", "tests and coverage", "caught", "failed"}

\* Function f is left alone, or changed at b only, to a value in S.
At(b, f, g, S) == g = f \/ \E v \in S : g = [f EXCEPT ![b] = v]

LEMMA EscapeAt ==
  ASSUME TypeOK, NEW b \in Builds, NEW st \in [Statuses -> StatusValues], Escape(b, st)
  PROVE  At(b, status, status', [Statuses -> StatusValues])
<1> DEFINE new == [s \in Statuses |-> IF st[s] = "pending" THEN "failed" ELSE st[s]]
<1>1. new \in [Statuses -> StatusValues]
  BY DEF StatusValues
<1>2. status' = [status EXCEPT ![b] = new]
  BY DEF Escape
<1> QED
  BY <1>1, <1>2 DEF At

LEMMA StatusAt ==
  ASSUME TypeOK, NEW b \in Builds, Step(b)
  PROVE  At(b, status, status', [Statuses -> StatusValues])
<1>0. status \in [Builds -> [Statuses -> StatusValues]] /\ status[b] \in [Statuses -> StatusValues]
  BY DEF TypeOK, StatusValues
<1>1. ASSUME NEW s \in Statuses, NEW v \in StatusValues, status' = [status EXCEPT ![b][s] = v]
      PROVE  At(b, status, status', [Statuses -> StatusValues])
  <2>1. [status[b] EXCEPT ![s] = v] \in [Statuses -> StatusValues]
    BY <1>0
  <2> QED
    BY <1>1, <2>1 DEF At
<1>2. ASSUME NEW s \in Stages, NEW step, NEW next, Finish(b, step, s, next)
      PROVE  At(b, status, status', [Statuses -> StatusValues])
  BY <1>1, <1>2 DEF Finish, Statuses, StatusValues
<1>3. CASE Announce(b)
  <2> DEFINE new == [s \in Statuses |-> IF s \in Stages THEN "pending" ELSE status[b][s]]
  <2>1. new \in [Statuses -> StatusValues]
    BY <1>0 DEF StatusValues
  <2>2. status' = [status EXCEPT ![b] = new]
    BY <1>3 DEF Announce
  <2> QED
    BY <2>1, <2>2 DEF At
<1>4. CASE Checkout(b)
  <2>1. [status[b] EXCEPT !["preparations"] = "failed", !["Jenkins"] = "failed"]
          \in [Statuses -> StatusValues]
    BY <1>0 DEF StatusValues
  <2> QED
    BY <1>2, <1>4, <2>1, EscapeAt DEF Checkout, Stages
<1>5. CASE Preparations(b) \/ Compile(b) \/ ExecuteTests(b) \/ Counted(b) \/ Configuration(b)
           \/ Deploy(b) \/ Uploaded(b) \/ Publish(b)
  BY <1>2, <1>5 DEF Preparations, Compile, ExecuteTests, Counted, Configuration, Deploy, Uploaded,
     Publish, Stages
<1>6. CASE DeployFails(b)
  BY <1>0, <1>6, EscapeAt DEF DeployFails, At
<1>7. CASE Throw(b)
  <2>1. PICK set \in SetSoFar(b) : Escape(b, [s \in Statuses |-> IF s \in set THEN "success" ELSE status[b][s]])
    BY <1>7 DEF Throw
  <2>2. [s \in Statuses |-> IF s \in set THEN "success" ELSE status[b][s]] \in [Statuses -> StatusValues]
    BY <1>0 DEF StatusValues
  <2> QED
    BY <2>1, <2>2, EscapeAt
<1>8. CASE Notify(b) \/ Catch(b)
  BY <1>1, <1>8 DEF Notify, Catch, TellCaught, Stages, Statuses, StatusValues, At
<1>9. CASE Report(b)
  <2> DEFINE new == [status[b] EXCEPT !["Send Slack Notification"] = "success", !["Jenkins"] = "success"]
  <2>1. new \in [Statuses -> StatusValues]
    BY <1>0 DEF StatusValues
  <2>2. status' = [status EXCEPT ![b] = new]
    BY <1>0, <1>9 DEF Report
  <2> QED
    BY <2>1, <2>2 DEF At
<1>10. CASE StartBuild(b) \/ EnterNode(b) \/ StopOutside(b) \/ JUnit(b) \/ Jacoco(b) \/ CountOne(b)
            \/ UploadManifest(b) \/ UploadJar(b) \/ Finally(b)
  BY <1>10 DEF StartBuild, EnterNode, StopOutside, JUnit, Jacoco, CountOne, UploadManifest, UploadJar,
     Finally, At
<1> QED
  BY <1>3, <1>4, <1>5, <1>6, <1>7, <1>8, <1>9, <1>10 DEF Step

LEMMA CoverageStatusAt ==
  ASSUME TypeOK, NEW b \in Builds, Step(b)
  PROVE  At(b, coverageStatus, coverageStatus', {"", "Success", "SUCCESS"} \cup Bad)
<1>1. CASE Jacoco(b)
  <2>1. PICK c \in Coverages, good \in {"null", "SUCCESS"} :
          LET r == CASE c = "too low" -> "FAILURE"
                     [] c = "low" \/ (c = "enough" /\ tests[b] = "failed") -> "UNSTABLE"
                     [] OTHER -> good
          IN  coverageStatus' = [coverageStatus EXCEPT ![b] = IF r = "null" THEN "Success" ELSE r]
    BY <1>1 DEF Jacoco
  <2> QED
    BY <2>1 DEF At, Bad
<1>2. CASE JUnit(b)
  BY <1>2 DEF JUnit, At
<1>3. CASE StartBuild(b) \/ EnterNode(b) \/ StopOutside(b) \/ Announce(b) \/ Checkout(b)
            \/ Preparations(b) \/ Compile(b) \/ ExecuteTests(b)
            \/ CountOne(b) \/ Counted(b) \/ Configuration(b) \/ Deploy(b) \/ DeployFails(b)
            \/ UploadManifest(b) \/ UploadJar(b) \/ Uploaded(b) \/ Publish(b) \/ Notify(b) \/ Report(b)
            \/ Throw(b)
            \/ Catch(b) \/ Finally(b)
  BY <1>3 DEF StartBuild, EnterNode, StopOutside, Announce, Checkout, Preparations, Compile,
     ExecuteTests, CountOne, Counted, Configuration, Deploy, DeployFails, UploadManifest, UploadJar,
     Uploaded, Publish, Notify, Report, Throw, Finish, Escape, verdict, Catch, Finally, At
<1> QED
  BY <1>1, <1>2, <1>3 DEF Step

LEMMA AttemptAt ==
  ASSUME TypeOK, NEW b \in Builds, Step(b)
  PROVE  At(b, attempt, attempt', 0..1)
<1>1. CASE DeployFails(b)
  <2>1. attempt[b] \in 0..1
    BY DEF TypeOK
  <2>2. 1 - attempt[b] \in 0..1
    BY <2>1
  <2>3. attempt' = [attempt EXCEPT ![b] = 1 - attempt[b]]
    BY <1>1, Zenon DEF DeployFails
  <2> QED
    BY <2>2, <2>3 DEF At
<1>2. CASE Deploy(b) \/ Throw(b)
  <2>1. attempt' = [attempt EXCEPT ![b] = 0]
    BY <1>2, Zenon DEF Deploy, Throw
  <2>2. 0 \in 0..1
    OBVIOUS
  <2> QED
    BY <2>1, <2>2 DEF At
<1>3. CASE StartBuild(b) \/ EnterNode(b) \/ StopOutside(b) \/ Announce(b) \/ Checkout(b)
            \/ Preparations(b) \/ Compile(b) \/ ExecuteTests(b) \/ JUnit(b) \/ Jacoco(b)
            \/ CountOne(b) \/ Counted(b) \/ Configuration(b)
            \/ UploadManifest(b) \/ UploadJar(b) \/ Uploaded(b) \/ Publish(b) \/ Notify(b) \/ Report(b)
            \/ Catch(b) \/ Finally(b)
  BY <1>3 DEF StartBuild, EnterNode, StopOutside, Announce, Checkout, Preparations, Compile,
     ExecuteTests, JUnit, Jacoco, CountOne, Counted, Configuration, UploadManifest, UploadJar,
     Uploaded, Publish, Notify, Report, Catch, Finally, At
<1> QED
  BY <1>1, <1>2, <1>3 DEF Step

LEMMA ResultAt ==
  ASSUME TypeOK, NEW b \in Builds, Step(b)
  PROVE  At(b, result, result', Results)
<1>0. result[b] \in Results /\ thrown[b] \in BOOLEAN
  BY BuildsAreNumbers DEF TypeOK
<1>1. CASE Jacoco(b)
  <2>1. PICK c \in Coverages, good \in {"null", "SUCCESS"} :
          LET r == CASE c = "too low" -> "FAILURE"
                     [] c = "low" \/ (c = "enough" /\ tests[b] = "failed") -> "UNSTABLE"
                     [] OTHER -> good
          IN  result' = [result EXCEPT ![b] = r]
    BY <1>1 DEF Jacoco
  <2> QED
    BY <2>1 DEF At, Results
<1>2. CASE Finally(b)
  <2>1. \A e \in BOOLEAN : FinalResults(e, result[b]) \subseteq Results
    BY <1>0 DEF FinalResults, Failed, Results
  <2> QED
    BY <1>0, <1>2, <2>1 DEF Finally, At
<1>3. CASE JUnit(b) \/ Catch(b) \/ StopOutside(b)
  BY <1>3 DEF JUnit, Catch, StopOutside, Failed, Results, At
<1>4. CASE StartBuild(b) \/ EnterNode(b) \/ Announce(b) \/ Checkout(b)
            \/ Preparations(b) \/ Compile(b) \/ ExecuteTests(b)
            \/ CountOne(b) \/ Counted(b) \/ Configuration(b) \/ Deploy(b) \/ DeployFails(b)
            \/ UploadManifest(b) \/ UploadJar(b) \/ Uploaded(b) \/ Publish(b) \/ Notify(b) \/ Report(b)
            \/ Throw(b)
  BY <1>4 DEF StartBuild, EnterNode, Announce, Checkout, Preparations, Compile,
     ExecuteTests, CountOne, Counted, Configuration, Deploy, DeployFails, UploadManifest, UploadJar,
     Uploaded, Publish, Notify, Report, Throw, Finish, Escape, verdict, At
<1> QED
  BY <1>1, <1>2, <1>3, <1>4 DEF Step

\* A step of b changes of every variable that belongs to builds b's own value.
LEMMA OwnChanges ==
  ASSUME TypeOK, NEW b \in Builds, Step(b)
  PROVE  /\ app' = app
         /\ At(b, pc, pc', Places)
         /\ At(b, thrown, thrown', BOOLEAN) /\ At(b, catchError, catchError', BOOLEAN)
         /\ At(b, attempt, attempt', 0..1)
         /\ At(b, tests, tests', {"none", "passed", "failed"})
         /\ At(b, coverage, coverage', {"enough", "low", "too low"})
         /\ At(b, coverageStatus, coverageStatus', {"", "Success", "SUCCESS"} \cup Bad)
         /\ At(b, result, result', Results)
         /\ At(b, status, status', [Statuses -> StatusValues])
         /\ At(b, notices, notices', SUBSET NoticeValues)
         /\ At(b, slackFailed, slackFailed', BOOLEAN)
<1> USE DEF Step, StartBuild, EnterNode, StopOutside, Announce, Checkout, Preparations, Compile, ExecuteTests,
     JUnit, Jacoco, CountOne, Counted, Configuration, Deploy, DeployFails, UploadManifest, UploadJar,
     Uploaded, Publish, Notify, Report, Throw, Catch, Finally, Finish, Escape, Goes
<1>0. /\ status[b] \in [Statuses -> StatusValues] /\ b \in 1..Last
      /\ notices[b] \in SUBSET NoticeValues /\ result[b] \in Results /\ attempt[b] \in 0..1
  BY BuildsAreNumbers DEF TypeOK, StatusValues, NoticeValues
<1>1. app' = app
  OBVIOUS
<1>2. At(b, pc, pc', Places)
  BY DEF At, Places, Steps, Stages
<1>3. At(b, thrown, thrown', BOOLEAN)
  BY DEF At, outcome
<1>4. At(b, catchError, catchError', BOOLEAN)
  BY DEF At, outcome, TellCaught
<1>5. At(b, attempt, attempt', 0..1)
  BY AttemptAt
<1>6. At(b, tests, tests', {"none", "passed", "failed"})
  BY DEF At, verdict
<1>7. At(b, coverage, coverage', {"enough", "low", "too low"})
  BY CiAssumption DEF At, verdict
<1>8. At(b, coverageStatus, coverageStatus', {"", "Success", "SUCCESS"} \cup Bad)
  BY CoverageStatusAt
<1>9. At(b, result, result', Results)
  BY ResultAt
<1>10. At(b, notices, notices', SUBSET NoticeValues)
  BY <1>0 DEF At, NoticeValues, messages, Send, SendFails, Notice, TellCaught
<1>11. At(b, slackFailed, slackFailed', BOOLEAN)
  BY DEF At, messages, Send, SendFails, TellCaught
<1>12. At(b, status, status', [Statuses -> StatusValues])
  BY StatusAt
<1> QED
  BY <1>1, <1>2, <1>3, <1>4, <1>5, <1>6, <1>7, <1>8, <1>9, <1>10, <1>11, <1>12

\* What belongs to builds is typed after a step of b, and the other builds' is as it was.
LEMMA OwnKept ==
  ASSUME TypeOK, NEW b \in Builds, Step(b)
  PROVE  /\ app' = app
         /\ pc' \in [Builds -> Places] /\ \A c \in Builds \ {b} : pc'[c] = pc[c]
         /\ thrown' \in [Builds -> BOOLEAN] /\ \A c \in Builds \ {b} : thrown'[c] = thrown[c]
         /\ catchError' \in [Builds -> BOOLEAN] /\ \A c \in Builds \ {b} : catchError'[c] = catchError[c]
         /\ attempt' \in [Builds -> 0..1] /\ \A c \in Builds \ {b} : attempt'[c] = attempt[c]
         /\ tests' \in [Builds -> {"none", "passed", "failed"}] /\ \A c \in Builds \ {b} : tests'[c] = tests[c]
         /\ coverage' \in [Builds -> {"enough", "low", "too low"}] /\ \A c \in Builds \ {b} : coverage'[c] = coverage[c]
         /\ coverageStatus' \in [Builds -> {"", "Success", "SUCCESS"} \cup Bad] /\ \A c \in Builds \ {b} : coverageStatus'[c] = coverageStatus[c]
         /\ result' \in [1..Last -> Results] /\ \A c \in 1..Last \ {b} : result'[c] = result[c]
         /\ status' \in [Builds -> [Statuses -> StatusValues]] /\ \A c \in Builds \ {b} : status'[c] = status[c]
         /\ notices' \in [Builds -> SUBSET NoticeValues] /\ \A c \in Builds \ {b} : notices'[c] = notices[c]
         /\ slackFailed' \in [Builds -> BOOLEAN] /\ \A c \in Builds \ {b} : slackFailed'[c] = slackFailed[c]
<1>0. app' = app /\ b \in 1..Last
  BY OwnChanges, BuildsAreNumbers
<1>1. pc' \in [Builds -> Places] /\ \A c \in Builds \ {b} : pc'[c] = pc[c]
  <2>1. pc \in [Builds -> Places] /\ At(b, pc, pc', Places)
    BY OwnChanges DEF TypeOK, Places, StatusValues, NoticeValues
  <2>2. ASSUME NEW x \in Places, pc' = [pc EXCEPT ![b] = x]
        PROVE  pc' \in [Builds -> Places] /\ \A c \in Builds \ {b} : pc'[c] = pc[c]
    BY <1>0, <2>1, <2>2
  <2> QED
    BY <2>1, <2>2 DEF At
<1>2. thrown' \in [Builds -> BOOLEAN] /\ \A c \in Builds \ {b} : thrown'[c] = thrown[c]
  <2>1. thrown \in [Builds -> BOOLEAN] /\ At(b, thrown, thrown', BOOLEAN)
    BY OwnChanges DEF TypeOK, Places, StatusValues, NoticeValues
  <2>2. ASSUME NEW x \in BOOLEAN, thrown' = [thrown EXCEPT ![b] = x]
        PROVE  thrown' \in [Builds -> BOOLEAN] /\ \A c \in Builds \ {b} : thrown'[c] = thrown[c]
    BY <1>0, <2>1, <2>2
  <2> QED
    BY <2>1, <2>2 DEF At
<1>3. catchError' \in [Builds -> BOOLEAN] /\ \A c \in Builds \ {b} : catchError'[c] = catchError[c]
  <2>1. catchError \in [Builds -> BOOLEAN] /\ At(b, catchError, catchError', BOOLEAN)
    BY OwnChanges DEF TypeOK, Places, StatusValues, NoticeValues
  <2>2. ASSUME NEW x \in BOOLEAN, catchError' = [catchError EXCEPT ![b] = x]
        PROVE  catchError' \in [Builds -> BOOLEAN] /\ \A c \in Builds \ {b} : catchError'[c] = catchError[c]
    BY <1>0, <2>1, <2>2
  <2> QED
    BY <2>1, <2>2 DEF At
<1>4. attempt' \in [Builds -> 0..1] /\ \A c \in Builds \ {b} : attempt'[c] = attempt[c]
  <2>1. attempt \in [Builds -> 0..1] /\ At(b, attempt, attempt', 0..1)
    BY OwnChanges DEF TypeOK, Places, StatusValues, NoticeValues
  <2>2. ASSUME NEW x \in 0..1, attempt' = [attempt EXCEPT ![b] = x]
        PROVE  attempt' \in [Builds -> 0..1] /\ \A c \in Builds \ {b} : attempt'[c] = attempt[c]
    BY <1>0, <2>1, <2>2
  <2> QED
    BY <2>1, <2>2 DEF At
<1>5. tests' \in [Builds -> {"none", "passed", "failed"}] /\ \A c \in Builds \ {b} : tests'[c] = tests[c]
  <2>1. tests \in [Builds -> {"none", "passed", "failed"}] /\ At(b, tests, tests', {"none", "passed", "failed"})
    BY OwnChanges DEF TypeOK, Places, StatusValues, NoticeValues
  <2>2. ASSUME NEW x \in {"none", "passed", "failed"}, tests' = [tests EXCEPT ![b] = x]
        PROVE  tests' \in [Builds -> {"none", "passed", "failed"}] /\ \A c \in Builds \ {b} : tests'[c] = tests[c]
    BY <1>0, <2>1, <2>2
  <2> QED
    BY <2>1, <2>2 DEF At
<1>6. coverage' \in [Builds -> {"enough", "low", "too low"}] /\ \A c \in Builds \ {b} : coverage'[c] = coverage[c]
  <2>1. coverage \in [Builds -> {"enough", "low", "too low"}] /\ At(b, coverage, coverage', {"enough", "low", "too low"})
    BY OwnChanges DEF TypeOK, Places, StatusValues, NoticeValues
  <2>2. ASSUME NEW x \in {"enough", "low", "too low"}, coverage' = [coverage EXCEPT ![b] = x]
        PROVE  coverage' \in [Builds -> {"enough", "low", "too low"}] /\ \A c \in Builds \ {b} : coverage'[c] = coverage[c]
    BY <1>0, <2>1, <2>2
  <2> QED
    BY <2>1, <2>2 DEF At
<1>7. coverageStatus' \in [Builds -> {"", "Success", "SUCCESS"} \cup Bad] /\ \A c \in Builds \ {b} : coverageStatus'[c] = coverageStatus[c]
  <2>1. coverageStatus \in [Builds -> {"", "Success", "SUCCESS"} \cup Bad] /\ At(b, coverageStatus, coverageStatus', {"", "Success", "SUCCESS"} \cup Bad)
    BY OwnChanges DEF TypeOK, Places, StatusValues, NoticeValues
  <2>2. ASSUME NEW x \in {"", "Success", "SUCCESS"} \cup Bad, coverageStatus' = [coverageStatus EXCEPT ![b] = x]
        PROVE  coverageStatus' \in [Builds -> {"", "Success", "SUCCESS"} \cup Bad] /\ \A c \in Builds \ {b} : coverageStatus'[c] = coverageStatus[c]
    BY <1>0, <2>1, <2>2
  <2> QED
    BY <2>1, <2>2 DEF At
<1>8. result' \in [1..Last -> Results] /\ \A c \in 1..Last \ {b} : result'[c] = result[c]
  <2>1. result \in [1..Last -> Results] /\ At(b, result, result', Results)
    BY OwnChanges DEF TypeOK, Places, StatusValues, NoticeValues
  <2>2. ASSUME NEW x \in Results, result' = [result EXCEPT ![b] = x]
        PROVE  result' \in [1..Last -> Results] /\ \A c \in 1..Last \ {b} : result'[c] = result[c]
    BY <1>0, <2>1, <2>2
  <2> QED
    BY <2>1, <2>2 DEF At
<1>9. status' \in [Builds -> [Statuses -> StatusValues]] /\ \A c \in Builds \ {b} : status'[c] = status[c]
  <2>1. status \in [Builds -> [Statuses -> StatusValues]] /\ At(b, status, status', [Statuses -> StatusValues])
    BY OwnChanges DEF TypeOK, Places, StatusValues, NoticeValues
  <2>2. ASSUME NEW x \in [Statuses -> StatusValues], status' = [status EXCEPT ![b] = x]
        PROVE  status' \in [Builds -> [Statuses -> StatusValues]] /\ \A c \in Builds \ {b} : status'[c] = status[c]
    BY <1>0, <2>1, <2>2
  <2> QED
    BY <2>1, <2>2 DEF At
<1>10. notices' \in [Builds -> SUBSET NoticeValues] /\ \A c \in Builds \ {b} : notices'[c] = notices[c]
  <2>1. notices \in [Builds -> SUBSET NoticeValues] /\ At(b, notices, notices', SUBSET NoticeValues)
    BY OwnChanges DEF TypeOK, Places, StatusValues, NoticeValues
  <2>2. ASSUME NEW x \in SUBSET NoticeValues, notices' = [notices EXCEPT ![b] = x]
        PROVE  notices' \in [Builds -> SUBSET NoticeValues] /\ \A c \in Builds \ {b} : notices'[c] = notices[c]
    BY <1>0, <2>1, <2>2
  <2> QED
    BY <2>1, <2>2 DEF At
<1>11. slackFailed' \in [Builds -> BOOLEAN] /\ \A c \in Builds \ {b} : slackFailed'[c] = slackFailed[c]
  <2>1. slackFailed \in [Builds -> BOOLEAN] /\ At(b, slackFailed, slackFailed', BOOLEAN)
    BY OwnChanges DEF TypeOK, Places, StatusValues, NoticeValues
  <2>2. ASSUME NEW x \in BOOLEAN, slackFailed' = [slackFailed EXCEPT ![b] = x]
        PROVE  slackFailed' \in [Builds -> BOOLEAN] /\ \A c \in Builds \ {b} : slackFailed'[c] = slackFailed[c]
    BY <1>0, <2>1, <2>2
  <2> QED
    BY <2>1, <2>2 DEF At
<1> QED
  BY <1>0, <1>1, <1>2, <1>3, <1>4, <1>5, <1>6, <1>7, <1>8, <1>9, <1>10, <1>11

\* The count of b goes up only while a build is left to look at.
LEMMA CountChange ==
  ASSUME TypeOK, NEW b \in Builds, Step(b)
  PROVE  /\ unstableBuilds' \in [Builds -> 0..Last]
         /\ \A c \in Builds \ {b} : unstableBuilds'[c] = unstableBuilds[c]
         /\ ~ CountOne(b) => unstableBuilds' = unstableBuilds
         /\ CountOne(b) => unstableBuilds'[b] = unstableBuilds[b] + 1
<1>0. unstableBuilds \in [Builds -> 0..Last] /\ unstableBuilds[b] \in 0..Last /\ b \in 1..Last /\ Last \in Nat
  BY BuildsAreNumbers DEF TypeOK
<1>1. CASE CountOne(b)
  <2>1. b - 1 - unstableBuilds[b] > 0
    BY <1>1 DEF CountOne, CountsAsBad, NextRead
  <2>2. unstableBuilds[b] + 1 \in 0..Last
    BY <1>0, <2>1
  <2>3. unstableBuilds' = [unstableBuilds EXCEPT ![b] = unstableBuilds[b] + 1]
    BY <1>1, Zenon DEF CountOne
  <2> QED
    BY <1>0, <1>1, <2>2, <2>3
<1>2. CASE StartBuild(b) \/ EnterNode(b) \/ StopOutside(b) \/ Announce(b) \/ Checkout(b)
           \/ Preparations(b) \/ Compile(b) \/ ExecuteTests(b) \/ JUnit(b) \/ Jacoco(b)
           \/ Counted(b) \/ Configuration(b) \/ Deploy(b) \/ DeployFails(b)
           \/ UploadManifest(b) \/ UploadJar(b) \/ Uploaded(b) \/ Publish(b) \/ Notify(b) \/ Report(b)
           \/ Throw(b) \/ Catch(b) \/ Finally(b)
  <2>1. unstableBuilds' = unstableBuilds
    BY <1>2 DEF StartBuild, EnterNode, StopOutside, Announce, Checkout, Preparations, Compile,
       ExecuteTests, JUnit, Jacoco, Counted, Configuration, Deploy, DeployFails, UploadManifest,
       UploadJar, Uploaded, Publish, Notify, Report, Throw, Catch, Finally, Escape, verdict
  <2>2. ~ CountOne(b)
    <3>1. CountOne(b) => unstableBuilds' = [unstableBuilds EXCEPT ![b] = unstableBuilds[b] + 1]
      BY Zenon DEF CountOne
    <3> QED
      BY <1>0, <2>1, <3>1
  <2> QED
    BY <1>0, <2>1, <2>2
<1> QED
  BY <1>1, <1>2 DEF Step

\* Who changes what the repository has of an artifact.
LEMMA ArtifactsChange ==
  ASSUME TypeOK, NEW b \in Builds, Step(b)
  PROVE  /\ manifestOf' \in [Apps -> Builds \cup {NoBuild}]
         /\ jarOf' \in [Apps -> Builds \cup {NoBuild}]
         /\ crossed' \in [Builds -> SUBSET Builds]
         /\ UploadManifest(b) => /\ manifestOf' = [manifestOf EXCEPT ![app[b]] = b] /\ jarOf' = jarOf
                                 /\ \A c \in Builds : crossed'[c] = IF c \in Between(b) THEN crossed[c] \cup {b}
                                                                                         ELSE crossed[c]
         /\ UploadJar(b) => /\ jarOf' = [jarOf EXCEPT ![app[b]] = b]
                            /\ UNCHANGED <<manifestOf, crossed>>
         /\ ~ UploadManifest(b) /\ ~ UploadJar(b) => UNCHANGED <<manifestOf, jarOf, crossed>>
<1>0. /\ app[b] \in Apps /\ manifestOf \in [Apps -> Builds \cup {NoBuild}]
      /\ jarOf \in [Apps -> Builds \cup {NoBuild}] /\ crossed \in [Builds -> SUBSET Builds]
  BY DEF TypeOK
<1>1. ASSUME UploadManifest(b)
      PROVE  /\ manifestOf' = [manifestOf EXCEPT ![app[b]] = b] /\ jarOf' = jarOf
             /\ \A c \in Builds : crossed'[c] = IF c \in Between(b) THEN crossed[c] \cup {b}
                                                                     ELSE crossed[c]
             /\ crossed' \in [Builds -> SUBSET Builds]
  <2>1. manifestOf' = [manifestOf EXCEPT ![app[b]] = b] /\ jarOf' = jarOf
    BY <1>1, Zenon DEF UploadManifest
  <2>2. crossed' = [c \in Builds |-> IF c \in Between(b) THEN crossed[c] \cup {b} ELSE crossed[c]]
    BY <1>1, Zenon DEF UploadManifest
  <2>3. \A c \in Builds : (IF c \in Between(b) THEN crossed[c] \cup {b} ELSE crossed[c]) \in SUBSET Builds
    BY <1>0
  <2> QED
    BY <2>1, <2>2, <2>3
<1>2. UploadJar(b) => jarOf' = [jarOf EXCEPT ![app[b]] = b] /\ UNCHANGED <<manifestOf, crossed>>
  BY DEF UploadJar
<1>3. UNCHANGED <<manifestOf, jarOf, crossed>> \/ UploadManifest(b) \/ UploadJar(b)
  BY DEF Step, StartBuild, EnterNode, StopOutside, Announce, Checkout, Preparations, Compile, ExecuteTests,
     JUnit, Jacoco, CountOne, Counted, Configuration, Deploy, DeployFails, Uploaded, Publish, Notify,
     Report, Throw, Catch, Finally, artifacts
<1> QED
  BY <1>0, <1>1, <1>2, <1>3

LEMMA TypeOKKept ==
  ASSUME TypeOK, NEW b \in Builds, Step(b)
  PROVE  TypeOK'
<1>1. app' \in [Builds -> Apps]
  BY OwnKept DEF TypeOK
<1> QED
  BY <1>1, OwnKept, CountChange, ArtifactsChange DEF TypeOK, Places, StatusValues, NoticeValues

\* Where a build goes from each step.
LEMMA Moves ==
  ASSUME TypeOK, NEW b \in Builds
  PROVE  /\ StartBuild(b) => pc[b] = "queued" /\ pc'[b] = "script"
         /\ EnterNode(b) => pc[b] = "script" /\ pc'[b] = "gitlabBuilds"
         /\ StopOutside(b) => pc[b] = "script" /\ pc'[b] = "stopped"
         /\ Announce(b) => pc[b] = "gitlabBuilds" /\ pc'[b] = "checkout"
         /\ Checkout(b) => pc[b] = "checkout" /\ pc'[b] \in {"preparations", "catch"}
         /\ Preparations(b) => pc[b] = "preparations" /\ pc'[b] = "build"
         /\ Compile(b) => pc[b] = "build" /\ pc'[b] = "Executing Test"
         /\ ExecuteTests(b) => pc[b] = "Executing Test" /\ pc'[b] = "Post Test"
         /\ JUnit(b) => pc[b] = "Post Test" /\ pc'[b] \in {"jacoco", "count"}
         /\ Jacoco(b) => pc[b] = "jacoco" /\ pc'[b] = "count"
         /\ CountOne(b) => pc[b] = "count" /\ pc'[b] = "count"
         /\ Counted(b) => pc[b] = "count" /\ pc'[b] = "Configuration"
         /\ Configuration(b) => pc[b] = "Configuration" /\ pc'[b] = "Deploy"
         /\ Deploy(b) => pc[b] = "Deploy" /\ pc'[b] = "Uploading Artifact"
         /\ DeployFails(b) => pc[b] = "Deploy" /\ pc'[b] \in {"Deploy", "catch"}
         /\ UploadManifest(b) => pc[b] = "Uploading Artifact" /\ pc'[b] = "jar"
         /\ UploadJar(b) => pc[b] = "jar" /\ pc'[b] = "uploaded"
         /\ Uploaded(b) => pc[b] = "uploaded" /\ pc'[b] = "Publishing Results"
         /\ Publish(b) => pc[b] = "Publishing Results" /\ pc'[b] = "Send Slack Notification"
         /\ Notify(b) => pc[b] = "Send Slack Notification" /\ pc'[b] \in {"report", "catch"}
         /\ Report(b) => pc[b] = "report" /\ pc'[b] = "finally"
         /\ Throw(b) => pc[b] \in Steps /\ pc'[b] = "catch"
         /\ Catch(b) => pc[b] = "catch" /\ pc'[b] = "finally"
         /\ Finally(b) => pc[b] = "finally" /\ pc'[b] = "ended"
<1>0. pc \in [Builds -> Places]
  BY DEF TypeOK, Places
<1>1. StartBuild(b) => pc[b] = "queued" /\ pc'[b] = "script"
  BY <1>0 DEF StartBuild, Finish, Escape, Goes
<1>2. EnterNode(b) => pc[b] = "script" /\ pc'[b] = "gitlabBuilds"
  BY <1>0 DEF EnterNode, Finish, Escape, Goes
<1>3. StopOutside(b) => pc[b] = "script" /\ pc'[b] = "stopped"
  BY <1>0 DEF StopOutside, Finish, Escape, Goes
<1>4. Announce(b) => pc[b] = "gitlabBuilds" /\ pc'[b] = "checkout"
  BY <1>0 DEF Announce, Finish, Escape, Goes
<1>5. Checkout(b) => pc[b] = "checkout" /\ pc'[b] \in {"preparations", "catch"}
  BY <1>0 DEF Checkout, Finish, Escape, Goes
<1>6. Preparations(b) => pc[b] = "preparations" /\ pc'[b] = "build"
  BY <1>0 DEF Preparations, Finish, Escape, Goes
<1>7. Compile(b) => pc[b] = "build" /\ pc'[b] = "Executing Test"
  BY <1>0 DEF Compile, Finish, Escape, Goes
<1>8. ExecuteTests(b) => pc[b] = "Executing Test" /\ pc'[b] = "Post Test"
  BY <1>0 DEF ExecuteTests, Finish, Escape, Goes
<1>9. JUnit(b) => pc[b] = "Post Test" /\ pc'[b] \in {"jacoco", "count"}
  BY <1>0 DEF JUnit, Finish, Escape, Goes
<1>10. Jacoco(b) => pc[b] = "jacoco" /\ pc'[b] = "count"
  BY <1>0 DEF Jacoco, Finish, Escape, Goes
<1>11. CountOne(b) => pc[b] = "count" /\ pc'[b] = "count"
  BY <1>0 DEF CountOne, Finish, Escape, Goes
<1>12. Counted(b) => pc[b] = "count" /\ pc'[b] = "Configuration"
  BY <1>0 DEF Counted, Finish, Escape, Goes
<1>13. Configuration(b) => pc[b] = "Configuration" /\ pc'[b] = "Deploy"
  BY <1>0 DEF Configuration, Finish, Escape, Goes
<1>14. Deploy(b) => pc[b] = "Deploy" /\ pc'[b] = "Uploading Artifact"
  BY <1>0 DEF Deploy, Finish, Escape, Goes
<1>15. DeployFails(b) => pc[b] = "Deploy" /\ pc'[b] \in {"Deploy", "catch"}
  BY <1>0 DEF DeployFails, Finish, Escape, Goes
<1>16. UploadManifest(b) => pc[b] = "Uploading Artifact" /\ pc'[b] = "jar"
  BY <1>0 DEF UploadManifest, Finish, Escape, Goes
<1>17. UploadJar(b) => pc[b] = "jar" /\ pc'[b] = "uploaded"
  BY <1>0 DEF UploadJar, Finish, Escape, Goes
<1>18. Uploaded(b) => pc[b] = "uploaded" /\ pc'[b] = "Publishing Results"
  BY <1>0 DEF Uploaded, Finish, Escape, Goes
<1>19. Publish(b) => pc[b] = "Publishing Results" /\ pc'[b] = "Send Slack Notification"
  BY <1>0 DEF Publish, Finish, Escape, Goes
<1>20. Notify(b) => pc[b] = "Send Slack Notification" /\ pc'[b] \in {"report", "catch"}
  BY <1>0 DEF Notify, Finish, Escape, Goes
<1>21. Report(b) => pc[b] = "report" /\ pc'[b] = "finally"
  BY <1>0 DEF Report, Finish, Escape, Goes
<1>22. Throw(b) => pc[b] \in Steps /\ pc'[b] = "catch"
  BY <1>0 DEF Throw, Finish, Escape, Goes, InTry
<1>23. Catch(b) => pc[b] = "catch" /\ pc'[b] = "finally"
  BY <1>0 DEF Catch, Finish, Escape, Goes
<1>24. Finally(b) => pc[b] = "finally" /\ pc'[b] = "ended"
  BY <1>0 DEF Finally, Finish, Escape, Goes
<1> QED
  BY <1>1, <1>2, <1>3, <1>4, <1>5, <1>6, <1>7, <1>8, <1>9, <1>10, <1>11, <1>12, <1>13, <1>14, <1>15, <1>16, <1>17, <1>18, <1>19, <1>20, <1>21, <1>22, <1>23, <1>24

\* The four ways a build is led on: an exception, the script, the catch and the finally block.
LEMMA Thrown ==
  ASSUME TypeOK, NEW b \in Builds, pc'[b] = "catch", Step(b)
  PROVE  /\ Checkout(b) \/ DeployFails(b) \/ Notify(b) \/ Throw(b)
         /\ pc[b] \in Steps /\ thrown'[b]
         /\ UNCHANGED <<catchError, result, tests, coverageStatus, notices>>
<1>0. pc \in [Builds -> Places] /\ thrown \in [Builds -> BOOLEAN]
  BY DEF TypeOK, Places
<1>1. Checkout(b) \/ DeployFails(b) \/ Notify(b) \/ Throw(b)
  BY Moves DEF Step
<1>2. pc[b] \in Steps
  BY <1>1, Moves DEF Steps, Stages
<1>3. ASSUME NEW st, Escape(b, st)
      PROVE  thrown'[b] /\ UNCHANGED <<catchError, result, tests, coverageStatus, notices>>
  BY <1>0, <1>3 DEF Escape, verdict, messages
<1>4. CASE Checkout(b)
  BY <1>0, <1>1, <1>2, <1>3, <1>4 DEF Checkout, Finish, Goes
<1>5. CASE DeployFails(b)
  BY <1>0, <1>1, <1>2, <1>3, <1>5 DEF DeployFails
<1>6. CASE Throw(b)
  <2>1. PICK set \in SetSoFar(b) : Escape(b, [s \in Statuses |-> IF s \in set THEN "success" ELSE status[b][s]])
    BY <1>6 DEF Throw
  <2> QED
    BY <1>1, <1>2, <1>3, <2>1
<1>7. CASE Notify(b)
  <2>1. thrown'[b] /\ notices' = notices
    BY <1>0, <1>7 DEF Notify, Goes, SendFails
  <2> QED
    BY <1>1, <1>2, <1>7, <2>1, Zenon DEF Notify, verdict
<1> QED
  BY <1>1, <1>4, <1>5, <1>6, <1>7

LEMMA Led ==
  ASSUME TypeOK, NEW b \in Builds, pc'[b] # "catch", ~ Catch(b), Step(b)
  PROVE  /\ UNCHANGED <<thrown, catchError>>
         /\ \/ pc[b] \in {"queued", "script"} \cup Steps /\ pc'[b] \in (Outside \cup Steps \cup {"finally"}) \ {"queued"}
            \/ Finally(b) /\ pc[b] = "finally" /\ pc'[b] = "ended"
<1>0. pc \in [Builds -> Places]
  BY DEF TypeOK, Places
<1>1. CASE StartBuild(b) \/ EnterNode(b) \/ StopOutside(b) \/ Announce(b) \/ Checkout(b)
           \/ Preparations(b) \/ Compile(b) \/ ExecuteTests(b) \/ JUnit(b) \/ Jacoco(b)
           \/ CountOne(b) \/ Counted(b) \/ Configuration(b) \/ Deploy(b) \/ DeployFails(b)
           \/ UploadManifest(b) \/ UploadJar(b) \/ Uploaded(b) \/ Publish(b) \/ Notify(b) \/ Report(b)
  <2>1. UNCHANGED <<thrown, catchError>>
    BY <1>0, <1>1 DEF StartBuild, EnterNode, StopOutside, Announce, Checkout, Preparations, Compile, ExecuteTests,
       JUnit, Jacoco, CountOne, Counted, Configuration, Deploy, DeployFails, UploadManifest, UploadJar,
       Uploaded, Publish, Notify, Report, Finish, Escape, Goes, outcome
  <2>2. pc[b] \in {"queued", "script"} \cup Steps
    BY <1>1, Moves DEF Steps, Stages
  <2>3. pc'[b] \in (Outside \cup Steps \cup {"finally"}) \ {"queued"}
    BY <1>1, Moves DEF Outside, Steps, Stages
  <2> QED
    BY <2>1, <2>2, <2>3
<1>2. CASE Finally(b)
  BY <1>2, Moves DEF Finally, outcome
<1>3. ~ Throw(b)
  BY Moves
<1> QED
  BY <1>1, <1>2, <1>3 DEF Step

LEMMA ThrownKept ==
  ASSUME TypeOK, NEW b \in Builds, ThrownOK(b), Step(b)
  PROVE  ThrownOK(b)'
<1>1. CASE pc'[b] = "catch"
  <2>1. pc[b] \in Steps /\ thrown'[b] /\ catchError' = catchError
    BY <1>1, Thrown
  <2>2. ~ catchError[b]
    BY <2>1 DEF ThrownOK, Steps, Stages
  <2> QED
    BY <1>1, <2>1, <2>2 DEF ThrownOK, Outside, Steps, Stages
<1>2. CASE Catch(b)
  <2>1. pc[b] = "catch" /\ pc'[b] = "finally" /\ thrown' = thrown
    BY <1>2, Moves DEF Catch
  <2> QED
    BY <2>1 DEF ThrownOK, Outside, Steps, Stages
<1>3. CASE pc'[b] # "catch" /\ ~ Catch(b)
  <2>1. /\ UNCHANGED <<thrown, catchError>>
        /\ \/ pc[b] \in {"queued", "script"} \cup Steps /\ pc'[b] \in (Outside \cup Steps \cup {"finally"}) \ {"queued"}
           \/ pc[b] = "finally" /\ pc'[b] = "ended"
    BY <1>3, Led
  <2>2. CASE pc[b] \in {"queued", "script"} \cup Steps /\ pc'[b] \in (Outside \cup Steps \cup {"finally"}) \ {"queued"}
    <3>1. ~ thrown[b]
      BY <2>2 DEF ThrownOK, Outside
    <3>2. ~ thrown'[b] /\ ~ catchError'[b]
      BY <2>1, <3>1 DEF ThrownOK
    <3> QED
      BY <1>3, <3>2 DEF ThrownOK
  <2>3. CASE pc[b] = "finally" /\ pc'[b] = "ended"
    BY <2>1, <2>3 DEF ThrownOK, Outside, Steps, Stages
  <2> QED
    BY <2>1, <2>2, <2>3
<1> QED
  BY <1>1, <1>2, <1>3

\* What a build has finished grows by the stage it leaves.
LEMMA OverGrows ==
  /\ Over("preparations") = Over("checkout") \cup {"checkout"}
  /\ Over("build") = Over("preparations") \cup {"preparations"}
  /\ Over("Executing Test") = Over("build") \cup {"build"}
  /\ Over("Post Test") = Over("Executing Test") \cup {"Executing Test"}
  /\ Over("jacoco") = Over("Post Test") /\ Over("count") = Over("Post Test")
  /\ Over("Configuration") = Over("count") \cup {"Post Test"}
  /\ Over("Deploy") = Over("Configuration") \cup {"Configuration"}
  /\ Over("Uploading Artifact") = Over("Deploy") \cup {"Deploy"}
  /\ Over("jar") = Over("Uploading Artifact") /\ Over("uploaded") = Over("Uploading Artifact")
  /\ Over("Publishing Results") = Over("uploaded") \cup {"Uploading Artifact"}
  /\ Over("Send Slack Notification") = Over("Publishing Results") \cup {"Publishing Results"}
  /\ Over("report") = Over("Send Slack Notification")
<1>1. /\ Over("preparations") = Over("checkout") \cup {"checkout"}
      /\ Over("build") = Over("preparations") \cup {"preparations"}
      /\ Over("Executing Test") = Over("build") \cup {"build"}
  BY DEF Over
<1>2. /\ Over("Post Test") = Over("Executing Test") \cup {"Executing Test"}
      /\ Over("jacoco") = Over("Post Test") /\ Over("count") = Over("Post Test")
  BY DEF Over, BeforeTests
<1>3. /\ Over("Configuration") = Over("count") \cup {"Post Test"}
      /\ Over("Deploy") = Over("Configuration") \cup {"Configuration"}
  BY DEF Over, BeforeTests, BeforeDeploy
<1>4. /\ Over("Uploading Artifact") = Over("Deploy") \cup {"Deploy"}
      /\ Over("jar") = Over("Uploading Artifact") /\ Over("uploaded") = Over("Uploading Artifact")
      /\ Over("Publishing Results") = Over("uploaded") \cup {"Uploading Artifact"}
  BY DEF Over
<1>5. Over("Send Slack Notification") = Over("Publishing Results") \cup {"Publishing Results"}
  BY DEF Over, BeforeDeploy, BeforeTests, Stages
<1>6. Over("report") = Over("Send Slack Notification")
  BY DEF Over
<1> QED
  BY <1>1, <1>2, <1>3, <1>4, <1>5, <1>6

LEMMA FinishStatus ==
  ASSUME TypeOK, NEW b \in Builds, StatusOK(b), NEW step \in Steps \ {"gitlabBuilds"}, NEW s \in Stages,
         NEW next \in Steps \ {"gitlabBuilds"},
         Finish(b, step, s, next), Over(next) = Over(step) \cup {s}
  PROVE  StatusOK(b)'
<1>1. /\ pc \in [Builds -> Places] /\ status \in [Builds -> [Statuses -> StatusValues]]
      /\ status[b] \in [Statuses -> StatusValues]
  BY DEF TypeOK, Places, StatusValues
<1>2. /\ pc[b] = step /\ pc'[b] = next
      /\ status'[b] = [status[b] EXCEPT ![s] = "success"]
  BY <1>1 DEF Finish, Goes
<1>3. next \notin Outside \cup {"gitlabBuilds"} \cup After /\ "Jenkins" # s
  BY DEF Outside, After, Steps, Stages
<1>4. /\ status'[b]["Jenkins"] = "none"
      /\ \A t \in Stages : status'[b][t] = IF t \in Over(next) THEN "success" ELSE "pending"
  <2>1. status'[b]["Jenkins"] = "none"
    BY <1>1, <1>2, <1>3 DEF StatusOK, Statuses
  <2>2. ASSUME NEW t \in Stages
        PROVE  status'[b][t] = IF t \in Over(next) THEN "success" ELSE "pending"
    <3>1. status[b][t] = IF t \in Over(step) THEN "success" ELSE "pending"
      BY <1>2 DEF StatusOK
    <3>2. status'[b][t] = IF t = s THEN "success" ELSE status[b][t]
      BY <1>1, <1>2 DEF Statuses
    <3> QED
      BY <3>1, <3>2
  <2> QED
    BY <2>1, <2>2
<1> QED
  BY <1>2, <1>3, <1>4 DEF StatusOK

\* An exception in the midst of the stages.
LEMMA EscapeStatus ==
  ASSUME TypeOK, NEW b \in Builds, ThrownOK(b), StatusOK(b), pc[b] \in Steps,
         NEW st \in [Statuses -> StatusValues], Escape(b, st),
         st["Jenkins"] = "success" => \A s \in Stages : st[s] = "success"
  PROVE  StatusOK(b)'
<1>1. pc \in [Builds -> Places] /\ status \in [Builds -> [Statuses -> StatusValues]] /\ thrown \in [Builds -> BOOLEAN]
  BY DEF TypeOK, Places, StatusValues
<1>2. /\ pc'[b] = "catch" /\ thrown'[b] /\ catchError' = catchError
      /\ status'[b] = [s \in Statuses |-> IF st[s] = "pending" THEN "failed" ELSE st[s]]
  BY <1>1 DEF Escape
<1>3. ~ catchError[b]
  BY DEF ThrownOK, Steps, Stages
<1>4. \A s \in Statuses : status'[b][s] # "pending"
  BY <1>2
<1>5. status'[b]["Jenkins"] = "success" => \A s \in Stages : status'[b][s] = "success"
  BY <1>2 DEF Statuses
<1>6. pc'[b] \notin Outside \cup Steps
  BY <1>2 DEF Outside, Steps, Stages
<1> QED
  BY <1>2, <1>3, <1>4, <1>5, <1>6 DEF StatusOK, Steps

\* The steps that set no status.
LEMMA SilentStatus ==
  ASSUME TypeOK, NEW b \in Builds, StatusOK(b), status' = status,
         \/ pc[b] \in Outside /\ pc'[b] \in Outside \cup {"gitlabBuilds"}
         \/ pc[b] \in Steps \ {"gitlabBuilds"} /\ pc'[b] \in Steps \ {"gitlabBuilds"} /\ Over(pc'[b]) = Over(pc[b])
  PROVE  StatusOK(b)'
<1>1. pc'[b] \notin After
  BY DEF Outside, After, Steps, Stages
<1>2. CASE pc[b] \in Outside /\ pc'[b] \in Outside \cup {"gitlabBuilds"}
  <2>1. pc'[b] \notin Steps \ {"gitlabBuilds"}
    BY <1>2 DEF Outside, Steps, Stages
  <2> QED
    BY <1>1, <1>2, <2>1 DEF StatusOK
<1>3. CASE pc[b] \in Steps \ {"gitlabBuilds"} /\ pc'[b] \in Steps \ {"gitlabBuilds"} /\ Over(pc'[b]) = Over(pc[b])
  <2>1. pc'[b] \notin Outside \cup {"gitlabBuilds"}
    BY <1>3 DEF Outside, Steps, Stages
  <2> QED
    BY <1>1, <1>3, <2>1 DEF StatusOK
<1> QED
  BY <1>2, <1>3

\* What a build shows in GitLab at each of its steps.
LEMMA StatusKept ==
  ASSUME TypeOK, NEW b \in Builds, ThrownOK(b), StatusOK(b), Step(b)
  PROVE  StatusOK(b)'
<1>0. /\ pc \in [Builds -> Places] /\ status \in [Builds -> [Statuses -> StatusValues]]
      /\ thrown \in [Builds -> BOOLEAN] /\ catchError \in [Builds -> BOOLEAN]
      /\ status[b] \in [Statuses -> StatusValues]
  BY DEF TypeOK, Places, StatusValues
<1>1. CASE StartBuild(b) \/ EnterNode(b) \/ StopOutside(b)
  <2>1. status' = status /\ pc[b] \in Outside /\ pc'[b] \in Outside \cup {"gitlabBuilds"}
    BY <1>1, Moves DEF StartBuild, EnterNode, StopOutside, Outside
  <2> QED
    BY <2>1, SilentStatus
<1>2. CASE Announce(b)
  <2>1. /\ pc[b] = "gitlabBuilds" /\ pc'[b] = "checkout"
        /\ status'[b] = [s \in Statuses |-> IF s \in Stages THEN "pending" ELSE status[b][s]]
    BY <1>0, <1>2 DEF Announce, Goes
  <2>2. status[b]["Jenkins"] = "none"
    BY <2>1 DEF StatusOK, Statuses
  <2>3. status'[b]["Jenkins"] = "none" /\ \A s \in Stages : status'[b][s] = "pending"
    BY <2>1, <2>2 DEF Statuses, Stages
  <2> QED
    BY <2>1, <2>3 DEF StatusOK, Outside, After, Steps, Stages, Over
<1>3. CASE Checkout(b)
  <2>0. pc[b] = "checkout"
    BY <1>3, Moves
  <2>1. CASE Finish(b, "checkout", "checkout", "preparations")
    BY <2>1, FinishStatus, OverGrows DEF Stages, Steps
  <2>2. CASE Escape(b, [status[b] EXCEPT !["preparations"] = "failed", !["Jenkins"] = "failed"])
    <3> DEFINE st == [status[b] EXCEPT !["preparations"] = "failed", !["Jenkins"] = "failed"]
    <3>1. st \in [Statuses -> StatusValues] /\ st["Jenkins"] = "failed"
      BY <1>0 DEF StatusValues, Statuses
    <3>2. pc[b] \in Steps
      BY <2>0 DEF Steps, Stages
    <3> HIDE DEF st
    <3>3. Escape(b, st)
      BY <2>2 DEF st
    <3> QED
      BY <3>1, <3>2, <3>3, EscapeStatus
  <2> QED
    BY <1>3, <2>1, <2>2 DEF Checkout
<1>4. CASE Preparations(b)
  BY <1>4, FinishStatus, OverGrows DEF Preparations, Stages, Steps
<1>5. CASE Compile(b)
  BY <1>5, FinishStatus, OverGrows DEF Compile, Stages, Steps
<1>6. CASE ExecuteTests(b)
  BY <1>6, FinishStatus, OverGrows DEF ExecuteTests, Stages, Steps
<1>7. CASE JUnit(b) \/ Jacoco(b) \/ CountOne(b) \/ UploadManifest(b) \/ UploadJar(b)
  <2>1. status' = status
    BY <1>7 DEF JUnit, Jacoco, CountOne, UploadManifest, UploadJar
  <2>2. /\ pc[b] \in Steps \ {"gitlabBuilds"} /\ pc'[b] \in Steps \ {"gitlabBuilds"}
    BY <1>7, Moves DEF Steps, Stages
  <2>3. Over(pc'[b]) = Over(pc[b])
    BY <1>7, Moves, OverGrows
  <2> QED
    BY <2>1, <2>2, <2>3, SilentStatus
<1>8. CASE Counted(b)
  BY <1>8, FinishStatus, OverGrows DEF Counted, Stages, Steps
<1>9. CASE Configuration(b)
  BY <1>9, FinishStatus, OverGrows DEF Configuration, Stages, Steps
<1>10. CASE Deploy(b)
  BY <1>10, FinishStatus, OverGrows DEF Deploy, Stages, Steps
<1>11. CASE Uploaded(b)
  BY <1>11, FinishStatus, OverGrows DEF Uploaded, Stages, Steps
<1>12. CASE Publish(b)
  BY <1>12, FinishStatus, OverGrows DEF Publish, Stages, Steps
<1>13. CASE DeployFails(b)
  <2>0. pc[b] = "Deploy" /\ pc[b] \in Steps \ {"gitlabBuilds"}
    BY <1>13, Moves DEF Steps, Stages
  <2>1. CASE UNCHANGED <<pc, status>>
    BY <2>0, <2>1, SilentStatus
  <2>2. CASE Escape(b, status[b])
    <3>1. status[b]["Jenkins"] = "none"
      BY <2>0 DEF StatusOK
    <3> QED
      BY <1>0, <2>0, <2>2, <3>1, EscapeStatus
  <2> QED
    BY <1>13, <2>1, <2>2 DEF DeployFails
<1>14. CASE Throw(b)
  <2>1. PICK set \in SetSoFar(b) : Escape(b, [s \in Statuses |-> IF s \in set THEN "success" ELSE status[b][s]])
    BY <1>14 DEF Throw
  <2> DEFINE st == [s \in Statuses |-> IF s \in set THEN "success" ELSE status[b][s]]
  <2>2. pc[b] \in Steps
    BY <1>14, Moves
  <2>3. st \in [Statuses -> StatusValues]
    BY <1>0 DEF StatusValues
  <2>4. ASSUME st["Jenkins"] = "success"
        PROVE  \A s \in Stages : st[s] = "success"
    <3>1. status[b]["Jenkins"] = "none"
      BY <2>2 DEF StatusOK, Statuses
    <3>2. "Jenkins" \in set
      BY <2>4, <3>1 DEF Statuses
    <3>3. pc[b] = "report" /\ "Send Slack Notification" \in set
      BY <2>1, <3>2 DEF SetSoFar
    <3>4. \A s \in Stages \ {"Send Slack Notification"} : status[b][s] = "success"
      BY <3>3 DEF StatusOK, Steps, Stages, Over
    <3> QED
      BY <3>3, <3>4 DEF Statuses
  <2> HIDE DEF st
  <2>5. Escape(b, st)
    BY <2>1 DEF st
  <2> QED
    BY <2>2, <2>3, <2>4, <2>5, EscapeStatus
<1>15. CASE Notify(b)
  <2>0. pc[b] = "Send Slack Notification" /\ pc[b] \in Steps \ {"gitlabBuilds"}
    BY <1>15, Moves DEF Steps, Stages
  <2>1. CASE pc'[b] = "report" /\ status' = status
    <3>1. pc'[b] \in Steps \ {"gitlabBuilds"} /\ Over(pc'[b]) = Over(pc[b])
      BY <2>0, <2>1, OverGrows DEF Steps
    <3> QED
      BY <2>0, <2>1, <3>1, SilentStatus
  <2>2. CASE pc'[b] = "catch" /\ status' = [status EXCEPT ![b]["Send Slack Notification"] = "failed"]
    <3>1. \A s \in Stages \ {"Send Slack Notification"} : status[b][s] = "success"
      BY <2>0 DEF StatusOK, Steps, Stages, Over
    <3>2. status[b]["Jenkins"] = "none"
      BY <2>0 DEF StatusOK
    <3>3. ASSUME NEW s \in Statuses
          PROVE  status'[b][s] = IF s = "Send Slack Notification" THEN "failed" ELSE status[b][s]
      BY <1>0, <2>2
    <3>4. (\A s \in Statuses : status'[b][s] # "pending") /\ status'[b]["Jenkins"] # "success"
      BY <3>1, <3>2, <3>3 DEF Statuses
    <3>5. thrown'[b] /\ ~ catchError'[b]
      BY <2>0, <2>2, <1>15, Thrown DEF ThrownOK, Step
    <3>6. pc'[b] \notin Outside \cup Steps
      BY <2>2 DEF Outside, Steps, Stages
    <3> QED
      BY <3>4, <3>5, <3>6 DEF StatusOK, Steps
  <2>3. \/ pc'[b] = "report" /\ status' = status
        \/ pc'[b] = "catch" /\ status' = [status EXCEPT ![b]["Send Slack Notification"] = "failed"]
    BY <1>0, <1>15 DEF Notify, Goes
  <2> QED
    BY <2>1, <2>2, <2>3
<1>16. CASE Report(b)
  <2>1. /\ pc[b] = "report" /\ pc'[b] = "finally" /\ thrown' = thrown /\ catchError' = catchError
        /\ status'[b] = [status[b] EXCEPT !["Send Slack Notification"] = "success", !["Jenkins"] = "success"]
    BY <1>0, <1>16 DEF Report, Goes, outcome
  <2>2. \A s \in Stages \ {"Send Slack Notification"} : status[b][s] = "success"
    BY <2>1 DEF StatusOK, Steps, Stages, Over
  <2>3. ASSUME NEW s \in Statuses
        PROVE  status'[b][s] = "success"
    <3>1. status'[b][s] = IF s \in {"Send Slack Notification", "Jenkins"} THEN "success" ELSE status[b][s]
      BY <1>0, <2>1
    <3> QED
      BY <2>2, <3>1 DEF Statuses
  <2>4. ~ catchError'[b]
    BY <2>1 DEF ThrownOK
  <2>5. pc'[b] \notin Outside \cup Steps
    BY <2>1 DEF Outside, Steps, Stages
  <2> QED
    BY <2>3, <2>4, <2>5 DEF StatusOK, Statuses, Steps
<1>17. CASE Catch(b)
  <2>1. /\ pc[b] = "catch" /\ pc'[b] = "finally" /\ thrown' = thrown
        /\ \/ status'[b] = [status[b] EXCEPT !["Jenkins"] = "failed"]
           \/ status' = status /\ catchError' = catchError
    BY <1>0, <1>17 DEF Catch, Goes
  <2>2. thrown[b] /\ ~ catchError[b]
    BY <2>1 DEF ThrownOK
  <2>3. /\ \A s \in Statuses : status[b][s] # "pending"
        /\ status[b]["Jenkins"] = "success" => \A s \in Stages : status[b][s] = "success"
    BY <2>1 DEF StatusOK, After
  <2>4. pc'[b] \notin Outside \cup Steps
    BY <2>1 DEF Outside, Steps, Stages
  <2>5. CASE status'[b] = [status[b] EXCEPT !["Jenkins"] = "failed"]
    <3>1. \A s \in Statuses : status'[b][s] = IF s = "Jenkins" THEN "failed" ELSE status[b][s]
      BY <1>0, <2>5
    <3>2. status'[b]["Jenkins"] = "failed" /\ \A s \in Statuses : status'[b][s] # "pending"
      BY <2>3, <3>1 DEF Statuses
    <3> QED
      BY <2>1, <2>2, <2>4, <3>2 DEF StatusOK, Steps
  <2>6. CASE status' = status /\ catchError' = catchError
    BY <2>1, <2>2, <2>3, <2>4, <2>6 DEF StatusOK, Steps
  <2> QED
    BY <2>1, <2>5, <2>6
<1>18. CASE Finally(b)
  <2>1. pc[b] = "finally" /\ pc'[b] = "ended" /\ thrown' = thrown /\ catchError' = catchError /\ status' = status
    BY <1>0, <1>18 DEF Finally, Goes, outcome
  <2>2. pc'[b] \notin Outside \cup Steps /\ pc[b] \in After
    BY <2>1 DEF Outside, After, Steps, Stages
  <2> QED
    BY <2>1, <2>2 DEF StatusOK, Steps
<1> QED
  BY <1>1, <1>2, <1>3, <1>4, <1>5, <1>6, <1>7, <1>8, <1>9, <1>10, <1>11, <1>12, <1>13, <1>14,
     <1>15, <1>16, <1>17, <1>18 DEF Step

Before == {"queued", "script", "gitlabBuilds"} \cup BeforeTests
Later  == (Steps \ {"gitlabBuilds", "jacoco"}) \ BeforeTests

\* The steps of the script that leave alone what decides the result.
LEMMA Plain ==
  ASSUME TypeOK, NEW b \in Builds, pc'[b] # "catch",
         \/ StartBuild(b) \/ EnterNode(b) \/ Announce(b) \/ Checkout(b) \/ Preparations(b) \/ Compile(b)
         \/ ExecuteTests(b) \/ CountOne(b) \/ Counted(b) \/ Configuration(b) \/ Deploy(b) \/ DeployFails(b)
         \/ UploadManifest(b) \/ UploadJar(b) \/ Uploaded(b) \/ Publish(b) \/ Notify(b) \/ Report(b)
  PROVE  /\ UNCHANGED <<thrown, catchError, tests, coverageStatus, result>>
         /\ \/ pc[b] \in Before /\ pc'[b] \in Before
            \/ pc[b] \in Later /\ pc'[b] \in Later \cup {"finally"}
<1>0. pc \in [Builds -> Places] /\ pc[b] \in Places
  BY DEF TypeOK, Places
<1>1. UNCHANGED <<thrown, catchError, tests, coverageStatus, result>>
  BY <1>0 DEF StartBuild, EnterNode, Announce, Checkout, Preparations, Compile, ExecuteTests, CountOne, Counted,
     Configuration, Deploy, DeployFails, UploadManifest, UploadJar, Uploaded, Publish, Notify, Report,
     Finish, Escape, Goes, verdict, outcome
<1>2. CASE StartBuild(b) \/ EnterNode(b) \/ Announce(b) \/ Checkout(b) \/ Preparations(b) \/ Compile(b)
           \/ ExecuteTests(b)
  BY <1>1, <1>2, Moves DEF Before, BeforeTests
<1>3. CASE \/ CountOne(b) \/ Counted(b) \/ Configuration(b) \/ Deploy(b) \/ DeployFails(b)
           \/ UploadManifest(b) \/ UploadJar(b) \/ Uploaded(b) \/ Publish(b) \/ Notify(b) \/ Report(b)
  BY <1>1, <1>3, Moves DEF Later, BeforeTests, Steps, Stages
<1> QED
  BY <1>2, <1>3

\* What the tests and the coverage decide.
LEMMA Decides ==
  ASSUME TypeOK, NEW b \in Builds, ResultOK(b), JUnit(b) \/ Jacoco(b)
  PROVE  ResultOK(b)'
<1>0. /\ pc \in [Builds -> Places] /\ b \in 1..Last
      /\ result \in [1..Last -> Results] /\ tests \in [Builds -> {"none", "passed", "failed"}]
      /\ coverageStatus \in [Builds -> {"", "Success", "SUCCESS"} \cup Bad]
  BY BuildsAreNumbers DEF TypeOK, Places
<1>1. CASE JUnit(b)
  <2>1. pc[b] = "Post Test" /\ result[b] = "null" /\ tests[b] = "none" /\ coverageStatus[b] = ""
    BY <1>1, Moves DEF ResultOK, BeforeTests
  <2>2. \/ pc'[b] = "count" /\ coverageStatus'[b] = "SUCCESS" /\ UNCHANGED <<tests, result>>
        \/ pc'[b] = "jacoco" /\ UNCHANGED coverageStatus
           /\ (UNCHANGED result \/ (tests'[b] = "failed" /\ result'[b] = "UNSTABLE"))
    BY <1>0, <1>1 DEF JUnit, Goes
  <2>3. CASE pc'[b] = "count" /\ coverageStatus'[b] = "SUCCESS" /\ UNCHANGED <<tests, result>>
    BY <2>1, <2>3 DEF ResultOK, Outside, BeforeTests, Steps, Stages, Low, Bad
  <2>4. CASE pc'[b] = "jacoco" /\ UNCHANGED coverageStatus
           /\ (UNCHANGED result \/ (tests'[b] = "failed" /\ result'[b] = "UNSTABLE"))
    BY <2>1, <2>4 DEF ResultOK, BeforeTests
  <2> QED
    BY <2>2, <2>3, <2>4
<1>2. CASE Jacoco(b)
  <2>1. PICK c \in Coverages, good \in {"null", "SUCCESS"} :
          LET r == CASE c = "too low" -> "FAILURE"
                     [] c = "low" \/ (c = "enough" /\ tests[b] = "failed") -> "UNSTABLE"
                     [] OTHER -> good
          IN  /\ result' = [result EXCEPT ![b] = r]
              /\ coverageStatus' = [coverageStatus EXCEPT ![b] = IF r = "null" THEN "Success" ELSE r]
    BY <1>2 DEF Jacoco
  <2> DEFINE r == CASE c = "too low" -> "FAILURE"
                    [] c = "low" \/ (c = "enough" /\ tests[b] = "failed") -> "UNSTABLE"
                    [] OTHER -> good
  <2>2. /\ result'[b] = r /\ coverageStatus'[b] = IF r = "null" THEN "Success" ELSE r
        /\ tests' = tests /\ pc'[b] = "count"
    BY <1>0, <1>2, <2>1 DEF Jacoco, Goes
  <2>3. r \in {"null", "SUCCESS"} \cup Bad /\ (tests[b] = "failed" => r \in Bad)
    BY CiAssumption DEF Bad
  <2> HIDE DEF r
  <2>4. /\ result'[b] # "ABORTED"
        /\ IF result'[b] \in Bad THEN coverageStatus'[b] = result'[b]
                                 ELSE tests'[b] # "failed" /\ coverageStatus'[b] \notin Bad
    BY <2>2, <2>3 DEF Bad
  <2> QED
    BY <2>2, <2>4 DEF ResultOK, Outside, BeforeTests, Low
<1> QED
  BY <1>1, <1>2

\* The result of a build says what its script knows of it.
LEMMA ResultKept ==
  ASSUME TypeOK, NEW b \in Builds, ThrownOK(b), ResultOK(b), Step(b)
  PROVE  ResultOK(b)'
<1>0. /\ pc \in [Builds -> Places] /\ b \in 1..Last /\ result \in [1..Last -> Results]
  BY BuildsAreNumbers DEF TypeOK, Places
<1>1. CASE pc'[b] = "catch"
  BY <1>1 DEF ResultOK, Outside, Steps, Stages, BeforeTests
<1>2. CASE pc'[b] # "catch" /\
           \/ StartBuild(b) \/ EnterNode(b) \/ Announce(b) \/ Checkout(b) \/ Preparations(b) \/ Compile(b)
           \/ ExecuteTests(b) \/ CountOne(b) \/ Counted(b) \/ Configuration(b) \/ Deploy(b) \/ DeployFails(b)
           \/ UploadManifest(b) \/ UploadJar(b) \/ Uploaded(b) \/ Publish(b) \/ Notify(b) \/ Report(b)
  <2>1. /\ UNCHANGED <<thrown, catchError, tests, coverageStatus, result>>
        /\ \/ pc[b] \in Before /\ pc'[b] \in Before
           \/ pc[b] \in Later /\ pc'[b] \in Later \cup {"finally"}
    BY <1>2, Plain
  <2>2. CASE pc[b] \in Before /\ pc'[b] \in Before
    <3>1. result[b] = "null" /\ tests[b] = "none" /\ coverageStatus[b] = ""
      BY <2>2 DEF ResultOK, Before, Outside
    <3>2. pc'[b] \notin {"jacoco", "finally"} \cup Later
      BY <2>2 DEF Before, Later, BeforeTests, Steps, Stages
    <3> QED
      BY <2>1, <3>1, <3>2 DEF ResultOK, Later
  <2>3. CASE pc[b] \in Later /\ pc'[b] \in Later \cup {"finally"}
    <3>1. ~ thrown[b]
      BY <2>3 DEF ThrownOK, Later
    <3>2. /\ result[b] # "ABORTED"
          /\ IF result[b] \in Bad THEN coverageStatus[b] = result[b] ELSE tests[b] # "failed" /\ ~ Low(b)
      BY <2>3 DEF ResultOK, Later
    <3>3. pc'[b] \notin {"jacoco", "gitlabBuilds"} \cup Outside \cup BeforeTests
      BY <2>3 DEF Outside, Later, BeforeTests, Steps, Stages
    <3> QED
      BY <2>1, <3>1, <3>2, <3>3 DEF ResultOK, Low, Outside
  <2> QED
    BY <2>1, <2>2, <2>3
<1>3. CASE StopOutside(b)
  <2>1. pc[b] = "script" /\ pc'[b] = "stopped" /\ coverageStatus' = coverageStatus
    BY <1>3, Moves DEF StopOutside, verdict
  <2> QED
    BY <2>1 DEF ResultOK, Outside, BeforeTests, Steps, Stages
<1>4. CASE JUnit(b) \/ Jacoco(b)
  BY <1>4, Decides
<1>5. CASE Catch(b)
  <2>1. pc[b] = "catch" /\ pc'[b] = "finally" /\ result'[b] = "FAILURE" /\ thrown' = thrown
    BY <1>0, <1>5, Moves DEF Catch
  <2> QED
    BY <2>1 DEF ThrownOK, ResultOK, Outside, BeforeTests, Steps, Stages
<1>6. CASE Finally(b)
  <2>1. pc'[b] = "ended"
    BY <1>6, Moves
  <2> QED
    BY <2>1 DEF ResultOK, Outside, BeforeTests, Steps, Stages
<1>7. CASE Throw(b)
  BY <1>1, <1>7, Moves
<1> QED
  BY <1>1, <1>2, <1>3, <1>4, <1>5, <1>6, <1>7 DEF Step

\* Who has spoken for a build.
LEMMA NoticesKept ==
  ASSUME TypeOK, NEW b \in Builds, ThrownOK(b), ResultOK(b), NoticesOK(b), Step(b)
  PROVE  NoticesOK(b)'
<1>0. /\ pc \in [Builds -> Places] /\ b \in 1..Last /\ pc[b] \in Places
      /\ thrown \in [Builds -> BOOLEAN] /\ catchError \in [Builds -> BOOLEAN]
      /\ result \in [1..Last -> Results] /\ result[b] \in Results
      /\ notices \in [Builds -> SUBSET NoticeValues] /\ slackFailed \in [Builds -> BOOLEAN]
  BY BuildsAreNumbers DEF TypeOK, Places, NoticeValues
<1>1. CASE pc'[b] = "catch"
  <2>1. pc[b] \in Steps /\ notices' = notices /\ pc[b] # "ended"
    BY <1>1, Thrown DEF Steps, Stages
  <2> QED
    BY <1>1, <2>1 DEF NoticesOK, Outside, Steps, Stages
<1>2. CASE Notify(b) /\ pc'[b] # "catch"
  <2>1. /\ pc[b] = "Send Slack Notification" /\ pc'[b] = "report" /\ notices[b] = {}
        /\ UNCHANGED <<tests, coverageStatus>>
    BY <1>0, <1>2, Moves, Plain DEF NoticesOK, Steps, Stages
  <2>2. IF tests[b] = "failed" \/ Low(b) THEN notices'[b] = {Notice(b)} ELSE notices'[b] = {}
    BY <1>0, <1>2, <2>1 DEF Notify, Goes, Send, messages
  <2>3. Notice(b) # "failed"
    BY DEF Notice
  <2>4. (tests[b] = "failed" \/ Low(b)) <=> (tests'[b] = "failed" \/ Low(b)')
    BY <2>1 DEF Low
  <2>5. (notices'[b] # {} <=> (tests'[b] = "failed" \/ Low(b)')) /\ "failed" \notin notices'[b]
    BY <2>2, <2>3, <2>4
  <2> QED
    BY <2>1, <2>5 DEF NoticesOK, Outside
<1>3. CASE pc'[b] # "catch" /\
           \/ StartBuild(b) \/ EnterNode(b) \/ StopOutside(b) \/ Announce(b) \/ Checkout(b) \/ Preparations(b)
           \/ Compile(b) \/ ExecuteTests(b) \/ JUnit(b) \/ Jacoco(b) \/ CountOne(b) \/ Counted(b)
           \/ Configuration(b) \/ Deploy(b) \/ DeployFails(b) \/ UploadManifest(b) \/ UploadJar(b)
           \/ Uploaded(b) \/ Publish(b)
  <2>1. notices' = notices
    BY <1>3, Moves DEF StartBuild, EnterNode, StopOutside, Announce, Checkout, Preparations, Compile,
       ExecuteTests, JUnit, Jacoco, CountOne, Counted, Configuration, Deploy, DeployFails, UploadManifest,
       UploadJar, Uploaded, Publish, Finish, Escape, messages
  <2>2. pc[b] \in Outside \cup (Steps \ {"report"}) /\ pc'[b] \in Outside \cup (Steps \ {"report"})
    BY <1>3, Moves DEF Outside, Steps, Stages
  <2>3. pc'[b] \notin {"report", "finally", "ended"}
    BY <2>2 DEF Outside, Steps, Stages
  <2> QED
    BY <2>1, <2>2, <2>3 DEF NoticesOK
<1>4. CASE Report(b)
  <2>1. /\ pc[b] = "report" /\ pc'[b] = "finally" /\ ~ catchError[b] /\ ~ thrown[b]
        /\ UNCHANGED <<thrown, catchError, tests, coverageStatus, notices>>
    BY <1>0, <1>4, Moves DEF Report, verdict, messages, outcome, ThrownOK, Steps
  <2> QED
    BY <2>1 DEF NoticesOK, Low, Outside, Steps, Stages
<1>5. CASE Catch(b)
  <2>1. /\ pc[b] = "catch" /\ pc'[b] = "finally" /\ thrown' = thrown /\ thrown[b] /\ ~ catchError[b]
        /\ \/ notices'[b] = notices[b] \cup {"caught"}
           \/ notices' = notices /\ slackFailed'[b]
           \/ notices' = notices /\ catchError' = catchError
    BY <1>0, <1>5, Moves DEF Catch, TellCaught, Send, SendFails, ThrownOK, messages
  <2>2. "failed" \notin notices'[b] /\ (catchError'[b] => notices'[b] # {} \/ slackFailed'[b])
    BY <2>1 DEF NoticesOK
  <2> QED
    BY <2>1, <2>2 DEF NoticesOK, Outside, Steps, Stages
<1>6. CASE Finally(b)
  <2>1. /\ pc[b] = "finally" /\ pc'[b] = "ended" /\ "failed" \notin notices[b]
        /\ UNCHANGED <<thrown, catchError, coverageStatus>>
    BY <1>0, <1>6, Moves DEF Finally, NoticesOK, outcome, verdict
  <2>2. pc'[b] \notin Outside \cup Steps
    BY <2>1 DEF Outside, Steps, Stages
  <2>3. CASE TellFailed(b) /\ Send(b, "failed")
    <3>1. notices'[b] = notices[b] \cup {"failed"}
      BY <1>0, <2>3 DEF Send
    <3>2. ~ thrown[b] => notices[b] = {}
      BY <2>1, <2>3 DEF TellFailed, ResultOK, NoticesOK, Bad
    <3>3. ~ catchError[b]
      BY <2>3 DEF TellFailed
    <3>4. notices'[b] = {"failed"} \/ StatusThrew(b)'
      BY <2>1, <3>1, <3>2, <3>3 DEF StatusThrew
    <3> QED
      BY <2>1, <2>2, <3>1, <3>4 DEF NoticesOK
  <2>4. CASE TellFailed(b) /\ SendFails(b)
    <3>1. notices' = notices /\ slackFailed'[b]
      BY <1>0, <2>4 DEF SendFails
    <3> QED
      BY <2>1, <2>2, <3>1 DEF NoticesOK
  <2>5. CASE /\ ~ TellFailed(b) /\ UNCHANGED messages
             /\ \E r \in FinalResults(thrown[b], result[b]) : result' = [result EXCEPT ![b] = r]
    <3>0. notices' = notices /\ slackFailed' = slackFailed
      BY <2>5 DEF messages
    <3>1. CASE catchError[b]
      <4>1. notices[b] # {} \/ slackFailed[b]
        BY <2>1, <3>1 DEF NoticesOK
      <4> QED
        BY <2>1, <2>2, <3>0, <4>1 DEF NoticesOK
    <3>2. CASE thrown[b] /\ ~ catchError[b]
      <4>1. result[b] = "FAILURE"
        BY <2>1, <3>2 DEF ResultOK
      <4>2. coverageStatus[b] = "FAILURE"
        BY <2>5, <3>2, <4>1 DEF TellFailed
      <4>3. StatusThrew(b)' /\ coverageStatus'[b] = "FAILURE"
        BY <2>1, <3>2, <4>2 DEF StatusThrew
      <4> QED
        BY <2>1, <2>2, <3>0, <4>3 DEF NoticesOK
    <3>3. CASE ~ thrown[b] /\ ~ catchError[b]
      <4>1. CASE result[b] \in Bad
        <5>1. notices[b] # {}
          BY <2>1, <3>3, <4>1 DEF NoticesOK, ResultOK, Low
        <5> QED
          BY <2>1, <2>2, <3>0, <5>1 DEF NoticesOK
      <4>2. CASE result[b] \notin Bad
        <5>1. result[b] # "null" /\ result[b] # "ABORTED"
          BY <2>1, <2>5, <3>3, <4>2 DEF TellFailed, ResultOK, Low, Bad
        <5>2. result[b] = "SUCCESS"
          BY <1>0, <4>2, <5>1 DEF Results, Bad
        <5>3. result'[b] = "SUCCESS"
          BY <1>0, <2>5, <3>3, <5>2 DEF FinalResults
        <5> QED
          BY <2>1, <2>2, <3>0, <5>3 DEF NoticesOK
      <4> QED
        BY <4>1, <4>2
    <3> QED
      BY <1>0, <3>1, <3>2, <3>3
  <2>6. \/ TellFailed(b) /\ Send(b, "failed")
        \/ TellFailed(b) /\ SendFails(b)
        \/ /\ ~ TellFailed(b) /\ UNCHANGED messages
           /\ \E r \in FinalResults(thrown[b], result[b]) : result' = [result EXCEPT ![b] = r]
    BY <1>6 DEF Finally
  <2> QED
    BY <2>3, <2>4, <2>5, <2>6
<1>7. CASE Throw(b)
  BY <1>1, <1>7, Moves
<1> QED
  BY <1>1, <1>2, <1>3, <1>4, <1>5, <1>6, <1>7 DEF Step

\* A build that takes no step is as it was.
LEMMA OthersKept ==
  ASSUME TypeOK, NEW b \in Builds, Step(b), NEW c \in Builds \ {b}, BuildOK(c)
  PROVE  BuildOK(c)'
<1>1. /\ pc'[c] = pc[c] /\ tests'[c] = tests[c] /\ thrown'[c] = thrown[c] /\ catchError'[c] = catchError[c]
      /\ coverageStatus'[c] = coverageStatus[c] /\ status'[c] = status[c]
      /\ notices'[c] = notices[c] /\ slackFailed'[c] = slackFailed[c]
  <2>1. c \in Builds \ {b}
    OBVIOUS
  <2> QED
    BY <2>1, OwnKept, Zenon
<1>2. result'[c] = result[c]
  <2>1. c \in (1..Last) \ {b}
    BY BuildsAreNumbers
  <2> QED
    BY <2>1, OwnKept, Zenon
<1>3. ThrownOK(c)' /\ ResultOK(c)'
  BY <1>1, <1>2 DEF BuildOK, ThrownOK, ResultOK, Low
<1>4. StatusOK(c)'
  BY <1>1 DEF BuildOK, StatusOK
<1>5. NoticesOK(c)'
  BY <1>1, <1>2 DEF BuildOK, NoticesOK, Low, StatusThrew
<1> QED
  BY <1>3, <1>4, <1>5 DEF BuildOK

-----------------------------------------------------------------------------
(* The builds counted as bad *)

\* A bad end is never taken back.
LEMMA DecidedKept ==
  ASSUME TypeOK, NEW b \in Builds, ResultOK(b), Step(b), NEW k \in 1..Last, Decided(k)
  PROVE  Decided(k)'
<1>0. result \in [1..Last -> Results] /\ b \in 1..Last /\ k \in 1..Last
  BY BuildsAreNumbers DEF TypeOK
<1>1. CASE k # b
  <2>1. k \in (1..Last) \ {b}
    BY <1>1
  <2>2. result'[k] = result[k]
    BY <2>1, OwnKept, Zenon
  <2> QED
    BY <2>2 DEF Decided
<1>2. CASE k = b
  <2>1. CASE JUnit(b)
    BY <1>2, <2>1, Moves DEF ResultOK, BeforeTests, Decided
  <2>2. CASE Jacoco(b)
    <3>1. tests[b] = "failed"
      BY <1>2, <2>2, Moves DEF ResultOK, Decided
    <3>2. PICK c \in Coverages, good \in {"null", "SUCCESS"} :
            result' = [result EXCEPT ![b] =
                         CASE c = "too low" -> "FAILURE"
                           [] c = "low" \/ (c = "enough" /\ tests[b] = "failed") -> "UNSTABLE"
                           [] OTHER -> good]
      BY <2>2 DEF Jacoco
    <3>3. c \in {"enough", "low", "too low"}
      BY CiAssumption
    <3>4. result'[b] \in {"FAILURE", "UNSTABLE"}
      BY <1>0, <3>1, <3>2, <3>3
    <3> QED
      BY <1>2, <3>4 DEF Decided
  <2>3. CASE StopOutside(b) \/ Catch(b)
    BY <1>0, <1>2, <2>3 DEF StopOutside, Catch, Failed, Decided
  <2>4. CASE Finally(b)
    <3>1. \A e : FinalResults(e, result[b]) \subseteq Failed \cup {result[b]}
      BY <1>2 DEF FinalResults, Failed, Decided
    <3>2. result'[b] \in Failed \cup {result[b]}
      BY <1>0, <2>4, <3>1 DEF Finally
    <3> QED
      BY <1>2, <3>2 DEF Failed, Decided
  <2>5. CASE StartBuild(b) \/ EnterNode(b) \/ Announce(b) \/ Checkout(b)
             \/ Preparations(b) \/ Compile(b) \/ ExecuteTests(b)
             \/ CountOne(b) \/ Counted(b) \/ Configuration(b) \/ Deploy(b) \/ DeployFails(b)
             \/ UploadManifest(b) \/ UploadJar(b) \/ Uploaded(b) \/ Publish(b) \/ Notify(b) \/ Report(b)
             \/ Throw(b)
    <3>1. result' = result
      BY <2>5 DEF StartBuild, EnterNode, Announce, Checkout, Preparations, Compile,
         ExecuteTests, CountOne, Counted, Configuration, Deploy, DeployFails, UploadManifest, UploadJar,
         Uploaded, Publish, Notify, Report, Throw, Escape
    <3> QED
      BY <3>1 DEF Decided
  <2> QED
    BY <2>1, <2>2, <2>3, <2>4, <2>5 DEF Step
<1> QED
  BY <1>1, <1>2

LEMMA CountKept ==
  ASSUME TypeOK, NEW b \in Builds, ResultOK(b), Step(b), NEW c \in Builds, CountOK(c)
  PROVE  CountOK(c)'
<1>0. /\ Last \in Nat /\ b \in 1..Last /\ c \in 1..Last
      /\ unstableBuilds \in [Builds -> 0..Last] /\ unstableBuilds[c] \in 0..Last
  BY BuildsAreNumbers DEF TypeOK
<1>1. ASSUME pc[c] = "count", pc'[c] = "count", unstableBuilds'[c] = unstableBuilds[c]
      PROVE  CountOK(c)'
  <2>1. \A k \in (c - unstableBuilds[c])..(c - 1) : k \in 1..Last /\ Decided(k)
    BY <1>1 DEF CountOK
  <2>2. \A k \in (c - unstableBuilds[c])..(c - 1) : k \in 1..Last /\ Decided(k)'
    BY <2>1, DecidedKept
  <2> QED
    BY <1>1, <2>2 DEF CountOK, BeforeCount, BeforeTests
<1>2. CASE c # b
  <2>0. c \in Builds \ {b}
    BY <1>2
  <2>1. pc'[c] = pc[c] /\ unstableBuilds'[c] = unstableBuilds[c]
    BY <2>0, OwnKept, CountChange, Zenon
  <2>2. CASE pc[c] = "count"
    BY <1>1, <2>1, <2>2
  <2>3. CASE pc[c] # "count"
    BY <2>1, <2>3 DEF CountOK
  <2> QED
    BY <2>2, <2>3
<1>3. CASE c = b
  <2>1. CASE CountOne(b)
    <3> DEFINE n == unstableBuilds[b]
    <3>1. /\ pc[b] = "count" /\ pc'[b] = "count" /\ unstableBuilds'[b] = n + 1 /\ n \in 0..Last
          /\ b - 1 - n > 0 /\ result[b - 1 - n] \in Bad /\ result' = result
      BY <1>0, <1>3, <2>1, Moves, CountChange DEF CountOne, CountsAsBad, NextRead
    <3>2. \A k \in (b - n)..(b - 1) : k \in 1..Last /\ Decided(k)
      BY <1>3, <3>1 DEF CountOK
    <3>3. b - 1 - n \in 1..Last /\ Decided(b - 1 - n)
      BY <1>0, <3>1 DEF Decided, Bad
    <3>4. \A k \in (b - (n + 1))..(b - 1) : k = b - 1 - n \/ k \in (b - n)..(b - 1)
      BY <1>0, <3>1
    <3>5. \A k \in (b - (n + 1))..(b - 1) : k \in 1..Last /\ Decided(k)
      BY <3>2, <3>3, <3>4
    <3>6. \A k \in (b - (n + 1))..(b - 1) : k \in 1..Last /\ Decided(k)'
      BY <3>1, <3>5 DEF Decided
    <3> HIDE DEF n
    <3> QED
      BY <1>3, <3>1, <3>6 DEF CountOK, BeforeCount, BeforeTests
  <2>2. CASE ~ CountOne(b) /\ pc'[b] = "count" /\ pc[b] # "count"
    <3>1. unstableBuilds'[b] = unstableBuilds[b] /\ pc[b] \in BeforeCount
      BY <2>2, CountChange, Moves DEF Step, BeforeCount, BeforeTests
    <3>2. unstableBuilds'[b] = 0
      BY <1>3, <3>1 DEF CountOK
    <3>3. \A k \in (b - 0)..(b - 1) : FALSE
      BY <1>0
    <3> QED
      BY <1>3, <2>2, <3>2, <3>3 DEF CountOK, BeforeCount, BeforeTests
  <2>3. CASE ~ CountOne(b) /\ pc'[b] = "count" /\ pc[b] = "count"
    BY <1>1, <1>3, <2>3, CountChange
  <2>4. CASE ~ CountOne(b) /\ pc'[b] # "count"
    <3>1. pc'[b] \in BeforeCount => pc[b] \in BeforeCount
      BY <2>4, Moves DEF Step, BeforeCount, BeforeTests
    <3> QED
      BY <1>3, <2>4, <3>1, CountChange DEF CountOK
  <2> QED
    BY <2>1, <2>2, <2>3, <2>4
<1> QED
  BY <1>2, <1>3

-----------------------------------------------------------------------------
(* The repository *)

\* 'Uploading Artifact' becomes a success only when both uploads are over.
LEMMA SharedGrows ==
  ASSUME TypeOK, NEW b \in Builds, Step(b), NEW c \in Builds, Shared(c)'
  PROVE  Shared(c) \/ (c = b /\ Uploaded(b))
<1> DEFINE u == "Uploading Artifact"
<1>0. /\ status \in [Builds -> [Statuses -> StatusValues]] /\ status[b] \in [Statuses -> StatusValues]
      /\ u \in Statuses
  BY DEF TypeOK, StatusValues, Statuses, Stages
<1>1. CASE c # b
  BY <1>1, OwnKept DEF Shared
<1>2. ASSUME ~ Uploaded(b), c = b
      PROVE  Shared(b)
  <2>1. ASSUME NEW st \in [Statuses -> StatusValues], Escape(b, st), st[u] = "success" => Shared(b)
        PROVE  Shared(b)
    <3>1. status'[b] = [s \in Statuses |-> IF st[s] = "pending" THEN "failed" ELSE st[s]]
      BY <1>0, <2>1 DEF Escape
    <3>2. status'[b][u] = IF st[u] = "pending" THEN "failed" ELSE st[u]
      BY <1>0, <3>1
    <3> QED
      BY <1>2, <2>1, <3>2 DEF Shared
  <2>2. ASSUME NEW s \in Statuses \ {u}, NEW v, status' = [status EXCEPT ![b][s] = v]
        PROVE  Shared(b)
    BY <1>0, <1>2, <2>2 DEF Shared
  <2>3. CASE Announce(b)
    <3>1. status'[b] = [s \in Statuses |-> IF s \in Stages THEN "pending" ELSE status[b][s]]
      BY <1>0, <2>3 DEF Announce
    <3>2. status'[b][u] = "pending"
      BY <1>0, <3>1 DEF Stages
    <3> QED
      BY <1>2, <3>2 DEF Shared
  <2>4. CASE Checkout(b)
    <3>1. ASSUME Escape(b, [status[b] EXCEPT !["preparations"] = "failed", !["Jenkins"] = "failed"])
          PROVE  Shared(b)
      <4> DEFINE st == [status[b] EXCEPT !["preparations"] = "failed", !["Jenkins"] = "failed"]
      <4>1. st \in [Statuses -> StatusValues] /\ st[u] = status[b][u]
        BY <1>0 DEF StatusValues, Statuses, Stages
      <4> HIDE DEF st
      <4>2. Escape(b, st)
        BY <3>1 DEF st
      <4> QED
        BY <2>1, <4>1, <4>2 DEF Shared
    <3>2. ASSUME Finish(b, "checkout", "checkout", "preparations")
          PROVE  Shared(b)
      <4>1. "checkout" \in Statuses \ {u}
        BY DEF Statuses, Stages
      <4> QED
        BY <2>2, <3>2, <4>1 DEF Finish
    <3> QED
      BY <2>4, <3>1, <3>2 DEF Checkout
  <2>5. CASE Preparations(b) \/ Compile(b) \/ ExecuteTests(b) \/ Counted(b) \/ Configuration(b)
             \/ Deploy(b) \/ Publish(b)
    <3>1. PICK s \in {"preparations", "build", "Executing Test", "Post Test", "Configuration", "Deploy",
                      "Publishing Results"} : status' = [status EXCEPT ![b][s] = "success"]
      BY <2>5 DEF Preparations, Compile, ExecuteTests, Counted, Configuration, Deploy, Publish, Finish
    <3>2. s \in Statuses \ {u}
      BY DEF Statuses, Stages
    <3> QED
      BY <2>2, <3>1, <3>2
  <2>6. CASE DeployFails(b)
    <3>1. status' = status \/ Escape(b, status[b])
      BY <2>6 DEF DeployFails
    <3> QED
      BY <1>0, <1>2, <2>1, <3>1 DEF Shared
  <2>7. CASE Throw(b)
    <3>1. PICK set \in SetSoFar(b) : Escape(b, [s \in Statuses |-> IF s \in set THEN "success" ELSE status[b][s]])
      BY <2>7 DEF Throw
    <3> DEFINE st == [s \in Statuses |-> IF s \in set THEN "success" ELSE status[b][s]]
    <3>2. u \notin set
      <4>1. set = {} \/ set = {"Send Slack Notification"} \/ set = {"Send Slack Notification", "Jenkins"}
        BY DEF SetSoFar
      <4>2. u # "Send Slack Notification" /\ u # "Jenkins"
        OBVIOUS
      <4> HIDE DEF u
      <4> QED
        BY <4>1, <4>2
    <3>3. st \in [Statuses -> StatusValues] /\ st[u] = status[b][u]
      BY <1>0, <3>2 DEF StatusValues
    <3> HIDE DEF st
    <3>4. Escape(b, st)
      BY <3>1 DEF st
    <3> QED
      BY <2>1, <3>3, <3>4 DEF Shared
  <2>8. CASE Notify(b) \/ Catch(b)
    <3>1. \/ status' = status
          \/ status' = [status EXCEPT ![b]["Send Slack Notification"] = "failed"]
          \/ status' = [status EXCEPT ![b]["Jenkins"] = "failed"]
      BY <2>8 DEF Notify, Catch
    <3>2. {"Send Slack Notification", "Jenkins"} \subseteq Statuses \ {u}
      BY DEF Statuses, Stages
    <3> QED
      BY <1>2, <2>2, <3>1, <3>2 DEF Shared
  <2>9. CASE Report(b)
    <3>1. status'[b] = [status[b] EXCEPT !["Send Slack Notification"] = "success", !["Jenkins"] = "success"]
      BY <1>0, <2>9 DEF Report
    <3> QED
      BY <1>0, <1>2, <3>1 DEF Shared
  <2>10. CASE StartBuild(b) \/ EnterNode(b) \/ StopOutside(b) \/ JUnit(b) \/ Jacoco(b) \/ CountOne(b)
              \/ UploadManifest(b) \/ UploadJar(b) \/ Finally(b)
    <3>1. status' = status
      BY <2>10 DEF StartBuild, EnterNode, StopOutside, JUnit, Jacoco, CountOne, UploadManifest,
         UploadJar, Finally
    <3> QED
      BY <1>2, <3>1 DEF Shared
  <2> QED
    BY <1>2, <2>3, <2>4, <2>5, <2>6, <2>7, <2>8, <2>9, <2>10 DEF Step
<1> QED
  BY <1>1, <1>2

LEMMA ProvenanceKept ==
  ASSUME TypeOK, Provenance, NEW b \in Builds, Step(b)
  PROVE  Provenance'
<1>0. /\ app' = app /\ app \in [Builds -> Apps] /\ app[b] \in Apps /\ b # NoBuild
      /\ manifestOf \in [Apps -> Builds \cup {NoBuild}] /\ jarOf \in [Apps -> Builds \cup {NoBuild}]
      /\ \A c \in Builds \ {b} : pc'[c] = pc[c]
  BY BuildsAreNumbers, OwnKept DEF TypeOK
<1>1. \A c \in Builds : Shared(c)' => Shared(c) \/ (c = b /\ pc[b] = "uploaded")
  BY SharedGrows, Moves
<1>2. CASE UploadManifest(b)
  <2>1. /\ manifestOf' = [manifestOf EXCEPT ![app[b]] = b] /\ jarOf' = jarOf
        /\ pc[b] = "Uploading Artifact" /\ pc'[b] = "jar"
    BY <1>2, ArtifactsChange, Moves
  <2>2. \A a \in Apps : manifestOf'[a] = IF a = app[b] THEN b ELSE manifestOf[a]
    BY <1>0, <2>1
  <2> QED
    BY <1>0, <1>1, <2>1, <2>2 DEF Provenance
<1>3. CASE UploadJar(b)
  <2>1. /\ jarOf' = [jarOf EXCEPT ![app[b]] = b] /\ manifestOf' = manifestOf
        /\ pc[b] = "jar" /\ pc'[b] = "uploaded"
    BY <1>3, ArtifactsChange, Moves
  <2>2. \A a \in Apps : jarOf'[a] = IF a = app[b] THEN b ELSE jarOf[a]
    BY <1>0, <2>1
  <2> QED
    BY <1>0, <1>1, <2>1, <2>2 DEF Provenance
<1>4. CASE ~ UploadManifest(b) /\ ~ UploadJar(b)
  <2>1. UNCHANGED <<manifestOf, jarOf>> /\ pc'[b] \notin {"jar", "uploaded"}
    BY <1>4, ArtifactsChange, Moves DEF Step
  <2> QED
    BY <1>0, <1>1, <2>1 DEF Provenance
<1> QED
  BY <1>2, <1>3, <1>4

\* Between the two uploads, or dead there, a build stays as long as it does not upload its jar.
LEMMA HalfKept ==
  ASSUME TypeOK, NEW b \in Builds, StatusOK(b), Step(b), ~ UploadJar(b),
         NEW m \in Builds, HalfUploaded(m)
  PROVE  HalfUploaded(m)'
<1>1. CASE m # b
  BY <1>1, OwnKept DEF HalfUploaded, Shared, After
<1>2. CASE m = b /\ pc[b] = "jar"
  <2>1. pc'[b] = "catch" /\ ~ Uploaded(b)
    BY <1>2, Moves DEF Step
  <2>2. ~ Shared(b)
    BY <1>2 DEF Shared, StatusOK, Steps, Stages, Over, BeforeDeploy, BeforeTests
  <2> QED
    BY <1>2, <2>1, <2>2, SharedGrows DEF HalfUploaded, After
<1>3. CASE m = b /\ pc[b] \in After /\ ~ Shared(b)
  <2>1. pc'[b] \in After /\ ~ Uploaded(b)
    BY <1>3, Moves DEF Step, After, Steps, Stages
  <2> QED
    BY <1>3, <2>1, SharedGrows DEF HalfUploaded
<1> QED
  BY <1>1, <1>2, <1>3 DEF HalfUploaded

LEMMA CrossingsKept ==
  ASSUME TypeOK, Provenance, Crossings, NEW b \in Builds, StatusOK(b), Step(b)
  PROVE  Crossings'
<1>0. /\ app' = app /\ app \in [Builds -> Apps] /\ app[b] \in Apps /\ b # NoBuild
      /\ manifestOf \in [Apps -> Builds \cup {NoBuild}] /\ jarOf \in [Apps -> Builds \cup {NoBuild}]
      /\ \A c \in Builds \ {b} : pc'[c] = pc[c]
  BY BuildsAreNumbers, OwnKept DEF TypeOK
<1>1. CASE UploadManifest(b)
  <2>1. /\ jarOf' = jarOf /\ pc'[b] = "jar" /\ ~ UploadJar(b)
        /\ \A c \in Builds : crossed'[c] = IF c \in Between(b) THEN crossed[c] \cup {b} ELSE crossed[c]
    BY <1>1, ArtifactsChange, Moves
  <2>2. \A a \in Apps : manifestOf'[a] = IF a = app[b] THEN b ELSE manifestOf[a]
    BY <1>0, <1>1, ArtifactsChange
  <2>3. \A c \in Builds : crossed[c] \subseteq crossed'[c]
    BY <2>1
  <2>4. ASSUME NEW a \in Apps, manifestOf'[a] # NoBuild
        PROVE  \/ manifestOf'[a] = jarOf'[a] \/ HalfUploaded(manifestOf[a])'
               \/ jarOf'[a] \in Builds /\ manifestOf'[a] \in crossed'[jarOf'[a]]
    <3>1. CASE a = app[b]
      BY <2>1, <2>2, <3>1 DEF HalfUploaded
    <3>2. CASE a # app[b]
      <4>1. manifestOf'[a] = manifestOf[a] /\ manifestOf[a] \in Builds
        BY <1>0, <2>2, <2>4, <3>2
      <4>2. PICK m \in Builds : m = manifestOf[a]
        BY <4>1
      <4>8. app[m] = a /\ m \in Builds \ {b}
        BY <2>4, <3>2, <4>1, <4>2 DEF Provenance
      <4>3. pc'[m] = pc[m] /\ status'[m] = status[m]
        BY <4>8, OwnKept
      <4>4. HalfUploaded(m) => HalfUploaded(m)'
        BY <4>3 DEF HalfUploaded, Shared
      <4>5. HalfUploaded(manifestOf[a]) => HalfUploaded(manifestOf[a])'
        BY <4>1, <4>2, <4>4 DEF HalfUploaded, Shared
      <4>6. jarOf[a] \in Builds /\ manifestOf[a] \in crossed[jarOf[a]]
              => jarOf'[a] \in Builds /\ manifestOf'[a] \in crossed'[jarOf'[a]]
        BY <2>1, <2>3, <4>1
      <4>7. \/ manifestOf[a] = jarOf[a] \/ HalfUploaded(manifestOf[a])
            \/ jarOf[a] \in Builds /\ manifestOf[a] \in crossed[jarOf[a]]
        BY <2>4, <4>1 DEF Crossings
      <4> QED
        BY <2>1, <4>1, <4>5, <4>6, <4>7
    <3> QED
      BY <3>1, <3>2
  <2>5. ASSUME NEW c \in Builds, pc'[c] = "jar"
        PROVE  manifestOf'[app'[c]] = c \/ manifestOf'[app'[c]] \in crossed'[c]
    <3>1. CASE c = b
      BY <1>0, <2>2, <3>1
    <3>2. CASE c # b /\ app[c] = app[b]
      <4>1. c \in Between(b)
        BY <1>0, <2>5, <3>2 DEF Between
      <4> QED
        BY <1>0, <2>1, <2>2, <3>2, <4>1
    <3>3. CASE c # b /\ app[c] # app[b]
      BY <1>0, <2>2, <2>3, <2>5, <3>3 DEF Crossings
    <3> QED
      BY <3>1, <3>2, <3>3
  <2> QED
    BY <2>4, <2>5 DEF Crossings
<1>2. CASE ~ UploadManifest(b)
  <2>1. manifestOf' = manifestOf /\ crossed' = crossed
    BY <1>2, ArtifactsChange, Zenon
  <2>2. pc'[b] # "jar"
    BY <1>2, Moves DEF Step
  <2>3. ASSUME NEW a \in Apps, manifestOf[a] # NoBuild
        PROVE  \/ manifestOf[a] = jarOf'[a] \/ HalfUploaded(manifestOf[a])'
               \/ jarOf'[a] \in Builds /\ manifestOf[a] \in crossed[jarOf'[a]]
    <3>1. CASE UploadJar(b) /\ a = app[b]
      <4>1. jarOf'[a] = b /\ pc[b] = "jar"
        BY <1>0, <3>1, ArtifactsChange, Moves
      <4> QED
        BY <3>1, <4>1 DEF Crossings
    <3>2. CASE ~ (UploadJar(b) /\ a = app[b])
      <4>0. jarOf'[a] = jarOf[a]
        <5>1. CASE UploadJar(b)
          BY <1>0, <3>2, <5>1, ArtifactsChange
        <5>2. CASE ~ UploadJar(b)
          BY <1>2, <5>2, ArtifactsChange
        <5> QED
          BY <5>1, <5>2
      <4>1. PICK m \in Builds : m = manifestOf[a]
        BY <1>0, <2>3
      <4>2. HalfUploaded(m) => HalfUploaded(m)'
        <5>1. CASE UploadJar(b)
          <6>1. m \in Builds \ {b}
            BY <2>3, <3>2, <4>1, <5>1 DEF Provenance
          <6>2. pc'[m] = pc[m] /\ status'[m] = status[m]
            BY <6>1, OwnKept
          <6> QED
            BY <6>2 DEF HalfUploaded, Shared
        <5>2. CASE ~ UploadJar(b)
          BY <5>2, HalfKept
        <5> QED
          BY <5>1, <5>2
      <4>3. HalfUploaded(manifestOf[a]) => HalfUploaded(manifestOf[a])'
        BY <2>1, <4>1, <4>2 DEF HalfUploaded, Shared
      <4> QED
        BY <2>3, <4>0, <4>3 DEF Crossings
    <3> QED
      BY <3>1, <3>2
  <2>4. ASSUME NEW c \in Builds, pc'[c] = "jar"
        PROVE  manifestOf[app[c]] = c \/ manifestOf[app[c]] \in crossed[c]
    BY <1>0, <2>2, <2>4 DEF Crossings
  <2> QED
    BY <1>0, <2>1, <2>3, <2>4 DEF Crossings
<1> QED
  BY <1>1, <1>2

-----------------------------------------------------------------------------
(* The invariant *)

LEMMA CiStart ==
  ASSUME Init
  PROVE  CiInv
<1>0. result \in [1..Last -> Results] /\ \A b \in Builds : result[b] = "null"
  <2>0. Old \in Nat /\ Last \in Nat /\ OldResults \subseteq {"SUCCESS", "UNSTABLE", "FAILURE", "ABORTED"}
    BY CiAssumption, Zenon
  <2>1. PICK r \in [1..Old -> OldResults] : result = [b \in 1..Last |-> IF b > Old THEN "null" ELSE r[b]]
    BY DEF Init
  <2>2. ASSUME NEW b \in 1..Last
        PROVE  (IF b > Old THEN "null" ELSE r[b]) \in Results
    <3>1. CASE b > Old
      BY <3>1 DEF Results
    <3>2. CASE b \in 1..Old
      <4>1. r[b] \in OldResults /\ ~ (b > Old)
        BY <2>0, <3>2
      <4> QED
        BY <2>0, <4>1 DEF Results
    <3> QED
      BY <2>0, <3>1, <3>2
  <2>3. ASSUME NEW b \in Builds
        PROVE  b \in 1..Last /\ b > Old
    BY <2>0 DEF Builds
  <2> QED
    BY <2>1, <2>2, <2>3
<1>1. TypeOK
  <2>1. [s \in Statuses |-> "none"] \in [Statuses -> StatusValues]
    BY DEF StatusValues
  <2>2. status \in [Builds -> [Statuses -> StatusValues]]
    BY <2>1 DEF Init
  <2>3. unstableBuilds \in [Builds -> 0..Last] /\ attempt \in [Builds -> 0..1]
    <3>1. Last \in Nat
      BY CiAssumption, Zenon
    <3>2. unstableBuilds = [b \in Builds |-> 0] /\ attempt = [b \in Builds |-> 0]
      BY Zenon DEF Init
    <3> QED
      BY <3>1, <3>2
  <2> QED
    BY <1>0, <2>2, <2>3 DEF Init, TypeOK, StatusValues
<1>2. \A b \in Builds : /\ pc[b] = "queued" /\ ~ thrown[b] /\ ~ catchError[b] /\ tests[b] = "none"
                        /\ coverageStatus[b] = "" /\ notices[b] = {} /\ unstableBuilds[b] = 0
                        /\ status[b] = [s \in Statuses |-> "none"]
  BY DEF Init
<1>3. Provenance /\ Crossings
  <2>1. \A b \in Builds : ~ Shared(b)
    BY <1>2 DEF Shared, Statuses, Stages
  <2>2. \A a \in Apps : manifestOf[a] = NoBuild /\ jarOf[a] = NoBuild
    BY DEF Init
  <2> QED
    BY <1>2, <2>1, <2>2 DEF Provenance, Crossings
<1>4. ASSUME NEW b \in Builds
      PROVE  BuildOK(b) /\ CountOK(b)
  <2>1. ThrownOK(b) /\ CountOK(b)
    BY <1>2 DEF ThrownOK, CountOK
  <2>2. StatusOK(b)
    BY <1>2 DEF StatusOK, After, Steps, Stages
  <2>3. ResultOK(b)
    BY <1>0, <1>2 DEF ResultOK, BeforeTests, Steps, Stages
  <2>4. NoticesOK(b)
    BY <1>2 DEF NoticesOK
  <2> QED
    BY <2>1, <2>2, <2>3, <2>4 DEF BuildOK
<1> QED
  BY <1>1, <1>3, <1>4 DEF CiInv

LEMMA CiKept ==
  ASSUME CiInv, [Next]_vars
  PROVE  CiInv'
<1>1. CASE UNCHANGED vars
  <2>1. TypeOK' /\ Provenance' /\ Crossings'
    BY <1>1 DEF CiInv, vars, outcome, verdict, messages, artifacts, TypeOK, Provenance, Crossings,
       HalfUploaded, Shared
  <2>2. ASSUME NEW b \in Builds
        PROVE  BuildOK(b)' /\ CountOK(b)'
    <3>1. BuildOK(b) /\ CountOK(b)
      BY DEF CiInv
    <3>2. BuildOK(b)'
      <4>1. UNCHANGED <<pc, thrown, catchError, tests, coverageStatus, status, notices, slackFailed, result>>
        BY <1>1 DEF vars, outcome, verdict, messages
      <4>2. ThrownOK(b)' /\ StatusOK(b)'
        BY <3>1, <4>1 DEF BuildOK, ThrownOK, StatusOK
      <4>3. ResultOK(b)'
        BY <3>1, <4>1 DEF BuildOK, ResultOK, Low
      <4>4. NoticesOK(b)'
        BY <3>1, <4>1 DEF BuildOK, NoticesOK, StatusThrew, Low
      <4> QED
        BY <4>2, <4>3, <4>4 DEF BuildOK
    <3>3. CountOK(b)'
      <4>1. pc' = pc /\ unstableBuilds' = unstableBuilds /\ result' = result
        BY <1>1 DEF vars, verdict
      <4> QED
        BY <3>1, <4>1 DEF CountOK, Decided
    <3> QED
      BY <3>2, <3>3
  <2> QED
    BY <2>1, <2>2 DEF CiInv
<1>2. ASSUME NEW b \in Builds, Step(b)
      PROVE  CiInv'
  <2>0. TypeOK /\ Provenance /\ Crossings /\ ThrownOK(b) /\ StatusOK(b) /\ ResultOK(b) /\ NoticesOK(b)
    BY DEF CiInv, BuildOK
  <2>1. TypeOK' /\ Provenance' /\ Crossings'
    BY <1>2, <2>0, TypeOKKept, ProvenanceKept, CrossingsKept
  <2>2. BuildOK(b)'
    BY <1>2, <2>0, ThrownKept, StatusKept, ResultKept, NoticesKept DEF BuildOK
  <2>3. \A c \in Builds \ {b} : BuildOK(c)'
    BY <1>2, OthersKept DEF CiInv
  <2>4. \A c \in Builds : CountOK(c)'
    BY <1>2, <2>0, CountKept DEF CiInv
  <2> QED
    BY <2>1, <2>2, <2>3, <2>4 DEF CiInv
<1> QED
  BY <1>1, <1>2 DEF Next, Done

-----------------------------------------------------------------------------
(* The theorems *)

\* At any moment of any builds, however they overlap and whatever fails: the
\* invariant above.
THEOREM CiInvariant == Spec => []CiInv
<1>1. Init => CiInv
  BY CiStart
<1>2. CiInv /\ [Next]_vars => CiInv'
  BY CiKept
<1> QED
  BY <1>1, <1>2, PTL DEF Spec

\* Every variable keeps its type; retry(2) tries no more than twice.
THEOREM CiTypeCorrect == Spec => []TypeOK
<1>1. CiInv => TypeOK
  BY DEF CiInv
<1> QED
  BY <1>1, CiInvariant, PTL

\* A build that entered the try block and does not end SUCCESS has been announced,
\* unless a curl failed or line 323 threw for a build the coverage had failed.
THEOREM CiNoFailureUnannounced == Spec => []NoFailureUnannounced
<1>1. CiInv => NoFailureUnannounced
  BY DEF CiInv, BuildOK, NoticesOK, NoFailureUnannounced, Ended
<1> QED
  BY <1>1, CiInvariant, PTL

\* The finally block speaks only for builds nobody has spoken for, unless line 323 threw.
THEOREM CiFinallyOnlyIfSilent == Spec => []FinallyOnlyIfSilent
<1>1. CiInv => FinallyOnlyIfSilent
  BY DEF CiInv, BuildOK, NoticesOK, FinallyOnlyIfSilent
<1> QED
  BY <1>1, CiInvariant, PTL

\* What GitLab shows of a build that is over is settled, and where 'Jenkins' is a
\* success the repository has a manifest and a jar of the artifact.
THEOREM CiStatusesSettled == Spec => []StatusesSettled
<1>1. ASSUME CiInv, NEW b \in Builds, Ended(b)
      PROVE  /\ \A s \in Statuses : status[b][s] # "pending"
             /\ ~ thrown[b] => \A s \in Statuses : status[b][s] = "success"
             /\ catchError[b] => status[b]["Jenkins"] = "failed"
             /\ status[b]["Jenkins"] = "success" =>
                  /\ \A s \in Stages : status[b][s] = "success"
                  /\ \A c \in {manifestOf[app[b]], jarOf[app[b]]} : c \in Builds /\ app[c] = app[b]
  <2>1. pc[b] \in After
    BY <1>1 DEF Ended, After
  <2>2. /\ \A s \in Statuses : status[b][s] # "pending"
        /\ ~ thrown[b] => \A s \in Statuses : status[b][s] = "success"
        /\ catchError[b] => status[b]["Jenkins"] = "failed"
        /\ status[b]["Jenkins"] = "success" => \A s \in Stages : status[b][s] = "success"
    BY <1>1, <2>1 DEF CiInv, BuildOK, StatusOK
  <2>3. ASSUME status[b]["Jenkins"] = "success"
        PROVE  \A c \in {manifestOf[app[b]], jarOf[app[b]]} : c \in Builds /\ app[c] = app[b]
    <3>1. Shared(b) /\ app[b] \in Apps
      BY <1>1, <2>2, <2>3 DEF Shared, Stages, CiInv, TypeOK
    <3>2. /\ manifestOf[app[b]] \in Builds \cup {NoBuild} /\ jarOf[app[b]] \in Builds \cup {NoBuild}
          /\ Provenance
      BY <1>1, <3>1 DEF CiInv, TypeOK
    <3> QED
      BY <3>1, <3>2 DEF Provenance
  <2> QED
    BY <2>2, <2>3
<1>2. CiInv => StatusesSettled
  BY <1>1 DEF StatusesSettled
<1> QED
  BY <1>2, CiInvariant, PTL

\* The repository's manifest and jar of an artifact come from one build, unless the
\* manifest's build is between its two uploads or died there, or two builds crossed.
THEOREM CiRepositoryWhole == Spec => []RepositoryWhole
<1>1. ASSUME CiInv, NEW a \in Apps, manifestOf[a] # jarOf[a]
      PROVE  LET m == manifestOf[a]
             IN  /\ m \in Builds
                 /\ status[m]["Uploading Artifact"] = "success" => jarOf[a] \in Builds /\ m \in crossed[jarOf[a]]
  <2>1. manifestOf[a] \in Builds /\ manifestOf[a] # NoBuild
    <3>1. manifestOf[a] \in Builds \cup {NoBuild} /\ jarOf[a] \in Builds \cup {NoBuild} /\ Provenance
      BY <1>1 DEF CiInv, TypeOK
    <3>2. manifestOf[a] # NoBuild
      BY <1>1, <3>1 DEF Provenance
    <3> QED
      BY <3>1, <3>2
  <2>2. PICK m \in Builds : m = manifestOf[a]
    BY <2>1
  <2>3. ASSUME Shared(m)
        PROVE  ~ HalfUploaded(m)
    <3>0. StatusOK(m)
      BY <1>1 DEF CiInv, BuildOK
    <3>1. pc[m] = "jar" => ~ Shared(m)
      BY <3>0 DEF StatusOK, Shared, Steps, Stages, Over, BeforeDeploy, BeforeTests
    <3> QED
      BY <2>3, <3>1 DEF HalfUploaded
  <2> QED
    BY <1>1, <2>1, <2>2, <2>3 DEF CiInv, Crossings, Shared
<1>2. CiInv => RepositoryWhole
  BY <1>1 DEF RepositoryWhole
<1> QED
  BY <1>2, CiInvariant, PTL

\* When the bad builds before a build have been counted, those counted have ended badly
\* or will, and the build before them is not bad.
THEOREM CiCountIsRunOfBad == Spec => CountIsRunOfBad
<1>1. ASSUME CiInv, Next
      PROVE  CountIsRunOfBadStep
  <2>1. ASSUME NEW c \in Builds, pc[c] = "count", pc'[c] = "Configuration"
        PROVE  LET n == unstableBuilds[c]
               IN  /\ \A k \in (c - n)..(c - 1) : result[k] \notin {"null", "SUCCESS"}
                   /\ c - n > 1 => result[c - n - 1] \notin Bad
    <3>0. PICK b \in Builds : Step(b)
      BY <1>1, <2>1 DEF Next, Done, vars
    <3>1. c = b
      <4>1. c # b => pc'[c] = pc[c]
        <5>1. TypeOK
          BY <1>1 DEF CiInv
        <5>2. c \in Builds \ {b} => pc'[c] = pc[c]
          BY <3>0, <5>1, OwnKept
        <5> QED
          BY <5>2
      <4> QED
        BY <2>1, <4>1
    <3>2. Counted(c)
      BY <1>1, <2>1, <3>0, <3>1, Moves DEF CiInv, Step, Steps
    <3>3. \A k \in (c - unstableBuilds[c])..(c - 1) : Decided(k)
      BY <1>1, <2>1 DEF CiInv, CountOK
    <3>4. c \in Int /\ unstableBuilds[c] \in Int
      <4>1. unstableBuilds \in [Builds -> 0..Last]
        BY <1>1 DEF CiInv, TypeOK
      <4>2. unstableBuilds[c] \in 0..Last /\ Last \in Nat /\ c \in Int
        BY <4>1, BuildsAreNumbers, Zenon
      <4> QED
        BY <4>2
    <3>5. c - 1 - unstableBuilds[c] = c - unstableBuilds[c] - 1
      BY <3>4
    <3>6. c - unstableBuilds[c] > 1 => result[c - unstableBuilds[c] - 1] \notin Bad
      <4>1. ~ CountsAsBad(c - unstableBuilds[c] - 1)
        BY <3>2, <3>5, Zenon DEF Counted, NextRead
      <4> QED
        BY <3>4, <4>1 DEF CountsAsBad
    <3> QED
      BY <3>3, <3>6 DEF Decided
  <2> QED
    BY <2>1 DEF CountIsRunOfBadStep
<1>2. CiInv /\ [Next]_vars => [CountIsRunOfBadStep]_vars
  BY <1>1
<1> QED
  BY <1>2, CiInvariant, PTL DEF Spec, CountIsRunOfBad

=============================================================================
