# A formal model of jenkins-pipeline

This directory models the deployment machinery of the repository: the Jenkins
pipeline scripts under `jenkins-pipeline/` and the dashboard plugin under
`src/main/java/de/codecentric/jenkins/dashboard/` that starts them.

## 1. The system

| part | source | state | operations | talks to |
|---|---|---|---|---|
| Redeploy pipeline | `jenkins-pipeline/Redeploy.groovy`, `work/jobs/Redeploy/config.xml` | script variables of a build (`jarVersion`, `status`, ...), the workspace | choose a version, log in, download, push `X-temp`, swap it with `X` | Maven repository, cf client, Cloud Foundry |
| Cloud Foundry and the cf client | external | applications, routes, `~/.cf/config.json` of the agent | `cf login/push/app/map-route/unmap-route/delete-route/delete/rename` | |
| Merge request CI pipeline | `jenkins-pipeline/github_pipeline.groovy` | result of the build, coverage status, test counts, GitLab statuses | checkout, build, test, push dev11 in place, upload, notify | GitLab, Artifactory, Slack, Cloud Foundry |
| Legacy redeploy | `jenkins-pipeline/re-deploy.groovy` | script variables of a build | an older blue-green swap, all environments in one space | as Redeploy |
| CI draft | `jenkins-pipeline/ci-cd_pipeline.groovy` | none | does not parse (line 56) | |
| Dashboard: deploy | `DashboardView.java:123-192`, `DeployJobVariables*.java` | configured environments | start the build job, wait for it, report | Jenkins queue, Redeploy job |
| Dashboard: page | `DashboardView/main.jelly` | chosen application, version list, message | fill the version list, deploy | `getArtifacts`, `deploy` over AJAX |
| Dashboard: configuration | `DashboardView.java:198-336`, `DashboardViewDescriptor.java`, `Environment.java` | view and descriptor settings | submit, render | |
| Environment probe | `ec2/EC2Connector.java:149-223`, `ServerEnvironment.java` | none kept | two HTTP requests per application and environment | the applications |
| EC2 tagging | `ec2/EC2Connector.java:99-139, 256-278` | tags in EC2 | tag instances | AWS |
| Repositories | `ArtifactoryConnector.java`, `NexusConnector.java` | none kept | list the versions of an artifact | Maven repository |
| AWS credentials | `ec2/AwsKeyCredentials.java` | Jenkins credentials store | form, lookup | |
| XStream persistence | `persistence/XStreamHelper.java` | an XML file | load, save | file system |
| EnvironmentTagBuilder | `EnvironmentTagBuilder.java` | none | the class is commented out | |
| `work/`, `bin/`, `src/main/webapp` | vendored Jenkins home, older resources | | | |

### What is hard in it

* **The blue-green swap** (`Redeploy.groovy:102-116`) is nine commands against a
  service that keeps state between builds. A build may die between any two of
  them; the next build starts from what it left. The answer of `cf app` (line
  106) decides three commands later.
* **The login is shared.** `cf login` writes the agent's `~/.cf/config.json`;
  every later command acts where that file points at that moment, also when the
  Login stage has no branch for the environment and leaves it alone.
* **The CI pipeline** has three places that announce a bad build, each with its
  own reading of `currentBuild.result`, `coverageStatus` and `catchError`; a
  push that is retried; two uploads that are not one; statuses in GitLab that
  outlive the build. Builds overlap, also those of one repository, which share X of
  dev11 and one `pom.version`.
* **The dashboard** waits in an HTTP thread for a build that may be merged with
  another user's, cancelled, refused or of another type, while the page goes on
  and its list of versions is filled by answers in any order.
* **The server table** is rendered from a configuration that is read again for
  every row, with two requests without a timeout for every cell, each answered by any
  of the droplets that have the host at that moment; an exception in one row takes all
  rows with it.
* **Two jobs, one application.** In dev11 the CI pushes X in place
  (`github_pipeline.groovy:197`) while a Redeploy deletes it and renames X-temp to
  it; a Redeploy downloads in two steps what the CI uploads in two steps.
* **The older script** deploys every environment through one X-temp and unmaps the
  host from X-environment without asking whether that exists (`re-deploy.groovy:70`):
  what a dead build leaves is taken over by another environment.

### What makes each part correct

| part | properties |
|---|---|
| Redeploy | a build touches only its own environment and artifact; the live host loses its last instance in one known way only; SUCCESS means that this build alone answers; leftovers never block a later build; an old version never comes back; every click is answered unless a build waits for a version |
| CI pipeline | a bad build goes unannounced in two ways only; `finally` speaks only when nobody has; GitLab's statuses are settled, and a success means that manifest and jar are there; manifest and jar are of one build unless its uploads were not finished or two builds crossed; the count of bad builds is right |
| CI beside Redeploy | each may overtake the other but never leaves a third state: SUCCESS is the build's own X or the CI's; the live host is lost by a push only; other environments do not notice; the CI uploads what it pushed or what another build has displaced; manifest and jar of different builds are downloaded in a race only |
| Dashboard | an answer is true of a build with the caller's arguments; every click ends unless a build runs for ever; what answers a live host was asked for by a click on it, in a version of its application; the job started is that of the environment; a missing or disabled job is reported; "successful" means that the version asked for answers the live host |
| Legacy redeploy | SUCCESS means swapped; an answering X-e is never without an answer; a host is answered by its own environment's droplet unless a build for it died in the swap; a build fails only for a missing X-e |
| Probe | header and rows are each of a configuration in force, all rows or none; a running cell is complete and recent; the page is finished unless a request hangs |
| Repositories | one search's list, an empty one, or an exception: never a mixture |

## 2. Modules

| module | models | composed with |
|---|---|---|
| `Artifacts` | the artifacts and environments that foundation and requests speak of | extended by `CloudFoundry`, `Requests` |
| `Requests` | the parameters of a deployment: app, envs, version | extended by `Redeploy`, `Dashboard` |
| `CloudFoundry` | applications, routes, the client's target and the `cf` commands (external; each from how the pipelines use it) | extended by `Redeploy`, `LegacyRedeploy` |
| `Redeploy` | `Redeploy.groovy` as builds of one Jenkins job | extends `CloudFoundry`, `Requests` |
| `LiveService` | the promise of a blue-green deployment, for every live host | `LS` in `Redeploy`, refinement mapping `servingBar`, `pendingBar` |
| `MCRedeploy` | constants, symmetry and specifications for TLC | extends `Redeploy` |
| `CloudFoundryProofs` | what the `cf` commands keep typed | extends `CloudFoundry`, `TLAPS` |
| `RedeployProofs` | theorems about `Redeploy`, the last that it implements `LiveService` | extends `Redeploy`, `CloudFoundryProofs` |
| `CiProofs`, `LegacyProofs`, `DashboardProofs`, `ServerTableProofs` | theorems about the module of that name | each extends it and `TLAPS` |
| `CiPipeline` | `github_pipeline.groovy` as builds of one Jenkins job | |
| `MCCiPipeline` | the artifact of the first build, for TLC | extends `CiPipeline` |
| `Dashboard` | `main.jelly`, `deploy`, `submit`, the Jenkins queue and jobs | extends `Requests` |
| `MCDashboard` | configurations of the view, specifications for TLC | extends `Dashboard` |
| `ServerTable` | the server table of `main.jelly` and `EC2Connector.getEnvironmentByPCF` | |
| `MCServerTable` | configurations of the view for TLC | extends `ServerTable` |
| `CiRedeploy` | the CI's push and uploads beside builds of `Redeploy.groovy` | extends `Redeploy`, whose Download stage it splits in two; `LiveService` again, for the environments that are not dev11 |
| `MCCiRedeploy` | constants and symmetry for TLC | extends `CiRedeploy` |
| `CiRedeployProofs` | theorems about the two together | extends `CiRedeploy`, `RedeployProofs` |
| `DashboardRedeploy` | a click, its deploy call, the build it schedules, the swap | extends `Dashboard` and `Redeploy`; the calls are the builds (`BuildsAreCalls`) |
| `MCDashboardRedeploy` | a view and one pipeline job for TLC | extends `DashboardRedeploy` |
| `DashboardRedeployProofs` | theorems about the two together | extends `DashboardRedeploy`, `DashboardProofs`, `RedeployProofs` |
| `LegacyRedeploy` | `re-deploy.groovy` as builds of one Jenkins job | extends `CloudFoundry` |
| `MCLegacyRedeploy` | symmetry for TLC | extends `LegacyRedeploy` |

### Redeploy

`pc[b]` is the command build `b` issues next, one action per command. `req[b]`
holds the job's parameters `app`, `envs`, `version`; `jarVersion` and `found` the
script variables `jarVersion` and `status == 0`. `target[g]` is the target in
`~/.cf/config.json` of agent `g`, `apps[<<space, app, slot>>]` an application
(`slot` is which of the artifact's names it has: "live" is X, "temp" is X-temp) with its droplet, whether it is
up and its routes, and `owner[route]` the space that holds a host name.

`CommandOK(b)` is whether the command exits with 0 in the state it finds; if
not, `CommandRefused` ends the build, as `sh` throws and lines 121-126 rethrow.
`Abort` ends a build at any point for any other reason. `CheckOld` may answer
"missing" for an application that exists, because `returnStatus` turns any error
of the client into a non-zero status. `StartBuild` is Jenkins' queue: executors,
and `<concurrentBuild>false</concurrentBuild>` of `work/jobs/Redeploy/config.xml`.

### CiPipeline

`pc[b]` is the step of build `b`. Before the try block it is `script` (the variables of
lines 13-36, and the wait for a node at 92), where a build may stop without anybody being told
(`StopOutside`); then the stages, some of them in several steps (`JUnit`, `Jacoco`, and the
count after the tests; the jar and its status after the manifest; the statuses after the
message); then `catch`, `finally`, `ended`. `result` is `currentBuild.result` while a build
runs and its result afterwards. `thrown` says that an exception is on its way out of the script,
which makes the build FAILURE or ABORTED at its end whatever `result` was set to
(`FinalResults`); `catchError` is the script's variable. Every step may `Throw`, with what it has
set so far (`SetSoFar`); the push has its two attempts (`DeployFails`). In the catch block the
status of line 323 may throw before `catchError` is set, and the `curl`s to Slack may fail in
the three places where they are (`SendFails`).

Nothing keeps two builds apart, those of one repository neither. `lastSuccessfullBuild` reads
one result in each `CountOne`, while the other builds go on. `crossed[b]` is a history
variable: who put its manifest while `b` was between its two uploads.

### Dashboard

A page has the configurations its two lists were rendered from (`Load`,
`OfferEnvironments`: each reads it anew), its selections, the options of the version list,
the applications whose versions it has asked for and not yet got, and its message. `deploy` call
`c` goes through `Lookup` (lines 123-149), `Schedule` (154-162) and `Await`
(165-180), each atomic because it reads the configuration once; between them
the administrator may `Submit` another configuration or change a job, and
Jenkins may start, end or cancel builds. A job that loses its parameters after the lookup is
built all the same; one that is disabled or deleted makes `Schedule` throw. `place[c] = "error"` is an exception that
leaves `deploy`: Stapler answers an error and the callback of `main.jelly:35`
has nothing to show. A freestyle build in `Await` is answered `buildJobFailed`, as
the cast to `WorkflowRun` (line 168) throws after the build is over; the runs use
pipeline jobs, though the job shipped in `work/jobs/Redeploy/config.xml` is freestyle.

### ServerTable

The rendering of page `p` reads the header (`Load`), the list of rows
(`StartTable`), the columns for each row (`NextRow`), and asks each application
for `Health` and then `Metrics`, one action per request. `hosts[h]` is the set of droplets
that answer at a host, each with a number and how it answers: none when no application has
the route, two in the middle of a re-deployment (`Redeploy.groovy:108-110`); any of them may
get a request. A configuration may have empty names, environments or a url without "com":
then `getEnvironmentByPCF` throws (`Throws`; lines 166-169, 179), Jelly's expression is
null, and the page is shown with its header and without any row.

A submit puts a new list in place (`DashboardView.java:333`), so an iteration in progress keeps
the old one. `inForce[p]` and `ran[p][h]` are history variables: the configurations in force,
and the droplets at a host, since the page began. The header, the rows, and the cells of each
row may be of different configurations; `TableAligned` and `CellsAreRecent` say of each that
it is of one, and of one in force.

### CiRedeploy

Redeploy's actions are taken as they are, except that the download of the version
the CI builds (`DevVersion`) becomes `DownloadManifest` and `DownloadJar` (lines
84-85). A CI build `c` goes through `ciPc[c]`: `CiPush` and `CiStart` (one attempt
of line 197), `CiPushFails` (`retry(2)`), `UploadManifest` (206), `UploadJar` (208).
CI builds overlap as in `CiPipeline`. `crossed` and `jarSeen` are history variables: which
uploads crossed, and what jar was there when a Redeploy got its manifest. The
CI's plugin has a login of its own and does not touch `target`.

`SuccessOrOvertaken` is `SuccessMeansLive` as far as it survives the CI: the CI may
push over X between the rename and the end of the build. The other way round a
Redeploy may delete what the CI has just pushed, or another CI build replace it, and the CI goes
on to upload it: `UploadedOrDisplaced`. `RefusedOnlyWhenTaken` names the one new failure, a rename
that finds X back; it leaves X-temp beside X, both answering the live host.

### DashboardRedeploy

The build scheduled by call `c` is build `c` of `Redeploy` (`DashboardView.java:154-162`:
`Parameters(c)`). The module extends both components, which is why those names of
`Dashboard` that `Redeploy` has too begin with `Dash`. Each component keeps its actions; `BeginBuild`, the last step of
`Script` and `AbortBuild` are steps of both. Redeploy chooses the parameters of its builds in the
initial state, so `req` is fixed there and a click is one that agrees with it; all
choices are among the initial states. `later[b]` is a history variable: the builds
begun after `b` ended.

A page may send a version that is not one of the application it sends, when the version list came
late or was left by a failed search. `LiveWasAskedFor` is the end of that story: such a build is
refused at the download, before it has touched anything.

### LegacyRedeploy

One action per command as in `Redeploy`. All environments live in `PAAS_DEV_SPACE`
and `PAAS_DEV_DOMAIN`, so of CloudFoundry's constants `Envs` is that one domain and
`Slots` are the environments and "temp": the application `X-e` and the host `X-e`
have the slot `e`. Since the script cannot make a first deployment, initial states
have any subset of the applications `X-e`, their droplet named after `e`. `left` is a
history variable: environments a build for which ended between `map-route` and
`rename`. A version the repository does not have ends a build at the download (`DownloadFails`). Of the
builds that have theirs, `RefusedOnlyIfMissing` says what is wrong with line 70 and that nothing else
is; `OwnAnswers` what one X-temp for all environments may do: after a build for `e` has
died in the swap (a first deployment always does), X-temp has the host of `e`, and the
next build of another environment replaces its droplet and takes the host along.
Lines 86-88 of the file are a number and a shell command pasted below the
script, with which it does not compile; the model is of lines 13-84.

## 3. Runs

| run | question | instance | distinct states |
|---|---|---|---|
| `redeploy_serial` | safety, the inductive invariant, the refinement | 1 artifact, 2 environments, 3 builds, 1 agent with 2 executors, 2 versions (1 unpublished), no concurrent builds, symmetry of builds | 128,884 |
| `redeploy_prod` | finding | `prod` has no login branch | |
| `ci_overlap` | safety of overlapping builds | 2 repositories (1 not deployable), 2 builds of one or of both after one that ended UNSTABLE, coverage enough or below the minimum | 4,287,712 |
| `ci_null`, `ci_coverage` | findings | 1 build | |
| `dashboard` | `AnswersAreTrue`, `EveryClickEnds` | 1 page, 2 calls, no row or two rows, all states of the job | 145,032 |
| `dashboard_job`, `dashboard_refused` | findings | 1 call | |
| `server_table` | the five properties of `ServerTable` | 1 page, 6 configurations (4 of them without rows, or with an empty list or name, or without "com"), 1 submit, 2 changes of droplets | 643,241 |
| `ci_redeploy` | what CI and Redeploy do to each other | 1 artifact, dev11 and uat, 2 builds of each, a version of the CI and a release, 1 agent, symmetry of the builds of each job | 707,683 |
| `dashboard_redeploy` | `SuccessfulIsLive`, `LiveWasAskedFor`, `EveryClickIsAnswered` | 1 page, 2 calls, 2 artifacts (1 and 2 versions), 1 environment | 153,620 |
| `legacy` | the inductive invariant and the four properties of `LegacyRedeploy` | 1 artifact, 2 environments deployed or not, 4 builds, 2 agents | 887,920 |

**Why these bounds.** *Redeploy:* a build's behaviour depends on what its
predecessors left under two names in one space; two builds leave everything that
can be left (a dead build's X-temp, with and without the live route, beside or
without X), the third meets it. Two environments suffice to tell a command in the
wrong space. One artifact suffices there because the names of different artifacts
never meet; for any number of artifacts, environments, builds and agents the
proofs below hold. *CI:* what builds share is the job's history and,
of one repository, its manifest and jar, so two show every overlap of two and every crossing of
uploads (how three cross is left to the proofs); the build before them ended with a
result that extends a run of bad builds, and the first of the two may extend or end it, so that
runs of length 0 to 2 occur. Coverage below the minimum makes a build FAILURE; coverage between
the two limits makes it UNSTABLE as failed tests do, and is left out of this run (`Coverages`); it
is in `ci_null` and `ci_coverage`. The first build is of the deployable artifact
(`MCCiPipeline`), the second of either. *CI and Redeploy:* one build
of each meets the other between any two commands; the second of each finds what the
first two left, and overlaps the other of the CI. *Legacy:* a build that dies, one of another environment that takes
X-temp over, one that replaces the latter (and takes the host down), and one more for
either. *Dashboard:* two calls are
what the queue can join; versions, applications and environments are only
compared for equality. *ServerTable:* pages share nothing but what they read; two
changes are what it takes to make an application fail, or be deployed beside another and take over its
host, before and after one request; one submit separates any two readings of the configuration.
The bound on changes also means that applications settle; one that hung and
recovered for ever could hold a page for ever, which `RenderEnds` does not speak of.

**Deadlock** is checked in `CiPipeline`, whose builds end in `Done`. The other
configurations say `CHECK_DEADLOCK FALSE`: a finite number of builds or clicks
is used up, after which nothing has to happen.

**Assumptions of the instances.** `CiPipeline`: all builds of an artifact carry one
`pom.version`; an exception in the finally block is that of its `curl`, or of an abort that comes
while it is sent. `Dashboard`: a page is loaded once, at
most `MaxCalls` clicks; in run `dashboard` (`PatientSpec`) users who have selected
applications do not click before the versions of all of them have arrived, in
whatever order, and select nothing after the first click. `DashboardRedeploy`: once
Deploy was clicked the selections stay (`Decided`). `CiRedeploy`: the version of a
Redeploy is given (the input step is in the other runs). `LegacyRedeploy`: builds do
not overlap; the settings of its job are not in the repository, and the mutant of `OwnAnswers`
is the job that lets them. `ServerTable`: at most `MaxSubmits`
submits and `MaxChanges` changes; a url names the application and the environment, so that an empty
application leaves a placeholder in it which no request can be made of; the rows of one configuration may
differ in whether their url has "com"; a request that finds no route, and one that is not answered with
what is expected, fail alike.

## 4. Fairness

* `Redeploy!Fairness`: weak fairness of each build's own commands (an executing
  pipeline goes on until it ends) and of Jenkins' queue as a whole. None for
  `ChooseVersion` (nobody has to answer an input) nor `Abort`. The input of line
  48 sits inside `node()`, so a build nobody answers holds up the others.
* `DashFairness` of `Dashboard`: weak fairness of the HTTP threads and of the delivery of
  answers; strong fairness of leaving the queue, since
  Jenkins' queue is served in order and another build of the job may be running
  whenever one looks. None for the end of builds (the input of `Redeploy.groovy:48`
  waits without a timeout), users or administrators: hence the exception of `EveryClickEnds`,
  a build of the call's job that runs for ever.
* `ServerTable!Fairness`: weak fairness of a rendering that has begun, while no droplet
  hangs at the host it asks (`Hung`): the request may have gone to that one, for ever. None for
  loading a page, nor for an application that should recover.
* `DRFairness` of `DashboardRedeploy` is that of its two components, `Script` for the
  builds and `BeginBuild` for the queue. Hence the exception of `EveryClickIsAnswered`: a
  page whose version list is empty sends an empty version, and its build waits for somebody
  to choose one in Jenkins.
* `CiPipeline`, `CiRedeploy` and `LegacyRedeploy` have safety properties only.

## 5. Proofs

`RedeployProofs` proves for every set of artifacts, environments, spaces, builds,
agents and versions, every `Published` and every number of executors:

| theorem | says |
|---|---|
| `TypeCorrect` | `Spec => []TypeOK`, concurrent builds included |
| `SerialInvariant` | `Serial => (Spec => []IInv)` |
| `SerialRoutesInOwnSpace` | no deployment takes another environment's host name |
| `SerialOnlyOwnSpace` | no command changes another space or artifact |
| `SerialSuccessMeansLive` | SUCCESS means: this build alone answers, nothing temporary is left |
| `SerialNeverWedged` | leftovers of earlier builds never make a later one fail |
| `SerialOutageOnlyByPush` | the one way in which a live host loses its last instance |

**Assumptions.** `RedeployAssumption` (types of the constants), `SpacesDistinct`
(every environment has a space of its own: each branch of lines 63-79 names another
variable), `TwoSlots` and `TempIsASlot` (the two names of an artifact), `NullsAreNew` (the null
values are not values), and in the theorems
named Serial the hypothesis `Serial`: no concurrent builds (the job's setting) and
a login branch for every environment. The second half of `Serial` is false of
the repository's job for `prod` and `stage`: `redeploy_prod` is the
counterexample to `SerialSuccessMeansLive` without it.

**Argument.** None of the properties is inductive. What makes a build right is
what it may rely on at each of its commands, so `IInv` says that, command by
command: the client is where this build logged it in (`InOwnSpace`); X-temp is its
own droplet from the push to the rename, up and holding the routes the rest of the
commands need (`TempIsMine`); the answer of `cf app` is still true when lines 110
and 114 use it (`FoundIsCurrent`); after the rename X is its droplet (`Promoted`).
The first two are part of `CoreInv`, which stays true when somebody else replaces X in
its place (the CI does); the last two are not. About what lies around between builds it says only that routes and applications
keep to their own space and artifact (`RoutesInOwnSpace`, `MissingIsAbsent`): the
weakness is the point, since any leftover satisfies it. With one build at a time
(`OneAtATime`), `OthersIdle` reduces a step to the one running build;
`CommandsKeepRoutes` shows every `cf` command keeps the routes, `StepOwn` that each
command establishes what the next relies on. The action properties follow from
`IInv` at the step; `SerialOutageOnlyByPush` rests on `StepKeepsServing`: every
other command leaves somebody answering.

**The refinement.** The last part of `RedeployProofs` proves under the same hypotheses:

| theorem | says |
|---|---|
| `SerialDropletsApart` | `IInv`, and no two applications run the same droplet |
| `SerialImplementsLiveService` | every step is a step of `LiveService` or a stutter (`servingBar`, `pendingBar`) |
| `SerialNoComeback` | a droplet that has stopped answering a live host never answers it again |

`IInv` alone is not enough: an application that changes its droplet could give a live
host back to a version that had gone. `DropletsApart` says that cannot be, as a droplet
is made by one push, which no application had before, and moves with the rename only.

**The older script.** `LegacyProofs`, for any environments, artifacts, builds and agents
(`LegacyAssumption`); all but the first under `~ ConcurrentBuilds`, since the run
refutes `OwnAnswers` otherwise (its mutant):

| theorem | says |
|---|---|
| `LegacyTypeCorrect` | `Spec => []LegacyTypeOK`, concurrent builds included |
| `LegacyInvariant` | the inductive invariant `LegacyInv` |
| `LegacyOwnAnswers`, `LegacySuccessIsSwapped`, `LegacyAnsweringStays`, `LegacyRefusedOnlyIfMissing` | the properties of that name |

`LegacyInv` says again what a build relies on at each command, and in addition whose
host X-temp may hold: the running build's, or one of an environment a build for which
died in the swap (`left`).

**The CI pipeline.** `CiProofs`, for any artifacts, any number of builds, overlapping in any
way, and any results of those before (`CiAssumption`): `CiInvariant`, and from it
`CiTypeCorrect`, `CiNoFailureUnannounced`, `CiFinallyOnlyIfSilent`, `CiStatusesSettled`,
`CiRepositoryWhole` and `CiCountIsRunOfBad`. The conditions of the three places that announce a
build never mention one another; what connects them is `ResultOK`: from the coverage on, until
something is thrown, the result is bad exactly when the status of the coverage is, and that
status is then the result. With it `NoticesOK` shows of every path to the end who spoke. The one
path on which nobody does is in the theorem: line 323 throws, `catchError` is still false, and the
finally block takes a coverage that failed the build for announced. `StatusOK` ties the
commit statuses to the stage a build is in (`Over`).

The repository is shared by the builds of an artifact. `Provenance` says whose manifest and jar it
can have at all, and that what a finished upload has put is never nobody's. `Crossings` says when
the two can differ: the manifest's build is between its uploads or will not finish them
(`HalfUploaded`), or it is among those that crossed the jar's build. It is inductive only with
its second half: a build between its uploads finds its own manifest, or one of a build it
knows to have crossed it.

For the count, `CountOK` says that each build counted so far has ended badly or will: a result is
never taken back, since a build with a bad result while it runs ends with one.
The build before them is looked at last, and is not bad then; it may become so.

**CI beside Redeploy.** `CiRedeployProofs`, for any artifacts, environments, CI builds,
Redeploy builds and agents. Whatever the settings of the Redeploy job:

| theorem | says |
|---|---|
| `CiRedeployTypeCorrect` | `CiSpec => []CiTypeOK` |
| `CiInvariant` | the CI's inductive invariant `CiInv` |
| `CiMixedOnlyIfRaced` | a Redeploy gets manifest and jar of different builds in a race only |
| `CiUploadedOrDisplaced` | the CI uploads what it pushed and started, or what another build, of either job, has displaced |

`CiInv` says whose manifest and jar the repository and the downloads have at each step
(`Provenance`), that they are of different builds only in a race (`RepositoryRaced`,
`DownloadRaced`), that
CI droplets lie under their own name in dev11 only (`CiPlaces`), and that what the CI has pushed is there until
another build displaces it (`PushedOrDisplaced`). CI builds overlap in any number. For serial Redeploy jobs (`Serial`):

| theorem | says |
|---|---|
| `BothInvariant` | the inductive invariant `BothInv` |
| `CiSuccessOrOvertaken` | SUCCESS means what it does without the CI, or the CI's droplet is in the place |
| `CiRefusedOnlyWhenTaken` | the one new way to be refused: the rename finds X back |
| `CiOutageOnlyByAPush` | no last answer is lost but by a push |
| `CiPromiseElsewhere` | outside dev11 every step is a step of `LiveService` or a stutter |

`BothInv` is `CiInv`, `CoreInv` and `DropletsApart` of `RedeployProofs`, with
`FoundIsCurrent` and `Promoted`, which the CI breaks, replaced by what survives it
(`SwapBesideCi`): after the rename X is the build's own droplet or the CI's
(`Overtaken`). The commands of Redeploy keep the rest by the lemmas of
`RedeployProofs`; what is new is the push of the CI as one more step of the
foundation, and the steps of the CI between any two commands. TLC
checked `CiInv` and `BothInv` on the instance of run `ci_redeploy` before they were proved, `CiInv`
also with concurrent builds and an environment without a login branch.

**The dashboard.** `DashboardProofs`, for any pages, calls, configurations and jobs
(`DashboardAssumption`): `DashboardTypeCorrect` (`DashTypeOK`), and
for pipeline jobs (`Jobs \subseteq Workflow`; a freestyle build is answered
`buildJobFailed` whatever became of it) `DashboardAnswersAreTrue`. The point of the last is
that a call may wait for another call's build: `BuildOwned` and `ItemFits` say that a
build, once scheduled, belongs to a call whose arguments and row no longer change, and was joined
only by calls with the same.

**The dashboard and its deployments.** `DashboardRedeployProofs`, for any pages, calls,
artifacts, environments and agents: `DashboardRedeployTypeCorrect`, and, if the job is serial
(`Serial`) and the jobs are pipeline jobs, `DashboardSuccessfulIsLive`: who reads "successful" asked
for a build that, when it ended, alone answered the live host with the version asked for.
`Components` shows that a step of the composition is a step or a stutter of each component;
hence `DashboardInv` and `IInv` hold of it by the lemmas of the two proof modules. What
is left for `DRInv` to say is what ties them together: a build runs in Jenkins exactly when
its script does (`Linked`), it has the result its script ended with (`Passed`), the version
of the click is that of the script (`VersionKept`), and what a build that
ended SUCCESS put live stays until a later one begins (`LaterKnown`, `StillLive`).

`DashboardLiveWasAskedFor`, under the same hypotheses, adds what dead builds leave: every application
there is carries the droplet of a build that was past its download when it pushed (`Carried`), and such
a build has a version the repository has of its application, the one of its click if that had one
(`Fetched`). `OwnDropletMoves` is the lemma: a command gives an application no droplet but its build's.
That the host belongs to the application and the environment of the click is `RoutesInOwnSpace`.

**The server table.** `ServerTableProofs`, for any pages, configurations, submits and changes
(`ServerTableAssumption`):

| theorem | says |
|---|---|
| `TableInvariant`, `TableTypeCorrect` | what each page has in work, and its types |
| `TableRunningIsComplete` | a running cell has a version and an uptime |
| `TableIsRecent`, `TableCellsAreRecent` | the cells of a row are those of the columns of one configuration in force, and show droplets that answered since the page began |
| `TableIsAligned` | a shown page has the header of one configuration in force, and all the applications of one in its order, or no row because a name is empty or a url without "com" |

The invariant `Fits` of the third follows a cell from the request to the table: the columns in work are those
of a configuration that was in force (`inForce` only grows), and a droplet that answers is one of
`ran`. For the last, `Lined` says that the artifacts of the
finished rows, those of the list in work and those of the lists still to come are together,
in this order, all that one configuration asks for; and that every row in work is one of a configuration in force
(`Known`), so that what makes it throw is odd in that configuration. What the configuration asks for is computed by `FlattenSeq`, a fold of the community modules. The
section "Lists put together" proves what it does: `Joined(f, s, n)` says that `f[i]` is the first i lists of s put
together, for i up to n; there is such an `f` (`JoinedExists`) and the fold computes its last value
(`Flattened`); from it come the types (`FlattenTyped`) and that the first list
comes first (`FlattenFirst`). Where one would argue by induction, the proofs take the least
counterexample instead, which `Least` derives from `NatLessThanWellFounded`; that is a
fact about sets of numbers and needs no operator as a parameter.

**Only model-checked.** `EveryClickEnds`, `EveryClickIsAnswered` and `RenderEnds`:
liveness under fairness, and ENABLED, are out of the prover's reach. Of concurrent builds
of `Redeploy` and `LegacyRedeploy` the types are proved, and `CiInv` beside them; the other
properties of those modules hold for serial jobs only, which the theorems have as a hypothesis.

## 6. Where the code and its words disagree

* `redeploy_prod`: the job offers `prod` and `stage`, the Login stage has no branch
  for them (`Redeploy.groovy:63-79`); such a build deploys into the space of the
  build before it and reports SUCCESS.
* `ci_null`: `github_pipeline.groovy:350` takes a null result for a failure, line
  223 for "Success".
* `ci_coverage`: line 148 takes the result for the status of the coverage, also
  when failed tests made it UNSTABLE; the branch of line 236 is never taken.
* `dashboard_job`: `DashboardView.java:129-132` takes the first row whatever
  environment is asked for (comment at line 127).
* `dashboard_refused`: the messages of `Messages.properties:11-12` for a job that is
  missing or disabled are never sent; `deploy` throws (lines 147 and 172).

Not a disagreement but worth knowing: `isResultGoodForPublishing`
(`github_pipeline.groovy:51-53`) is never called, so builds whose result is
UNSTABLE or FAILURE are deployed, uploaded and published like good ones.

## 7. Not modelled

Formatting of Slack and page texts, colours, links; the contents of manifests
but names and routes; credentials; workspaces of the agents (each build has its
own); the table of `ENVIRONMENT_TYPES`; the EC2 queries and tagging, which nothing calls.
`ci-cd_pipeline.groovy` does not parse, `EnvironmentTagBuilder` is commented out.
Nothing in the repository calls `XStreamHelper`, so there is no order of loads and saves
to check. Of the repositories only what a page can notice is modelled: how
`ArtifactoryConnector` cuts versions out of paths, and that it sorts them as strings,
is not, as no document of the repository says which order is right. The forms of the global
configuration (`DashboardViewDescriptor`, `Environment`) only check what is typed.

The program itself is Groovy, Java and Jelly: the pipelines, the plugin, and its page.
The JavaScript files of the repository (`work/plugins/`: jQuery, jQuery UI, Bootstrap,
Handlebars, the dialog of the translation plugin) are third-party files that Jenkins
unpacked from its plugins into its home directory; the program neither contains nor
calls them, and no part of them is modelled. `bin/`, `src/main/webapp` and the rest of `work/`,
but for the Redeploy job and the number of executors, hold no logic of this program.

## 8. Plan

1. Proofs: the safety half of the three liveness properties (that a click, a page or a
   build in work always has a step that brings it nearer its end: which step, and what it
   counts down), so that fairness is all that is left to TLC.
2. Redeploy with concurrent builds, one executor to each agent: the login is then the
   build's own, X-temp is not; what of `CoreInv` survives.
3. The global form of the dashboard, if a question about it turns up that is more than
   its checks.
