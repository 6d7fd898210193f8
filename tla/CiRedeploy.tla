----------------------------- MODULE CiRedeploy -----------------------------
(***************************************************************************)
(* The merge request pipeline and the deployment pipeline on the same      *)
(* application.  The CI pushes X of dev11 in place and uploads what it     *)
(* pushed in two steps (github_pipeline.groovy:187-208); builds of         *)
(* Redeploy.groovy swap the same X, and download in two steps what the CI  *)
(* uploads.  The two are different jobs, so Jenkins runs them side by side.*)
(*                                                                         *)
(* Redeploy is taken as it is, but for the Download stage, which becomes   *)
(* its two wgets.  Of the CI only what touches dev11 and the repository is *)
(* here; CiPipeline has the whole of it.  As there, CI builds overlap, also *)
(* those of one artifact, which have one pom.version.                      *)
(***************************************************************************)
EXTENDS Redeploy

CONSTANTS CiBuilds,    \* the CI's builds, all of deployable artifacts
          ArtifactOf,  \* the artifact a CI build builds
          CiEnv,       \* the value of environment in github_pipeline.groovy: dev11
          DevVersion   \* the pom.version of the CI's builds

ASSUME CiRedeployAssumption ==
  /\ CiBuilds \subseteq Droplets \ Builds
  /\ ArtifactOf \in [CiBuilds -> Apps]
  /\ CiEnv \in Envs /\ DevVersion \in Versions

VARIABLES ciPc,        \* ciPc[c]: where the CI's build c is
          attempt,     \* attempt[c]: failed attempts of its retry(2)
          manifestOf,  \* manifestOf[a]: the CI build whose manifest the repository has
          jarOf,       \* jarOf[a]: the CI build whose jar the repository has
          manifestGot, \* manifestGot[b]: the CI build of the manifest build b has downloaded
          \* Two history variables, for the properties:
          crossed,     \* crossed[c]: the CI builds of c's artifact that put their manifest
                       \*   while c was between its two uploads
          jarSeen      \* jarSeen[b]: whose jar the repository had when b got its manifest

repository == <<manifestOf, jarOf, crossed>>
downloads  == <<manifestGot, jarSeen>>
ciVars     == <<ciPc, attempt, repository>>
allVars    == <<vars, ciVars, downloads>>

CiTypeOK ==
  /\ TypeOK
  /\ ciPc \in [CiBuilds -> {"test", "push", "start", "manifest", "jar", "done", "dead"}]
  /\ attempt \in [CiBuilds -> 0..1]
  /\ manifestOf \in [Apps -> CiBuilds \cup {NoBuild}]
  /\ jarOf \in [Apps -> CiBuilds \cup {NoBuild}]
  /\ manifestGot \in [Builds -> CiBuilds \cup {NoBuild}]
  /\ crossed \in [CiBuilds -> SUBSET CiBuilds]
  /\ jarSeen \in [Builds -> CiBuilds \cup {NoBuild}]

CiInit ==
  /\ Init
  /\ ciPc = [c \in CiBuilds |-> "test"] /\ attempt = [c \in CiBuilds |-> 0]
  /\ manifestOf = [a \in Apps |-> NoBuild] /\ jarOf = [a \in Apps |-> NoBuild]
  /\ manifestGot = [b \in Builds |-> NoBuild] /\ jarSeen = [b \in Builds |-> NoBuild]
  /\ crossed = [c \in CiBuilds |-> {}]

-----------------------------------------------------------------------------
(* The CI *)

DevApp(c)   == <<SpaceOf[CiEnv], ArtifactOf[c], "live">>
DevRoute(c) == <<ArtifactOf[c], CiEnv, "live">>

CiGoto(c, from, to) == ciPc[c] = from /\ ciPc' = [ciPc EXCEPT ![c] = to]

\* The stages before Deploy are over.
CiBegin(c) ==
  CiGoto(c, "test", "push") /\ UNCHANGED <<vars, attempt, repository, downloads>>

\* Mutant: the CI pushes X-temp as Redeploy does.
CiPushTemp(c) ==
  /\ CiGoto(c, "push", "start")
  /\ PushTo(SpaceOf[CiEnv], ArtifactOf[c], "temp", DevRoute(c), c)
  /\ UNCHANGED <<buildVars, attempt, repository, downloads>>

\* Mutant: the login of an agent in place of the plugin's own.
CiPushAsAgent(c) ==
  /\ CiGoto(c, "push", "start")
  /\ \E g \in Agents : /\ LoggedIn(g) /\ owner[DevRoute(c)] \in {NoSpace, target[g]}
                       /\ PushTo(target[g], ArtifactOf[c], "live", DevRoute(c), c)
  /\ UNCHANGED <<buildVars, attempt, repository, downloads>>

\* pushToCloudFoundry: X is replaced in place.  The plugin has a login of its
\* own, in the space of dev11.
CiPush(c) ==
  /\ CiGoto(c, "push", "start")
  /\ owner[DevRoute(c)] \in {NoSpace, SpaceOf[CiEnv]}
  /\ PushTo(SpaceOf[CiEnv], ArtifactOf[c], "live", DevRoute(c), c)
  /\ UNCHANGED <<buildVars, attempt, repository, downloads>>

\* It starts what is called X by then, and waits until that is up.
CiStart(c) ==
  /\ CiGoto(c, "start", "manifest") /\ Exists(DevApp(c))
  /\ StartIn(SpaceOf[CiEnv], ArtifactOf[c], "live")
  /\ attempt' = [attempt EXCEPT ![c] = 0]
  /\ UNCHANGED <<buildVars, repository, downloads>>

\* Mutant: what fails a second time is taken for done.
CiGivesUp(c) ==
  /\ ciPc[c] \in {"push", "start"}
  /\ CiGoto(c, ciPc[c], IF attempt[c] = 0 THEN "push" ELSE "manifest")
  /\ attempt' = [attempt EXCEPT ![c] = 1 - @]
  /\ UNCHANGED <<vars, repository, downloads>>

\* Mutant: the attempts are counted, not limited.
CiRetriesForever(c) ==
  /\ ciPc[c] \in {"push", "start"} /\ CiGoto(c, ciPc[c], "push")
  /\ attempt' = [attempt EXCEPT ![c] = @ + 1]
  /\ UNCHANGED <<vars, repository, downloads>>

\* An attempt fails, before X is replaced or when it does not start (or is
\* gone); the second failure of retry(2) is the build's.
CiPushFails(c) ==
  /\ ciPc[c] \in {"push", "start"}
  /\ CiGoto(c, ciPc[c], IF attempt[c] = 0 THEN "push" ELSE "dead")
  /\ attempt' = [attempt EXCEPT ![c] = 1 - @]
  /\ UNCHANGED <<vars, repository, downloads>>

\* The builds of c's artifact between their two uploads.
Between(c) == {d \in CiBuilds \ {c} : ciPc[d] = "jar" /\ ArtifactOf[d] = ArtifactOf[c]}

\* Mutant: the manifest is left out when the repository has one.
UploadManifestOnce(c) ==
  /\ CiGoto(c, "manifest", "jar")
  /\ manifestOf' = [manifestOf EXCEPT ![ArtifactOf[c]] = IF @ = NoBuild THEN c ELSE @]
  /\ UNCHANGED <<vars, attempt, jarOf, crossed, downloads>>

UploadManifest(c) ==
  /\ CiGoto(c, "manifest", "jar")
  /\ manifestOf' = [manifestOf EXCEPT ![ArtifactOf[c]] = c]
  /\ crossed' = [d \in CiBuilds |-> IF d \in Between(c) THEN crossed[d] \cup {c} ELSE crossed[d]]
  /\ UNCHANGED <<vars, attempt, jarOf, downloads>>

UploadJar(c) ==
  /\ CiGoto(c, "jar", "done")
  /\ jarOf' = [jarOf EXCEPT ![ArtifactOf[c]] = c]
  /\ UNCHANGED <<vars, attempt, manifestOf, crossed, downloads>>

\* Anything else ends the build.
CiDies(c) ==
  /\ ciPc[c] \in {"push", "start", "manifest", "jar"}
  /\ CiGoto(c, ciPc[c], "dead") /\ attempt' = [attempt EXCEPT ![c] = 0]
  /\ UNCHANGED <<vars, repository, downloads>>

CiStep(c) ==
  \/ CiBegin(c) \/ CiPush(c) \/ CiStart(c) \/ CiPushFails(c)
  \/ UploadManifest(c) \/ UploadJar(c) \/ CiDies(c)

-----------------------------------------------------------------------------
(* Redeploy, with the Download stage in two steps *)

\* Build b is about to download what the CI uploads.
OfCi(b) == pc[b] = "download" /\ jarVersion[b] = DevVersion

DownloadManifest(b) ==
  /\ OfCi(b) /\ manifestGot[b] = NoBuild
  /\ manifestOf[req[b].app] # NoBuild
  /\ manifestGot' = [manifestGot EXCEPT ![b] = manifestOf[req[b].app]]
  /\ jarSeen' = [jarSeen EXCEPT ![b] = jarOf[req[b].app]]
  /\ UNCHANGED <<vars, ciVars>>

DownloadJar(b) ==
  /\ OfCi(b) /\ manifestGot[b] # NoBuild
  /\ jarOf[req[b].app] # NoBuild
  /\ Download(b) /\ UNCHANGED <<ciVars, downloads>>

\* wget finds no manifest, or no jar.
DownloadFails(b) ==
  /\ OfCi(b)
  /\ IF manifestGot[b] = NoBuild THEN manifestOf[req[b].app] = NoBuild
                                 ELSE jarOf[req[b].app] = NoBuild
  /\ Goto(b, "REFUSED") /\ Keep /\ UNCHANGED <<cfVars, ciVars, downloads>>

OtherStep(b) ==
  /\ Step(b) /\ (OfCi(b) => Abort(b))
  /\ UNCHANGED <<ciVars, downloads>>

RedeployStep(b) ==
  DownloadManifest(b) \/ DownloadJar(b) \/ DownloadFails(b) \/ OtherStep(b)

CiNext == (\E c \in CiBuilds : CiStep(c)) \/ (\E b \in Builds : RedeployStep(b))

CiSpec == CiInit /\ [][CiNext]_allVars
-----------------------------------------------------------------------------
(* Properties *)

\* SUCCESS of a Redeploy beside the CI: X-temp is gone and nothing but X answers
\* the live host.  X is the build's own and up, unless in dev11 the CI
\* has pushed over it since the rename (Redeploy.groovy:115, github_pipeline.groovy:197).
SuccessOrOvertakenStep ==
  \A b \in Builds : pc[b] # "SUCCESS" /\ pc'[b] = "SUCCESS" =>
    /\ ~ Exists(TempApp(b)) /\ Serving(LiveRoute(b)) \subseteq {LiveApp(b)}
    /\ IF req[b].env = CiEnv /\ apps[LiveApp(b)].bits \in CiBuilds
       THEN ArtifactOf[apps[LiveApp(b)].bits] = req[b].app
       ELSE apps[LiveApp(b)].bits = b /\ Serving(LiveRoute(b)) = {LiveApp(b)}
SuccessOrOvertaken == [][SuccessOrOvertakenStep]_allVars

\* The CI can make a command of a Redeploy fail at one place only: a push that
\* brings X back between its deletion, or `cf app`, and the rename of
\* Redeploy.groovy:115.  Then X-temp stays beside X.
RefusedOnlyWhenTakenStep ==
  \A b \in Builds : pc[b] # "REFUSED" /\ pc'[b] = "REFUSED" =>
    \/ pc[b] = "download"
    \/ /\ pc[b] = "rename" /\ Exists(LiveApp(b))
       /\ ~ found[b] \/ apps[LiveApp(b)].bits \in CiBuilds
       /\ TempApp(b) \in Serving(LiveRoute(b))
RefusedOnlyWhenTaken == [][RefusedOnlyWhenTakenStep]_allVars

\* A live host loses its last answering application by a push only: of a Redeploy
\* over a leftover X-temp (Redeploy.groovy:103), or, in dev11, of the CI over X when
\* no X-temp answers beside it (github_pipeline.groovy:197).  The swap never does it,
\* whatever the CI does in between.
OutageOnlyByAPushStep ==
  \A a \in Apps, e \in Envs :
    LET r == <<a, e, "live">>
    IN  Serving(r) # {} /\ Serving(r)' = {} =>
          \/ \E b \in Builds : pc[b] = "push" /\ pc'[b] = "start" /\ Serving(r) = {TempApp(b)}
          \/ \E c \in CiBuilds : /\ ciPc[c] = "push" /\ ciPc'[c] = "start"
                                 /\ r = DevRoute(c) /\ Serving(r) = {DevApp(c)}
OutageOnlyByAPush == [][OutageOnlyByAPushStep]_allVars

\* A Redeploy gets manifest and jar of different CI builds only in a race: the
\* manifest's build had not finished its uploads (or never will), or it put its manifest
\* between the two uploads of the jar's build, or the jar was put between the two
\* downloads (Redeploy.groovy:84-85, github_pipeline.groovy:206-208).  Once the uploads are
\* over and nothing crossed, every later download gets what one build made.
MixedOnlyIfRacedStep ==
  \A b \in Builds : pc[b] = "download" /\ pc'[b] = "push" /\ manifestGot[b] # NoBuild =>
    LET m == manifestGot[b]
        j == jarOf[req[b].app]
    IN  m = j \/ ciPc[m] \in {"jar", "dead"} \/ m \in crossed[j] \/ j # jarSeen[b]
MixedOnlyIfRaced == [][MixedOnlyIfRacedStep]_allVars

\* CI build d may have pushed: it is past its first attempt's push.
PastPush(d) == ciPc[d] # "test" /\ (ciPc[d] = "push" => attempt[d] = 1)

\* Somebody else has pushed X of dev11, or deleted it, or renamed X-temp to it.
Displaced(c) ==
  \/ \E d \in CiBuilds \ {c} : ArtifactOf[d] = ArtifactOf[c] /\ PastPush(d)
  \/ \E b \in Builds : req[b].app = ArtifactOf[c] /\ pc[b] \in {"rename", "cleanup"} \cup Ended

\* The CI uploads what it has pushed and started: X of dev11 is its own droplet and up.
\* It is not when another build has displaced it since the push, one of Redeploy that got
\* as far as deleting X, or one of the CI: then the repository gets what dev11 does not
\* run (github_pipeline.groovy:196-208).
UploadedOrDisplacedStep ==
  \A c \in CiBuilds : ciPc[c] \in {"manifest", "jar"} /\ ciPc'[c] \in {"jar", "done"} =>
    LET x == apps[DevApp(c)]
    IN  IF x.bits = c THEN x.up ELSE Displaced(c)
UploadedOrDisplaced == [][UploadedOrDisplacedStep]_allVars

Elsewhere == INSTANCE LiveService
  WITH Hosts   <- Apps \X (Envs \ {CiEnv}),
       serving <- [h \in Apps \X (Envs \ {CiEnv}) |-> servingBar[h]],
       pending <- [h \in Apps \X (Envs \ {CiEnv}) |-> pendingBar[h]]

\* The CI is felt in dev11 only: for the live hosts of every other environment
\* Redeploy goes on implementing the blue-green promise.
PromiseElsewhere == Elsewhere!Spec
=============================================================================
