-------------------------- MODULE CiRedeployProofs --------------------------
(***************************************************************************)
(* Theorems about the merge request pipeline and the deployment pipeline   *)
(* on the same application, for any sets of artifacts, environments and    *)
(* builds of either.  What the CI relies on holds whatever the settings of *)
(* Redeploy's job; what is said of Redeploy assumes a job without          *)
(* concurrent builds whose environments all have a login branch, as in     *)
(* RedeployProofs.                                                         *)
(***************************************************************************)
EXTENDS CiRedeploy, RedeployProofs

-----------------------------------------------------------------------------
(* What the CI relies on *)

\* Droplets are pushed by builds of either job, and the CI's are X of dev11 only.
CiPlaces ==
  \A x \in AppNames :
    /\ apps[x].bits \in Builds \cup CiBuilds \cup {NoBuild}
    /\ apps[x].bits \in CiBuilds => x = DevApp(apps[x].bits)

\* From its start on a CI build finds its own droplet in X, up, or has been displaced.
PushedOrDisplaced(c) ==
  /\ ciPc[c] \in {"start", "manifest", "jar"} => apps[DevApp(c)].bits = c \/ Displaced(c)
  /\ ciPc[c] \in {"manifest", "jar"} /\ apps[DevApp(c)].bits = c => apps[DevApp(c)].up

\* The uploads a build has begun, and finished.
ManifestGone(c) == ciPc[c] \in {"jar", "done", "dead"}

\* Manifest m and jar j of different builds: m has not finished, or crossed j.
RacedIn(places, crossings, m, j) ==
  m = j \/ places[m] \in {"jar", "dead"} \/ (j \in CiBuilds /\ m \in crossings[j])
Raced(m, j) == RacedIn(ciPc, crossed, m, j)

\* Manifests and jars are of builds of the artifact that put them.
Provenance ==
  /\ \A a \in Apps : manifestOf[a] # NoBuild =>
       ArtifactOf[manifestOf[a]] = a /\ ManifestGone(manifestOf[a])
  /\ \A a \in Apps : jarOf[a] # NoBuild => ArtifactOf[jarOf[a]] = a /\ ciPc[jarOf[a]] = "done"
  /\ \A b \in Builds : manifestGot[b] # NoBuild =>
       ArtifactOf[manifestGot[b]] = req[b].app /\ ManifestGone(manifestGot[b])
  /\ \A b \in Builds : jarSeen[b] # NoBuild => ciPc[jarSeen[b]] = "done"

\* The repository mixes two builds only in a race; a build between its uploads knows who
\* has put a manifest over its own.
RepositoryRaced ==
  /\ \A a \in Apps : manifestOf[a] # NoBuild => Raced(manifestOf[a], jarOf[a])
  /\ \A c \in CiBuilds : ciPc[c] = "jar" =>
       LET m == manifestOf[ArtifactOf[c]] IN m = c \/ m \in crossed[c]

\* So does a download, unless the jar has been put since the manifest was got.
DownloadRaced(b) ==
  manifestGot[b] # NoBuild =>
    LET j == jarOf[req[b].app] IN Raced(manifestGot[b], j) \/ j # jarSeen[b]

Uploads == Provenance /\ RepositoryRaced /\ \A b \in Builds : DownloadRaced(b)

CiInv ==
  /\ CiTypeOK /\ CiPlaces /\ Uploads
  /\ \A c \in CiBuilds : PushedOrDisplaced(c)

-----------------------------------------------------------------------------
(* What a Redeploy relies on beside the CI *)

\* The CI has pushed over X.
Overtaken(b) == req[b].env = CiEnv /\ apps[LiveApp(b)].bits \in CiBuilds

\* FoundIsCurrent and Promoted, unless the CI has pushed over X.
SwapBesideCi(b) ==
  /\ found[b] =>
       /\ pc[b] \in {"map", "unmapOld", "unmapTemp", "deleteRoute", "deleteOld"} => Exists(LiveApp(b))
       /\ pc[b] = "rename" => ~ Exists(LiveApp(b)) \/ Overtaken(b)
  /\ pc[b] = "cleanup" =>
       /\ ~ Exists(TempApp(b))
       /\ \/ Overtaken(b)
          \/ /\ apps[LiveApp(b)].bits = b /\ apps[LiveApp(b)].up
             /\ LiveRoute(b) \in apps[LiveApp(b)].routes

BothInv == CiInv /\ CoreInv /\ DropletsApart /\ \A b \in Builds : SwapBesideCi(b)

-----------------------------------------------------------------------------
(* The steps of CiNext, by what they leave alone *)

LEMMA CiNames ==
  ASSUME NEW c \in CiBuilds
  PROVE  /\ ArtifactOf[c] \in Apps /\ SpaceOf[CiEnv] \in Spaces /\ SpaceOf[CiEnv] # NoSpace
         /\ DevApp(c) \in AppNames /\ DevApp(c)[1] = SpaceOf[CiEnv] /\ DevApp(c)[2] = ArtifactOf[c]
         /\ DevApp(c)[3] = "live"
         /\ DevRoute(c) \in Routes /\ DevRoute(c)[1] = ArtifactOf[c] /\ DevRoute(c)[2] = CiEnv
         /\ DevRoute(c)[3] = "live"
         /\ c \in Droplets /\ c # NoBuild /\ c \notin Builds
<1>1. ArtifactOf[c] \in Apps /\ CiEnv \in Envs /\ "live" \in Slots
  BY CiRedeployAssumption, TwoSlots
<1>2. SpaceOf[CiEnv] \in Spaces /\ SpaceOf[CiEnv] # NoSpace
  BY <1>1, RedeployAssumption, NullsAreNew
<1>3. c \in Droplets /\ c # NoBuild /\ c \notin Builds
  BY CiRedeployAssumption, NullsAreNew
<1> QED
  BY <1>1, <1>2, <1>3 DEF DevApp, DevRoute, AppNames, Routes

LEMMA NoBuildIsNone == NoBuild \notin CiBuilds /\ NoBuild \notin Builds
  BY RedeployAssumption, CiRedeployAssumption, NullsAreNew

\* A CI build's step: its own counter moves, and X of dev11 at two points only.
LEMMA CiMoves ==
  ASSUME CiTypeOK, NEW c \in CiBuilds, CiStep(c)
  PROVE  /\ UNCHANGED <<buildVars, target, manifestGot, jarSeen>>
         /\ \A d \in CiBuilds \ {c} : ciPc'[d] = ciPc[d]
         /\ CiBegin(c) => ciPc[c] = "test" /\ ciPc'[c] = "push"
         /\ CiPush(c) => ciPc[c] = "push" /\ ciPc'[c] = "start"
         /\ CiStart(c) => ciPc[c] = "start" /\ ciPc'[c] = "manifest"
         /\ CiPushFails(c) => ciPc[c] \in {"push", "start"} /\ ciPc'[c] \in {"push", "dead"}
         /\ UploadManifest(c) => ciPc[c] = "manifest" /\ ciPc'[c] = "jar"
         /\ UploadJar(c) => ciPc[c] = "jar" /\ ciPc'[c] = "done"
         /\ CiDies(c) => ciPc[c] \in {"push", "start", "manifest", "jar"} /\ ciPc'[c] = "dead"
         /\ ~ CiPush(c) /\ ~ CiStart(c) => UNCHANGED <<apps, owner>>
         /\ ~ UploadManifest(c) => manifestOf' = manifestOf /\ crossed' = crossed
         /\ ~ UploadJar(c) => jarOf' = jarOf
         /\ ciPc' \in [CiBuilds -> {"test", "push", "start", "manifest", "jar", "done", "dead"}]
<1>1. ciPc \in [CiBuilds -> {"test", "push", "start", "manifest", "jar", "done", "dead"}]
  BY DEF CiTypeOK
<1> USE DEF CiGoto
<1>2. /\ CiBegin(c) => ciPc[c] = "test" /\ ciPc'[c] = "push"
      /\ CiPush(c) => ciPc[c] = "push" /\ ciPc'[c] = "start"
      /\ CiStart(c) => ciPc[c] = "start" /\ ciPc'[c] = "manifest"
      /\ CiPushFails(c) => ciPc[c] \in {"push", "start"} /\ ciPc'[c] \in {"push", "dead"}
      /\ UploadManifest(c) => ciPc[c] = "manifest" /\ ciPc'[c] = "jar"
      /\ UploadJar(c) => ciPc[c] = "jar" /\ ciPc'[c] = "done"
      /\ CiDies(c) => ciPc[c] \in {"push", "start", "manifest", "jar"} /\ ciPc'[c] = "dead"
  BY <1>1 DEF CiBegin, CiPush, CiStart, CiPushFails, UploadManifest, UploadJar, CiDies
<1>3. /\ \A d \in CiBuilds \ {c} : ciPc'[d] = ciPc[d]
      /\ ciPc' \in [CiBuilds -> {"test", "push", "start", "manifest", "jar", "done", "dead"}]
  BY <1>1 DEF CiStep, CiBegin, CiPush, CiStart, CiPushFails, UploadManifest, UploadJar, CiDies
<1>4. /\ UNCHANGED <<buildVars, target, manifestGot, jarSeen>>
      /\ ~ CiPush(c) /\ ~ CiStart(c) => UNCHANGED <<apps, owner>>
  BY DEF CiStep, CiBegin, CiPush, CiStart, CiPushFails, UploadManifest, UploadJar, CiDies, vars, cfVars,
     PushTo, StartIn, downloads
<1>5. /\ ~ UploadManifest(c) => manifestOf' = manifestOf /\ crossed' = crossed
      /\ ~ UploadJar(c) => jarOf' = jarOf
  BY DEF CiStep, CiBegin, CiPush, CiStart, CiPushFails, UploadManifest, UploadJar, CiDies, repository
<1> QED
  BY <1>2, <1>3, <1>4, <1>5

\* What the CI's push and start do to the foundation.
LEMMA CiEffects ==
  ASSUME CFTypeOK, NEW c \in CiBuilds
  PROVE  /\ CiPush(c) => /\ apps'[DevApp(c)].bits = c /\ ~ apps'[DevApp(c)].up
                         /\ apps'[DevApp(c)].routes = apps[DevApp(c)].routes \cup {DevRoute(c)}
                         /\ owner'[DevRoute(c)] = SpaceOf[CiEnv]
                         /\ \A x \in AppNames : x # DevApp(c) => apps'[x] = apps[x]
                         /\ \A r \in Routes : r # DevRoute(c) => owner'[r] = owner[r]
         /\ CiStart(c) => /\ Exists(DevApp(c))
                          /\ apps'[DevApp(c)].bits = apps[DevApp(c)].bits /\ apps'[DevApp(c)].up
                          /\ apps'[DevApp(c)].routes = apps[DevApp(c)].routes
                          /\ \A x \in AppNames : x # DevApp(c) => apps'[x] = apps[x]
                          /\ owner' = owner
<1>0. DevApp(c) \in AppNames /\ DevRoute(c) \in Routes
  BY CiNames
<1>1. ASSUME CiPush(c)
      PROVE  /\ apps'[DevApp(c)] = [bits |-> c, up |-> FALSE,
                                    routes |-> apps[DevApp(c)].routes \cup {DevRoute(c)}]
             /\ owner'[DevRoute(c)] = SpaceOf[CiEnv]
             /\ \A x \in AppNames : x # DevApp(c) => apps'[x] = apps[x]
             /\ \A r \in Routes : r # DevRoute(c) => owner'[r] = owner[r]
  BY <1>0, <1>1 DEF CiPush, PushTo, DevApp, CFTypeOK
<1>2. ASSUME CiStart(c)
      PROVE  /\ apps'[DevApp(c)] = [bits |-> apps[DevApp(c)].bits, up |-> TRUE,
                                    routes |-> apps[DevApp(c)].routes]
             /\ \A x \in AppNames : x # DevApp(c) => apps'[x] = apps[x]
             /\ owner' = owner
  BY <1>0, <1>2 DEF CiStart, StartIn, DevApp, CFTypeOK
<1>3. CiStart(c) => Exists(DevApp(c))
  BY DEF CiStart
<1> QED
  BY <1>1, <1>2, <1>3

\* A step of Redeploy leaves the CI as it is.
LEMMA RedeployMoves ==
  ASSUME NEW b \in Builds, RedeployStep(b)
  PROVE  /\ UNCHANGED <<ciPc, attempt, manifestOf, jarOf, crossed>>
         /\ \/ Step(b) /\ UNCHANGED <<manifestGot, jarSeen>>
            \/ DownloadManifest(b) /\ UNCHANGED vars
            \/ DownloadFails(b) /\ UNCHANGED <<manifestGot, jarSeen>>
<1>1. Download(b) => Step(b)
  BY DEF Step, Advance
<1> QED
  BY <1>1 DEF RedeployStep, DownloadManifest, DownloadJar, DownloadFails, OtherStep, ciVars,
     repository, downloads

LEMMA FailsQuietly ==
  ASSUME TypeOK, NEW b \in Builds, DownloadFails(b)
  PROVE  /\ UNCHANGED <<apps, owner, target, req, agent, jarVersion, found>>
         /\ pc[b] = "download" /\ pc'[b] = "REFUSED"
         /\ \A c \in Builds \ {b} : pc'[c] = pc[c]
         /\ pc' \in [Builds -> {"queued"} \cup Steps \cup Ended]
  BY DEF DownloadFails, OfCi, Goto, Keep, TypeOK, cfVars, Steps, Ended

-----------------------------------------------------------------------------
(* Type correctness *)

LEMMA CiStepTyped ==
  ASSUME CiTypeOK, NEW c \in CiBuilds, CiStep(c)
  PROVE  CiTypeOK'
<1> USE DEF CiGoto
<1>0. /\ TypeOK /\ CFTypeOK /\ ciPc' \in [CiBuilds -> {"test", "push", "start", "manifest", "jar", "done", "dead"}]
      /\ UNCHANGED <<buildVars, target, manifestGot, jarSeen>>
  BY CiMoves DEF CiTypeOK, TypeOK
<1>1. apps' \in [AppNames -> AppState]
  <2>1. CASE CiPush(c)
    <3>1. apps[DevApp(c)].routes \cup {DevRoute(c)} \in SUBSET Routes
      BY <1>0, CiNames, AppTyped
    <3>2. [bits |-> c, up |-> FALSE, routes |-> apps[DevApp(c)].routes \cup {DevRoute(c)}] \in AppState
      BY <3>1, CiNames DEF AppState
    <3> QED
      BY <1>0, <2>1, <3>2 DEF CiPush, PushTo, CFTypeOK, DevApp
  <2>2. CASE CiStart(c)
    <3>1. ASSUME NEW x \in AppNames PROVE apps'[x] \in AppState
      BY <1>0, <2>2, AppTyped DEF CiStart, StartIn, CFTypeOK, AppState
    <3> QED
      BY <1>0, <2>2, <3>1 DEF CiStart, StartIn, CFTypeOK
  <2> QED
    BY <1>0, <2>1, <2>2, CiMoves DEF CFTypeOK
<1>2. owner' \in [Routes -> Spaces \cup {NoSpace}]
  <2>1. owner \in [Routes -> Spaces \cup {NoSpace}]
    BY <1>0 DEF CFTypeOK
  <2>2. CASE CiPush(c)
    BY <2>1, <2>2, CiNames DEF CiPush, PushTo
  <2>3. CASE ~ CiPush(c)
    BY <2>1, <2>3, CiMoves DEF CiStart, StartIn
  <2> QED
    BY <2>2, <2>3
<1>3. TypeOK'
  BY <1>0, <1>1, <1>2 DEF TypeOK, CFTypeOK, buildVars
<1>4. attempt' \in [CiBuilds -> 0..1]
  <2>1. attempt \in [CiBuilds -> 0..1] /\ 1 - attempt[c] \in 0..1
    BY DEF CiTypeOK
  <2> QED
    BY <2>1 DEF CiStep, CiBegin, CiPush, CiStart, CiPushFails, UploadManifest, UploadJar, CiDies
<1>5. manifestOf' \in [Apps -> CiBuilds \cup {NoBuild}] /\ jarOf' \in [Apps -> CiBuilds \cup {NoBuild}]
  BY CiMoves DEF CiTypeOK, UploadManifest, UploadJar
<1>6. crossed' \in [CiBuilds -> SUBSET CiBuilds]
  BY CiMoves DEF CiTypeOK, UploadManifest
<1> QED
  BY <1>0, <1>3, <1>4, <1>5, <1>6 DEF CiTypeOK

LEMMA RedeployStepTyped ==
  ASSUME CiTypeOK, NEW b \in Builds, RedeployStep(b)
  PROVE  CiTypeOK'
<1>0. /\ TypeOK /\ manifestGot \in [Builds -> CiBuilds \cup {NoBuild}]
      /\ jarSeen \in [Builds -> CiBuilds \cup {NoBuild}]
  BY DEF CiTypeOK
<1>1. TypeOK'
  <2>1. CASE Step(b)
    BY <1>0, <2>1, StepTypeOK
  <2>2. CASE UNCHANGED vars
    BY <1>0, <2>2, TypeOKKept
  <2>3. CASE DownloadFails(b)
    BY <1>0, <2>3, FailsQuietly DEF TypeOK, CFTypeOK
  <2> QED
    BY <2>1, <2>2, <2>3, RedeployMoves
<1>2. /\ manifestGot' \in [Builds -> CiBuilds \cup {NoBuild}]
      /\ jarSeen' \in [Builds -> CiBuilds \cup {NoBuild}]
  <2>1. CASE DownloadManifest(b)
    BY <1>0, <2>1, NamesOfBuild DEF DownloadManifest, CiTypeOK
  <2> QED
    BY <1>0, <2>1, RedeployMoves
<1> QED
  BY <1>1, <1>2, RedeployMoves DEF CiTypeOK

LEMMA CiStutterTyped ==
  ASSUME CiTypeOK, UNCHANGED allVars
  PROVE  CiTypeOK'
<1>1. TypeOK'
  BY TypeOKKept DEF CiTypeOK, allVars
<1> QED
  BY <1>1 DEF CiTypeOK, allVars, ciVars, repository, downloads

LEMMA CiTypeOKKept ==
  ASSUME CiTypeOK, [CiNext]_allVars
  PROVE  CiTypeOK'
  BY CiStepTyped, RedeployStepTyped, CiStutterTyped DEF CiNext

LEMMA CiInitTyped == CiInit => CiTypeOK
  BY InitTypeOK DEF CiInit, CiTypeOK

\* Whatever the settings of Redeploy's job, every reachable state of the two jobs is well typed
\* (the state of Redeploy.groovy, of github_pipeline.groovy:187-208 and of the repository).
THEOREM CiRedeployTypeCorrect == CiSpec => []CiTypeOK
<1>1. CiTypeOK /\ [CiNext]_allVars => CiTypeOK'
  BY CiTypeOKKept
<1> QED
  BY CiInitTyped, <1>1, PTL DEF CiSpec

-----------------------------------------------------------------------------
(* What the CI relies on, whatever the settings of Redeploy's job *)

\* Who has displaced a CI build stays so: builds do not go back to where they began.
LEMMA DisplacedStays ==
  ASSUME CiTypeOK, NEW c \in CiBuilds, Displaced(c), UNCHANGED req,
         \A d \in CiBuilds : PastPush(d) => PastPush(d)',
         \A b \in Builds : pc[b] \in {"rename", "cleanup"} \cup Ended
                             => pc'[b] \in {"rename", "cleanup"} \cup Ended
  PROVE  Displaced(c)'
  BY DEF Displaced

LEMMA CiPastPush ==
  ASSUME CiTypeOK, NEW c \in CiBuilds, CiStep(c), NEW d \in CiBuilds, PastPush(d)
  PROVE  PastPush(d)'
<1>0. attempt \in [CiBuilds -> 0..1] /\ attempt[c] \in 0..1
  BY DEF CiTypeOK
<1>1. CASE d # c
  <2>1. ciPc'[d] = ciPc[d]
    BY <1>1, CiMoves
  <2>2. attempt'[d] = attempt[d]
    BY <1>0, <1>1 DEF CiStep, CiBegin, CiPush, CiStart, CiPushFails, UploadManifest, UploadJar, CiDies
  <2> QED
    BY <2>1, <2>2 DEF PastPush
<1>2. CASE d = c
  <2>1. CASE CiPushFails(c)
    BY <1>0, <1>2, <2>1, CiMoves DEF PastPush, CiPushFails, CiGoto, CiTypeOK
  <2>2. CASE ~ CiPushFails(c)
    BY <1>0, <1>2, <2>2, CiMoves DEF PastPush, CiStep
  <2> QED
    BY <2>1, <2>2
<1> QED
  BY <1>1, <1>2

\* A step of the CI puts its droplet in its place, and displaces only builds of its artifact.
LEMMA CiStepPlaces ==
  ASSUME CiInv, NEW c \in CiBuilds, CiStep(c)
  PROVE  CiPlaces' /\ \A d \in CiBuilds : PushedOrDisplaced(d)'
<1>0. /\ CFTypeOK /\ CiPlaces /\ CiTypeOK /\ \A d \in CiBuilds : PushedOrDisplaced(d)
      /\ \A d \in CiBuilds : DevApp(d)' = DevApp(d)
      /\ UNCHANGED <<pc, req>>
  BY CiMoves DEF CiInv, CiTypeOK, TypeOK, DevApp, buildVars
<1>1. \A d \in CiBuilds : DevApp(d) = DevApp(c) <=> ArtifactOf[d] = ArtifactOf[c]
  BY DEF DevApp
<1>2. CiPlaces'
  <2>1. \A x \in AppNames : apps'[x].bits = apps[x].bits \/ (x = DevApp(c) /\ apps'[x].bits = c)
    BY <1>0, CiMoves, CiEffects
  <2> QED
    BY <1>0, <2>1 DEF CiPlaces, DevApp
<1>3. \A d \in CiBuilds : Displaced(d) => Displaced(d)'
  <2>1. \A d \in CiBuilds : PastPush(d) => PastPush(d)'
    BY <1>0, CiPastPush
  <2> QED
    BY <1>0, <2>1, DisplacedStays
<1>4. ASSUME NEW d \in CiBuilds PROVE PushedOrDisplaced(d)'
  <2>0. DevApp(d) \in AppNames /\ DevApp(c) \in AppNames
    BY CiNames
  <2>1. CASE d = c
    <3>1. CASE CiPush(c)
      BY <1>0, <2>1, <3>1, CiMoves, CiEffects DEF PushedOrDisplaced
    <3>2. CASE CiStart(c)
      BY <1>0, <1>3, <2>1, <3>2, CiMoves, CiEffects DEF PushedOrDisplaced
    <3>3. CASE ~ CiPush(c) /\ ~ CiStart(c)
      <4>1. /\ apps' = apps
            /\ ciPc'[c] \notin {"push", "dead", "done"} => ciPc[c] = "manifest" /\ ciPc'[c] = "jar"
        BY <1>0, <3>3, CiMoves DEF CiStep
      <4> QED
        BY <1>0, <1>3, <2>1, <4>1 DEF PushedOrDisplaced
    <3> QED
      BY <3>1, <3>2, <3>3
  <2>2. CASE d # c /\ ArtifactOf[d] = ArtifactOf[c]
    <3>1. ciPc'[d] = ciPc[d] /\ DevApp(d) = DevApp(c)
      BY <1>0, <1>1, <2>2, CiMoves
    <3>2. CASE CiPush(c)
      <4>1. apps'[DevApp(d)].bits = c /\ ciPc'[c] = "start"
        BY <1>0, <3>1, <3>2, CiMoves, CiEffects
      <4>2. Displaced(d)'
        BY <2>2, <4>1 DEF Displaced, PastPush
      <4> QED
        BY <1>0, <2>2, <4>1, <4>2 DEF PushedOrDisplaced
    <3>3. CASE CiStart(c)
      <4>1. apps'[DevApp(d)].bits = apps[DevApp(d)].bits /\ apps'[DevApp(d)].up
        BY <1>0, <3>1, <3>3, CiEffects
      <4> QED
        BY <1>0, <1>3, <3>1, <4>1 DEF PushedOrDisplaced
    <3>4. CASE ~ CiPush(c) /\ ~ CiStart(c)
      <4>1. apps' = apps
        BY <1>0, <3>4, CiMoves
      <4> QED
        BY <1>0, <1>3, <3>1, <4>1 DEF PushedOrDisplaced
    <3> QED
      BY <3>2, <3>3, <3>4
  <2>3. CASE ArtifactOf[d] # ArtifactOf[c]
    <3>1. d # c /\ ciPc'[d] = ciPc[d] /\ apps'[DevApp(d)] = apps[DevApp(d)]
      BY <1>0, <1>1, <2>0, <2>3, CiMoves, CiEffects
    <3> QED
      BY <1>0, <1>3, <3>1 DEF PushedOrDisplaced
  <2> QED
    BY <2>1, <2>2, <2>3
<1> QED
  BY <1>2, <1>4

\* An upload keeps account of who put what.
LEMMA CiStepProvenance ==
  ASSUME CiInv, NEW c \in CiBuilds, CiStep(c)
  PROVE  Provenance'
<1>0. /\ CiTypeOK /\ Provenance /\ UNCHANGED <<req, manifestGot, jarSeen>>
      /\ manifestOf \in [Apps -> CiBuilds \cup {NoBuild}] /\ jarOf \in [Apps -> CiBuilds \cup {NoBuild}]
      /\ manifestGot \in [Builds -> CiBuilds \cup {NoBuild}]
      /\ jarSeen \in [Builds -> CiBuilds \cup {NoBuild}]
      /\ ArtifactOf[c] \in Apps
  BY CiMoves, CiNames DEF CiInv, CiTypeOK, buildVars, Uploads
<1>1. /\ \A d \in CiBuilds : ciPc[d] \in {"jar", "done", "dead"} => ciPc'[d] \in {"jar", "done", "dead"}
      /\ \A d \in CiBuilds : ciPc[d] = "done" => ciPc'[d] = "done"
  BY <1>0, CiMoves DEF CiStep
<1>2. ASSUME NEW a \in Apps, manifestOf'[a] # NoBuild
      PROVE  ArtifactOf[manifestOf'[a]] = a /\ ciPc'[manifestOf'[a]] \in {"jar", "done", "dead"}
  <2>1. CASE UploadManifest(c) /\ a = ArtifactOf[c]
    <3>1. manifestOf'[a] = c /\ ciPc'[c] = "jar"
      BY <1>0, <2>1, CiMoves DEF UploadManifest
    <3> QED
      BY <2>1, <3>1
  <2>2. CASE ~ UploadManifest(c) \/ a # ArtifactOf[c]
    <3>1. manifestOf'[a] = manifestOf[a]
      BY <1>0, <2>2, CiMoves DEF UploadManifest
    <3>2. manifestOf[a] \in CiBuilds
      BY <1>0, <1>2, <3>1
    <3>3. ArtifactOf[manifestOf[a]] = a /\ ciPc[manifestOf[a]] \in {"jar", "done", "dead"}
      BY <1>0, <1>2, <3>1 DEF Provenance, ManifestGone
    <3> QED
      BY <1>1, <3>1, <3>2, <3>3
  <2> QED
    BY <2>1, <2>2
<1>3. ASSUME NEW a \in Apps, jarOf'[a] # NoBuild
      PROVE  ArtifactOf[jarOf'[a]] = a /\ ciPc'[jarOf'[a]] = "done"
  <2>1. CASE UploadJar(c) /\ a = ArtifactOf[c]
    <3>1. jarOf'[a] = c /\ ciPc'[c] = "done"
      BY <1>0, <2>1, CiMoves DEF UploadJar
    <3> QED
      BY <2>1, <3>1
  <2>2. CASE ~ UploadJar(c) \/ a # ArtifactOf[c]
    <3>1. jarOf'[a] = jarOf[a]
      BY <1>0, <2>2, CiMoves DEF UploadJar
    <3>2. jarOf[a] \in CiBuilds
      BY <1>0, <1>3, <3>1
    <3>3. ArtifactOf[jarOf[a]] = a /\ ciPc[jarOf[a]] = "done"
      BY <1>0, <1>3, <3>1 DEF Provenance
    <3> QED
      BY <1>1, <3>1, <3>2, <3>3
  <2> QED
    BY <2>1, <2>2
<1>4. ASSUME NEW b \in Builds, manifestGot[b] # NoBuild
      PROVE  ArtifactOf[manifestGot[b]] = req[b].app /\ ciPc'[manifestGot[b]] \in {"jar", "done", "dead"}
  <2>1. manifestGot[b] \in CiBuilds
    BY <1>0, <1>4
  <2>2. ArtifactOf[manifestGot[b]] = req[b].app /\ ciPc[manifestGot[b]] \in {"jar", "done", "dead"}
    BY <1>0, <1>4 DEF Provenance, ManifestGone
  <2> QED
    BY <1>1, <2>1, <2>2
<1>5. ASSUME NEW b \in Builds, jarSeen[b] # NoBuild
      PROVE  ciPc'[jarSeen[b]] = "done"
  <2>1. jarSeen[b] \in CiBuilds /\ ciPc[jarSeen[b]] = "done"
    BY <1>0, <1>5 DEF Provenance
  <2> QED
    BY <1>1, <2>1
<1> QED
  BY <1>0, <1>2, <1>3, <1>4, <1>5 DEF Provenance, ManifestGone

\* A race stays one while the jar is the same: an unfinished build that finishes puts its jar.
LEMMA RacedStays ==
  ASSUME CiInv, NEW c \in CiBuilds, CiStep(c), NEW m \in CiBuilds, NEW j \in CiBuilds \cup {NoBuild},
         Raced(m, j)
  PROVE  RacedIn(ciPc', crossed', m, j) \/ (UploadJar(c) /\ c = m)
<1>0. CiTypeOK /\ crossed \in [CiBuilds -> SUBSET CiBuilds]
  BY DEF CiInv, CiTypeOK
<1>1. \A d \in CiBuilds : crossed[d] \subseteq crossed'[d]
  BY <1>0, CiMoves DEF UploadManifest
<1>2. ciPc[m] \in {"jar", "dead"} => ciPc'[m] \in {"jar", "dead"} \/ (UploadJar(c) /\ c = m)
  BY <1>0, CiMoves DEF CiStep
<1> QED
  BY <1>1, <1>2 DEF Raced, RacedIn

\* What the repository mixes, and how a download may, after an upload.
LEMMA CiStepRaced ==
  ASSUME CiInv, NEW c \in CiBuilds, CiStep(c)
  PROVE  RepositoryRaced' /\ \A b \in Builds : DownloadRaced(b)'
<1> DEFINE a == ArtifactOf[c]
<1>0. /\ CiTypeOK /\ Provenance /\ RepositoryRaced /\ \A b \in Builds : DownloadRaced(b)
      /\ UNCHANGED <<req, manifestGot, jarSeen>>
      /\ manifestOf \in [Apps -> CiBuilds \cup {NoBuild}] /\ jarOf \in [Apps -> CiBuilds \cup {NoBuild}]
      /\ manifestGot \in [Builds -> CiBuilds \cup {NoBuild}]
      /\ crossed \in [CiBuilds -> SUBSET CiBuilds]
      /\ a \in Apps /\ \A b \in Builds : req[b].app \in Apps
  BY CiMoves, CiNames, NamesOfBuild DEF CiInv, CiTypeOK, buildVars, Uploads
<1>c. \A d \in CiBuilds : ArtifactOf[d] \in Apps /\ d # NoBuild
  BY CiNames
<1> HIDE DEF a
<1>m. /\ \A d \in CiBuilds \ {c} : ciPc'[d] = ciPc[d]
      /\ UploadManifest(c) => /\ ciPc'[c] = "jar" /\ manifestOf' = [manifestOf EXCEPT ![a] = c]
                              /\ jarOf' = jarOf
                              /\ \A d \in CiBuilds : crossed'[d] = IF d \in Between(c) THEN crossed[d] \cup {c}
                                                                                         ELSE crossed[d]
      /\ UploadJar(c) => /\ ciPc[c] = "jar" /\ ciPc'[c] = "done" /\ jarOf' = [jarOf EXCEPT ![a] = c]
                         /\ manifestOf' = manifestOf /\ crossed' = crossed
      /\ ~ UploadManifest(c) /\ ~ UploadJar(c) =>
           ciPc'[c] # "jar" /\ UNCHANGED <<manifestOf, jarOf, crossed>>
  BY <1>0, CiMoves DEF CiStep, UploadManifest, UploadJar, a
\* Who crosses a build between its uploads.
<1>1. ASSUME NEW d \in CiBuilds, ciPc'[d] = "jar"
      PROVE  LET m == manifestOf'[ArtifactOf[d]] IN m = d \/ m \in crossed'[d]
  <2>1. CASE UploadManifest(c)
    <3>1. CASE d = c
      BY <1>0, <1>m, <2>1, <3>1 DEF a
    <3>2. CASE d # c /\ ArtifactOf[d] = a
      BY <1>0, <1>1, <1>m, <2>1, <3>2 DEF Between, a
    <3>3. CASE d # c /\ ArtifactOf[d] # a
      BY <1>0, <1>1, <1>c, <1>m, <2>1, <3>3 DEF RepositoryRaced
    <3> QED
      BY <3>1, <3>2, <3>3
  <2>2. CASE ~ UploadManifest(c)
    <3>1. ciPc[d] = "jar" /\ manifestOf' = manifestOf /\ crossed' = crossed
      BY <1>1, <1>m, <2>2
    <3> QED
      BY <1>0, <3>1 DEF RepositoryRaced
  <2> QED
    BY <2>1, <2>2
\* What the repository has.
<1>2. ASSUME NEW e \in Apps, manifestOf'[e] # NoBuild
      PROVE  RacedIn(ciPc', crossed', manifestOf'[e], jarOf'[e])
  <2>1. CASE UploadManifest(c) /\ e = a
    <3>1. manifestOf'[e] = c /\ ciPc'[c] = "jar"
      BY <1>0, <1>m, <2>1
    <3> QED
      BY <3>1 DEF RacedIn
  <2>2. CASE UploadJar(c) /\ e = a
    <3>1. manifestOf'[e] = manifestOf[e] /\ jarOf'[e] = c /\ crossed' = crossed /\ ciPc[c] = "jar"
      BY <1>0, <1>m, <2>2
    <3>2. manifestOf[e] = c \/ manifestOf[e] \in crossed[c]
      BY <1>0, <2>2, <3>1 DEF RepositoryRaced, a
    <3> QED
      BY <3>1, <3>2 DEF RacedIn
  <2>3. CASE ~ (UploadManifest(c) /\ e = a) /\ ~ (UploadJar(c) /\ e = a)
    <3>1. manifestOf'[e] = manifestOf[e] /\ jarOf'[e] = jarOf[e]
      BY <1>0, <1>m, <2>3
    <3>2. manifestOf[e] \in CiBuilds /\ jarOf[e] \in CiBuilds \cup {NoBuild} /\ Raced(manifestOf[e], jarOf[e])
      BY <1>0, <1>2, <3>1 DEF RepositoryRaced
    <3>3. ~ (UploadJar(c) /\ c = manifestOf[e])
      BY <1>0, <1>2, <2>3, <3>1 DEF Provenance, a
    <3>4. ASSUME NEW m \in CiBuilds, NEW j \in CiBuilds \cup {NoBuild}, m = manifestOf[e], j = jarOf[e]
          PROVE  RacedIn(ciPc', crossed', m, j)
      BY <3>2, <3>3, <3>4, RacedStays
    <3>5. ASSUME NEW m \in CiBuilds, NEW j \in CiBuilds \cup {NoBuild}, m = manifestOf[e], j = jarOf[e]
          PROVE  RacedIn(ciPc', crossed', manifestOf'[e], jarOf'[e])
      BY <3>1, <3>4, <3>5
    <3> QED
      BY <3>2, <3>5
  <2> QED
    BY <2>1, <2>2, <2>3
<1>3. RepositoryRaced'
  BY <1>1, <1>2 DEF RepositoryRaced, Raced
\* What a build of Redeploy may get.
<1>4. ASSUME NEW b \in Builds
      PROVE  DownloadRaced(b)'
  <2> SUFFICES ASSUME NEW m \in CiBuilds, m = manifestGot[b]
               PROVE  RacedIn(ciPc', crossed', m, jarOf'[req[b].app]) \/ jarOf'[req[b].app] # jarSeen[b]
    BY <1>0, <1>c DEF DownloadRaced, Raced
  <2>1. CASE UploadJar(c) /\ req[b].app = a
    <3>1. jarOf'[req[b].app] = c /\ ciPc[c] = "jar"
      BY <1>0, <1>m, <2>1
    <3>2. c # jarSeen[b]
      BY <1>0, <1>c, <3>1 DEF Provenance
    <3> QED
      BY <3>1, <3>2
  <2>2. CASE ~ (UploadJar(c) /\ req[b].app = a)
    <3>1. PICK j \in CiBuilds \cup {NoBuild} : j = jarOf[req[b].app] /\ jarOf'[req[b].app] = j
      BY <1>0, <1>m, <2>2
    <3>2. Raced(m, j) \/ j # jarSeen[b]
      BY <1>0, <1>c, <3>1 DEF DownloadRaced
    <3>3. ~ (UploadJar(c) /\ c = m)
      BY <1>0, <1>c, <2>2 DEF Provenance, a
    <3>4. RacedIn(ciPc', crossed', m, j) \/ j # jarSeen[b]
      BY <3>2, <3>3, RacedStays
    <3> QED
      BY <3>1, <3>4
  <2> QED
    BY <2>1, <2>2
<1> QED
  BY <1>3, <1>4

\* Where a step of Redeploy takes droplets, whatever space its client is in: it pushes its own,
\* renames an X-temp, deletes, and stops nothing that it does not push over.
LEMMA WhereDropletsGo ==
  ASSUME TypeOK, NEW b \in Builds, Step(b), NEW x \in AppNames
  PROVE  \/ apps'[x].bits = apps[x].bits /\ (apps[x].up => apps'[x].up)
         \/ apps'[x].bits \in {b, NoBuild}
         \/ \E y \in AppNames : y[3] = "temp" /\ apps'[x] = apps[y]
<1> DEFINE g == agent[b]
           a == req[b].app
           t == <<target[g], a, "temp">>
           Fine == \/ apps'[x].bits = apps[x].bits /\ (apps[x].up => apps'[x].up)
                   \/ apps'[x].bits \in {b, NoBuild}
                   \/ \E y \in AppNames : y[3] = "temp" /\ apps'[x] = apps[y]
<1>0. apps \in [AppNames -> AppState]
  BY DEF TypeOK, CFTypeOK
<1> HIDE DEF Fine
<1>1. ASSUME apps'[x] = apps[x] PROVE Fine
  BY <1>1 DEF Fine
<1>2. CASE Push(b)
  <2>1. x # t => apps'[x] = apps[x]
    BY <1>2 DEF Push, CfPush, PushTo
  <2>2. x = t => apps'[x] = [bits |-> b, up |-> FALSE, routes |-> apps[x].routes \cup {TempRoute(b)}]
    BY <1>0, <1>2 DEF Push, CfPush, PushTo
  <2> QED
    BY <1>1, <2>1, <2>2 DEF Fine
<1>3. CASE StartApp(b)
  <2>1. x # t => apps'[x] = apps[x]
    BY <1>3 DEF StartApp, CfStart, StartIn
  <2>2. x = t => apps'[x] = [bits |-> apps[x].bits, up |-> TRUE, routes |-> apps[x].routes]
    BY <1>0, <1>3 DEF StartApp, CfStart, StartIn
  <2> QED
    BY <1>1, <2>1, <2>2 DEF Fine
<1>4. ASSUME apps'[x].bits = apps[x].bits, apps'[x].up = apps[x].up PROVE Fine
  BY <1>4 DEF Fine
<1>5. CASE MapLive(b)
  <2>1. x # t => apps'[x] = apps[x]
    BY <1>5 DEF MapLive, CfMapRoute
  <2>2. x = t => apps'[x] = [bits |-> apps[x].bits, up |-> apps[x].up,
                             routes |-> apps[x].routes \cup {LiveRoute(b)}]
    BY <1>0, <1>5 DEF MapLive, CfMapRoute, WithRoutes
  <2> QED
    BY <1>1, <1>4, <2>1, <2>2
<1>6. CASE UnmapOld(b)
  <2> DEFINE l == <<target[g], a, "live">>
  <2>1. x # l => apps'[x] = apps[x]
    BY <1>0, <1>6 DEF UnmapOld, CfUnmapRoute, cfVars
  <2>2. ~ found[b] => apps'[x] = apps[x]
    BY <1>6 DEF UnmapOld, cfVars
  <2>3. x = l /\ found[b] => apps'[x] = [bits |-> apps[x].bits, up |-> apps[x].up,
                                         routes |-> apps[x].routes \ {LiveRoute(b)}]
    BY <1>0, <1>6 DEF UnmapOld, CfUnmapRoute, WithRoutes
  <2> QED
    BY <1>1, <1>4, <2>1, <2>2, <2>3
<1>7. CASE UnmapTemp(b)
  <2>1. x # t => apps'[x] = apps[x]
    BY <1>7 DEF UnmapTemp, CfUnmapRoute
  <2>2. x = t => apps'[x] = [bits |-> apps[x].bits, up |-> apps[x].up,
                             routes |-> apps[x].routes \ {TempRoute(b)}]
    BY <1>0, <1>7 DEF UnmapTemp, CfUnmapRoute, WithRoutes
  <2> QED
    BY <1>1, <1>4, <2>1, <2>2
<1>8. CASE DeleteTempRoute(b)
  <2>1. CASE owner[TempRoute(b)] = target[agent[b]]
    <3>1. apps'[x] = [bits |-> apps[x].bits, up |-> apps[x].up, routes |-> apps[x].routes \ {TempRoute(b)}]
      BY <1>8, <2>1 DEF DeleteTempRoute, CfDeleteRoute, WithRoutes
    <3> QED
      BY <3>1 DEF Fine
  <2>2. CASE owner[TempRoute(b)] # target[agent[b]]
    BY <1>1, <1>8, <2>2 DEF DeleteTempRoute, CfDeleteRoute, cfVars
  <2> QED
    BY <2>1, <2>2
<1>9. CASE DeleteOld(b)
  <2>1. apps'[x] = apps[x] \/ apps'[x] = Absent
    BY <1>0, <1>9 DEF DeleteOld, CfDelete, cfVars
  <2> QED
    BY <1>1, <2>1 DEF Fine, Absent
<1>10. CASE RenameTemp(b)
  <2>1. t \in AppNames /\ t[3] = "temp"
    BY <1>10, NamesOfBuild, TwoSlots
       DEF RenameTemp, Command, CommandOK, CfRenameOK, LoggedIn, AppNames
  <2>2. apps'[x] = apps[x] \/ apps'[x] = Absent \/ apps'[x] = apps[t]
    BY <1>0, <1>10, <2>1 DEF RenameTemp, CfRename
  <2> QED
    BY <1>1, <2>1, <2>2 DEF Fine, Absent
<1> QED
  BY <1>1, <1>2, <1>3, <1>5, <1>6, <1>7, <1>8, <1>9, <1>10
     DEF Step, Advance, StartBuild, Prepare, ChooseVersion, Login, CfLogin, Download, CheckOld, Cleanup,
     CommandRefused, Abort, cfVars, Fine

\* It touches an X only to delete it or to rename X-temp to it, and is past that point then.
LEMMA WhenLiveChanges ==
  ASSUME TypeOK, NEW b \in Builds, Step(b), NEW x \in AppNames, x[3] = "live"
  PROVE  \/ apps'[x].bits = apps[x].bits /\ (apps[x].up => apps'[x].up)
         \/ x[2] = req[b].app /\ pc'[b] \in {"rename", "cleanup"}
<1> DEFINE t == <<target[agent[b]], req[b].app, "temp">>
           l == <<target[agent[b]], req[b].app, "live">>
           Same == apps'[x].bits = apps[x].bits /\ (apps[x].up => apps'[x].up)
<1>0. /\ apps \in [AppNames -> AppState] /\ pc \in [Builds -> {"queued"} \cup Steps \cup Ended]
      /\ x # t
  BY DEF TypeOK, CFTypeOK
<1>1. ASSUME apps'[x] = apps[x] PROVE Same
  BY <1>1
<1>2. CASE Push(b) \/ StartApp(b) \/ MapLive(b) \/ UnmapTemp(b)
  BY <1>0, <1>1, <1>2
     DEF Push, CfPush, PushTo, StartApp, CfStart, StartIn, MapLive, CfMapRoute, UnmapTemp, CfUnmapRoute
<1>3. CASE UnmapOld(b)
  <2>1. apps'[x] = apps[x] \/ apps'[x] = [bits |-> apps[x].bits, up |-> apps[x].up,
                                          routes |-> apps[x].routes \ {LiveRoute(b)}]
    BY <1>0, <1>3 DEF UnmapOld, CfUnmapRoute, WithRoutes, cfVars
  <2> QED
    BY <2>1
<1>4. CASE DeleteTempRoute(b)
  <2>1. apps'[x] = apps[x] \/ apps'[x] = [bits |-> apps[x].bits, up |-> apps[x].up,
                                          routes |-> apps[x].routes \ {TempRoute(b)}]
    BY <1>4 DEF DeleteTempRoute, CfDeleteRoute, WithRoutes, cfVars
  <2> QED
    BY <2>1
<1>5. CASE DeleteOld(b) \/ RenameTemp(b)
  <2>1. pc'[b] \in {"rename", "cleanup"}
    BY <1>0, <1>5 DEF DeleteOld, RenameTemp, Command, Goto
  <2>2. apps'[x] = apps[x] \/ x = l
    BY <1>0, <1>5 DEF DeleteOld, RenameTemp, CfDelete, CfRename, cfVars
  <2> QED
    BY <1>1, <2>1, <2>2
<1> QED
  BY <1>1, <1>2, <1>3, <1>4, <1>5
     DEF Step, Advance, StartBuild, Prepare, ChooseVersion, Login, CfLogin, Download, CheckOld, Cleanup,
     CommandRefused, Abort, cfVars

\* The request of a build is its own, and a build past the deletion stays so.
LEMMA StepGoesOn ==
  ASSUME TypeOK, NEW b \in Builds, Step(b)
  PROVE  /\ req' = req
         /\ \A c \in Builds : pc[c] \in {"rename", "cleanup"} \cup Ended
                                => pc'[c] \in {"rename", "cleanup"} \cup Ended
<1> USE DEF Command, Goto, Running
<1>1. req' = req /\ \E s : pc' = [pc EXCEPT ![b] = s]
  BY DEF Step, Advance, StartBuild, Prepare, ChooseVersion, Login, Download, Push,
     StartApp, CheckOld, MapLive, UnmapOld, UnmapTemp, DeleteTempRoute, DeleteOld, RenameTemp, Cleanup,
     CommandRefused, Abort
<1>2. pc \in [Builds -> {"queued"} \cup Steps \cup Ended]
  BY DEF TypeOK
<1>3. pc[b] \in {"rename", "cleanup"} \cup Ended => pc'[b] \in {"rename", "cleanup"} \cup Ended
  BY <1>2
     DEF Step, Advance, StartBuild, Prepare, ChooseVersion, Login, Download, Push,
     StartApp, CheckOld, MapLive, UnmapOld, UnmapTemp, DeleteTempRoute, DeleteOld, RenameTemp, Cleanup,
     CommandRefused, Abort, Steps, Ended
<1> QED
  BY <1>1, <1>2, <1>3

\* A Redeploy moves nothing of the CI's, and what it takes from a CI build it has displaced.
LEMMA RedeployStepPlaces ==
  ASSUME CiInv, NEW b \in Builds, Step(b), UNCHANGED <<ciPc, attempt>>
  PROVE  CiPlaces' /\ \A d \in CiBuilds : PushedOrDisplaced(d)'
<1>0. TypeOK /\ CiTypeOK /\ CiPlaces /\ \A d \in CiBuilds : PushedOrDisplaced(d)
  BY DEF CiInv, CiTypeOK
<1>t. \A y \in AppNames : y[3] = "temp" => apps[y].bits \in Builds \cup {NoBuild}
  BY <1>0 DEF CiPlaces, DevApp
<1>1. \A x \in AppNames :
        \/ apps'[x].bits = apps[x].bits /\ (apps[x].up => apps'[x].up)
        \/ apps'[x].bits \in Builds \cup {NoBuild}
  BY <1>0, <1>t, WhereDropletsGo
<1>2. \A d \in CiBuilds : /\ DevApp(d) \in AppNames /\ d \notin Builds /\ d # NoBuild
                          /\ DevApp(d)' = DevApp(d) /\ DevApp(d)[3] = "live" /\ DevApp(d)[2] = ArtifactOf[d]
  BY CiNames DEF DevApp
<1>3. CiPlaces'
  <2> SUFFICES ASSUME NEW x \in AppNames
               PROVE  /\ apps'[x].bits \in Builds \cup CiBuilds \cup {NoBuild}
                      /\ apps'[x].bits \in CiBuilds => x = DevApp(apps'[x].bits)
    BY DEF CiPlaces, DevApp
  <2>1. CASE apps'[x].bits = apps[x].bits
    BY <1>0, <2>1 DEF CiPlaces
  <2>2. CASE apps'[x].bits \in Builds \cup {NoBuild}
    BY <1>2, <2>2
  <2> QED
    BY <1>1, <2>1, <2>2
<1>4. /\ req' = req
      /\ \A d \in CiBuilds : Displaced(d) => Displaced(d)'
  BY <1>0, StepGoesOn, DisplacedStays DEF PastPush
<1>5. ASSUME NEW d \in CiBuilds PROVE PushedOrDisplaced(d)'
  <2>1. CASE apps'[DevApp(d)].bits = apps[DevApp(d)].bits /\ (apps[DevApp(d)].up => apps'[DevApp(d)].up)
    BY <1>0, <1>2, <1>4, <2>1 DEF PushedOrDisplaced
  <2>2. CASE ~ (apps'[DevApp(d)].bits = apps[DevApp(d)].bits /\ (apps[DevApp(d)].up => apps'[DevApp(d)].up))
    <3>1. ArtifactOf[d] = req[b].app /\ pc'[b] \in {"rename", "cleanup"}
      BY <1>0, <1>2, <2>2, WhenLiveChanges
    <3>2. Displaced(d)'
      BY <1>4, <3>1 DEF Displaced
    <3>3. apps'[DevApp(d)].bits # d
      BY <1>1, <1>2, <2>2
    <3> QED
      BY <1>2, <3>2, <3>3 DEF PushedOrDisplaced
  <2> QED
    BY <2>1, <2>2
<1> QED
  BY <1>3, <1>5

\* What a Redeploy downloads it takes from the repository as it is.
LEMMA RedeployStepUploads ==
  ASSUME CiInv, NEW b \in Builds, RedeployStep(b)
  PROVE  Uploads'
<1>0. /\ UNCHANGED <<ciPc, manifestOf, jarOf, crossed>> /\ TypeOK /\ CiTypeOK
      /\ Provenance /\ RepositoryRaced /\ \A d \in Builds : DownloadRaced(d)
      /\ manifestGot \in [Builds -> CiBuilds \cup {NoBuild}]
      /\ jarSeen \in [Builds -> CiBuilds \cup {NoBuild}]
  BY RedeployMoves DEF CiInv, CiTypeOK, Uploads
<1>1. req' = req
  BY <1>0, RedeployMoves, StepGoesOn, FailsQuietly DEF vars, buildVars
<1>2. RepositoryRaced'
  BY <1>0 DEF RepositoryRaced, Raced
<1>3. ASSUME NEW d \in Builds
      PROVE  /\ manifestGot'[d] # NoBuild =>
                  ArtifactOf[manifestGot'[d]] = req[d].app /\ ciPc[manifestGot'[d]] \in {"jar", "done", "dead"}
             /\ jarSeen'[d] # NoBuild => ciPc[jarSeen'[d]] = "done"
             /\ manifestGot'[d] # NoBuild =>
                  Raced(manifestGot'[d], jarOf[req[d].app]) \/ jarOf[req[d].app] # jarSeen'[d]
  <2>1. CASE UNCHANGED <<manifestGot, jarSeen>>
    BY <1>0, <2>1 DEF Provenance, ManifestGone, DownloadRaced
  <2>2. CASE DownloadManifest(b) /\ d # b
    <3>1. manifestGot'[d] = manifestGot[d] /\ jarSeen'[d] = jarSeen[d]
      BY <1>0, <2>2 DEF DownloadManifest
    <3> QED
      BY <1>0, <3>1 DEF Provenance, ManifestGone, DownloadRaced
  <2>3. CASE DownloadManifest(b) /\ d = b
    <3>1. manifestGot'[d] = manifestOf[req[d].app] /\ jarSeen'[d] = jarOf[req[d].app] /\ req[d].app \in Apps
      BY <1>0, <2>3, NamesOfBuild DEF DownloadManifest
    <3> QED
      BY <1>0, <3>1 DEF Provenance, ManifestGone, RepositoryRaced
  <2> QED
    BY <2>1, <2>2, <2>3, RedeployMoves
<1>4. Provenance'
  BY <1>0, <1>1, <1>3 DEF Provenance, ManifestGone
<1>5. \A d \in Builds : DownloadRaced(d)'
  BY <1>0, <1>1, <1>3 DEF DownloadRaced, Raced
<1> QED
  BY <1>2, <1>4, <1>5 DEF Uploads

LEMMA CiInvKept ==
  ASSUME CiInv, [CiNext]_allVars
  PROVE  CiInv'
<1>0. CiTypeOK'
  BY CiTypeOKKept DEF CiInv
<1>1. ASSUME NEW c \in CiBuilds, CiStep(c) PROVE CiInv'
  BY <1>0, <1>1, CiStepPlaces, CiStepProvenance, CiStepRaced DEF CiInv, Uploads
<1>2. ASSUME UNCHANGED <<apps, pc, req, ciPc, attempt>>
      PROVE  CiPlaces' /\ \A d \in CiBuilds : PushedOrDisplaced(d)'
  BY <1>2 DEF CiInv, CiPlaces, PushedOrDisplaced, Displaced, PastPush, DevApp
<1>3. ASSUME NEW b \in Builds, RedeployStep(b) PROVE CiInv'
  <2>0. TypeOK /\ CiTypeOK /\ UNCHANGED <<ciPc, attempt>>
    BY <1>3, RedeployMoves DEF CiInv, CiTypeOK
  <2>1. CASE Step(b)
    BY <1>0, <1>3, <2>0, <2>1, RedeployStepPlaces, RedeployStepUploads DEF CiInv
  <2>2. CASE UNCHANGED vars
    BY <1>0, <1>2, <1>3, <2>0, <2>2, RedeployStepUploads DEF CiInv, vars, cfVars, buildVars
  <2>3. CASE DownloadFails(b)
    <3>1. /\ UNCHANGED <<apps, req>> /\ pc'[b] \in Ended /\ \A c \in Builds \ {b} : pc'[c] = pc[c]
      BY <2>0, <2>3, FailsQuietly DEF Ended
    <3>2. \A d \in CiBuilds : Displaced(d) => Displaced(d)'
      BY <2>0, <3>1, DisplacedStays DEF PastPush
    <3>3. CiPlaces' /\ \A d \in CiBuilds : PushedOrDisplaced(d)'
      BY <2>0, <3>1, <3>2 DEF CiInv, CiPlaces, PushedOrDisplaced, DevApp
    <3> QED
      BY <1>0, <1>3, <3>3, RedeployStepUploads DEF CiInv
  <2> QED
    BY <1>3, <2>1, <2>2, <2>3, RedeployMoves
<1>4. ASSUME UNCHANGED allVars PROVE CiInv'
  <2>1. UNCHANGED <<apps, pc, req, ciPc, attempt, manifestOf, jarOf, crossed, manifestGot, jarSeen>>
    BY <1>4 DEF allVars, vars, cfVars, buildVars, ciVars, repository, downloads
  <2>2. Uploads'
    BY <2>1 DEF CiInv, Uploads, Provenance, RepositoryRaced, DownloadRaced, Raced, RacedIn, ManifestGone
  <2> QED
    BY <1>0, <1>2, <2>1, <2>2 DEF CiInv
<1> QED
  BY <1>1, <1>3, <1>4 DEF CiNext

LEMMA CiInitInv == CiInit => CiInv
<1> SUFFICES ASSUME CiInit PROVE CiInv
  OBVIOUS
<1>1. /\ \A c \in CiBuilds : ciPc[c] = "test"
      /\ \A a \in Apps : manifestOf[a] = NoBuild /\ jarOf[a] = NoBuild
      /\ \A b \in Builds : manifestGot[b] = NoBuild /\ jarSeen[b] = NoBuild
      /\ \A x \in AppNames : apps[x].bits = NoBuild
  BY DEF CiInit, Init, CFInit, Absent
<1>2. CiPlaces /\ \A c \in CiBuilds : PushedOrDisplaced(c)
  BY <1>1, NoBuildIsNone DEF CiPlaces, PushedOrDisplaced
<1>3. Uploads
  BY <1>1 DEF Uploads, Provenance, RepositoryRaced, DownloadRaced
<1> QED
  BY <1>2, <1>3, CiInitTyped DEF CiInv

\* Whatever the settings of Redeploy's job, and however the builds of the CI overlap: X of dev11
\* is what a CI build pushed until another build, of either job, has displaced it; the repository,
\* and a Redeploy that downloads from it, mix the manifest of one build with the jar of another
\* only in a race of the two, or with a build that never finished
\* (github_pipeline.groovy:187-208, Redeploy.groovy:84-85).
THEOREM CiInvariant == CiSpec => []CiInv
<1>1. CiInv /\ [CiNext]_allVars => CiInv'
  BY CiInvKept
<1> QED
  BY CiInitInv, <1>1, PTL DEF CiSpec

\* A Redeploy gets the manifest of one CI build and the jar of another only when the manifest's
\* build has not finished its uploads, or crossed those of the jar's, or the jar was put between
\* the two downloads (Redeploy.groovy:84-85, github_pipeline.groovy:206-208).
THEOREM CiMixedOnlyIfRaced == CiSpec => MixedOnlyIfRaced
<1>1. CiInv => MixedOnlyIfRacedStep
  BY DEF CiInv, Uploads, DownloadRaced, Raced, RacedIn, MixedOnlyIfRacedStep
<1> QED
  BY CiInvariant, <1>1, PTL DEF MixedOnlyIfRaced

\* The CI uploads what it has pushed and started, unless another build has displaced it since:
\* one of the CI of the same artifact that has pushed too, or one of Redeploy that got as far as
\* deleting X (github_pipeline.groovy:196-208).
THEOREM CiUploadedOrDisplaced == CiSpec => UploadedOrDisplaced
<1>1. CiInv => UploadedOrDisplacedStep
  <2> SUFFICES ASSUME CiInv, NEW c \in CiBuilds, ciPc[c] \in {"manifest", "jar"}
               PROVE  IF apps[DevApp(c)].bits = c THEN apps[DevApp(c)].up ELSE Displaced(c)
    BY DEF UploadedOrDisplacedStep
  <2> QED
    BY DEF CiInv, PushedOrDisplaced
<1> QED
  BY CiInvariant, <1>1, PTL DEF UploadedOrDisplaced

-----------------------------------------------------------------------------
(* What a Redeploy relies on beside the CI: a serial job *)

LEMMA BothFacts ==
  ASSUME BothInv
  PROVE  /\ CiInv /\ CiTypeOK /\ CoreInv /\ TypeOK /\ CFTypeOK /\ RoutesInOwnSpace /\ MissingIsAbsent
         /\ DropletsApart /\ CiPlaces /\ \A b \in Builds : SwapBesideCi(b) /\ TempIsMine(b)
  BY DEF BothInv, CiInv, CoreInv, TypeOK

\* The CI's X and route are no build's X-temp and no build's temporary route.
LEMMA DevIsLive ==
  ASSUME NEW c \in CiBuilds, NEW b \in Builds
  PROVE  DevApp(c) # TempApp(b) /\ DevRoute(c) # TempRoute(b)
  BY DEF DevApp, DevRoute, TempApp, TempRoute

\* The CI keeps to the space of dev11.
LEMMA CiKeepsRoutes ==
  ASSUME CiTypeOK, RoutesInOwnSpace, MissingIsAbsent, NEW c \in CiBuilds, CiStep(c)
  PROVE  RoutesInOwnSpace' /\ MissingIsAbsent'
<1> DEFINE t == DevApp(c)
           r == DevRoute(c)
<1>0. /\ CFTypeOK /\ t \in AppNames /\ r \in Routes /\ t[1] = SpaceOf[r[2]] /\ t[1] # NoSpace
      /\ r[1] = t[2] /\ t[1] = SpaceOf[CiEnv] /\ c # NoBuild
  BY CiNames DEF CiTypeOK, TypeOK
<1> HIDE DEF t, r
<1>1. CASE CiPush(c)
  <2>1. /\ apps'[t].bits = c /\ apps'[t].routes = apps[t].routes \cup {r} /\ owner'[r] = t[1]
        /\ \A x \in AppNames : x # t => apps'[x] = apps[x]
        /\ \A q \in Routes : q # r => owner'[q] = owner[q]
    BY <1>0, <1>1, CiEffects DEF t, r
  <2> QED
    BY <1>0, <2>1, UpdateKeepsRoutes
<1>2. CASE CiStart(c)
  <2>1. /\ apps'[t].bits # NoBuild /\ apps'[t].routes = apps[t].routes /\ owner' = owner
        /\ \A x \in AppNames : x # t => apps'[x] = apps[x]
    BY <1>0, <1>2, CiEffects DEF t, Exists
  <2>2. r \in apps[t].routes => owner[r] = t[1]
    BY <1>0 DEF RoutesInOwnSpace
  <2> QED
    BY <1>0, <2>1, <2>2, UpdateKeepsRoutes
<1>3. CASE ~ CiPush(c) /\ ~ CiStart(c)
  BY <1>3, CiMoves DEF RoutesInOwnSpace, MissingIsAbsent, Exists
<1> QED
  BY <1>1, <1>2, <1>3

LEMMA CiKeepsCore ==
  ASSUME BothInv, NEW c \in CiBuilds, CiStep(c)
  PROVE  CoreInv' /\ DropletsApart'
<1>0. /\ CiTypeOK /\ CoreInv /\ CFTypeOK /\ RoutesInOwnSpace /\ MissingIsAbsent /\ DropletsApart /\ CiPlaces
      /\ TypeOK
  BY BothFacts
<1>1. TypeOK'
  BY <1>0, CiStepTyped DEF CiTypeOK
<1>2. RoutesInOwnSpace' /\ MissingIsAbsent'
  BY <1>0, CiKeepsRoutes
<1>3. UNCHANGED <<pc, req, agent, jarVersion, found, target>>
  BY <1>0, CiMoves DEF buildVars
<1>4. OneAtATime'
  BY <1>0, <1>3 DEF CoreInv, OneAtATime, Running
<1>5. ASSUME NEW b \in Builds PROVE InOwnSpace(b)' /\ TempIsMine(b)'
  <2>1. /\ Space(b)' = Space(b) /\ TempApp(b)' = TempApp(b) /\ TempRoute(b)' = TempRoute(b)
        /\ LiveRoute(b)' = LiveRoute(b)
    BY <1>3 DEF Space, TempApp, TempRoute, LiveRoute
  <2>2. TempApp(b) \in AppNames /\ TempRoute(b) \in Routes
    BY <1>0, NamesOfBuild
  <2>3. apps'[TempApp(b)] = apps[TempApp(b)] /\ owner'[TempRoute(b)] = owner[TempRoute(b)]
    BY <1>0, <2>2, CiMoves, CiEffects, DevIsLive
  <2>4. InOwnSpace(b) /\ TempIsMine(b)
    BY <1>0 DEF CoreInv
  <2>5. InOwnSpace(b)'
    BY <1>3, <2>1, <2>4 DEF InOwnSpace
  <2>6. TempIsMine(b)'
    BY <1>3, <2>1, <2>3, <2>4 DEF TempIsMine
  <2> QED
    BY <2>5, <2>6
<1>6. DropletsApart'
  <2>1. \A x \in AppNames : apps'[x].bits = apps[x].bits \/ (x = DevApp(c) /\ apps'[x].bits = c)
    BY <1>0, CiMoves, CiEffects
  <2>2. \A x \in AppNames : apps[x].bits = c => x = DevApp(c)
    BY <1>0 DEF CiPlaces
  <2>3. c # NoBuild /\ c \notin Builds
    BY CiNames
  <2>4. \A x, y \in AppNames : apps'[x].bits # NoBuild /\ apps'[x].bits = apps'[y].bits => x = y
    BY <1>0, <2>1, <2>2 DEF DropletsApart, Exists
  <2>5. \A b \in Builds : pc'[b] \in BeforeStart => \A x \in AppNames : apps'[x].bits # b
    BY <1>0, <1>3, <2>1, <2>3 DEF DropletsApart
  <2> QED
    BY <2>4, <2>5 DEF DropletsApart, Exists
<1> QED
  BY <1>1, <1>2, <1>4, <1>5, <1>6 DEF CoreInv

\* X of a Redeploy is the CI's only in dev11, and then the CI's push overtakes it.
LEMMA CiKeepsSwap ==
  ASSUME BothInv, NEW c \in CiBuilds, CiStep(c), NEW b \in Builds
  PROVE  SwapBesideCi(b)'
<1>0. /\ CiTypeOK /\ CFTypeOK /\ TypeOK /\ SwapBesideCi(b) /\ c # NoBuild
      /\ UNCHANGED <<pc, req, found>>
      /\ LiveApp(b) \in AppNames /\ TempApp(b) \in AppNames /\ req[b].env \in Envs
  BY BothFacts, CiMoves, CiNames, NamesOfBuild DEF buildVars
<1>1. LiveApp(b)' = LiveApp(b) /\ TempApp(b)' = TempApp(b) /\ LiveRoute(b)' = LiveRoute(b)
  BY <1>0 DEF LiveApp, TempApp, LiveRoute, Space
<1>2. apps'[TempApp(b)] = apps[TempApp(b)]
  BY <1>0, CiMoves, CiEffects, DevIsLive
<1>3. \/ apps'[LiveApp(b)] = apps[LiveApp(b)]
      \/ Overtaken(b)' /\ Exists(LiveApp(b))'
      \/ /\ apps'[LiveApp(b)].bits = apps[LiveApp(b)].bits /\ apps'[LiveApp(b)].up
         /\ apps'[LiveApp(b)].routes = apps[LiveApp(b)].routes
  <2>1. LiveApp(b) = DevApp(c) => req[b].env = CiEnv
    BY <1>0, CiRedeployAssumption, SpacesDistinct DEF LiveApp, DevApp, Space
  <2> QED
    BY <1>0, <1>1, <2>1, CiMoves, CiEffects DEF Overtaken, Exists
<1> QED
  BY <1>0, <1>1, <1>2, <1>3 DEF SwapBesideCi, Overtaken, Exists

\* The swap, command by command, when X may be the CI's.
LEMMA StepKeepsSwap ==
  ASSUME Serial, BothInv, NEW b \in Builds, Step(b), NEW c \in Builds
  PROVE  SwapBesideCi(c)'
<1>0. CoreInv /\ SwapBesideCi(b) /\ TempIsMine(b)
  BY BothFacts
<1>1. CASE c # b
  <2>1. pc'[c] \notin Steps
    BY <1>0, <1>1, OthersIdle
  <2> QED
    BY <2>1 DEF SwapBesideCi, Steps
<1>2. CASE c = b
  <2>0. /\ LiveApp(b)' = LiveApp(b) /\ TempApp(b)' = TempApp(b) /\ LiveRoute(b)' = LiveRoute(b)
        /\ LiveApp(b) # TempApp(b)
    BY <1>0, SwapEffects DEF LiveApp, TempApp
  <2> SUFFICES SwapBesideCi(b)'
    BY <1>2
  <2> USE DEF SwapBesideCi
  <2>1. CASE pc'[b] \notin Steps \/ pc'[b] \in {"prepare", "input", "login", "download", "push", "start", "check"}
    BY <2>1 DEF Steps
  <2>2. CASE CheckOld(b) /\ pc'[b] = "map" /\ apps' = apps /\ (found'[b] => Exists(LiveApp(b)))
    BY <2>0, <2>2 DEF Exists
  <2>3. CASE MapLive(b) /\ found'[b] = found[b] /\ pc[b] = "map" /\ pc'[b] = "unmapOld"
    BY <1>0, <2>0, <2>3, OwnEffects DEF Exists
  <2>4. CASE UnmapOld(b) /\ found'[b] = found[b] /\ pc[b] = "unmapOld" /\ pc'[b] = "unmapTemp"
    BY <1>0, <2>0, <2>4, OwnEffects DEF Exists
  <2>5. CASE UnmapTemp(b) /\ found'[b] = found[b] /\ pc[b] = "unmapTemp" /\ pc'[b] = "deleteRoute"
    BY <1>0, <2>0, <2>5, OwnEffects DEF Exists
  <2>6. CASE DeleteTempRoute(b) /\ found'[b] = found[b] /\ pc[b] = "deleteRoute" /\ pc'[b] = "deleteOld"
    BY <1>0, <2>0, <2>6, OwnEffects DEF Exists
  <2>7. CASE DeleteOld(b) /\ found'[b] = found[b] /\ pc[b] = "deleteOld" /\ pc'[b] = "rename"
    BY <1>0, <2>0, <2>7, OwnEffects DEF Exists, Absent
  <2>8. CASE RenameTemp(b) /\ pc[b] = "rename" /\ pc'[b] = "cleanup"
    BY <1>0, <2>0, <2>8, OwnEffects DEF Exists, Absent, TempIsMine
  <2> QED
    BY <1>0, <2>1, <2>2, <2>3, <2>4, <2>5, <2>6, <2>7, <2>8, SwapEffects
<1> QED
  BY <1>1, <1>2

\* A download that fails ends its build and touches nothing.
LEMMA FailKeepsCore ==
  ASSUME BothInv, NEW b \in Builds, DownloadFails(b)
  PROVE  CoreInv' /\ DropletsApart' /\ \A c \in Builds : SwapBesideCi(c)'
<1>0. /\ CoreInv /\ TypeOK /\ DropletsApart /\ \A c \in Builds : SwapBesideCi(c)
      /\ UNCHANGED <<apps, owner, target, req, agent, jarVersion, found>>
      /\ pc'[b] = "REFUSED" /\ \A c \in Builds \ {b} : pc'[c] = pc[c]
      /\ pc' \in [Builds -> {"queued"} \cup Steps \cup Ended]
  BY BothFacts, FailsQuietly
<1>1. TypeOK' /\ OneAtATime' /\ RoutesInOwnSpace' /\ MissingIsAbsent'
  BY <1>0 DEF CoreInv, TypeOK, CFTypeOK, OneAtATime, Running, Steps, RoutesInOwnSpace, MissingIsAbsent, Exists
<1>2. ASSUME NEW c \in Builds PROVE (InOwnSpace(c) /\ TempIsMine(c) /\ SwapBesideCi(c))'
  <2>1. /\ Space(c)' = Space(c) /\ LiveApp(c)' = LiveApp(c) /\ TempApp(c)' = TempApp(c)
        /\ LiveRoute(c)' = LiveRoute(c) /\ TempRoute(c)' = TempRoute(c)
    BY <1>0 DEF Space, LiveApp, TempApp, LiveRoute, TempRoute
  <2>2. CASE c = b
    BY <1>0, <2>2 DEF InOwnSpace, TempIsMine, SwapBesideCi, Steps
  <2>3. CASE c # b
    <3>1. InOwnSpace(c)' /\ TempIsMine(c)'
      BY <1>0, <2>1, <2>3 DEF CoreInv, InOwnSpace, TempIsMine
    <3>2. SwapBesideCi(c)'
      BY <1>0, <2>1, <2>3 DEF SwapBesideCi, Overtaken, Exists
    <3> QED
      BY <3>1, <3>2
  <2> QED
    BY <2>2, <2>3
<1>3. DropletsApart'
  BY <1>0 DEF DropletsApart, Exists, BeforeStart
<1> QED
  BY <1>1, <1>2, <1>3 DEF CoreInv

LEMMA BothInvKept ==
  ASSUME Serial, BothInv, [CiNext]_allVars
  PROVE  BothInv'
<1>0. CiInv'
  BY CiInvKept DEF BothInv
<1>1. ASSUME NEW c \in CiBuilds, CiStep(c) PROVE BothInv'
  BY <1>0, <1>1, CiKeepsCore, CiKeepsSwap DEF BothInv
<1>2. ASSUME NEW b \in Builds, Step(b) PROVE BothInv'
  BY <1>0, <1>2, BothFacts, CoreInvKept, DropletsApartKept, StepKeepsSwap DEF BothInv
<1>3. ASSUME NEW b \in Builds, DownloadFails(b) PROVE BothInv'
  BY <1>0, <1>3, FailKeepsCore DEF BothInv
<1>4. ASSUME UNCHANGED vars PROVE BothInv'
  <2>1. UNCHANGED <<apps, pc, req, found>>
    BY <1>4 DEF vars, cfVars, buildVars
  <2>2. CoreInv'
    BY <1>4, IInvFrame DEF BothInv
  <2>3. DropletsApart'
    BY <2>1 DEF BothInv, DropletsApart, Exists
  <2>4. \A b \in Builds : SwapBesideCi(b)'
    BY <2>1 DEF BothInv, SwapBesideCi, Overtaken, LiveApp, TempApp, LiveRoute, Space, Exists
  <2> QED
    BY <1>0, <2>2, <2>3, <2>4 DEF BothInv
<1> QED
  BY <1>1, <1>2, <1>3, <1>4, RedeployMoves DEF CiNext, allVars

LEMMA BothInit == CiInit => BothInv
<1> SUFFICES ASSUME CiInit PROVE BothInv
  OBVIOUS
<1>1. Init /\ \A b \in Builds : pc[b] = "queued"
  BY DEF CiInit, Init
<1> QED
  BY <1>1, CiInitInv, InitIInv, InitDropletsApart DEF BothInv, IInv, SwapBesideCi

\* In a job without concurrent builds whose environments all have a login branch, what a Redeploy
\* relies on holds beside the CI, but for what becomes of X in dev11.
THEOREM BothInvariant == Serial => (CiSpec => []BothInv)
<1> SUFFICES ASSUME Serial PROVE CiSpec => []BothInv
  OBVIOUS
<1>1. BothInv /\ [CiNext]_allVars => BothInv'
  BY BothInvKept
<1> QED
  BY BothInit, <1>1, PTL DEF CiSpec

-----------------------------------------------------------------------------
(* What the invariant gives *)

\* Only a step of the builds' own pipeline moves their counters.
LEMMA WhoMoved ==
  ASSUME Serial, BothInv, CiNext, NEW b \in Builds, pc'[b] # pc[b]
  PROVE  Step(b) \/ DownloadFails(b)
<1>0. CiTypeOK /\ TypeOK /\ CoreInv
  BY BothFacts
<1>1. ~ \E c \in CiBuilds : CiStep(c)
  BY <1>0, CiMoves DEF buildVars
<1>2. PICK d \in Builds : RedeployStep(d)
  BY <1>1 DEF CiNext
<1>3. CASE Step(d)
  BY <1>0, <1>3, OthersIdle
<1>4. CASE DownloadFails(d)
  BY <1>0, <1>4, FailsQuietly
<1>5. CASE UNCHANGED vars
  BY <1>5 DEF vars, buildVars
<1> QED
  BY <1>2, <1>3, <1>4, <1>5, RedeployMoves

\* A Redeploy beside the CI that reports SUCCESS is what its users get, or the CI has overtaken it.
THEOREM CiSuccessOrOvertaken == Serial => (CiSpec => SuccessOrOvertaken)
<1> SUFFICES ASSUME Serial PROVE CiSpec => SuccessOrOvertaken
  OBVIOUS
<1>1. BothInv /\ [CiNext]_allVars => [SuccessOrOvertakenStep]_allVars
  <2> SUFFICES ASSUME BothInv, CiNext, NEW b \in Builds, pc[b] # "SUCCESS", pc'[b] = "SUCCESS"
               PROVE  /\ ~ Exists(TempApp(b)) /\ Serving(LiveRoute(b)) \subseteq {LiveApp(b)}
                      /\ IF Overtaken(b)
                         THEN ArtifactOf[apps[LiveApp(b)].bits] = req[b].app
                         ELSE apps[LiveApp(b)].bits = b /\ Serving(LiveRoute(b)) = {LiveApp(b)}
    BY DEF SuccessOrOvertakenStep, Overtaken
  <2>0. TypeOK /\ CoreInv /\ CiPlaces /\ SwapBesideCi(b)
    BY BothFacts
  <2>1. Step(b)
    BY <2>0, WhoMoved, FailsQuietly
  <2>2. pc[b] = "cleanup"
    BY <2>0, <2>1
       DEF TypeOK, Step, Advance, Command, Goto, StartBuild, Prepare, ChooseVersion, Login, Download, Push,
       StartApp, CheckOld, MapLive, UnmapOld, UnmapTemp, DeleteTempRoute, DeleteOld, RenameTemp, Cleanup,
       CommandRefused, Abort
  <2>3. /\ ~ Exists(TempApp(b))
        /\ \/ Overtaken(b)
           \/ /\ apps[LiveApp(b)].bits = b /\ apps[LiveApp(b)].up
              /\ LiveRoute(b) \in apps[LiveApp(b)].routes
    BY <2>0, <2>2 DEF SwapBesideCi
  <2>4. /\ LiveApp(b) \in AppNames /\ LiveRoute(b) \in Routes
        /\ LiveApp(b) = <<SpaceOf[LiveRoute(b)[2]], LiveRoute(b)[1], "live">>
        /\ TempApp(b) = <<SpaceOf[LiveRoute(b)[2]], LiveRoute(b)[1], "temp">>
    BY <2>0, NamesOfBuild DEF LiveApp, TempApp, LiveRoute, Space
  <2>5. Serving(LiveRoute(b)) \subseteq {LiveApp(b)}
    <3> SUFFICES ASSUME NEW x \in Serving(LiveRoute(b)) PROVE x = LiveApp(b)
      OBVIOUS
    <3> QED
      BY <2>0, <2>3, <2>4, ServedFromOwnSpace
  <2>6. CASE Overtaken(b)
    <3>1. LiveApp(b) = DevApp(apps[LiveApp(b)].bits)
      BY <2>0, <2>4, <2>6 DEF Overtaken, CiPlaces
    <3>2. ArtifactOf[apps[LiveApp(b)].bits] = req[b].app
      BY <3>1 DEF LiveApp, DevApp
    <3> QED
      BY <2>3, <2>5, <2>6, <3>2
  <2>7. CASE ~ Overtaken(b)
    <3>1. LiveApp(b) \in Serving(LiveRoute(b))
      BY <2>3, <2>4, <2>7 DEF Serving
    <3> QED
      BY <2>3, <2>5, <2>7, <3>1
  <2> QED
    BY <2>6, <2>7
<1> QED
  BY BothInvariant, <1>1, PTL DEF CiSpec, SuccessOrOvertaken

\* The CI makes a command of a Redeploy fail at the rename only, with X back in its way; X-temp
\* goes on answering beside it.
THEOREM CiRefusedOnlyWhenTaken == Serial => (CiSpec => RefusedOnlyWhenTaken)
<1> SUFFICES ASSUME Serial PROVE CiSpec => RefusedOnlyWhenTaken
  OBVIOUS
<1>1. BothInv /\ [CiNext]_allVars => [RefusedOnlyWhenTakenStep]_allVars
  <2> SUFFICES ASSUME BothInv, CiNext, NEW b \in Builds, pc[b] # "REFUSED", pc'[b] = "REFUSED",
                      pc[b] # "download"
               PROVE  /\ pc[b] = "rename" /\ Exists(LiveApp(b))
                      /\ ~ found[b] \/ apps[LiveApp(b)].bits \in CiBuilds
                      /\ TempApp(b) \in Serving(LiveRoute(b))
    BY DEF RefusedOnlyWhenTakenStep
  <2>0. TypeOK /\ CoreInv /\ SwapBesideCi(b) /\ TempIsMine(b)
    BY BothFacts
  <2>1. Step(b)
    BY <2>0, WhoMoved, FailsQuietly
  <2>2. Running(b) /\ ~ CommandOK(b)
    BY <2>0, <2>1, RefusedByCommand
  <2>3. pc[b] = "unmapOld" /\ found[b] => Exists(LiveApp(b))
    BY <2>0 DEF SwapBesideCi
  <2>4. pc[b] = "rename" /\ Exists(LiveApp(b))
    BY <2>0, <2>2, <2>3, RefusedWhere
  <2>5. ~ found[b] \/ apps[LiveApp(b)].bits \in CiBuilds
    BY <2>0, <2>4 DEF SwapBesideCi, Overtaken
  <2>6. TempApp(b) \in Serving(LiveRoute(b))
    BY <2>0, <2>4, NamesOfBuild DEF TempIsMine, Serving
  <2> QED
    BY <2>4, <2>5, <2>6
<1> QED
  BY BothInvariant, <1>1, PTL DEF CiSpec, RefusedOnlyWhenTaken

\* The routes of X of dev11 are live hosts of dev11 when they are live hosts at all.
LEMMA DevRoutes ==
  ASSUME BothInv, NEW c \in CiBuilds, NEW r \in Routes, r \in apps[DevApp(c)].routes
  PROVE  r[2] = CiEnv /\ r[1] = ArtifactOf[c]
<1>0. RoutesInOwnSpace
  BY BothFacts
<1>1. /\ owner[r] = SpaceOf[CiEnv] /\ r[1] = ArtifactOf[c] /\ SpaceOf[CiEnv] # NoSpace
      /\ owner[r] \in {NoSpace, SpaceOf[r[2]]}
  BY <1>0, CiNames DEF RoutesInOwnSpace
<1>2. r[2] \in Envs /\ CiEnv \in Envs
  BY CiRedeployAssumption DEF Routes
<1> QED
  BY <1>1, <1>2, SpacesDistinct

\* No live host is left without an answer but by a push over the application that answered alone.
THEOREM CiOutageOnlyByAPush == Serial => (CiSpec => OutageOnlyByAPush)
<1> SUFFICES ASSUME Serial PROVE CiSpec => OutageOnlyByAPush
  OBVIOUS
<1>1. BothInv /\ [CiNext]_allVars => [OutageOnlyByAPushStep]_allVars
  <2> SUFFICES ASSUME BothInv, CiNext, NEW a \in Apps, NEW e \in Envs,
                      Serving(<<a, e, "live">>) # {}, Serving(<<a, e, "live">>)' = {}
               PROVE  \/ \E b \in Builds : /\ pc[b] = "push" /\ pc'[b] = "start"
                                           /\ Serving(<<a, e, "live">>) = {TempApp(b)}
                      \/ \E c \in CiBuilds : /\ ciPc[c] = "push" /\ ciPc'[c] = "start"
                                             /\ <<a, e, "live">> = DevRoute(c)
                                             /\ Serving(<<a, e, "live">>) = {DevApp(c)}
    BY DEF OutageOnlyByAPushStep
  <2>0. TypeOK /\ CFTypeOK /\ CiTypeOK /\ CoreInv
    BY BothFacts
  <2>1. CASE \E b \in Builds : Step(b)
    BY <2>0, <2>1, OutageIsPush
  <2>2. ASSUME apps' = apps PROVE FALSE
    BY <2>2 DEF Serving
  <2>3. ASSUME NEW b \in Builds, RedeployStep(b), ~ Step(b) PROVE FALSE
    BY <2>0, <2>2, <2>3, RedeployMoves, FailsQuietly DEF vars, cfVars
  <2>4. ASSUME NEW c \in CiBuilds, CiStep(c)
        PROVE  /\ ciPc[c] = "push" /\ ciPc'[c] = "start"
               /\ <<a, e, "live">> = DevRoute(c)
               /\ Serving(<<a, e, "live">>) = {DevApp(c)}
    <3>r. PICK r \in Routes : r = <<a, e, "live">>
      BY TwoSlots DEF Routes
    <3>1. \A x \in AppNames : x \in Serving(r) => ~ (apps'[x].up /\ r \in apps'[x].routes)
      BY <3>r DEF Serving
    <3>2. \A x \in AppNames : x # DevApp(c) => apps'[x] = apps[x]
      BY <2>0, <2>4, CiMoves, CiEffects
    <3>3. Serving(r) = {DevApp(c)}
      BY <3>r, <3>1, <3>2 DEF Serving
    <3>4. apps[DevApp(c)].up /\ r \in apps[DevApp(c)].routes /\ DevApp(c) \in AppNames
      BY <3>3 DEF Serving
    <3>5. CiPush(c)
      BY <2>0, <2>2, <2>4, <3>1, <3>3, <3>4, CiMoves, CiEffects
    <3>6. r[2] = CiEnv /\ r[1] = ArtifactOf[c]
      BY <3>4, DevRoutes
    <3> QED
      BY <2>0, <2>4, <3>r, <3>3, <3>5, <3>6, CiMoves DEF DevRoute
  <2> QED
    BY <2>1, <2>3, <2>4 DEF CiNext
<1> QED
  BY BothInvariant, <1>1, PTL DEF CiSpec, OutageOnlyByAPush

-----------------------------------------------------------------------------
(* The promise elsewhere *)

ElseHosts   == Apps \X (Envs \ {CiEnv})
elseServing == [h \in ElseHosts |-> servingBar[h]]
elsePending == [h \in ElseHosts |-> pendingBar[h]]

\* The CI is not felt outside dev11.
LEMMA CiNotFelt ==
  ASSUME BothInv, NEW c \in CiBuilds, CiStep(c), NEW h \in ElseHosts
  PROVE  servingBar'[h] = servingBar[h] /\ pendingBar'[h] = pendingBar[h]
<1> DEFINE r == <<h[1], h[2], "live">>
           t == <<SpaceOf[h[2]], h[1], "temp">>
<1>0. /\ CiTypeOK /\ CFTypeOK /\ h \in Apps \X Envs /\ h[1] \in Apps /\ h[2] \in Envs /\ h[2] # CiEnv
      /\ r \in Routes /\ r[2] = h[2] /\ t \in AppNames /\ t # DevApp(c) /\ DevApp(c) \in AppNames
  <2>1. h \in Apps \X Envs /\ h[1] \in Apps /\ h[2] \in Envs /\ h[2] # CiEnv
    BY DEF ElseHosts
  <2> QED
    BY <2>1, BothFacts, TwoSlots, RedeployAssumption, CiNames DEF Routes, AppNames, DevApp
<1>1. \A x \in AppNames : x # DevApp(c) => apps'[x] = apps[x]
  BY <1>0, CiMoves, CiEffects
<1> HIDE DEF r
<1>2. r \notin apps[DevApp(c)].routes
  BY <1>0, DevRoutes
<1>3. r \notin apps'[DevApp(c)].routes
  <2>1. r # DevRoute(c)
    BY <1>0, CiNames
  <2> QED
    BY <1>0, <1>2, <2>1, CiMoves, CiEffects
<1>4. {y \in AppNames : apps'[y].up /\ r \in apps'[y].routes} = {y \in AppNames : apps[y].up /\ r \in apps[y].routes}
  BY <1>1, <1>2, <1>3
<1>5. \A y \in AppNames : apps[y].up /\ r \in apps[y].routes => apps'[y].bits = apps[y].bits
  BY <1>1, <1>2
<1>6. {apps'[x].bits : x \in {y \in AppNames : apps'[y].up /\ r \in apps'[y].routes}}
        = {apps[x].bits : x \in {y \in AppNames : apps[y].up /\ r \in apps[y].routes}}
  BY <1>4, <1>5
<1>7. servingBar'[h] = servingBar[h]
  BY <1>0, <1>6, HostView DEF r
<1>8. apps'[t] = apps[t]
  BY <1>0, <1>1
<1>9. pendingBar'[h] = pendingBar[h]
  BY <1>0, <1>8, HostView DEF r
<1> QED
  BY <1>7, <1>9

LEMMA ElsewhereUnfelt ==
  ASSUME \A h \in ElseHosts : servingBar'[h] = servingBar[h] /\ pendingBar'[h] = pendingBar[h]
  PROVE  UNCHANGED Elsewhere!vars
  BY DEF Elsewhere!vars, ElseHosts

\* A step of Redeploy is felt on the host of its build, as a step of the promise.
LEMMA StepElsewhere ==
  ASSUME Serial, CoreInv, DropletsApart, NEW b \in Builds, Step(b)
  PROVE  Elsewhere!Next \/ UNCHANGED Elsewhere!vars
<1> DEFINE h == <<req[b].app, req[b].env>>
<1>1. \A g \in Apps \X Envs : g # h => servingBar'[g] = servingBar[g] /\ pendingBar'[g] = pendingBar[g]
  BY OtherHosts
<1>2. CASE h \notin ElseHosts
  <2>1. \A g \in ElseHosts : g \in Apps \X Envs
    BY DEF ElseHosts
  <2> QED
    BY <1>1, <1>2, <2>1, ElsewhereUnfelt
<1>3. CASE h \in ElseHosts
  <2>0. \A g \in ElseHosts : g \in Apps \X Envs
    BY DEF ElseHosts
  <2>e. /\ elseServing[h] = servingBar[h] /\ elsePending[h] = pendingBar[h]
        /\ elseServing = [g \in ElseHosts |-> servingBar[g]]
        /\ elsePending = [g \in ElseHosts |-> pendingBar[g]]
        /\ elseServing' = [g \in ElseHosts |-> servingBar'[g]]
        /\ elsePending' = [g \in ElseHosts |-> pendingBar'[g]]
    BY <1>3 DEF elseServing, elsePending
  <2>s. ASSUME NEW v PROVE servingBar'[h] = v => elseServing' = [elseServing EXCEPT ![h] = v]
    BY <1>1, <1>3, <2>0, <2>e
  <2>p. ASSUME NEW v PROVE pendingBar'[h] = v => elsePending' = [elsePending EXCEPT ![h] = v]
    BY <1>1, <1>3, <2>0, <2>e
  <2>1. CASE servingBar'[h] = servingBar[h] /\ pendingBar'[h] = pendingBar[h]
    BY <1>1, <2>0, <2>1, ElsewhereUnfelt
  <2>2. CASE /\ pendingBar[h] \in {NoBuild, b} /\ b \notin servingBar[h]
             /\ servingBar'[h] = servingBar[h] \cup {b} /\ pendingBar'[h] = b
    <3>1. /\ elseServing' = [elseServing EXCEPT ![h] = elseServing[h] \cup {b}]
          /\ elsePending' = [elsePending EXCEPT ![h] = b]
          /\ elsePending[h] \in {NoBuild, b} /\ b \notin elseServing[h]
      BY <2>2, <2>e, <2>s, <2>p
    <3>2. Elsewhere!Join(h, b)
      BY <3>1 DEF Elsewhere!Join, elseServing, elsePending, ElseHosts
    <3> HIDE DEF h
    <3> QED
      BY <1>3, <3>2 DEF Elsewhere!Next, ElseHosts
  <2>3. CASE /\ pendingBar[h] \in servingBar[h]
             /\ servingBar'[h] = {pendingBar[h]} /\ pendingBar'[h] = pendingBar[h]
    <3>1. /\ elseServing' = [elseServing EXCEPT ![h] = {elsePending[h]}]
          /\ elsePending' = elsePending /\ elsePending[h] \in elseServing[h]
      BY <1>1, <2>0, <2>3, <2>e, <2>s
    <3>2. PICK g \in ElseHosts : g = h
      BY <1>3
    <3>3. Elsewhere!Retire(g)
      BY <3>1, <3>2 DEF Elsewhere!Retire, elseServing, elsePending, ElseHosts
    <3> QED
      BY <3>3 DEF Elsewhere!Next, ElseHosts
  <2>4. CASE /\ servingBar[h] = {pendingBar[h]}
             /\ servingBar'[h] = servingBar[h] /\ pendingBar'[h] = NoBuild
    <3>1. /\ elsePending' = [elsePending EXCEPT ![h] = NoBuild]
          /\ elseServing' = elseServing /\ elseServing[h] = {elsePending[h]}
      BY <1>1, <2>0, <2>4, <2>e, <2>p
    <3>2. PICK g \in ElseHosts : g = h
      BY <1>3
    <3>3. Elsewhere!Promote(g)
      BY <3>1, <3>2 DEF Elsewhere!Promote, elseServing, elsePending, ElseHosts
    <3> QED
      BY <3>3 DEF Elsewhere!Next, ElseHosts
  <2>5. CASE /\ pendingBar[h] # NoBuild /\ b \notin servingBar[h]
             /\ servingBar'[h] = servingBar[h] \ {pendingBar[h]} /\ pendingBar'[h] = b
    <3>1. /\ elseServing' = [elseServing EXCEPT ![h] = elseServing[h] \ {elsePending[h]}]
          /\ elsePending' = [elsePending EXCEPT ![h] = b]
          /\ elsePending[h] # NoBuild /\ b \notin elseServing[h]
      BY <2>5, <2>e, <2>s, <2>p
    <3>2. Elsewhere!Replace(h, b)
      BY <3>1 DEF Elsewhere!Replace, elseServing, elsePending, ElseHosts
    <3> HIDE DEF h
    <3> QED
      BY <1>3, <3>2 DEF Elsewhere!Next, ElseHosts
  <2> QED
    BY <2>1, <2>2, <2>3, <2>4, <2>5, OwnHost
<1> QED
  BY <1>2, <1>3

LEMMA CiInitElsewhere ==
  ASSUME CiInit
  PROVE  Elsewhere!Init
<1>1. \A x \in AppNames : apps[x].routes = {} /\ ~ apps[x].up
  BY DEF CiInit, Init, CFInit, Absent
<1>2. ASSUME NEW h \in ElseHosts PROVE servingBar[h] = {} /\ pendingBar[h] = NoBuild
  <2>1. h \in Apps \X Envs /\ <<SpaceOf[h[2]], h[1], "temp">> \in AppNames
    BY TwoSlots, RedeployAssumption DEF ElseHosts, AppNames
  <2> QED
    BY <1>1, <2>1, HostView
<1> QED
  BY <1>2 DEF Elsewhere!Init, ElseHosts

\* The CI is felt in dev11 only: for the live hosts of every other environment the builds of a
\* serial job implement the blue-green promise, whatever the CI does meanwhile
\* (Redeploy.groovy:102-116, github_pipeline.groovy:187-204).
THEOREM CiPromiseElsewhere == Serial => (CiSpec => PromiseElsewhere)
<1> SUFFICES ASSUME Serial PROVE CiSpec => PromiseElsewhere
  OBVIOUS
<1>1. BothInv /\ [CiNext]_allVars => [Elsewhere!Next]_(Elsewhere!vars)
  <2> SUFFICES ASSUME BothInv, [CiNext]_allVars PROVE [Elsewhere!Next]_(Elsewhere!vars)
    OBVIOUS
  <2>0. TypeOK /\ CoreInv /\ DropletsApart
    BY BothFacts
  <2>1. ASSUME NEW c \in CiBuilds, CiStep(c) PROVE UNCHANGED Elsewhere!vars
    BY <2>1, CiNotFelt, ElsewhereUnfelt
  <2>2. ASSUME NEW b \in Builds, Step(b) PROVE Elsewhere!Next \/ UNCHANGED Elsewhere!vars
    BY <2>0, <2>2, StepElsewhere
  <2>3. ASSUME apps' = apps PROVE UNCHANGED Elsewhere!vars
    BY <2>3 DEF Elsewhere!vars, servingBar, pendingBar, ServingBits, Serving
  <2>4. ASSUME NEW b \in Builds, RedeployStep(b), ~ Step(b) PROVE UNCHANGED Elsewhere!vars
    BY <2>0, <2>3, <2>4, RedeployMoves, FailsQuietly DEF vars, cfVars
  <2> QED
    BY <2>1, <2>2, <2>3, <2>4 DEF CiNext, allVars, vars, cfVars
<1> QED
  BY BothInvariant, CiInitElsewhere, <1>1, PTL DEF CiSpec, PromiseElsewhere, Elsewhere!Spec
=============================================================================
