------------------------------ MODULE Redeploy ------------------------------
(***************************************************************************)
(* The deployment pipeline jenkins-pipeline/Redeploy.groovy, run as builds *)
(* of one Jenkins job against a Cloud Foundry foundation.                  *)
(*                                                                         *)
(* A build is a sequence of `sh` steps; each cf command is one action, so  *)
(* that builds interleave, and die, between any two commands.  The cf      *)
(* client takes its space from ~/.cf/config.json of the agent, which every *)
(* build on that agent shares and which outlives the build that wrote it:  *)
(* a command acts on target[agent[b]] as it is at that moment.             *)
(*                                                                         *)
(* A build ends SUCCESS, REFUSED (a command exits non-zero because of the  *)
(* state it finds) or ABORTED (anything else: a user's abort, a lost       *)
(* agent, a network error, an application that does not start).  Jenkins   *)
(* shows the last two as FAILURE or ABORTED; the pipeline does nothing     *)
(* for either (its catch block rethrows, its finally block is empty).      *)
(***************************************************************************)
EXTENDS CloudFoundry, Requests

CONSTANTS Builds,            \* builds of the job
          Published,         \* the <<app, version>> pairs the Maven repository has
          LoginEnvs,         \* environments the Login stage has a branch for
          SpaceOf,           \* the space meant by an environment
          Executors,         \* executors of an agent
          ConcurrentBuilds   \* the job's "execute concurrent builds" setting

ASSUME RedeployAssumption ==
  /\ Builds \subseteq Droplets
  /\ Published \subseteq Apps \X Versions
  /\ LoginEnvs \subseteq Envs
  /\ SpaceOf \in [Envs -> Spaces]
  /\ Executors \in Nat \ {0}
  /\ ConcurrentBuilds \in BOOLEAN

\* Every environment has a space of its own: each login branch names another
\* PAAS_..._SPACE variable.
ASSUME SpacesDistinct == \A e, f \in Envs : SpaceOf[e] = SpaceOf[f] => e = f

\* The script names two applications per artifact, X and X-temp, and two
\* routes per artifact and environment, x-env and x-env-temp: "live" and "temp"
\* are the two halves of both pairs.
ASSUME TwoSlots == Slots = {"live", "temp"}

VARIABLES pc,          \* pc[b]: the command build b executes next
          req,         \* req[b]: the build's parameters app, envs and version
          agent,       \* agent[b]: the agent node() gave the build
          jarVersion,  \* jarVersion[b]: the version to download
          found        \* found[b]: `status == 0`, the answer of `cf app` kept by the build

buildVars == <<pc, req, agent, jarVersion, found>>
vars      == <<cfVars, buildVars>>

Steps == {"prepare", "input", "login", "download", "push", "start", "check",
          "map", "unmapOld", "unmapTemp", "deleteRoute", "deleteOld",
          "rename", "cleanup"}
Ended == {"SUCCESS", "REFUSED", "ABORTED"}

TypeOK ==
  /\ CFTypeOK
  /\ pc \in [Builds -> {"queued"} \cup Steps \cup Ended]
  /\ req \in [Builds -> Requests]
  /\ agent \in [Builds -> Agents]
  /\ jarVersion \in [Builds -> Versions \cup {NoVersion}]
  /\ found \in [Builds -> BOOLEAN]

Init ==
  /\ CFInit
  /\ pc = [b \in Builds |-> "queued"]
  /\ req \in [Builds -> Requests]
  /\ agent \in [Builds -> Agents]
  /\ jarVersion = [b \in Builds |-> NoVersion]
  /\ found = [b \in Builds |-> FALSE]

-----------------------------------------------------------------------------
Running(b) == pc[b] \in Steps

Space(b)     == SpaceOf[req[b].env]
LiveApp(b)   == <<Space(b), req[b].app, "live">>
TempApp(b)   == <<Space(b), req[b].app, "temp">>
LiveRoute(b) == <<req[b].app, req[b].env, "live">>
TempRoute(b) == <<req[b].app, req[b].env, "temp">>

\* Whether the command at pc[b] exits with status 0 as far as the state it
\* finds decides.  The Login stage and `cf app` (returnStatus) never stop a
\* build this way.
CommandOK(b) ==
  LET g == agent[b]
      a == req[b].app
  IN  /\ pc[b] = "download"    => <<a, jarVersion[b]>> \in Published
      /\ pc[b] = "push"        => CfPushOK(g, TempRoute(b))
      /\ pc[b] = "map"         => CfMapRouteOK(g, a, "temp", LiveRoute(b))
      /\ pc[b] = "unmapOld"    => (found[b] => CfUnmapRouteOK(g, a, "live", LiveRoute(b)))
      /\ pc[b] = "unmapTemp"   => CfUnmapRouteOK(g, a, "temp", TempRoute(b))
      /\ pc[b] = "deleteRoute" => LoggedIn(g)
      /\ pc[b] = "deleteOld"   => (found[b] => LoggedIn(g))
      /\ pc[b] = "rename"      => CfRenameOK(g, a, "live")

Goto(b, step) == pc' = [pc EXCEPT ![b] = step] /\ UNCHANGED <<req, agent>>
Keep          == UNCHANGED <<jarVersion, found>>

\* Build b executes the command at pc[b] and goes on to the next.
Command(b, step, next) == pc[b] = step /\ CommandOK(b) /\ Goto(b, next)

-----------------------------------------------------------------------------
\* Mutant: the restriction on concurrent builds is lost.
StartBesideOthers(b) ==
  /\ Cardinality({c \in Builds : Running(c) /\ agent[c] = agent[b]}) < Executors
  /\ Command(b, "queued", "prepare") /\ Keep /\ UNCHANGED cfVars

\* Jenkins takes the build from the queue and node() gets an executor: never
\* beside another build of the job unless the job allows it.
StartBuild(b) ==
  /\ ConcurrentBuilds \/ \A c \in Builds : ~ Running(c)
  /\ Cardinality({c \in Builds : Running(c) /\ agent[c] = agent[b]}) < Executors
  /\ Command(b, "queued", "prepare") /\ Keep /\ UNCHANGED cfVars

\* Stage Prepartion.  Without a version the build asks for one, and holds its
\* executor while it waits.
Prepare(b) ==
  /\ Command(b, "prepare", IF req[b].version = NoVersion THEN "input" ELSE "login")
  /\ jarVersion' = [jarVersion EXCEPT ![b] = req[b].version]
  /\ UNCHANGED <<cfVars, found>>

\* Mutant: the answer is not kept, the build asks again.
ChooseVersionAgain(b) == Command(b, "input", "prepare") /\ Keep /\ UNCHANGED cfVars

\* The user answers the input step.
ChooseVersion(b) ==
  /\ Command(b, "input", "login")
  /\ \E v \in Versions : jarVersion' = [jarVersion EXCEPT ![b] = v]
  /\ UNCHANGED <<cfVars, found>>

\* Mutant: log in only when the client is not logged in yet.
LoginOnce(b) ==
  /\ Command(b, "login", "download") /\ Keep
  /\ IF LoggedIn(agent[b]) THEN UNCHANGED cfVars ELSE CfLogin(agent[b], Space(b))

\* Mutant: the environment's name in place of its space.
LoginByEnvironment(b) ==
  /\ Command(b, "login", "download") /\ Keep
  /\ IF req[b].env \in LoginEnvs THEN CfLogin(agent[b], req[b].env) ELSE UNCHANGED cfVars

\* Stage Login.  An environment without a branch falls through the else-ifs
\* and leaves the client where the last build on the agent left it.
Login(b) ==
  /\ Command(b, "login", "download") /\ Keep
  /\ IF req[b].env \in LoginEnvs THEN CfLogin(agent[b], Space(b)) ELSE UNCHANGED cfVars

\* Mutant: a wget that fails does not stop the build.
DownloadUnchecked(b) ==
  pc[b] = "download" /\ Goto(b, "push") /\ Keep /\ UNCHANGED cfVars

\* Stages Download and Modify Manifest: the name becomes X-temp, the route x-env-temp.
Download(b) == Command(b, "download", "push") /\ Keep /\ UNCHANGED cfVars

\* cf push: upload, then wait until the application is up.
Push(b) ==
  Command(b, "push", "start") /\ Keep /\ CfPush(agent[b], req[b].app, TempRoute(b), b)
StartApp(b) == Command(b, "start", "check") /\ Keep /\ CfStart(agent[b], req[b].app)

\* status = cf app X.  A non-zero status also stands for any error of the
\* client, so an existing application may be taken for a missing one.
CheckOld(b) ==
  /\ Command(b, "check", "map")
  /\ \E ok \in {CfAppFound(agent[b], req[b].app, "live"), FALSE} : found' = [found EXCEPT ![b] = ok]
  /\ UNCHANGED <<cfVars, jarVersion>>

MapLive(b) ==
  Command(b, "map", "unmapOld") /\ Keep /\ CfMapRoute(agent[b], req[b].app, "temp", LiveRoute(b))

\* if (status == 0) unmap the live route from X
UnmapOld(b) ==
  /\ Command(b, "unmapOld", "unmapTemp") /\ Keep
  /\ IF found[b] THEN CfUnmapRoute(agent[b], req[b].app, "live", LiveRoute(b))
                 ELSE UNCHANGED cfVars

\* Mutant: the live host name in the command that unmaps the temporary one.
UnmapLiveFromTemp(b) ==
  /\ Command(b, "unmapTemp", "deleteRoute") /\ Keep
  /\ CfUnmapRoute(agent[b], req[b].app, "temp", LiveRoute(b))

UnmapTemp(b) ==
  /\ Command(b, "unmapTemp", "deleteRoute") /\ Keep
  /\ CfUnmapRoute(agent[b], req[b].app, "temp", TempRoute(b))

\* Mutant: the temporary route is unmapped but not deleted.
KeepTempRoute(b) == Command(b, "deleteRoute", "deleteOld") /\ Keep /\ UNCHANGED cfVars

DeleteTempRoute(b) ==
  Command(b, "deleteRoute", "deleteOld") /\ Keep /\ CfDeleteRoute(agent[b], TempRoute(b))

\* Mutant: the test of the status is inverted.
DeleteOldIfMissing(b) ==
  /\ Command(b, "deleteOld", "rename") /\ Keep
  /\ IF found[b] THEN UNCHANGED cfVars ELSE CfDelete(agent[b], req[b].app, "live")

\* if (status == 0) delete X
DeleteOld(b) ==
  /\ Command(b, "deleteOld", "rename") /\ Keep
  /\ IF found[b] THEN CfDelete(agent[b], req[b].app, "live") ELSE UNCHANGED cfVars

RenameTemp(b) == Command(b, "rename", "cleanup") /\ Keep /\ CfRename(agent[b], req[b].app, "live")

\* Stage Delete Extra: files of the workspace.
Cleanup(b) == Command(b, "cleanup", "SUCCESS") /\ Keep /\ UNCHANGED cfVars

\* A command exits non-zero because of what it finds; `sh` throws, the catch
\* block rethrows and the build is over.
CommandRefused(b) ==
  Running(b) /\ ~ CommandOK(b) /\ Goto(b, "REFUSED") /\ Keep /\ UNCHANGED cfVars

\* Anything else that ends a build before, between or after its commands.
Abort(b) == Running(b) /\ Goto(b, "ABORTED") /\ Keep /\ UNCHANGED cfVars

-----------------------------------------------------------------------------
\* The steps Jenkins and the cf client take by themselves.
Advance(b) ==
  \/ Prepare(b) \/ Login(b) \/ Download(b) \/ Push(b) \/ StartApp(b)
  \/ CheckOld(b) \/ MapLive(b) \/ UnmapOld(b) \/ UnmapTemp(b)
  \/ DeleteTempRoute(b) \/ DeleteOld(b) \/ RenameTemp(b) \/ Cleanup(b)
  \/ CommandRefused(b)

Step(b) == StartBuild(b) \/ Advance(b) \/ ChooseVersion(b) \/ Abort(b)

Next == \E b \in Builds : Step(b)

\* Jenkins serves its queue and executes a pipeline until it ends; nobody has
\* to answer an input step or abort a build.
Fairness ==
  /\ WF_vars(\E b \in Builds : StartBuild(b))
  /\ \A b \in Builds : WF_vars(Advance(b))

Spec == Init /\ [][Next]_vars /\ Fairness
-----------------------------------------------------------------------------
(* The service seen by the users of the live hosts, and the promise the    *)
(* pipeline implements: joining, retiring and promoting a version, the     *)
(* replacement of a version an unfinished build left pending included.     *)

ServingBits(r) == {apps[x].bits : x \in Serving(r)}

servingBar == [h \in Apps \X Envs |-> ServingBits(<<h[1], h[2], "live">>)]
pendingBar == [h \in Apps \X Envs |->
                 LET temp == apps[<<SpaceOf[h[2]], h[1], "temp">>]
                 IN  IF <<h[1], h[2], "live">> \in temp.routes THEN temp.bits ELSE NoBuild]

LS == INSTANCE LiveService WITH Hosts <- Apps \X Envs, serving <- servingBar, pending <- pendingBar

\* The builds of the job, one after the other, implement the blue-green
\* promise for every live host at once (Redeploy.groovy:102-116).
ImplementsLiveService == LS!Spec

-----------------------------------------------------------------------------
(* The inductive invariant of a job without concurrent builds whose        *)
(* environments all have a branch in the Login stage: what a build relies  *)
(* on when it issues its next command.                                     *)

Serial == ~ ConcurrentBuilds /\ LoginEnvs = Envs

OneAtATime == \A b, c \in Builds : Running(b) /\ Running(c) => b = c

\* A route is taken by the space of its environment or by nobody, and only
\* applications of that space and its artifact are mapped to it: a deployment
\* to one environment can neither block nor catch the host name of another
\* (names and routes are built from app and envs, Redeploy.groovy:92-93 and 106-115).
RoutesInOwnSpace ==
  /\ \A r \in Routes : owner[r] \in {NoSpace, SpaceOf[r[2]]}
  /\ \A x \in AppNames : \A r \in apps[x].routes : owner[r] = x[1] /\ r[1] = x[2]

MissingIsAbsent == \A x \in AppNames : ~ Exists(x) => apps[x] = Absent

\* The client is where the build logged it in.
InOwnSpace(b) == pc[b] \in Steps \ {"prepare", "input", "login"} => target[agent[b]] = Space(b)

\* X-temp is the build's own from the push to the rename, and keeps the
\* routes the remaining commands need.
TempIsMine(b) ==
  /\ pc[b] \in {"start", "check", "map", "unmapOld", "unmapTemp", "deleteRoute", "deleteOld", "rename"}
       => apps[TempApp(b)].bits = b
  /\ pc[b] \in {"check", "map", "unmapOld", "unmapTemp", "deleteRoute", "deleteOld", "rename"}
       => apps[TempApp(b)].up
  /\ pc[b] \in {"unmapOld", "unmapTemp", "deleteRoute", "deleteOld", "rename"}
       => LiveRoute(b) \in apps[TempApp(b)].routes
  /\ pc[b] \in {"start", "check", "map", "unmapOld", "unmapTemp"} => owner[TempRoute(b)] = Space(b)
  /\ pc[b] \in {"deleteOld", "rename", "cleanup"} => owner[TempRoute(b)] = NoSpace

\* The remembered answer of `cf app` stays true until X is deleted.
FoundIsCurrent(b) ==
  found[b] =>
    /\ pc[b] \in {"map", "unmapOld", "unmapTemp", "deleteRoute", "deleteOld"} => Exists(LiveApp(b))
    /\ pc[b] \in {"unmapTemp", "deleteRoute", "deleteOld"}
         => LiveRoute(b) \notin apps[LiveApp(b)].routes
    /\ pc[b] = "rename" => ~ Exists(LiveApp(b))

Promoted(b) ==
  pc[b] = "cleanup" =>
    /\ apps[LiveApp(b)].bits = b /\ apps[LiveApp(b)].up
    /\ LiveRoute(b) \in apps[LiveApp(b)].routes
    /\ ~ Exists(TempApp(b))

\* What every build of such a job relies on while it runs, and what it leaves
\* to the next one, at every point of Redeploy.groovy:62-119.  CoreInv says
\* nothing of X: it holds whoever else pushes X in place.
CoreInv ==
  /\ TypeOK /\ OneAtATime /\ RoutesInOwnSpace /\ MissingIsAbsent
  /\ \A b \in Builds : InOwnSpace(b) /\ TempIsMine(b)
IInv == CoreInv /\ \A b \in Builds : FoundIsCurrent(b) /\ Promoted(b)

-----------------------------------------------------------------------------
(* Properties *)

\* A command of build b changes applications only in the space of the
\* environment b was asked to deploy to, and only applications of its artifact
\* (the Login stage, Redeploy.groovy:62-80, chooses the space of all later commands).
OnlyOwnSpaceStep ==
  \A b \in Builds : pc'[b] # pc[b] =>
       \A x \in AppNames : apps'[x] # apps[x] => x[1] = Space(b) /\ x[2] = req[b].app
OnlyOwnSpace == [][OnlyOwnSpaceStep]_vars

\* The live host of an environment loses its last answering application in one
\* way only: a cf push (Redeploy.groovy:103) restarts a leftover X-temp that an
\* earlier, unfinished build had already given the live route (lines 108-115).
OutageOnlyByPushStep ==
  \A a \in Apps, e \in Envs :
    LET r == <<a, e, "live">>
    IN  Serving(r) # {} /\ Serving(r)' = {} =>
          \E b \in Builds : /\ pc[b] = "push" /\ pc'[b] = "start"
                            /\ req[b].app = a /\ req[b].env = e
                            /\ Serving(r) = {TempApp(b)}
OutageOnlyByPush == [][OutageOnlyByPushStep]_vars

\* When a build reports SUCCESS the live host of its environment is answered
\* by its own droplet and nothing else, under the name X, and neither X-temp
\* nor the temporary route is left, whatever earlier builds left behind.
SuccessMeansLiveStep ==
  \A b \in Builds : pc[b] # "SUCCESS" /\ pc'[b] = "SUCCESS" =>
    /\ Serving(LiveRoute(b)) = {LiveApp(b)}
    /\ apps[LiveApp(b)].bits = b
    /\ ~ Exists(TempApp(b))
    /\ owner[TempRoute(b)] = NoSpace
SuccessMeansLive == [][SuccessMeansLiveStep]_vars

\* What an earlier build left behind never makes a command of a later build
\* fail: a build is refused only for a version that is not published, or at
\* the rename after `cf app` missed an existing X (lines 106, 113-115).
NeverWedgedStep ==
  \A b \in Builds : pc[b] # "REFUSED" /\ pc'[b] = "REFUSED" =>
    pc[b] = "download" \/ (pc[b] = "rename" /\ ~ found[b])
NeverWedged == [][NeverWedgedStep]_vars

\* A droplet that has stopped answering on a live host after its build ended
\* never answers there again: an old version does not come back.
NoComebackStep ==
  \A b \in Builds, a \in Apps, e \in Envs :
    LET r == <<a, e, "live">>
    IN  ~ Running(b) /\ b \notin ServingBits(r) => b \notin ServingBits(r)'
NoComeback == [][NoComebackStep]_vars
=============================================================================
