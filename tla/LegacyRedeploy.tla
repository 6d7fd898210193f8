--------------------------- MODULE LegacyRedeploy ---------------------------
(***************************************************************************)
(* The older deployment pipeline, re-deploy.groovy.  All environments live *)
(* in one space and one domain: the application of X for e is called X-e   *)
(* and answers the host X-e, and all of them are deployed through the one  *)
(* X-temp.  Unlike Redeploy.groovy it does not ask whether X-e exists, and *)
(* keeps the temporary route when it unmaps it.                            *)
(*                                                                         *)
(* So the constants of CloudFoundry are: Envs the one domain, Slots the    *)
(* environments and "temp".  The version is chosen in the build; the       *)
(* repository may not have its files, and otherwise it does not matter.    *)
(***************************************************************************)
EXTENDS CloudFoundry

CONSTANTS Environments,      \* values of the parameter environment
          Builds,
          Domain,            \* PAAS_DEV_DOMAIN
          Space,             \* PAAS_DEV_SPACE
          ConcurrentBuilds   \* may the builds of the job overlap?

ASSUME LegacyAssumption ==
  /\ Slots = Environments \cup {"temp"} /\ "temp" \notin Environments
  /\ Envs = {Domain} /\ Space \in Spaces
  /\ ConcurrentBuilds \in BOOLEAN
  /\ Droplets = Builds \cup Environments /\ Builds \cap Environments = {}

VARIABLES pc,     \* pc[b]: the command build b executes next, or its end
          req,    \* req[b]: artifact and environment of the build
          agent,  \* agent[b]: where it runs
          left    \* the artifacts and environments a build of which has ended halfway through
                  \* the swap; for the properties only

vars == <<cfVars, pc, req, agent, left>>

Swap  == {"unmapOld", "unmapTemp", "deleteOld", "rename"}
Steps == {"input", "login", "download", "push", "start", "map", "cleanup"} \cup Swap
Ended == {"SUCCESS", "REFUSED", "ABORTED"}

Running(b) == pc[b] \in Steps

AppOf(a, k) == <<Space, a, k>>
Host(a, k)  == <<a, Domain, k>>

Env(b)      == req[b].env
LiveApp(b)  == AppOf(req[b].app, Env(b))
TempApp(b)  == AppOf(req[b].app, "temp")
LiveHost(b) == Host(req[b].app, Env(b))
TempHost(b) == Host(req[b].app, "temp")

LegacyTypeOK ==
  /\ CFTypeOK
  /\ pc \in [Builds -> {"queued"} \cup Steps \cup Ended]
  /\ req \in [Builds -> [app : Apps, env : Environments]]
  /\ agent \in [Builds -> Agents]
  /\ left \subseteq Apps \X Environments

\* Some of the applications have been deployed by hand (the script cannot do it):
\* their droplet is named after the environment it was made for.
Init ==
  /\ \E old \in SUBSET (Apps \X Environments) :
       /\ apps = [x \in AppNames |->
                    IF x[1] = Space /\ <<x[2], x[3]>> \in old
                    THEN [bits |-> x[3], up |-> TRUE, routes |-> {Host(x[2], x[3])}] ELSE Absent]
       /\ owner = [r \in Routes |-> IF <<r[1], r[3]>> \in old THEN Space ELSE NoSpace]
  /\ target = [g \in Agents |-> NoSpace]
  /\ pc = [b \in Builds |-> "queued"]
  /\ req \in [Builds -> [app : Apps, env : Environments]]
  /\ agent \in [Builds -> Agents]
  /\ left = {}

-----------------------------------------------------------------------------
\* Whether the command at pc[b] exits with status 0 as far as the state it finds decides.
CommandOK(b) ==
  LET g == agent[b]
      a == req[b].app
  IN  /\ pc[b] = "push"      => CfPushOK(g, TempHost(b))
      /\ pc[b] = "map"       => CfMapRouteOK(g, a, "temp", LiveHost(b))
      /\ pc[b] = "unmapOld"  => CfUnmapRouteOK(g, a, Env(b), LiveHost(b))
      /\ pc[b] = "unmapTemp" => CfUnmapRouteOK(g, a, "temp", TempHost(b))
      /\ pc[b] = "deleteOld" => LoggedIn(g)
      /\ pc[b] = "rename"    => CfRenameOK(g, a, Env(b))

Goto(b, step) == pc' = [pc EXCEPT ![b] = step] /\ UNCHANGED <<req, agent>>

Command(b, step, next) == pc[b] = step /\ CommandOK(b) /\ Goto(b, next) /\ UNCHANGED left

\* Mutant: the builds of the job overlap.
StartBesideOthers(b) == Command(b, "queued", "input") /\ UNCHANGED cfVars

StartBuild(b) ==
  /\ ConcurrentBuilds \/ \A c \in Builds : ~ Running(c)
  /\ Command(b, "queued", "input") /\ UNCHANGED cfVars

\* Somebody selects a version of the artifact.
Choose(b)   == Command(b, "input", "login") /\ UNCHANGED cfVars

\* Mutant: the environment's name in place of the space.
LoginByEnvironment(b) == Command(b, "login", "download") /\ CfLogin(agent[b], Env(b))

Login(b)    == Command(b, "login", "download") /\ CfLogin(agent[b], Space)
\* The name becomes X-temp, the route X-temp.
Download(b) == Command(b, "download", "push") /\ UNCHANGED cfVars

\* cf push: upload, then wait until the application is up.
Push(b)     == Command(b, "push", "start") /\ CfPush(agent[b], req[b].app, TempHost(b), b)
StartApp(b) == Command(b, "start", "map") /\ CfStart(agent[b], req[b].app)

\* Mutant: the temporary host once more.
MapTemp(b) ==
  Command(b, "map", "unmapOld") /\ CfMapRoute(agent[b], req[b].app, "temp", TempHost(b))

MapLive(b) ==
  Command(b, "map", "unmapOld") /\ CfMapRoute(agent[b], req[b].app, "temp", LiveHost(b))

UnmapOld(b) ==
  Command(b, "unmapOld", "unmapTemp") /\ CfUnmapRoute(agent[b], req[b].app, Env(b), LiveHost(b))

\* Mutant: the live host name in the command that unmaps the temporary one.
UnmapLiveFromTemp(b) ==
  Command(b, "unmapTemp", "deleteOld") /\ CfUnmapRoute(agent[b], req[b].app, "temp", LiveHost(b))

UnmapTemp(b) ==
  Command(b, "unmapTemp", "deleteOld") /\ CfUnmapRoute(agent[b], req[b].app, "temp", TempHost(b))

\* Mutant: without -f nothing is deleted, and the command succeeds.
DeleteUnconfirmed(b) == Command(b, "deleteOld", "rename") /\ UNCHANGED cfVars

DeleteOld(b)  == Command(b, "deleteOld", "rename") /\ CfDelete(agent[b], req[b].app, Env(b))
RenameTemp(b) == Command(b, "rename", "cleanup") /\ CfRename(agent[b], req[b].app, Env(b))

\* Files of the workspace.
Cleanup(b) == Command(b, "cleanup", "SUCCESS") /\ UNCHANGED cfVars

\* The build ends without SUCCESS; the catch block rethrows what was thrown.
Fail(b, result) ==
  /\ Goto(b, result) /\ UNCHANGED cfVars
  /\ left' = IF pc[b] \in Swap THEN left \cup {<<req[b].app, Env(b)>>} ELSE left

\* A command exits non-zero because of what it finds.
CommandRefused(b) == Running(b) /\ ~ CommandOK(b) /\ Fail(b, "REFUSED")

\* wget: the repository has no manifest or no jar of the version.
DownloadFails(b) == pc[b] = "download" /\ Fail(b, "REFUSED")

\* Anything else that ends a build before, between or after its commands.
Abort(b) == Running(b) /\ Fail(b, "ABORTED")

Step(b) ==
  \/ StartBuild(b) \/ Choose(b) \/ Login(b) \/ Download(b) \/ Push(b) \/ StartApp(b) \/ MapLive(b)
  \/ UnmapOld(b) \/ UnmapTemp(b) \/ DeleteOld(b) \/ RenameTemp(b) \/ Cleanup(b)
  \/ CommandRefused(b) \/ DownloadFails(b) \/ Abort(b)

Next == \E b \in Builds : Step(b)
Spec == Init /\ [][Next]_vars
-----------------------------------------------------------------------------
EnvOf(d)   == IF d \in Builds THEN Env(d) ELSE d
Answers(h) == {apps[x].bits : x \in Serving(h)}

(* What holds between any two commands of builds that do not overlap *)

OneAtATime == \A b, c \in Builds : Running(b) /\ Running(c) => b = c

OwnersInSpace == \A r \in Routes : owner[r] \in {NoSpace, Space}

\* A host that no dead build has left behind is with its own application, or with X-temp
\* while a build for its environment swaps the two.
HostsAreKept ==
  \A x \in AppNames, a \in Apps, e \in Environments :
    Host(a, e) \in apps[x].routes /\ <<a, e>> \notin left =>
      /\ EnvOf(apps[x].bits) = e
      /\ \/ x = AppOf(a, e)
         \/ \E b \in Builds : pc[b] \in Swap /\ req[b].app = a /\ Env(b) = e /\ x = TempApp(b)

TempHostsAreKept ==
  \A x \in AppNames, a \in Apps : Host(a, "temp") \in apps[x].routes => x = AppOf(a, "temp")

Pushed == {"start", "map"} \cup Swap

InSpace(b) == pc[b] \in {"download", "push"} \cup Pushed => target[agent[b]] = Space

\* X-temp is what the build has made of it so far.
TempIsMine(b) ==
  /\ pc[b] \in Pushed => apps[TempApp(b)].bits = b /\ owner[TempHost(b)] = Space
  /\ pc[b] \in {"map"} \cup Swap => apps[TempApp(b)].up
  /\ pc[b] \in Swap => LiveHost(b) \in apps[TempApp(b)].routes /\ owner[LiveHost(b)] = Space
  /\ pc[b] \in {"deleteOld", "rename"} => TempHost(b) \notin apps[TempApp(b)].routes
  /\ pc[b] = "rename" => ~ Exists(LiveApp(b))

Promoted(b) ==
  pc[b] = "cleanup" =>
    /\ apps[LiveApp(b)].bits = b /\ apps[LiveApp(b)].up /\ LiveHost(b) \in apps[LiveApp(b)].routes
    /\ apps[TempApp(b)] = Absent

\* Whoever ran before, a build finds the hosts where they belong and its own X-temp as it has
\* left it, at every one of its commands (re-deploy.groovy:61-73).
LegacyInv ==
  /\ LegacyTypeOK /\ OneAtATime /\ OwnersInSpace /\ HostsAreKept /\ TempHostsAreKept
  /\ \A b \in Builds : InSpace(b) /\ TempIsMine(b) /\ Promoted(b)

-----------------------------------------------------------------------------
(* Properties of builds that do not overlap *)

\* The host of an environment is answered by what was built for that environment, unless a
\* build for it ended between map-route and rename: then X-temp has the host, and whatever
\* environment is deployed next takes it over (re-deploy.groovy:66-73).
OwnAnswers ==
  \A a \in Apps, e \in Environments :
    <<a, e>> \notin left => \A d \in Answers(Host(a, e)) : EnvOf(d) = e

\* A build that reports SUCCESS has put its own droplet at X-environment, answering the
\* host, alone unless the host was left with another application; X-temp is gone
\* (re-deploy.groovy:65-78).
SuccessIsSwappedStep ==
  \A b \in Builds : pc'[b] = "SUCCESS" /\ pc[b] # "SUCCESS" =>
    /\ apps[LiveApp(b)].bits = b /\ LiveApp(b) \in Serving(LiveHost(b))
    /\ <<req[b].app, Env(b)>> \in left \/ Serving(LiveHost(b)) = {LiveApp(b)}
    /\ ~ Exists(TempApp(b)) /\ Serving(TempHost(b)) = {}
SuccessIsSwapped == [][SuccessIsSwappedStep]_vars

\* As long as X-e itself answers its host, no command leaves the host without an answer:
\* X-temp has the host, and is up, before X-e loses it (re-deploy.groovy:66-73).
AnsweringStaysStep ==
  \A a \in Apps, e \in Environments :
    AppOf(a, e) \in Serving(Host(a, e)) => Serving(Host(a, e))' # {}
AnsweringStays == [][AnsweringStaysStep]_vars

\* Once it has its version, nothing that earlier builds leave behind makes a build fail, but
\* that X-environment is missing: never deployed, or deleted by a build that did not come to
\* the rename.  Then no build for the environment gets past the unmap-route (re-deploy.groovy:70).
RefusedOnlyIfMissingStep ==
  \A b \in Builds : pc'[b] = "REFUSED" /\ pc[b] \notin {"download", "REFUSED"} =>
    pc[b] = "unmapOld" /\ ~ Exists(LiveApp(b))
RefusedOnlyIfMissing == [][RefusedOnlyIfMissingStep]_vars
=============================================================================
