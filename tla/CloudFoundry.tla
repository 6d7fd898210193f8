---------------------------- MODULE CloudFoundry ----------------------------
(***************************************************************************)
(* The Cloud Foundry installation the pipelines deploy to, and the `cf`    *)
(* command line client installed on the Jenkins agents.  Neither is part   *)
(* of the repository: the commands are modelled from how the scripts under *)
(* jenkins-pipeline/ use them.                                             *)
(*                                                                         *)
(* A foundation holds applications and routes in spaces.  A script names   *)
(* few of each for an artifact: X-temp and the application it becomes, and *)
(* a route for either.  Slots tells these names apart: the slot "temp" is  *)
(* X-temp, the others are what X-temp may be renamed to.                   *)
(***************************************************************************)
EXTENDS Naturals, FiniteSets, Artifacts

CONSTANTS Spaces,    \* Cloud Foundry spaces
          Slots,     \* the names an artifact's applications and routes can have
          Droplets,  \* what is pushed: a droplet is named after the build that pushed it
          Agents,    \* Jenkins agents, each with one ~/.cf/config.json
          NoSpace,   \* "not logged in", "nobody owns the route"
          NoBuild    \* "no droplet"

ASSUME NullsAreNew == NoSpace \notin Spaces /\ NoBuild \notin Droplets

ASSUME TempIsASlot == "temp" \in Slots

VARIABLES apps,      \* apps[<<s, a, k>>]: the application of artifact a and slot k in space s
          owner,     \* owner[r]: the space route r exists in
          target     \* target[g]: the space the cf client of agent g is logged in to

cfVars == <<apps, owner, target>>

AppNames == Spaces \X Apps \X Slots
Routes   == Apps \X Envs \X Slots      \* a host name is unique in its domain

AppState == [bits : Droplets \cup {NoBuild}, up : BOOLEAN, routes : SUBSET Routes]
Absent   == [bits |-> NoBuild, up |-> FALSE, routes |-> {}]

CFTypeOK ==
  /\ apps \in [AppNames -> AppState]
  /\ owner \in [Routes -> Spaces \cup {NoSpace}]
  /\ target \in [Agents -> Spaces \cup {NoSpace}]

CFInit ==
  /\ apps = [x \in AppNames |-> Absent]
  /\ owner = [r \in Routes |-> NoSpace]
  /\ target = [g \in Agents |-> NoSpace]

\* Application state x with its routes replaced.
WithRoutes(x, R) == [bits |-> x.bits, up |-> x.up, routes |-> R]

Exists(x) == apps[x].bits # NoBuild

\* The applications a request to route r can be answered by.
Serving(r) == {x \in AppNames : apps[x].up /\ r \in apps[x].routes}

-----------------------------------------------------------------------------
(* The commands, as agent g issues them.  Each is a guard (...OK), false   *)
(* when the command would exit with an error because of the state of the   *)
(* foundation, and an effect on the whole of it.                           *)

CfLogin(g, s) ==
  target' = [target EXCEPT ![g] = s] /\ UNCHANGED <<apps, owner>>

LoggedIn(g) == target[g] \in Spaces

\* cf push, first half: create or update the application, bind the
\* manifest's route, upload the droplet and stop what was running.
CfPushOK(g, r) == LoggedIn(g) /\ owner[r] \in {NoSpace, target[g]}
PushTo(s, a, k, r, b) ==
  /\ apps' = [apps EXCEPT ![<<s, a, k>>] =
                [bits |-> b, up |-> FALSE, routes |-> @.routes \cup {r}]]
  /\ owner' = [owner EXCEPT ![r] = s]
  /\ UNCHANGED target
CfPush(g, a, r, b) == PushTo(target[g], a, "temp", r, b)

\* cf push, second half: the uploaded application comes up.
StartIn(s, a, k) ==
  /\ apps' = [apps EXCEPT ![<<s, a, k>>] = [bits |-> @.bits, up |-> TRUE, routes |-> @.routes]]
  /\ UNCHANGED <<owner, target>>
CfStart(g, a) == StartIn(target[g], a, "temp")

\* cf app
CfAppFound(g, a, k) == LoggedIn(g) /\ Exists(<<target[g], a, k>>)

\* cf map-route: creates the route when no space has it.
CfMapRouteOK(g, a, k, r) ==
  LoggedIn(g) /\ Exists(<<target[g], a, k>>) /\ owner[r] \in {NoSpace, target[g]}
CfMapRoute(g, a, k, r) ==
  /\ apps' = [apps EXCEPT ![<<target[g], a, k>>] = WithRoutes(@, @.routes \cup {r})]
  /\ owner' = [owner EXCEPT ![r] = target[g]]
  /\ UNCHANGED target

\* cf unmap-route: the application and the route must exist, the mapping need not.
CfUnmapRouteOK(g, a, k, r) ==
  LoggedIn(g) /\ Exists(<<target[g], a, k>>) /\ owner[r] = target[g]
CfUnmapRoute(g, a, k, r) ==
  /\ apps' = [apps EXCEPT ![<<target[g], a, k>>] = WithRoutes(@, @.routes \ {r})]
  /\ UNCHANGED <<owner, target>>

\* cf delete-route -f: unmaps the route from every application; succeeds
\* without effect when the space has no such route.
CfDeleteRoute(g, r) ==
  IF owner[r] = target[g]
  THEN /\ apps' = [x \in AppNames |-> WithRoutes(apps[x], apps[x].routes \ {r})]
       /\ owner' = [owner EXCEPT ![r] = NoSpace]
       /\ UNCHANGED target
  ELSE UNCHANGED cfVars

\* cf delete -f: succeeds without effect when there is no such application;
\* the routes stay behind, unmapped.
CfDelete(g, a, k) ==
  apps' = [apps EXCEPT ![<<target[g], a, k>>] = Absent] /\ UNCHANGED <<owner, target>>

\* cf rename X-temp: refused when it is missing or the new name is taken.
CfRenameOK(g, a, k) ==
  LoggedIn(g) /\ Exists(<<target[g], a, "temp">>) /\ ~ Exists(<<target[g], a, k>>)
CfRename(g, a, k) ==
  /\ apps' = [apps EXCEPT ![<<target[g], a, k>>] = apps[<<target[g], a, "temp">>],
                          ![<<target[g], a, "temp">>] = Absent]
  /\ UNCHANGED <<owner, target>>
=============================================================================
