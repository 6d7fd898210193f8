---------------------------- MODULE LegacyProofs ----------------------------
(***************************************************************************)
(* Theorems about the older deployment pipeline, for any sets of artifacts,*)
(* environments, agents and builds.                                        *)
(***************************************************************************)
EXTENDS LegacyRedeploy, CloudFoundryProofs, TLAPS

-----------------------------------------------------------------------------
(* Type correctness *)

LEMMA NamesOfBuild ==
  ASSUME LegacyTypeOK, NEW b \in Builds
  PROVE  /\ req[b].app \in Apps /\ Env(b) \in Environments /\ agent[b] \in Agents
         /\ Env(b) \in Slots /\ "temp" \in Slots /\ Env(b) # "temp"
         /\ LiveApp(b) \in AppNames /\ TempApp(b) \in AppNames /\ LiveApp(b) # TempApp(b)
         /\ LiveHost(b) \in Routes /\ TempHost(b) \in Routes /\ LiveHost(b) # TempHost(b)
  BY LegacyAssumption
     DEF LegacyTypeOK, Env, LiveApp, TempApp, LiveHost, TempHost, AppOf, Host, AppNames, Routes

LEMMA BuildIsDroplet ==
  ASSUME NEW b \in Builds
  PROVE  b \in Droplets /\ b # NoBuild
  BY LegacyAssumption, NullsAreNew

LEMMA InitTypeOK == Init => LegacyTypeOK
<1> SUFFICES ASSUME Init PROVE LegacyTypeOK
  OBVIOUS
<1>1. PICK old \in SUBSET (Apps \X Environments) :
        /\ apps = [x \in AppNames |->
                     IF x[1] = Space /\ <<x[2], x[3]>> \in old
                     THEN [bits |-> x[3], up |-> TRUE, routes |-> {Host(x[2], x[3])}] ELSE Absent]
        /\ owner = [r \in Routes |-> IF <<r[1], r[3]>> \in old THEN Space ELSE NoSpace]
  BY DEF Init
<1>2. ASSUME NEW x \in AppNames PROVE apps[x] \in AppState
  <2>1. CASE x[1] = Space /\ <<x[2], x[3]>> \in old
    <3>1. x[3] \in Droplets /\ Host(x[2], x[3]) \in Routes
      BY <2>1, LegacyAssumption DEF AppNames, Host, Routes
    <3>2. {Host(x[2], x[3])} \in SUBSET Routes
      BY <3>1
    <3>3. apps[x] = [bits |-> x[3], up |-> TRUE, routes |-> {Host(x[2], x[3])}]
      BY <1>1, <2>1
    <3> QED
      BY <3>1, <3>2, <3>3 DEF AppState
  <2> QED
    BY <1>1, <2>1, AbsentTyped
<1>3. CFTypeOK
  BY <1>1, <1>2, LegacyAssumption DEF Init, CFTypeOK
<1> QED
  BY <1>3 DEF Init, LegacyTypeOK

\* Every step leaves a well-typed state.
LEMMA StepTypeOK ==
  ASSUME LegacyTypeOK, NEW b \in Builds, Step(b)
  PROVE  LegacyTypeOK'
<1> USE DEF Command, Goto, Fail
<1>1. pc' \in [Builds -> {"queued"} \cup Steps \cup Ended] /\ UNCHANGED <<req, agent>>
  BY DEF LegacyTypeOK, Step, Steps, Swap, Ended, StartBuild, Choose, Login, Download, Push, StartApp,
     MapLive, UnmapOld, UnmapTemp, DeleteOld, RenameTemp, Cleanup, CommandRefused, DownloadFails, Abort
<1>2. left' \subseteq Apps \X Environments
  BY NamesOfBuild
     DEF LegacyTypeOK, Step, StartBuild, Choose, Login, Download, Push, StartApp,
     MapLive, UnmapOld, UnmapTemp, DeleteOld, RenameTemp, Cleanup, CommandRefused, DownloadFails, Abort
<1>3. CFTypeOK'
  <2> DEFINE g == agent[b]
             a == req[b].app
             e == Env(b)
  <2>0. /\ CFTypeOK /\ g \in Agents /\ a \in Apps /\ e \in Slots /\ "temp" \in Slots
        /\ LiveHost(b) \in Routes /\ TempHost(b) \in Routes /\ Space \in Spaces
    BY NamesOfBuild, LegacyAssumption DEF LegacyTypeOK
  <2> HIDE DEF g, a, e
  <2>1. ASSUME UNCHANGED cfVars PROVE CFTypeOK'
    BY <2>0, <2>1 DEF CFTypeOK, cfVars
  <2>2. CASE Login(b)
    BY <2>0, <2>2, CommandsTyped DEF Login, g
  <2>3. CASE Push(b)
    <3>1. LoggedIn(g) /\ CfPush(g, a, TempHost(b), b)
      BY <2>3 DEF Push, CommandOK, CfPushOK, g, a
    <3> QED
      BY <2>0, <3>1, BuildIsDroplet, CommandsTyped
  <2>4. CASE StartApp(b)
    BY <2>0, <2>4, CommandsTyped DEF StartApp, g, a
  <2>5. CASE MapLive(b)
    <3>1. LoggedIn(g) /\ CfMapRoute(g, a, "temp", LiveHost(b))
      BY <2>5 DEF MapLive, CommandOK, CfMapRouteOK, g, a
    <3> QED
      BY <2>0, <3>1, CommandsTyped
  <2>6. CASE UnmapOld(b)
    BY <2>0, <2>6, CommandsTyped DEF UnmapOld, g, a, e
  <2>7. CASE UnmapTemp(b)
    BY <2>0, <2>7, CommandsTyped DEF UnmapTemp, g, a
  <2>8. CASE DeleteOld(b)
    BY <2>0, <2>8, CommandsTyped DEF DeleteOld, g, a, e
  <2>9. CASE RenameTemp(b)
    <3>1. LoggedIn(g) /\ CfRename(g, a, e)
      BY <2>9 DEF RenameTemp, CommandOK, CfRenameOK, g, a, e
    <3> QED
      BY <2>0, <3>1, CommandsTyped
  <2> QED
    BY <2>1, <2>2, <2>3, <2>4, <2>5, <2>6, <2>7, <2>8, <2>9
       DEF Step, StartBuild, Choose, Download, Cleanup, CommandRefused, DownloadFails, Abort
<1> QED
  BY <1>1, <1>2, <1>3 DEF LegacyTypeOK

\* Whatever the settings of the job, every reachable state is well typed (the state
\* re-deploy.groovy and the cf client keep).
THEOREM LegacyTypeCorrect == Spec => []LegacyTypeOK
<1>1. LegacyTypeOK /\ [Next]_vars => LegacyTypeOK'
  <2> SUFFICES ASSUME LegacyTypeOK, [Next]_vars PROVE LegacyTypeOK'
    OBVIOUS
  <2>1. CASE Next
    BY <2>1, StepTypeOK DEF Next
  <2>2. CASE UNCHANGED vars
    BY <2>2 DEF vars, cfVars, LegacyTypeOK, CFTypeOK
  <2> QED
    BY <2>1, <2>2
<1> QED
  BY InitTypeOK, <1>1, PTL DEF Spec

-----------------------------------------------------------------------------
(* What a step changes *)

\* A step of b moves no other build, and no build to other names.
LEMMA StepKeeps ==
  ASSUME LegacyTypeOK, NEW b \in Builds, Step(b)
  PROVE  /\ req' = req /\ agent' = agent
         /\ \A c \in Builds : c # b => pc'[c] = pc[c]
         /\ \A c \in Builds : /\ LiveApp(c)' = LiveApp(c) /\ TempApp(c)' = TempApp(c)
                             /\ LiveHost(c)' = LiveHost(c) /\ TempHost(c)' = TempHost(c)
                             /\ Env(c)' = Env(c)
         /\ \A d \in Droplets : EnvOf(d)' = EnvOf(d)
<1>1. req' = req /\ agent' = agent /\ \A c \in Builds : c # b => pc'[c] = pc[c]
  BY DEF LegacyTypeOK, Step, StartBuild, Choose, Login, Download, Push, StartApp, MapLive, UnmapOld,
     UnmapTemp, DeleteOld, RenameTemp, Cleanup, CommandRefused, DownloadFails, Abort, Command, Goto, Fail
<1> QED
  BY <1>1 DEF LiveApp, TempApp, LiveHost, TempHost, Env, EnvOf

\* The steps of a running build, by where it is.
LEMMA StepFrom ==
  ASSUME LegacyTypeOK, NEW b \in Builds, Step(b)
  PROVE  \/ pc[b] = "queued" /\ pc'[b] = "input" /\ StartBuild(b)
         \/ pc[b] = "input" /\ pc'[b] = "login" /\ Choose(b)
         \/ pc[b] = "login" /\ pc'[b] = "download" /\ Login(b)
         \/ pc[b] = "download" /\ pc'[b] = "push" /\ Download(b)
         \/ pc[b] = "push" /\ pc'[b] = "start" /\ Push(b)
         \/ pc[b] = "start" /\ pc'[b] = "map" /\ StartApp(b)
         \/ pc[b] = "map" /\ pc'[b] = "unmapOld" /\ MapLive(b)
         \/ pc[b] = "unmapOld" /\ pc'[b] = "unmapTemp" /\ UnmapOld(b)
         \/ pc[b] = "unmapTemp" /\ pc'[b] = "deleteOld" /\ UnmapTemp(b)
         \/ pc[b] = "deleteOld" /\ pc'[b] = "rename" /\ DeleteOld(b)
         \/ pc[b] = "rename" /\ pc'[b] = "cleanup" /\ RenameTemp(b)
         \/ pc[b] = "cleanup" /\ pc'[b] = "SUCCESS" /\ Cleanup(b)
         \/ Running(b) /\ pc'[b] \in {"REFUSED", "ABORTED"} /\ (CommandRefused(b) \/ DownloadFails(b) \/ Abort(b))
<1>1. DownloadFails(b) => Running(b) /\ pc'[b] = "REFUSED"
  BY DEF LegacyTypeOK, DownloadFails, Fail, Goto, Running, Steps
<1> QED
  BY <1>1 DEF LegacyTypeOK, Step, StartBuild, Choose, Login, Download, Push, StartApp, MapLive, UnmapOld,
     UnmapTemp, DeleteOld, RenameTemp, Cleanup, CommandRefused, Abort, Command, Goto, Fail

\* Most steps leave the foundation alone.
LEMMA Quiet ==
  ASSUME NEW b \in Builds
  PROVE  /\ StartBuild(b) \/ Choose(b) \/ Download(b) \/ Cleanup(b) \/ CommandRefused(b) \/ DownloadFails(b) \/ Abort(b)
              => UNCHANGED <<apps, owner, target>>
         /\ Login(b) => UNCHANGED <<apps, owner>>
         /\ ~ (CommandRefused(b) \/ DownloadFails(b) \/ Abort(b)) /\ Step(b) => UNCHANGED left
  BY DEF Step, StartBuild, Choose, Login, Download, Push, StartApp, MapLive, UnmapOld, UnmapTemp,
     DeleteOld, RenameTemp, Cleanup, CommandRefused, DownloadFails, Abort, Command, Fail, CfLogin, cfVars

\* What the others do to the two applications of the build.
LEMMA Effects ==
  ASSUME LegacyTypeOK, NEW b \in Builds, InSpace(b)
  PROVE  LET T == TempApp(b)
             V == LiveApp(b)
             OnlyAt(x) == \A y \in AppNames : y # x => apps'[y] = apps[y]
         IN  /\ Push(b) =>
                  /\ OnlyAt(T) /\ target' = target
                  /\ apps'[T].bits = b /\ apps'[T].routes = apps[T].routes \cup {TempHost(b)}
                  /\ owner' = [owner EXCEPT ![TempHost(b)] = Space]
             /\ StartApp(b) =>
                  /\ OnlyAt(T) /\ owner' = owner /\ target' = target
                  /\ apps'[T].bits = apps[T].bits /\ apps'[T].routes = apps[T].routes /\ apps'[T].up
             /\ MapLive(b) =>
                  /\ OnlyAt(T) /\ target' = target
                  /\ apps'[T].bits = apps[T].bits /\ apps'[T].up = apps[T].up
                  /\ apps'[T].routes = apps[T].routes \cup {LiveHost(b)}
                  /\ owner' = [owner EXCEPT ![LiveHost(b)] = Space]
             /\ UnmapOld(b) =>
                  /\ OnlyAt(V) /\ owner' = owner /\ target' = target
                  /\ apps'[V].bits = apps[V].bits /\ apps'[V].up = apps[V].up
                  /\ apps'[V].routes = apps[V].routes \ {LiveHost(b)}
             /\ UnmapTemp(b) =>
                  /\ OnlyAt(T) /\ owner' = owner /\ target' = target
                  /\ apps'[T].bits = apps[T].bits /\ apps'[T].up = apps[T].up
                  /\ apps'[T].routes = apps[T].routes \ {TempHost(b)}
             /\ DeleteOld(b) =>
                  OnlyAt(V) /\ apps'[V] = Absent /\ owner' = owner /\ target' = target
             /\ RenameTemp(b) =>
                  /\ \A y \in AppNames : y \notin {T, V} => apps'[y] = apps[y]
                  /\ apps'[V] = apps[T] /\ apps'[T] = Absent /\ owner' = owner /\ target' = target
<1> DEFINE T == TempApp(b)
           V == LiveApp(b)
<1>0. T \in AppNames /\ V \in AppNames /\ T # V /\ CFTypeOK
  BY NamesOfBuild DEF LegacyTypeOK
<1>s. ASSUME pc[b] \in {"push"} \cup Pushed
      PROVE  <<target[agent[b]], req[b].app, "temp">> = T /\ <<target[agent[b]], req[b].app, Env(b)>> = V
             /\ target[agent[b]] = Space
  BY <1>s DEF InSpace, TempApp, LiveApp, AppOf
<1>1. ASSUME Push(b)
      PROVE  /\ \A y \in AppNames : y # T => apps'[y] = apps[y]
             /\ apps'[T].bits = b /\ apps'[T].routes = apps[T].routes \cup {TempHost(b)}
             /\ owner' = [owner EXCEPT ![TempHost(b)] = Space] /\ target' = target
  <2>1. PushTo(Space, req[b].app, "temp", TempHost(b), b) /\ <<Space, req[b].app, "temp">> = T
    BY <1>1, <1>s DEF Push, Command, CfPush
  <2> QED
    BY <1>0, <2>1 DEF PushTo, CFTypeOK
<1>2. ASSUME StartApp(b)
      PROVE  /\ \A y \in AppNames : y # T => apps'[y] = apps[y]
             /\ apps'[T].bits = apps[T].bits /\ apps'[T].routes = apps[T].routes /\ apps'[T].up
             /\ owner' = owner /\ target' = target
  <2>1. StartIn(Space, req[b].app, "temp") /\ <<Space, req[b].app, "temp">> = T
    BY <1>2, <1>s DEF StartApp, Command, CfStart, Pushed
  <2> QED
    BY <1>0, <2>1 DEF StartIn, CFTypeOK
<1>3. ASSUME MapLive(b)
      PROVE  /\ \A y \in AppNames : y # T => apps'[y] = apps[y]
             /\ apps'[T].bits = apps[T].bits /\ apps'[T].up = apps[T].up
             /\ apps'[T].routes = apps[T].routes \cup {LiveHost(b)}
             /\ owner' = [owner EXCEPT ![LiveHost(b)] = Space] /\ target' = target
  <2>1. CfMapRoute(agent[b], req[b].app, "temp", LiveHost(b)) /\ pc[b] \in Pushed
    BY <1>3 DEF MapLive, Command, Pushed
  <2> QED
    BY <1>0, <1>s, <2>1 DEF CfMapRoute, WithRoutes, CFTypeOK
<1>4. ASSUME UnmapOld(b)
      PROVE  /\ \A y \in AppNames : y # V => apps'[y] = apps[y]
             /\ apps'[V].bits = apps[V].bits /\ apps'[V].up = apps[V].up
             /\ apps'[V].routes = apps[V].routes \ {LiveHost(b)}
             /\ owner' = owner /\ target' = target
  <2>1. CfUnmapRoute(agent[b], req[b].app, Env(b), LiveHost(b)) /\ pc[b] \in Pushed
    BY <1>4 DEF UnmapOld, Command, Pushed, Swap
  <2> QED
    BY <1>0, <1>s, <2>1 DEF CfUnmapRoute, WithRoutes, CFTypeOK
<1>5. ASSUME UnmapTemp(b)
      PROVE  /\ \A y \in AppNames : y # T => apps'[y] = apps[y]
             /\ apps'[T].bits = apps[T].bits /\ apps'[T].up = apps[T].up
             /\ apps'[T].routes = apps[T].routes \ {TempHost(b)}
             /\ owner' = owner /\ target' = target
  <2>1. CfUnmapRoute(agent[b], req[b].app, "temp", TempHost(b)) /\ pc[b] \in Pushed
    BY <1>5 DEF UnmapTemp, Command, Pushed, Swap
  <2> QED
    BY <1>0, <1>s, <2>1 DEF CfUnmapRoute, WithRoutes, CFTypeOK
<1>6. ASSUME DeleteOld(b)
      PROVE  /\ \A y \in AppNames : y # V => apps'[y] = apps[y]
             /\ apps'[V] = Absent /\ owner' = owner /\ target' = target
  <2>1. CfDelete(agent[b], req[b].app, Env(b)) /\ pc[b] \in Pushed
    BY <1>6 DEF DeleteOld, Command, Pushed, Swap
  <2> QED
    BY <1>0, <1>s, <2>1 DEF CfDelete, CFTypeOK
<1>7. ASSUME RenameTemp(b)
      PROVE  /\ \A y \in AppNames : y \notin {T, V} => apps'[y] = apps[y]
             /\ apps'[V] = apps[T] /\ apps'[T] = Absent /\ owner' = owner /\ target' = target
  <2>1. CfRename(agent[b], req[b].app, Env(b)) /\ pc[b] \in Pushed
    BY <1>7 DEF RenameTemp, Command, Pushed, Swap
  <2> QED
    BY <1>0, <1>s, <2>1 DEF CfRename, CFTypeOK
<1> QED
  BY <1>1, <1>2, <1>3, <1>4, <1>5, <1>6, <1>7

-----------------------------------------------------------------------------
(* The inductive invariant of a job whose builds do not overlap *)

LEMMA OthersIdle ==
  ASSUME ~ ConcurrentBuilds, LegacyTypeOK, OneAtATime, NEW b \in Builds, Step(b),
         NEW c \in Builds, c # b
  PROVE  ~ Running(c) /\ ~ Running(c)'
<1>1. ~ Running(c)
  <2>1. CASE Running(b)
    BY <2>1 DEF OneAtATime
  <2>2. CASE pc[b] = "queued" /\ StartBuild(b)
    BY <2>2 DEF StartBuild
  <2> QED
    BY <2>1, <2>2, StepFrom DEF Running, Steps, Swap
<1>2. pc'[c] = pc[c]
  BY StepKeeps
<1> QED
  BY <1>1, <1>2 DEF Running

LEMMA OneAtATimeKept ==
  ASSUME ~ ConcurrentBuilds, LegacyTypeOK, OneAtATime, NEW b \in Builds, Step(b)
  PROVE  OneAtATime'
<1>1. ASSUME NEW c \in Builds, c # b PROVE ~ Running(c)'
  BY <1>1, OthersIdle
<1> QED
  BY <1>1 DEF OneAtATime

LEMMA OwnersInSpaceKept ==
  ASSUME LegacyTypeOK, OwnersInSpace, NEW b \in Builds, InSpace(b), Step(b)
  PROVE  OwnersInSpace'
<1>1. CASE owner' = owner
  BY <1>1 DEF OwnersInSpace
<1>2. CASE Push(b) \/ MapLive(b)
  <2>1. PICK r \in Routes : owner' = [owner EXCEPT ![r] = Space]
    BY <1>2, Effects, NamesOfBuild
  <2> QED
    BY <2>1 DEF OwnersInSpace, LegacyTypeOK, CFTypeOK
<1> QED
  BY <1>1, <1>2, Quiet, Effects DEF Step

\* The host names of different slots differ.
LEMMA HostsDiffer ==
  ASSUME LegacyTypeOK, NEW b \in Builds, NEW a, NEW e \in Environments
  PROVE  /\ Host(a, e) # TempHost(b)
         /\ Host(a, e) = LiveHost(b) => a = req[b].app /\ e = Env(b)
         /\ Host(a, "temp") # LiveHost(b)
         /\ Host(a, "temp") = TempHost(b) => AppOf(a, "temp") = TempApp(b)
         /\ AppOf(a, e) # TempApp(b)
         /\ a = req[b].app /\ e = Env(b) => AppOf(a, e) = LiveApp(b)
  BY NamesOfBuild, LegacyAssumption DEF Host, LiveHost, TempHost, AppOf, TempApp, LiveApp, Env

LEMMA TempHostsKept ==
  ASSUME LegacyTypeOK, TempHostsAreKept, NEW b \in Builds, InSpace(b), TempIsMine(b), Step(b)
  PROVE  TempHostsAreKept'
<1> SUFFICES ASSUME NEW x \in AppNames, NEW a \in Apps, Host(a, "temp") \in apps'[x].routes
             PROVE  x = AppOf(a, "temp")
  BY DEF TempHostsAreKept, Host, AppOf
<1> DEFINE T == TempApp(b)
           V == LiveApp(b)
           h == Host(a, "temp")
<1>0. T \in AppNames /\ V \in AppNames /\ h # LiveHost(b)
  BY NamesOfBuild, HostsDiffer, LegacyAssumption
<1>1. CASE h \in apps[x].routes
  BY <1>1 DEF TempHostsAreKept
<1>2. CASE h \notin apps[x].routes
  <2>1. CASE Push(b)
    <3>1. x = T /\ h = TempHost(b)
      BY <1>2, <2>1, Effects
    <3> QED
      BY <3>1 DEF TempHost, TempApp, Host, AppOf
  <2>2. CASE RenameTemp(b)
    <3>1. x = V /\ h \in apps[T].routes
      BY <1>2, <2>2, Effects DEF Absent
    <3>2. T = AppOf(a, "temp")
      BY <1>0, <3>1 DEF TempHostsAreKept
    <3>3. h = TempHost(b)
      BY <3>2 DEF TempApp, TempHost, AppOf, Host
    <3>4. h \notin apps[T].routes
      BY <2>2, <3>3 DEF TempIsMine, RenameTemp, Command
    <3> QED
      BY <3>1, <3>4
  <2>3. CASE StartApp(b) \/ MapLive(b) \/ UnmapOld(b) \/ UnmapTemp(b) \/ DeleteOld(b)
    BY <1>0, <1>2, <2>3, Effects DEF Absent
  <2>4. CASE apps' = apps
    BY <1>2, <2>4
  <2> QED
    BY <2>1, <2>2, <2>3, <2>4, Quiet DEF Step
<1> QED
  BY <1>1, <1>2

\* Before a step of b no build but b is in the middle of a swap.
LEMMA SwapIsMine ==
  ASSUME ~ ConcurrentBuilds, LegacyTypeOK, OneAtATime, NEW b \in Builds, Step(b),
         NEW c \in Builds, pc[c] \in Swap
  PROVE  c = b
  BY OthersIdle DEF Running, Steps

LEMMA HostsKept ==
  ASSUME ~ ConcurrentBuilds, LegacyTypeOK, OneAtATime, HostsAreKept,
         NEW b \in Builds, InSpace(b), TempIsMine(b), Step(b)
  PROVE  HostsAreKept'
<1> SUFFICES ASSUME NEW x \in AppNames, NEW a \in Apps, NEW e \in Environments,
                    Host(a, e) \in apps'[x].routes, <<a, e>> \notin left'
             PROVE  /\ EnvOf(apps'[x].bits) = e
                    /\ \/ x = AppOf(a, e)
                       \/ \E c \in Builds : pc'[c] \in Swap /\ req[c].app = a /\ Env(c) = e /\ x = TempApp(c)
  BY StepKeeps DEF HostsAreKept, Host, AppOf, EnvOf, Env, TempApp
<1> DEFINE T == TempApp(b)
           V == LiveApp(b)
           h == Host(a, e)
           Mine == req[b].app = a /\ Env(b) = e
<1>0. /\ T \in AppNames /\ V \in AppNames /\ T # V /\ h # TempHost(b)
      /\ h = LiveHost(b) => Mine
      /\ AppOf(a, e) # T /\ (Mine => AppOf(a, e) = V)
  BY NamesOfBuild, HostsDiffer
<1>l. <<a, e>> \notin left /\ (CommandRefused(b) \/ DownloadFails(b) \/ Abort(b) => pc[b] \notin Swap \/ ~ Mine)
  BY StepKeeps DEF Step, StartBuild, Choose, Login, Download, Push, StartApp, MapLive, UnmapOld,
     UnmapTemp, DeleteOld, RenameTemp, Cleanup, CommandRefused, DownloadFails, Abort, Command, Fail
\* What was there before, of any application.
<1>1. ASSUME NEW y \in AppNames, h \in apps[y].routes
      PROVE  /\ EnvOf(apps[y].bits) = e
             /\ y = AppOf(a, e) \/ (pc[b] \in Swap /\ Mine /\ y = T)
  <2>1. /\ EnvOf(apps[y].bits) = e
        /\ \/ y = AppOf(a, e)
           \/ \E c \in Builds : pc[c] \in Swap /\ req[c].app = a /\ Env(c) = e /\ y = TempApp(c)
    BY <1>1, <1>l DEF HostsAreKept
  <2> QED
    BY <2>1, SwapIsMine
<1>2. CASE apps' = apps
  <2>1. EnvOf(apps'[x].bits) = e /\ (x = AppOf(a, e) \/ (pc[b] \in Swap /\ Mine /\ x = T))
    BY <1>1, <1>2
  <2>2. pc[b] \in Swap /\ Mine => pc'[b] \in Swap \/ RenameTemp(b)
    BY <1>l, StepFrom DEF Swap
  <2>3. ~ RenameTemp(b) \/ T = V \/ x # T
    BY <1>0, <1>2, Effects DEF Absent
  <2> QED
    BY <1>0, <2>1, <2>2, <2>3
<1>3. CASE Push(b) \/ StartApp(b)
  <2>1. h \in apps[x].routes
    BY <1>0, <1>3, Effects
  <2>2. pc[b] \notin Swap
    BY <1>3 DEF Push, StartApp, Command, Swap
  <2>3. x = AppOf(a, e) /\ EnvOf(apps[x].bits) = e
    BY <1>1, <2>1, <2>2
  <2>4. apps'[x] = apps[x]
    BY <1>0, <1>3, <2>3, Effects
  <2> QED
    BY <2>3, <2>4
<1>4. CASE MapLive(b)
  <2>0. pc[b] = "map" /\ pc'[b] = "unmapOld"
    BY <1>4 DEF MapLive, Command, Goto, LegacyTypeOK
  <2>1. CASE x # T
    <3>1. apps'[x] = apps[x]
      BY <1>4, <2>1, Effects
    <3> QED
      BY <1>1, <2>1, <3>1
  <2>2. CASE x = T
    <3>1. h \notin apps[T].routes
      BY <1>0, <1>1, <2>0 DEF Swap
    <3>2. h = LiveHost(b) /\ Mine
      BY <1>0, <1>4, <2>2, <3>1, Effects
    <3>3. apps'[T].bits = b
      BY <1>4, <2>0, Effects DEF TempIsMine, Pushed
    <3>4. EnvOf(b) = e
      BY <3>2 DEF EnvOf
    <3> QED
      BY <2>0, <2>2, <3>2, <3>3, <3>4 DEF Swap
  <2> QED
    BY <2>1, <2>2
<1>5. CASE UnmapOld(b) \/ UnmapTemp(b) \/ DeleteOld(b)
  <2>0. pc'[b] \in Swap
    BY <1>5 DEF UnmapOld, UnmapTemp, DeleteOld, Command, Goto, Swap, LegacyTypeOK
  <2>1. h \in apps[x].routes /\ apps'[x].bits = apps[x].bits
    BY <1>0, <1>5, Effects DEF Absent
  <2> QED
    BY <1>1, <2>0, <2>1
<1>6. CASE RenameTemp(b)
  <2>1. CASE x = V
    <3>1. h \in apps[T].routes /\ apps'[x].bits = apps[T].bits
      BY <1>0, <1>6, <2>1, Effects
    <3>2. Mine /\ EnvOf(apps[T].bits) = e
      BY <1>0, <1>1, <3>1
    <3> QED
      BY <1>0, <2>1, <3>1, <3>2
  <2>2. CASE x # V
    <3>1. x # T /\ apps'[x] = apps[x]
      BY <1>0, <1>6, <2>2, Effects DEF Absent
    <3> QED
      BY <1>1, <3>1
  <2> QED
    BY <2>1, <2>2
<1> QED
  BY <1>2, <1>3, <1>4, <1>5, <1>6, Quiet DEF Step

LEMMA InSpaceKept ==
  ASSUME ~ ConcurrentBuilds, LegacyTypeOK, OneAtATime, NEW b \in Builds, InSpace(b), Step(b),
         NEW c \in Builds
  PROVE  InSpace(c)'
<1>1. CASE c # b
  BY <1>1, OthersIdle DEF InSpace, Running, Steps, Pushed, Swap
<1>2. CASE c = b /\ Login(b)
  BY <1>2, NamesOfBuild
     DEF Login, Command, Goto, CfLogin, InSpace, LegacyTypeOK, CFTypeOK, OneAtATime, Running
<1>3. CASE c = b /\ ~ Login(b)
  <2>1. target' = target
    BY <1>3, Quiet, Effects DEF Step
  <2>2. pc'[b] \in {"download", "push"} \cup Pushed => pc[b] \in {"download", "push"} \cup Pushed
    BY <1>3, StepFrom DEF Pushed, Swap
  <2> QED
    BY <1>3, <2>1, <2>2, StepKeeps DEF InSpace
<1> QED
  BY <1>1, <1>2, <1>3 DEF Step

LEMMA TempIsMineKept ==
  ASSUME ~ ConcurrentBuilds, LegacyTypeOK, OneAtATime, NEW b \in Builds, InSpace(b), TempIsMine(b),
         Step(b), NEW c \in Builds
  PROVE  TempIsMine(c)'
<1>1. CASE c # b
  BY <1>1, OthersIdle DEF TempIsMine, Running, Steps, Pushed, Swap
<1>2. CASE c = b
  <2> DEFINE T == TempApp(b)
             V == LiveApp(b)
  <2>0. /\ T \in AppNames /\ V \in AppNames /\ T # V /\ CFTypeOK
        /\ LiveHost(b) \in Routes /\ TempHost(b) \in Routes /\ LiveHost(b) # TempHost(b)
    BY NamesOfBuild DEF LegacyTypeOK
  \* The invariant of the next state, in terms of b's own names.
  <2> SUFFICES /\ pc'[b] \in Pushed => apps'[T].bits = b /\ owner'[TempHost(b)] = Space
               /\ pc'[b] \in {"map"} \cup Swap => apps'[T].up
               /\ pc'[b] \in Swap => LiveHost(b) \in apps'[T].routes /\ owner'[LiveHost(b)] = Space
               /\ pc'[b] \in {"deleteOld", "rename"} => TempHost(b) \notin apps'[T].routes
               /\ pc'[b] = "rename" => apps'[V].bits = NoBuild
    BY <1>2, StepKeeps DEF TempIsMine, Exists
  <2>1. CASE pc'[b] \notin Pushed
    BY <2>1 DEF Pushed, Swap
  <2>2. CASE pc[b] = "push" /\ pc'[b] = "start" /\ Push(b)
    BY <2>0, <2>2, Effects DEF Swap, CFTypeOK
  <2>3. CASE pc[b] = "start" /\ pc'[b] = "map" /\ StartApp(b)
    BY <2>0, <2>3, Effects DEF Swap, Pushed, TempIsMine
  <2>4. CASE pc[b] = "map" /\ pc'[b] = "unmapOld" /\ MapLive(b)
    BY <2>0, <2>4, Effects DEF Swap, Pushed, TempIsMine, CFTypeOK
  <2>5. CASE pc[b] = "unmapOld" /\ pc'[b] = "unmapTemp" /\ UnmapOld(b)
    BY <2>0, <2>5, Effects DEF Swap, Pushed, TempIsMine
  <2>6. CASE pc[b] = "unmapTemp" /\ pc'[b] = "deleteOld" /\ UnmapTemp(b)
    BY <2>0, <2>6, Effects DEF Swap, Pushed, TempIsMine
  <2>7. CASE pc[b] = "deleteOld" /\ pc'[b] = "rename" /\ DeleteOld(b)
    BY <2>0, <2>7, Effects DEF Swap, Pushed, TempIsMine, Absent
  <2> QED
    BY <2>1, <2>2, <2>3, <2>4, <2>5, <2>6, <2>7, StepFrom DEF Pushed, Swap
<1> QED
  BY <1>1, <1>2

LEMMA PromotedKept ==
  ASSUME ~ ConcurrentBuilds, LegacyTypeOK, OneAtATime, NEW b \in Builds, InSpace(b), TempIsMine(b),
         Step(b), NEW c \in Builds
  PROVE  Promoted(c)'
<1>1. CASE c # b
  BY <1>1, OthersIdle DEF Promoted, Running, Steps
<1>2. CASE c = b /\ pc'[b] # "cleanup"
  BY <1>2 DEF Promoted
<1>3. CASE c = b /\ pc'[b] = "cleanup"
  <2>1. pc[b] = "rename" /\ RenameTemp(b)
    BY <1>3, StepFrom
  <2>2. apps'[LiveApp(b)] = apps[TempApp(b)] /\ apps'[TempApp(b)] = Absent
    BY <2>1, Effects
  <2>3. /\ apps[TempApp(b)].bits = b /\ apps[TempApp(b)].up
        /\ LiveHost(b) \in apps[TempApp(b)].routes
    BY <2>1 DEF TempIsMine, Pushed, Swap
  <2> QED
    BY <1>3, <2>2, <2>3, StepKeeps DEF Promoted, Absent
<1> QED
  BY <1>1, <1>2, <1>3

LEMMA InitLegacyInv == Init => LegacyInv
<1> SUFFICES ASSUME Init PROVE LegacyInv
  OBVIOUS
<1>1. PICK old \in SUBSET (Apps \X Environments) :
        /\ apps = [x \in AppNames |->
                     IF x[1] = Space /\ <<x[2], x[3]>> \in old
                     THEN [bits |-> x[3], up |-> TRUE, routes |-> {Host(x[2], x[3])}] ELSE Absent]
        /\ owner = [r \in Routes |-> IF <<r[1], r[3]>> \in old THEN Space ELSE NoSpace]
  BY DEF Init
<1>2. \A b \in Builds : pc[b] = "queued"
  BY DEF Init
<1>3. ASSUME NEW x \in AppNames, NEW r \in apps[x].routes
      PROVE  /\ r = Host(x[2], x[3]) /\ x = AppOf(x[2], x[3])
             /\ x[3] \in Environments /\ apps[x].bits = x[3]
  <2>1. x[1] = Space /\ <<x[2], x[3]>> \in old
    BY <1>1, <1>3 DEF Absent
  <2>2. apps[x] = [bits |-> x[3], up |-> TRUE, routes |-> {Host(x[2], x[3])}]
    BY <1>1, <2>1
  <2> QED
    BY <1>3, <2>1, <2>2 DEF AppNames, AppOf
<1>4. HostsAreKept
  <2> SUFFICES ASSUME NEW x \in AppNames, NEW a \in Apps, NEW e \in Environments,
                      Host(a, e) \in apps[x].routes
               PROVE  EnvOf(apps[x].bits) = e /\ x = AppOf(a, e)
    BY DEF HostsAreKept
  <2>1. x[2] = a /\ x[3] = e
    BY <1>3 DEF Host
  <2>2. e \notin Builds
    BY LegacyAssumption
  <2> QED
    BY <1>3, <2>1, <2>2 DEF EnvOf
<1>5. TempHostsAreKept
  BY <1>3, LegacyAssumption DEF TempHostsAreKept, Host
<1>6. OwnersInSpace
  BY <1>1 DEF OwnersInSpace
<1>7. OneAtATime /\ \A b \in Builds : InSpace(b) /\ TempIsMine(b) /\ Promoted(b)
  BY <1>2 DEF OneAtATime, Running, Steps, Swap, InSpace, TempIsMine, Promoted, Pushed
<1> QED
  BY InitTypeOK, <1>4, <1>5, <1>6, <1>7 DEF LegacyInv

LEMMA StepLegacyInv ==
  ASSUME ~ ConcurrentBuilds, LegacyInv, [Next]_vars
  PROVE  LegacyInv'
<1>1. ASSUME NEW b \in Builds, Step(b) PROVE LegacyInv'
  <2>0. /\ LegacyTypeOK /\ OneAtATime /\ OwnersInSpace /\ HostsAreKept /\ TempHostsAreKept
        /\ InSpace(b) /\ TempIsMine(b)
    BY DEF LegacyInv
  <2>1. LegacyTypeOK'
    BY <1>1, <2>0, StepTypeOK
  <2>2. OneAtATime'
    BY <1>1, <2>0, OneAtATimeKept
  <2>3. OwnersInSpace' /\ HostsAreKept' /\ TempHostsAreKept'
    BY <1>1, <2>0, OwnersInSpaceKept, HostsKept, TempHostsKept
  <2>4. ASSUME NEW c \in Builds PROVE InSpace(c)' /\ TempIsMine(c)' /\ Promoted(c)'
    BY <1>1, <2>0, InSpaceKept, TempIsMineKept, PromotedKept
  <2> QED
    BY <2>1, <2>2, <2>3, <2>4 DEF LegacyInv
<1>2. CASE UNCHANGED vars
  BY <1>2
     DEF vars, cfVars, LegacyInv, LegacyTypeOK, CFTypeOK, OneAtATime, Running, OwnersInSpace,
         HostsAreKept, TempHostsAreKept, InSpace, TempIsMine, Promoted, EnvOf, Env, LiveApp, TempApp,
         LiveHost, TempHost, Exists
<1> QED
  BY <1>1, <1>2 DEF Next

\* When no two builds of the job overlap, the state between any two commands of
\* re-deploy.groovy is as LegacyInv says: X-temp is what the running build has made of it,
\* and every host that no dead build has left behind is with its own application.
THEOREM LegacyInvariant == ~ ConcurrentBuilds => (Spec => []LegacyInv)
<1> SUFFICES ASSUME ~ ConcurrentBuilds PROVE Spec => []LegacyInv
  OBVIOUS
<1>1. LegacyInv /\ [Next]_vars => LegacyInv'
  BY StepLegacyInv
<1> QED
  BY InitLegacyInv, <1>1, PTL DEF Spec

-----------------------------------------------------------------------------
(* The properties *)

\* The host of an environment is answered by what was built for that environment, unless a
\* build for it ended between map-route and rename (re-deploy.groovy:66-73).
THEOREM LegacyOwnAnswers == ~ ConcurrentBuilds => (Spec => []OwnAnswers)
<1>1. LegacyInv => OwnAnswers
  BY DEF LegacyInv, HostsAreKept, OwnAnswers, Answers, Serving
<1> QED
  BY <1>1, LegacyInvariant, PTL

\* The commands before the end of a build that reports SUCCESS.
LEMMA SuccessSwapped == LegacyInv /\ [Next]_vars => SuccessIsSwappedStep
<1> SUFFICES ASSUME LegacyInv, [Next]_vars, NEW b \in Builds, pc'[b] = "SUCCESS", pc[b] # "SUCCESS"
             PROVE  /\ apps[LiveApp(b)].bits = b /\ LiveApp(b) \in Serving(LiveHost(b))
                    /\ <<req[b].app, Env(b)>> \in left \/ Serving(LiveHost(b)) = {LiveApp(b)}
                    /\ ~ Exists(TempApp(b)) /\ Serving(TempHost(b)) = {}
  BY DEF SuccessIsSwappedStep
<1>0. /\ LegacyTypeOK /\ OneAtATime /\ HostsAreKept /\ TempHostsAreKept /\ Promoted(b)
      /\ req[b].app \in Apps /\ Env(b) \in Environments
      /\ LiveApp(b) \in AppNames /\ TempApp(b) \in AppNames
  BY NamesOfBuild DEF LegacyInv
<1>1. PICK k \in Builds : Step(k)
  BY DEF Next, vars
<1>2. pc[b] = "cleanup"
  BY <1>0, <1>1, StepKeeps, StepFrom
<1>3. /\ apps[LiveApp(b)].bits = b /\ apps[LiveApp(b)].up /\ LiveHost(b) \in apps[LiveApp(b)].routes
      /\ apps[TempApp(b)] = Absent
  BY <1>0, <1>2 DEF Promoted
<1>4. ASSUME <<req[b].app, Env(b)>> \notin left, NEW x \in Serving(LiveHost(b))
      PROVE  x = LiveApp(b)
  <2>1. \/ x = AppOf(req[b].app, Env(b))
        \/ \E c \in Builds : pc[c] \in Swap
    BY <1>0, <1>4 DEF HostsAreKept, Serving, LiveHost
  <2>2. \A c \in Builds : pc[c] \notin Swap
    BY <1>0, <1>2 DEF OneAtATime, Running, Steps, Swap
  <2> QED
    BY <2>1, <2>2 DEF LiveApp
<1>5. Serving(TempHost(b)) = {}
  <2>1. ASSUME NEW x \in Serving(TempHost(b)) PROVE FALSE
    <3>1. x = TempApp(b)
      BY <1>0, <2>1 DEF TempHostsAreKept, Serving, TempHost, TempApp
    <3> QED
      BY <1>3, <2>1, <3>1 DEF Serving, Absent
  <2> QED
    BY <2>1
<1>6. LiveApp(b) \in Serving(LiveHost(b))
  BY <1>0, <1>3 DEF Serving
<1> QED
  BY <1>3, <1>4, <1>5, <1>6 DEF Exists, Absent

\* A build that reports SUCCESS has put its own droplet at X-environment, answering the
\* host, alone unless the host was left with another application; X-temp is gone
\* (re-deploy.groovy:65-78).
THEOREM LegacySuccessIsSwapped == ~ ConcurrentBuilds => (Spec => SuccessIsSwapped)
BY LegacyInvariant, SuccessSwapped, PTL DEF Spec, SuccessIsSwapped

\* Before a command takes the host from X-e, X-temp has it.
LEMMA AnswersStay == LegacyInv /\ [Next]_vars => AnsweringStaysStep
<1> SUFFICES ASSUME LegacyInv, [Next]_vars, NEW a \in Apps, NEW e \in Environments,
                    AppOf(a, e) \in Serving(Host(a, e))
             PROVE  \E x \in AppNames : apps'[x].up /\ Host(a, e) \in apps'[x].routes
  BY DEF AnsweringStaysStep, Serving, AppOf, Host, AppNames
<1> DEFINE y == AppOf(a, e)
           h == Host(a, e)
<1>0. y \in AppNames /\ apps[y].up /\ h \in apps[y].routes
  BY DEF Serving
<1>1. CASE apps'[y] = apps[y]
  BY <1>0, <1>1
<1>2. ASSUME NEW b \in Builds, Step(b), apps'[y] # apps[y]
      PROVE  \E x \in AppNames : apps'[x].up /\ h \in apps'[x].routes
  <2> DEFINE T == TempApp(b)
             V == LiveApp(b)
  <2>0. /\ LegacyTypeOK /\ InSpace(b) /\ TempIsMine(b)
        /\ T \in AppNames /\ V \in AppNames /\ T # V /\ y # T
    BY NamesOfBuild, HostsDiffer DEF LegacyInv
  <2>1. UnmapOld(b) \/ DeleteOld(b) \/ RenameTemp(b)
    BY <1>0, <1>2, <2>0, Effects, Quiet DEF Step
  <2>2. y = V
    BY <1>0, <1>2, <2>0, <2>1, Effects
  <2>3. h = LiveHost(b)
    BY <2>2 DEF AppOf, LiveApp, Host, LiveHost
  <2>4. apps[T].up /\ h \in apps[T].routes
    BY <2>0, <2>1, <2>3 DEF TempIsMine, UnmapOld, DeleteOld, RenameTemp, Command, Swap
  <2>5. CASE UnmapOld(b) \/ DeleteOld(b)
    BY <2>0, <2>4, <2>5, Effects
  <2>6. CASE RenameTemp(b)
    BY <2>0, <2>4, <2>6, Effects
  <2> QED
    BY <2>1, <2>5, <2>6
<1> QED
  BY <1>1, <1>2 DEF Next, vars, cfVars

\* As long as X-e itself answers its host, no command leaves the host without an answer:
\* X-temp has the host, and is up, before X-e loses it (re-deploy.groovy:66-73).
THEOREM LegacyAnsweringStays == ~ ConcurrentBuilds => (Spec => AnsweringStays)
BY LegacyInvariant, AnswersStay, PTL DEF Spec, AnsweringStays

\* What each command needs is there, but for the application to be replaced.
LEMMA RefusedIfMissing == LegacyInv /\ [Next]_vars => RefusedOnlyIfMissingStep
<1> SUFFICES ASSUME LegacyInv, [Next]_vars, NEW b \in Builds, pc'[b] = "REFUSED", pc[b] \notin {"download", "REFUSED"}
             PROVE  pc[b] = "unmapOld" /\ ~ Exists(LiveApp(b))
  BY DEF RefusedOnlyIfMissingStep
<1>0. /\ LegacyTypeOK /\ OwnersInSpace /\ InSpace(b) /\ TempIsMine(b) /\ b # NoBuild
      /\ LiveHost(b) \in Routes /\ TempHost(b) \in Routes
  BY NamesOfBuild, BuildIsDroplet DEF LegacyInv
<1>1. PICK c \in Builds : Step(c)
  BY DEF Next, vars
<1>2. ~ CommandOK(b)
  <2>1. c = b
    BY <1>0, <1>1, StepKeeps
  <2>2. ~ Abort(b) /\ ~ DownloadFails(b)
    BY <1>0 DEF Abort, DownloadFails, Fail, Goto, LegacyTypeOK
  <2>3. CommandRefused(b)
    BY <1>0, <1>1, <2>1, <2>2, StepFrom
  <2> QED
    BY <2>3 DEF CommandRefused
<1>3. pc[b] \in {"push"} \cup Pushed => target[agent[b]] = Space /\ LoggedIn(agent[b])
  BY <1>0, LegacyAssumption DEF InSpace, LoggedIn
<1>4. owner[TempHost(b)] \in {NoSpace, Space} /\ owner[LiveHost(b)] \in {NoSpace, Space}
  BY <1>0 DEF OwnersInSpace
<1>5. pc[b] \in Pushed => Exists(TempApp(b))
  BY <1>0 DEF TempIsMine, Exists
<1>6. CASE pc[b] \in {"push", "map", "unmapTemp", "deleteOld", "rename"}
  <2>1. FALSE
    BY <1>0, <1>2, <1>3, <1>4, <1>5, <1>6
       DEF CommandOK, CfPushOK, CfMapRouteOK, CfUnmapRouteOK, CfRenameOK, TempIsMine, Pushed, Swap,
           TempApp, LiveApp, AppOf
  <2> QED
    BY <2>1
<1>7. CASE pc[b] = "unmapOld"
  BY <1>0, <1>2, <1>3, <1>7 DEF CommandOK, CfUnmapRouteOK, TempIsMine, Pushed, Swap, LiveApp, AppOf
<1> QED
  BY <1>2, <1>6, <1>7 DEF CommandOK

\* Once it has its version, nothing that earlier builds leave behind makes a build fail, but
\* that X-environment is missing: never deployed, or deleted by a build that did not come to the rename
\* (re-deploy.groovy:70).
THEOREM LegacyRefusedOnlyIfMissing == ~ ConcurrentBuilds => (Spec => RefusedOnlyIfMissing)
BY LegacyInvariant, RefusedIfMissing, PTL DEF Spec, RefusedOnlyIfMissing
=============================================================================
