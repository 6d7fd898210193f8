--------------------------- MODULE RedeployProofs ---------------------------
(***************************************************************************)
(* Theorems about the deployment pipeline, for any sets of artifacts,      *)
(* environments, agents and builds.                                        *)
(***************************************************************************)
EXTENDS Redeploy, CloudFoundryProofs, TLAPS

-----------------------------------------------------------------------------
(* Type correctness *)

LEMMA NamesOfBuild ==
  ASSUME TypeOK, NEW b \in Builds
  PROVE  /\ req[b].app \in Apps /\ req[b].env \in Envs
         /\ Space(b) \in Spaces /\ agent[b] \in Agents
         /\ LiveApp(b) \in AppNames /\ TempApp(b) \in AppNames
         /\ LiveRoute(b) \in Routes /\ TempRoute(b) \in Routes
  BY RedeployAssumption, TwoSlots
     DEF TypeOK, Requests, Space, LiveApp, TempApp, LiveRoute, TempRoute, AppNames, Routes

LEMMA BuildIsDroplet ==
  ASSUME NEW b \in Builds
  PROVE  b \in Droplets /\ b # NoBuild
  BY RedeployAssumption, NullsAreNew

LEMMA InitTypeOK == Init => TypeOK
  BY AbsentTyped DEF Init, CFInit, TypeOK, CFTypeOK

\* Every step leaves a well-typed state, whatever space the client is in.
LEMMA StepTypeOK ==
  ASSUME TypeOK, NEW b \in Builds, Step(b)
  PROVE  TypeOK'
<1> USE DEF Command, Goto, Keep
<1>1. pc' \in [Builds -> {"queued"} \cup Steps \cup Ended] /\ UNCHANGED <<req, agent>>
  BY DEF TypeOK, Step, Advance, Steps, Ended, StartBuild, Prepare, ChooseVersion, Login,
     Download, Push, StartApp, CheckOld, MapLive, UnmapOld, UnmapTemp, DeleteTempRoute,
     DeleteOld, RenameTemp, Cleanup, CommandRefused, Abort
<1>2. jarVersion' \in [Builds -> Versions \cup {NoVersion}]
  BY DEF TypeOK, Step, Advance, Requests, StartBuild, Prepare, ChooseVersion, Login,
     Download, Push, StartApp, CheckOld, MapLive, UnmapOld, UnmapTemp, DeleteTempRoute,
     DeleteOld, RenameTemp, Cleanup, CommandRefused, Abort
<1>3. found' \in [Builds -> BOOLEAN]
  BY DEF TypeOK, Step, Advance, CfAppFound, LoggedIn, Exists, StartBuild, Prepare, ChooseVersion,
     Login, Download, Push, StartApp, CheckOld, MapLive, UnmapOld, UnmapTemp, DeleteTempRoute,
     DeleteOld, RenameTemp, Cleanup, CommandRefused, Abort
<1>4. CFTypeOK'
  <2> DEFINE g == agent[b]
             a == req[b].app
  <2>0. CFTypeOK /\ g \in Agents /\ a \in Apps /\ Space(b) \in Spaces
        /\ LiveRoute(b) \in Routes /\ TempRoute(b) \in Routes /\ "live" \in Slots /\ "temp" \in Slots
    BY NamesOfBuild, TwoSlots DEF TypeOK
  <2> HIDE DEF g, a
  <2>1. ASSUME UNCHANGED cfVars PROVE CFTypeOK'
    BY <2>0, <2>1 DEF CFTypeOK, cfVars
  <2>2. CASE Login(b)
    BY <2>0, <2>1, <2>2, CommandsTyped DEF Login, g
  <2>3. CASE Push(b)
    <3>1. LoggedIn(g) /\ CfPush(g, a, TempRoute(b), b)
      BY <2>3 DEF Push, CommandOK, CfPushOK, g, a
    <3> QED
      BY <2>0, <3>1, BuildIsDroplet, CommandsTyped
  <2>4. CASE StartApp(b)
    BY <2>0, <2>4, CommandsTyped DEF StartApp, g, a
  <2>5. CASE MapLive(b)
    <3>1. LoggedIn(g) /\ CfMapRoute(g, a, "temp", LiveRoute(b))
      BY <2>5 DEF MapLive, CommandOK, CfMapRouteOK, g, a
    <3> QED
      BY <2>0, <3>1, CommandsTyped
  <2>6. CASE UnmapOld(b)
    BY <2>0, <2>1, <2>6, CommandsTyped DEF UnmapOld, g, a
  <2>7. CASE UnmapTemp(b)
    BY <2>0, <2>7, CommandsTyped DEF UnmapTemp, g, a
  <2>8. CASE DeleteTempRoute(b)
    BY <2>0, <2>8, CommandsTyped DEF DeleteTempRoute, g
  <2>9. CASE DeleteOld(b)
    BY <2>0, <2>1, <2>9, CommandsTyped DEF DeleteOld, g, a
  <2>10. CASE RenameTemp(b)
    <3>1. LoggedIn(g) /\ CfRename(g, a, "live")
      BY <2>10 DEF RenameTemp, CommandOK, CfRenameOK, g, a
    <3> QED
      BY <2>0, <3>1, CommandsTyped
  <2> QED
    BY <2>1, <2>2, <2>3, <2>4, <2>5, <2>6, <2>7, <2>8, <2>9, <2>10
       DEF Step, Advance, StartBuild, Prepare, ChooseVersion, Download, CheckOld, Cleanup,
       CommandRefused, Abort, cfVars
<1> QED
  BY <1>1, <1>2, <1>3, <1>4 DEF TypeOK

LEMMA TypeOKKept ==
  ASSUME TypeOK, [Next]_vars
  PROVE  TypeOK'
<1>1. CASE Next
  BY <1>1, StepTypeOK DEF Next
<1>2. CASE UNCHANGED vars
  BY <1>2 DEF vars, cfVars, buildVars, TypeOK, CFTypeOK
<1> QED
  BY <1>1, <1>2

\* Whatever the settings of the job, every reachable state is well typed
\* (the state Redeploy.groovy and the cf client keep).
THEOREM TypeCorrect == Spec => []TypeOK
<1>1. TypeOK /\ [Next]_vars => TypeOK'
  BY TypeOKKept
<1> QED
  BY InitTypeOK, <1>1, PTL DEF Spec

-----------------------------------------------------------------------------
(* The inductive invariant of a serial job *)

LEMMA UnmapAbsent ==
  ASSUME NEW r
  PROVE  [bits |-> Absent.bits, up |-> Absent.up, routes |-> Absent.routes \ {r}] = Absent
<1>1. {} \ {r} = {}
  OBVIOUS
<1> QED
  BY <1>1 DEF Absent

LEMMA AppNamesInSpaces == \A x \in AppNames : x[1] # NoSpace
  BY NullsAreNew DEF AppNames

\* A command that changes one application t, and no route but r, keeps the
\* ownership of routes when t and r belong together.
LEMMA UpdateKeepsRoutes ==
  ASSUME CFTypeOK, RoutesInOwnSpace, MissingIsAbsent,
         NEW t \in AppNames, NEW r \in Routes,
         t[1] = SpaceOf[r[2]], t[1] # NoSpace, r[1] = t[2],
         \A x \in AppNames : x # t => apps'[x] = apps[x],
         apps'[t].routes \subseteq apps[t].routes \cup {r},
         r \in apps'[t].routes => owner'[r] = t[1],
         apps'[t].bits = NoBuild => apps'[t] = Absent,
         \A q \in Routes : q # r => owner'[q] = owner[q],
         owner'[r] \in {owner[r], t[1]}
  PROVE  RoutesInOwnSpace' /\ MissingIsAbsent'
<1>1. MissingIsAbsent'
  BY DEF MissingIsAbsent, Exists
<1>2. ASSUME NEW q \in Routes PROVE owner'[q] \in {NoSpace, SpaceOf[q[2]]}
  BY DEF RoutesInOwnSpace
<1>3. ASSUME NEW x \in AppNames, NEW q \in apps'[x].routes PROVE owner'[q] = x[1] /\ q[1] = x[2]
  <2>1. CASE x = t /\ q = r
    BY <1>3, <2>1
  <2>2. CASE x = t /\ q # r
    <3>1. q \in apps[t].routes
      BY <1>3, <2>2
    <3>2. q \in Routes
      BY <3>1, AppTyped
    <3> QED
      BY <2>2, <3>1, <3>2 DEF RoutesInOwnSpace
  <2>3. CASE x # t
    <3>1. q \in apps[x].routes
      BY <1>3, <2>3
    <3>2. q \in Routes /\ owner[q] = x[1] /\ q[1] = x[2]
      BY <3>1, AppTyped DEF RoutesInOwnSpace
    <3>3. q = r => owner[r] = t[1]
      BY <3>2, AppNamesInSpaces DEF RoutesInOwnSpace
    <3> QED
      BY <3>2, <3>3
  <2> QED
    BY <2>1, <2>2, <2>3
<1> QED
  BY <1>1, <1>2, <1>3 DEF RoutesInOwnSpace

\* In the space of its environment, no command breaks the ownership of routes
\* or leaves anything of a missing application.
LEMMA CommandsKeepRoutes ==
  ASSUME CFTypeOK, RoutesInOwnSpace, MissingIsAbsent,
         NEW g \in Agents, NEW a \in Apps, NEW r \in Routes, NEW k \in Slots,
         target[g] = SpaceOf[r[2]], r[1] = a
  PROVE  LET Kept == RoutesInOwnSpace' /\ MissingIsAbsent'
         IN  /\ \A b \in Droplets : CfPush(g, a, r, b) => Kept
             /\ Exists(<<target[g], a, "temp">>) /\ CfStart(g, a) => Kept
             /\ CfMapRouteOK(g, a, k, r) /\ CfMapRoute(g, a, k, r) => Kept
             /\ CfUnmapRoute(g, a, k, r) => Kept
             /\ CfDeleteRoute(g, r) => Kept
             /\ CfDelete(g, a, k) => Kept
             /\ CfRename(g, a, "live") => Kept
<1> DEFINE s == target[g]
           Kept == RoutesInOwnSpace' /\ MissingIsAbsent'
<1>0. s \in Spaces /\ s # NoSpace
  BY RedeployAssumption, NullsAreNew DEF Routes
<1>n. ASSUME NEW i \in Slots
      PROVE  <<s, a, i>> \in AppNames /\ <<s, a, i>>[1] = s /\ <<s, a, i>>[2] = a
  BY <1>0 DEF AppNames
<1>t. "live" \in Slots /\ "temp" \in Slots /\ <<s, a, "live">> # <<s, a, "temp">>
  BY TwoSlots
<1>1. ASSUME NEW b \in Droplets, CfPush(g, a, r, b) PROVE Kept
  <2> DEFINE t == <<s, a, "temp">>
  <2>1. /\ apps'[t] = [bits |-> b, up |-> FALSE, routes |-> apps[t].routes \cup {r}]
        /\ \A x \in AppNames : x # t => apps'[x] = apps[x]
        /\ owner'[r] = s /\ \A q \in Routes : q # r => owner'[q] = owner[q]
    BY <1>n, <1>t, <1>1 DEF CfPush, PushTo, CFTypeOK
  <2>2. apps'[t].bits # NoBuild /\ apps'[t].routes = apps[t].routes \cup {r}
    BY <2>1, NullsAreNew
  <2>3. t \in AppNames /\ t[1] = s /\ t[2] = a
    BY <1>n, <1>t
  <2> HIDE DEF t
  <2> QED
    BY <1>0, <2>1, <2>2, <2>3, UpdateKeepsRoutes
<1>2. ASSUME Exists(<<s, a, "temp">>), CfStart(g, a) PROVE Kept
  <2> DEFINE t == <<s, a, "temp">>
  <2>1. /\ apps'[t] = [bits |-> apps[t].bits, up |-> TRUE, routes |-> apps[t].routes]
        /\ \A x \in AppNames : x # t => apps'[x] = apps[x]
        /\ owner' = owner
    BY <1>n, <1>t, <1>2 DEF CfStart, StartIn, CFTypeOK
  <2>2. apps'[t].bits # NoBuild /\ apps'[t].routes = apps[t].routes
    BY <1>2, <2>1 DEF Exists
  <2>3. t \in AppNames /\ t[1] = s /\ t[2] = a
    BY <1>n, <1>t
  <2>4. r \in apps[t].routes => owner[r] = t[1]
    BY <2>3 DEF RoutesInOwnSpace
  <2> HIDE DEF t
  <2> QED
    BY <1>0, <2>1, <2>2, <2>3, <2>4, UpdateKeepsRoutes
<1>3. ASSUME CfMapRouteOK(g, a, k, r), CfMapRoute(g, a, k, r) PROVE Kept
  <2> DEFINE t == <<s, a, k>>
  <2>1. /\ apps'[t] = [bits |-> apps[t].bits, up |-> apps[t].up, routes |-> apps[t].routes \cup {r}]
        /\ \A x \in AppNames : x # t => apps'[x] = apps[x]
        /\ owner'[r] = s /\ \A q \in Routes : q # r => owner'[q] = owner[q]
    BY <1>n, <1>3 DEF CfMapRoute, CFTypeOK, WithRoutes
  <2>2. apps'[t].bits # NoBuild /\ apps'[t].routes = apps[t].routes \cup {r}
    BY <1>3, <2>1 DEF CfMapRouteOK, Exists
  <2>3. t \in AppNames /\ t[1] = s /\ t[2] = a
    BY <1>n
  <2> HIDE DEF t
  <2> QED
    BY <1>0, <2>1, <2>2, <2>3, UpdateKeepsRoutes
<1>4. ASSUME CfUnmapRoute(g, a, k, r) PROVE Kept
  <2> DEFINE t == <<s, a, k>>
  <2>1. /\ apps'[t] = [bits |-> apps[t].bits, up |-> apps[t].up, routes |-> apps[t].routes \ {r}]
        /\ \A x \in AppNames : x # t => apps'[x] = apps[x]
        /\ owner' = owner
    BY <1>n, <1>4 DEF CfUnmapRoute, CFTypeOK, WithRoutes
  <2>2. t \in AppNames /\ t[1] = s /\ t[2] = a
    BY <1>n
  <2>3. apps'[t].bits = NoBuild => apps'[t] = Absent
    BY <2>1, <2>2, UnmapAbsent DEF MissingIsAbsent, Exists
  <2>4. apps'[t].routes = apps[t].routes \ {r}
    BY <2>1
  <2> HIDE DEF t
  <2> QED
    BY <1>0, <2>1, <2>2, <2>3, <2>4, UpdateKeepsRoutes
<1>5. ASSUME CfDeleteRoute(g, r) PROVE Kept
  <2>1. CASE owner[r] = s
    <3>1. ASSUME NEW x \in AppNames
          PROVE  apps'[x] = [bits |-> apps[x].bits, up |-> apps[x].up, routes |-> apps[x].routes \ {r}]
      BY <1>5, <2>1 DEF CfDeleteRoute, WithRoutes
    <3>2. ASSUME NEW x \in AppNames
          PROVE  apps'[x].routes = apps[x].routes \ {r} /\ apps'[x].bits = apps[x].bits
      <4> DEFINE R == apps[x].routes \ {r}
      <4> HIDE DEF R
      <4>1. apps'[x] = [bits |-> apps[x].bits, up |-> apps[x].up, routes |-> R]
        BY <3>1 DEF R
      <4>2. apps'[x].routes = R /\ apps'[x].bits = apps[x].bits
        BY <4>1
      <4> QED
        BY <4>2 DEF R
    <3>3. owner'[r] = NoSpace /\ \A q \in Routes : q # r => owner'[q] = owner[q]
      BY <1>5, <2>1 DEF CfDeleteRoute, CFTypeOK
    <3>4. \A q \in Routes : owner'[q] \in {NoSpace, SpaceOf[q[2]]}
      BY <3>3 DEF RoutesInOwnSpace
    <3>5. ASSUME NEW x \in AppNames, NEW q \in apps'[x].routes PROVE owner'[q] = x[1] /\ q[1] = x[2]
      BY <3>2, <3>3, <3>5, AppTyped DEF RoutesInOwnSpace
    <3>6. ASSUME NEW x \in AppNames, apps'[x].bits = NoBuild PROVE apps'[x] = Absent
      BY <3>1, <3>2, <3>6, UnmapAbsent DEF MissingIsAbsent, Exists
    <3> QED
      BY <3>4, <3>5, <3>6 DEF RoutesInOwnSpace, MissingIsAbsent, Exists
  <2>2. CASE owner[r] # s
    BY <1>5, <2>2 DEF CfDeleteRoute, cfVars, RoutesInOwnSpace, MissingIsAbsent, Exists
  <2> QED
    BY <2>1, <2>2
<1>6. ASSUME CfDelete(g, a, k) PROVE Kept
  <2> DEFINE t == <<s, a, k>>
  <2>1. apps'[t] = Absent /\ owner' = owner /\ \A x \in AppNames : x # t => apps'[x] = apps[x]
    BY <1>n, <1>6 DEF CfDelete, CFTypeOK
  <2>2. t \in AppNames /\ t[1] = s /\ t[2] = a
    BY <1>n
  <2>3. apps'[t].routes = {}
    BY <2>1 DEF Absent
  <2> HIDE DEF t
  <2> QED
    BY <1>0, <2>1, <2>2, <2>3, UpdateKeepsRoutes
<1>7. ASSUME CfRename(g, a, "live") PROVE Kept
  <2> DEFINE l == <<s, a, "live">>
             t == <<s, a, "temp">>
  <2>1. /\ apps'[l] = apps[t] /\ apps'[t] = Absent /\ owner' = owner
        /\ \A x \in AppNames : x # l /\ x # t => apps'[x] = apps[x]
    BY <1>n, <1>t, <1>7 DEF CfRename, CFTypeOK
  <2>2. /\ l \in AppNames /\ l[1] = s /\ l[2] = a
        /\ t \in AppNames /\ t[1] = s /\ t[2] = a
    BY <1>n, <1>t
  <2>3. apps'[t].routes = {}
    BY <2>1 DEF Absent
  <2> HIDE DEF l, t
  <2> QED
    BY <2>1, <2>2, <2>3 DEF RoutesInOwnSpace, MissingIsAbsent, Exists
<1> QED
  BY <1>1, <1>2, <1>3, <1>4, <1>5, <1>6, <1>7

LEMMA InitIInv == Init => IInv
<1> SUFFICES ASSUME Init PROVE IInv
  OBVIOUS
<1>1. \A x \in AppNames : apps[x] = Absent
  BY DEF Init, CFInit
<1>2. RoutesInOwnSpace /\ MissingIsAbsent
  BY <1>1 DEF Init, CFInit, RoutesInOwnSpace, MissingIsAbsent, Absent
<1>3. \A b \in Builds : pc[b] = "queued" /\ ~ found[b]
  BY DEF Init
<1> QED
  BY InitTypeOK, <1>2, <1>3
     DEF IInv, CoreInv, OneAtATime, Running, Steps, InOwnSpace, TempIsMine, FoundIsCurrent, Promoted

\* A step of b changes nothing of another build, and leaves it not running.
LEMMA OthersIdle ==
  ASSUME Serial, CoreInv, NEW b \in Builds, Step(b)
  PROVE  /\ UNCHANGED <<req, agent>>
         /\ \A c \in Builds \ {b} :
              /\ pc'[c] = pc[c] /\ pc[c] \notin Steps
              /\ (InOwnSpace(c) /\ TempIsMine(c) /\ FoundIsCurrent(c) /\ Promoted(c))'
         /\ OneAtATime'
<1>1. /\ UNCHANGED <<req, agent>>
      /\ \A c \in Builds \ {b} : pc'[c] = pc[c]
  BY DEF Command, Goto, CoreInv, TypeOK, Step, Advance, StartBuild, Prepare, ChooseVersion, Login,
     Download, Push, StartApp, CheckOld, MapLive, UnmapOld, UnmapTemp, DeleteTempRoute,
     DeleteOld, RenameTemp, Cleanup, CommandRefused, Abort
<1>2. StartBuild(b) \/ Running(b)
  BY DEF Step, Advance, Command, Running, Steps, Prepare, ChooseVersion, Login,
     Download, Push, StartApp, CheckOld, MapLive, UnmapOld, UnmapTemp, DeleteTempRoute,
     DeleteOld, RenameTemp, Cleanup, CommandRefused, Abort
<1>3. \A c \in Builds \ {b} : pc[c] \notin Steps
  BY <1>2 DEF CoreInv, OneAtATime, Running, StartBuild, Serial
<1>4. ASSUME NEW c \in Builds \ {b}
      PROVE  (InOwnSpace(c) /\ TempIsMine(c) /\ FoundIsCurrent(c) /\ Promoted(c))'
  <2>1. pc'[c] \notin Steps
    BY <1>1, <1>3
  <2> QED
    BY <2>1 DEF Steps, InOwnSpace, TempIsMine, FoundIsCurrent, Promoted
<1>5. OneAtATime'
  BY <1>1, <1>3 DEF OneAtATime, Running
<1> QED
  BY <1>1, <1>3, <1>4, <1>5

\* The names of build b in terms of the client's space, once it has logged in.
LEMMA OwnNames ==
  ASSUME CoreInv, NEW b \in Builds, pc[b] \in Steps \ {"prepare", "input", "login"}
  PROVE  /\ target[agent[b]] = Space(b)
         /\ LiveApp(b) = <<target[agent[b]], req[b].app, "live">>
         /\ TempApp(b) = <<target[agent[b]], req[b].app, "temp">>
         /\ LiveApp(b) # TempApp(b) /\ LiveRoute(b) # TempRoute(b)
         /\ LiveRoute(b)[1] = req[b].app /\ SpaceOf[LiveRoute(b)[2]] = Space(b)
         /\ TempRoute(b)[1] = req[b].app /\ SpaceOf[TempRoute(b)[2]] = Space(b)
  BY DEF CoreInv, InOwnSpace, LiveApp, TempApp, LiveRoute, TempRoute, Space

LEMMA StepRoutes ==
  ASSUME Serial, CoreInv, NEW b \in Builds, Step(b)
  PROVE  RoutesInOwnSpace' /\ MissingIsAbsent'
<1> DEFINE g == agent[b]
           a == req[b].app
           Kept == RoutesInOwnSpace' /\ MissingIsAbsent'
<1>0. /\ CFTypeOK /\ RoutesInOwnSpace /\ MissingIsAbsent
      /\ g \in Agents /\ a \in Apps /\ LiveRoute(b) \in Routes /\ TempRoute(b) \in Routes
      /\ "live" \in Slots /\ "temp" \in Slots
  BY NamesOfBuild, TwoSlots DEF CoreInv, TypeOK
<1>1. ASSUME UNCHANGED <<apps, owner>> PROVE Kept
  BY <1>0, <1>1 DEF RoutesInOwnSpace, MissingIsAbsent, Exists
<1>s. ASSUME pc[b] \in Steps \ {"prepare", "input", "login"}
      PROVE  /\ target[g] = SpaceOf[LiveRoute(b)[2]] /\ LiveRoute(b)[1] = a
             /\ target[g] = SpaceOf[TempRoute(b)[2]] /\ TempRoute(b)[1] = a
             /\ TempApp(b) = <<target[g], a, "temp">>
  BY <1>s, OwnNames
<1> HIDE DEF g, a, Kept
<1> USE DEF Command, Steps
<1>2. CASE Push(b)
  BY <1>0, <1>2, <1>s, BuildIsDroplet, CommandsKeepRoutes DEF Push, g, a, Kept
<1>3. CASE StartApp(b)
  <2>1. apps[TempApp(b)].bits = b
    BY <1>3 DEF StartApp, CoreInv, TempIsMine
  <2>2. Exists(<<target[g], a, "temp">>)
    BY <1>3, <1>s, <2>1, BuildIsDroplet DEF StartApp, Exists
  <2> QED
    BY <1>0, <1>3, <1>s, <2>2, CommandsKeepRoutes DEF StartApp, g, a, Kept
<1>4. CASE MapLive(b)
  <2>1. CfMapRouteOK(g, a, "temp", LiveRoute(b)) /\ CfMapRoute(g, a, "temp", LiveRoute(b))
    BY <1>4 DEF MapLive, CommandOK, g, a
  <2> QED
    BY <1>0, <1>4, <1>s, <2>1, CommandsKeepRoutes DEF MapLive, Kept
<1>5. CASE UnmapOld(b)
  BY <1>0, <1>1, <1>5, <1>s, CommandsKeepRoutes DEF UnmapOld, g, a, Kept, cfVars
<1>6. CASE UnmapTemp(b)
  BY <1>0, <1>6, <1>s, CommandsKeepRoutes DEF UnmapTemp, g, a, Kept
<1>7. CASE DeleteTempRoute(b)
  BY <1>0, <1>7, <1>s, CommandsKeepRoutes DEF DeleteTempRoute, g, a, Kept
<1>8. CASE DeleteOld(b)
  BY <1>0, <1>1, <1>8, <1>s, CommandsKeepRoutes DEF DeleteOld, g, a, Kept, cfVars
<1>9. CASE RenameTemp(b)
  BY <1>0, <1>9, <1>s, CommandsKeepRoutes DEF RenameTemp, g, a, Kept
<1> QED
  BY <1>1, <1>2, <1>3, <1>4, <1>5, <1>6, <1>7, <1>8, <1>9
     DEF Kept, Step, Advance, StartBuild, Prepare, ChooseVersion, Login, CfLogin, Download, CheckOld,
     Cleanup, CommandRefused, Abort, cfVars

\* What each command does to the two applications and the two routes of its
\* own build.
LEMMA OwnEffects ==
  ASSUME CoreInv, NEW b \in Builds
  PROVE  LET l == LiveApp(b)
             t == TempApp(b)
         IN  /\ Push(b) => /\ apps'[l] = apps[l] /\ apps'[t].bits = b /\ ~ apps'[t].up
                           /\ apps'[t].routes = apps[t].routes \cup {TempRoute(b)}
                           /\ owner'[TempRoute(b)] = Space(b)
             /\ StartApp(b) => /\ apps'[l] = apps[l] /\ apps'[t].bits = apps[t].bits /\ apps'[t].up
                               /\ apps'[t].routes = apps[t].routes
             /\ MapLive(b) => /\ apps'[l] = apps[l]
                              /\ apps'[t].bits = apps[t].bits /\ apps'[t].up = apps[t].up
                              /\ apps'[t].routes = apps[t].routes \cup {LiveRoute(b)}
                              /\ owner'[TempRoute(b)] = owner[TempRoute(b)]
             /\ UnmapOld(b) => /\ apps'[t] = apps[t]
                               /\ apps'[l].bits = apps[l].bits
                               /\ found[b] => LiveRoute(b) \notin apps'[l].routes
             /\ UnmapTemp(b) => /\ apps'[l] = apps[l]
                                /\ apps'[t].bits = apps[t].bits /\ apps'[t].up = apps[t].up
                                /\ apps'[t].routes = apps[t].routes \ {TempRoute(b)}
             /\ DeleteTempRoute(b) =>
                  /\ apps'[l].bits = apps[l].bits /\ apps'[l].up = apps[l].up
                  /\ apps'[t].bits = apps[t].bits /\ apps'[t].up = apps[t].up
                  /\ apps'[l].routes = apps[l].routes \ {TempRoute(b)}
                  /\ apps'[t].routes = apps[t].routes \ {TempRoute(b)}
                  /\ owner'[TempRoute(b)] = NoSpace
             /\ DeleteOld(b) => apps'[t] = apps[t] /\ (found[b] => apps'[l] = Absent)
             /\ RenameTemp(b) => apps'[l] = apps[t] /\ apps'[t] = Absent
<1> DEFINE l == LiveApp(b)
           t == TempApp(b)
<1> USE DEF Command, Steps
<1>0. /\ l \in AppNames /\ t \in AppNames /\ LiveRoute(b) \in Routes /\ TempRoute(b) \in Routes
      /\ apps \in [AppNames -> AppState] /\ owner \in [Routes -> Spaces \cup {NoSpace}]
  BY NamesOfBuild DEF CoreInv, TypeOK, CFTypeOK
<1>1. ASSUME Push(b)
      PROVE  /\ apps'[l] = apps[l] /\ apps'[t].bits = b /\ ~ apps'[t].up
             /\ apps'[t].routes = apps[t].routes \cup {TempRoute(b)}
             /\ owner'[TempRoute(b)] = Space(b)
  <2>1. apps'[t] = [bits |-> b, up |-> FALSE, routes |-> apps[t].routes \cup {TempRoute(b)}]
    BY <1>0, <1>1, OwnNames DEF Push, CfPush, PushTo
  <2> QED
    BY <1>0, <1>1, <2>1, OwnNames DEF Push, CfPush, PushTo
<1>2. ASSUME StartApp(b)
      PROVE  /\ apps'[l] = apps[l] /\ apps'[t].bits = apps[t].bits /\ apps'[t].up
             /\ apps'[t].routes = apps[t].routes
  <2>1. apps'[t] = [bits |-> apps[t].bits, up |-> TRUE, routes |-> apps[t].routes]
    BY <1>0, <1>2, OwnNames DEF StartApp, CfStart, StartIn
  <2> QED
    BY <1>0, <1>2, <2>1, OwnNames DEF StartApp, CfStart, StartIn
<1>3. ASSUME MapLive(b)
      PROVE  /\ apps'[l] = apps[l]
             /\ apps'[t].bits = apps[t].bits /\ apps'[t].up = apps[t].up
             /\ apps'[t].routes = apps[t].routes \cup {LiveRoute(b)}
             /\ owner'[TempRoute(b)] = owner[TempRoute(b)]
  <2>1. apps'[t] = [bits |-> apps[t].bits, up |-> apps[t].up, routes |-> apps[t].routes \cup {LiveRoute(b)}]
    BY <1>0, <1>3, OwnNames DEF MapLive, CfMapRoute, WithRoutes
  <2>2. owner'[TempRoute(b)] = owner[TempRoute(b)] /\ apps'[l] = apps[l]
    BY <1>0, <1>3, OwnNames DEF MapLive, CfMapRoute
  <2> QED
    BY <2>1, <2>2
<1>4. ASSUME UnmapOld(b)
      PROVE  /\ apps'[t] = apps[t] /\ apps'[l].bits = apps[l].bits
             /\ found[b] => LiveRoute(b) \notin apps'[l].routes
  <2>1. CASE found[b]
    <3>1. apps'[l] = [bits |-> apps[l].bits, up |-> apps[l].up, routes |-> apps[l].routes \ {LiveRoute(b)}]
      BY <1>0, <1>4, <2>1, OwnNames DEF UnmapOld, CfUnmapRoute, WithRoutes
    <3>2. apps'[t] = apps[t]
      BY <1>0, <1>4, <2>1, OwnNames DEF UnmapOld, CfUnmapRoute
    <3> QED
      BY <3>1, <3>2
  <2>2. CASE ~ found[b]
    BY <1>4, <2>2 DEF UnmapOld, cfVars
  <2> QED
    BY <2>1, <2>2
<1>5. ASSUME UnmapTemp(b)
      PROVE  /\ apps'[l] = apps[l]
             /\ apps'[t].bits = apps[t].bits /\ apps'[t].up = apps[t].up
             /\ apps'[t].routes = apps[t].routes \ {TempRoute(b)}
  <2>1. apps'[t] = [bits |-> apps[t].bits, up |-> apps[t].up, routes |-> apps[t].routes \ {TempRoute(b)}]
    BY <1>0, <1>5, OwnNames DEF UnmapTemp, CfUnmapRoute, WithRoutes
  <2>2. apps'[l] = apps[l]
    BY <1>0, <1>5, OwnNames DEF UnmapTemp, CfUnmapRoute
  <2> QED
    BY <2>1, <2>2
<1>6. ASSUME DeleteTempRoute(b)
      PROVE  /\ apps'[l].bits = apps[l].bits /\ apps'[l].up = apps[l].up
             /\ apps'[t].bits = apps[t].bits /\ apps'[t].up = apps[t].up
             /\ apps'[l].routes = apps[l].routes \ {TempRoute(b)}
             /\ apps'[t].routes = apps[t].routes \ {TempRoute(b)}
             /\ owner'[TempRoute(b)] = NoSpace
  <2>1. CASE owner[TempRoute(b)] = target[agent[b]]
    <3>1. ASSUME NEW x \in AppNames
          PROVE  /\ apps'[x].bits = apps[x].bits /\ apps'[x].up = apps[x].up
                 /\ apps'[x].routes = apps[x].routes \ {TempRoute(b)}
      <4> DEFINE R == apps[x].routes \ {TempRoute(b)}
      <4> HIDE DEF R
      <4>1. apps'[x] = [bits |-> apps[x].bits, up |-> apps[x].up, routes |-> R]
        BY <1>6, <2>1 DEF DeleteTempRoute, CfDeleteRoute, WithRoutes, R
      <4>2. apps'[x].bits = apps[x].bits /\ apps'[x].up = apps[x].up /\ apps'[x].routes = R
        BY <4>1
      <4> QED
        BY <4>2 DEF R
    <3>2. owner'[TempRoute(b)] = NoSpace
      BY <1>0, <1>6, <2>1 DEF DeleteTempRoute, CfDeleteRoute
    <3> QED
      BY <1>0, <3>1, <3>2
  <2>2. CASE owner[TempRoute(b)] # target[agent[b]]
    <3>1. UNCHANGED <<apps, owner>>
      BY <1>6, <2>2 DEF DeleteTempRoute, CfDeleteRoute, cfVars
    <3>2. owner[TempRoute(b)] = NoSpace
      BY <1>0, <1>6, <2>2, OwnNames DEF DeleteTempRoute, CoreInv, RoutesInOwnSpace
    <3>3. TempRoute(b) \notin apps[l].routes /\ TempRoute(b) \notin apps[t].routes
      BY <1>0, <3>2, AppNamesInSpaces DEF CoreInv, RoutesInOwnSpace
    <3> QED
      BY <3>1, <3>2, <3>3
  <2> QED
    BY <2>1, <2>2
<1>7. ASSUME DeleteOld(b) PROVE apps'[t] = apps[t] /\ (found[b] => apps'[l] = Absent)
  <2>1. CASE found[b]
    BY <1>0, <1>7, <2>1, OwnNames DEF DeleteOld, CfDelete
  <2>2. CASE ~ found[b]
    BY <1>7, <2>2 DEF DeleteOld, cfVars
  <2> QED
    BY <2>1, <2>2
<1>8. ASSUME RenameTemp(b) PROVE apps'[l] = apps[t] /\ apps'[t] = Absent
  BY <1>0, <1>8, OwnNames DEF RenameTemp, CfRename
<1> QED
  BY <1>1, <1>2, <1>3, <1>4, <1>5, <1>6, <1>7, <1>8

\* The build's own part of CoreInv, command by command.
LEMMA StepOwn ==
  ASSUME Serial, CoreInv, NEW b \in Builds, Step(b)
  PROVE  InOwnSpace(b)' /\ TempIsMine(b)'
<1>0. /\ Space(b)' = Space(b)
      /\ LiveApp(b)' = LiveApp(b) /\ TempApp(b)' = TempApp(b)
      /\ LiveRoute(b)' = LiveRoute(b) /\ TempRoute(b)' = TempRoute(b)
      /\ agent' = agent
  BY OthersIdle DEF Space, LiveApp, TempApp, LiveRoute, TempRoute
<1>1. /\ pc \in [Builds -> {"queued"} \cup Steps \cup Ended]
      /\ LiveApp(b) # TempApp(b) /\ LiveRoute(b) # TempRoute(b)
      /\ InOwnSpace(b) /\ TempIsMine(b)
  BY DEF CoreInv, TypeOK, LiveApp, TempApp, LiveRoute, TempRoute
<1> USE DEF Command, Goto, Keep, Steps, Ended
<1> USE DEF InOwnSpace, TempIsMine
<1>2. CASE StartBuild(b) \/ Prepare(b) \/ ChooseVersion(b)
  BY <1>1, <1>2 DEF StartBuild, Prepare, ChooseVersion
<1>3. CASE Login(b)
  <2>1. pc'[b] = "download"
    BY <1>1, <1>3 DEF Login
  <2>2. target'[agent[b]] = Space(b)
    BY <1>3, NamesOfBuild DEF Login, CfLogin, Serial, CoreInv, TypeOK, CFTypeOK
  <2> QED
    BY <1>0, <2>1, <2>2
<1>4. CASE Download(b)
  BY <1>0, <1>1, <1>4 DEF Download, cfVars
<1>5. CASE Push(b)
  <2>1. pc[b] = "push" /\ pc'[b] = "start" /\ target' = target
    BY <1>1, <1>5 DEF Push, CfPush, PushTo
  <2> QED
    BY <1>0, <1>1, <1>5, <2>1, OwnEffects
<1>6. CASE StartApp(b)
  <2>1. pc[b] = "start" /\ pc'[b] = "check" /\ target' = target /\ owner' = owner
    BY <1>1, <1>6 DEF StartApp, CfStart, StartIn
  <2> QED
    BY <1>0, <1>1, <1>6, <2>1, OwnEffects
<1>7. CASE CheckOld(b)
  BY <1>0, <1>1, <1>7 DEF CheckOld, cfVars
<1>8. CASE MapLive(b)
  <2>1. pc[b] = "map" /\ pc'[b] = "unmapOld" /\ target' = target
    BY <1>1, <1>8 DEF MapLive, CfMapRoute
  <2> QED
    BY <1>0, <1>1, <1>8, <2>1, OwnEffects
<1>9. CASE UnmapOld(b)
  <2>1. pc[b] = "unmapOld" /\ pc'[b] = "unmapTemp" /\ target' = target /\ owner' = owner
    BY <1>1, <1>9 DEF UnmapOld, CfUnmapRoute, cfVars
  <2> QED
    BY <1>0, <1>1, <1>9, <2>1, OwnEffects
<1>10. CASE UnmapTemp(b)
  <2>1. pc[b] = "unmapTemp" /\ pc'[b] = "deleteRoute" /\ target' = target
    BY <1>1, <1>10 DEF UnmapTemp, CfUnmapRoute
  <2> QED
    BY <1>0, <1>1, <1>10, <2>1, OwnEffects
<1>11. CASE DeleteTempRoute(b)
  <2>1. pc[b] = "deleteRoute" /\ pc'[b] = "deleteOld" /\ target' = target
    BY <1>1, <1>11 DEF DeleteTempRoute, CfDeleteRoute, cfVars
  <2> QED
    BY <1>0, <1>1, <1>11, <2>1, OwnEffects
<1>12. CASE DeleteOld(b)
  <2>1. pc[b] = "deleteOld" /\ pc'[b] = "rename" /\ target' = target /\ owner' = owner
    BY <1>1, <1>12 DEF DeleteOld, CfDelete, cfVars
  <2> QED
    BY <1>0, <1>1, <1>12, <2>1, OwnEffects
<1>13. CASE RenameTemp(b)
  <2>1. pc[b] = "rename" /\ pc'[b] = "cleanup" /\ target' = target /\ owner' = owner
    BY <1>1, <1>13 DEF RenameTemp, CfRename
  <2> QED
    BY <1>0, <1>1, <1>13, <2>1, OwnEffects
<1>14. CASE Cleanup(b) \/ CommandRefused(b) \/ Abort(b)
  BY <1>1, <1>14 DEF Cleanup, CommandRefused, Abort
<1> QED
  BY <1>2, <1>3, <1>4, <1>5, <1>6, <1>7, <1>8, <1>9, <1>10, <1>11, <1>12, <1>13, <1>14
     DEF Step, Advance

LEMMA CoreInvKept ==
  ASSUME Serial, CoreInv, NEW b \in Builds, Step(b)
  PROVE  CoreInv'
<1>1. TypeOK'
  BY StepTypeOK DEF CoreInv
<1>2. OneAtATime' /\ RoutesInOwnSpace' /\ MissingIsAbsent'
  BY OthersIdle, StepRoutes
<1>3. \A c \in Builds : (InOwnSpace(c) /\ TempIsMine(c))'
  BY OthersIdle, StepOwn
<1> QED
  BY <1>1, <1>2, <1>3 DEF CoreInv

\* What a command of b makes of the swap: of its answer about X, and of X itself.
LEMMA SwapEffects ==
  ASSUME Serial, CoreInv, NEW b \in Builds, Step(b)
  PROVE  /\ LiveApp(b)' = LiveApp(b) /\ TempApp(b)' = TempApp(b) /\ LiveRoute(b)' = LiveRoute(b)
         /\ \/ pc'[b] \notin Steps
            \/ pc'[b] \in {"prepare", "input", "login", "download", "push"} /\ found'[b] = found[b]
            \/ Push(b) /\ pc'[b] = "start"
            \/ StartApp(b) /\ pc'[b] = "check"
            \/ CheckOld(b) /\ pc'[b] = "map" /\ apps' = apps /\ (found'[b] => Exists(LiveApp(b)))
            \/ /\ found'[b] = found[b]
               /\ \/ MapLive(b) /\ pc[b] = "map" /\ pc'[b] = "unmapOld"
                  \/ UnmapOld(b) /\ pc[b] = "unmapOld" /\ pc'[b] = "unmapTemp"
                  \/ UnmapTemp(b) /\ pc[b] = "unmapTemp" /\ pc'[b] = "deleteRoute"
                  \/ DeleteTempRoute(b) /\ pc[b] = "deleteRoute" /\ pc'[b] = "deleteOld"
                  \/ DeleteOld(b) /\ pc[b] = "deleteOld" /\ pc'[b] = "rename"
                  \/ RenameTemp(b) /\ pc[b] = "rename" /\ pc'[b] = "cleanup"
<1>0. pc \in [Builds -> {"queued"} \cup Steps \cup Ended] /\ found \in [Builds -> BOOLEAN]
  BY DEF CoreInv, TypeOK
<1>1. LiveApp(b)' = LiveApp(b) /\ TempApp(b)' = TempApp(b) /\ LiveRoute(b)' = LiveRoute(b)
  BY OthersIdle DEF Space, LiveApp, TempApp, LiveRoute
<1>2. CheckOld(b) => pc'[b] = "map" /\ apps' = apps /\ (found'[b] => Exists(LiveApp(b)))
  <2> SUFFICES ASSUME CheckOld(b)
               PROVE  pc'[b] = "map" /\ apps' = apps /\ (found'[b] => Exists(LiveApp(b)))
    OBVIOUS
  <2>1. pc[b] = "check" /\ pc'[b] = "map" /\ apps' = apps
    BY <1>0 DEF CheckOld, Command, Goto, cfVars
  <2>2. found'[b] => CfAppFound(agent[b], req[b].app, "live")
    BY <1>0 DEF CheckOld
  <2> QED
    BY <2>1, <2>2, OwnNames DEF CfAppFound, Steps
<1> USE DEF Command, Goto, Keep
<1>3. CASE StartBuild(b) \/ Prepare(b) \/ ChooseVersion(b) \/ Login(b) \/ Download(b)
  BY <1>0, <1>1, <1>3 DEF StartBuild, Prepare, ChooseVersion, Login, Download
<1>4. CASE Push(b) \/ StartApp(b)
  BY <1>0, <1>1, <1>4 DEF Push, StartApp
<1>5. CASE MapLive(b) \/ UnmapOld(b) \/ UnmapTemp(b)
  BY <1>0, <1>1, <1>5 DEF MapLive, UnmapOld, UnmapTemp
<1>6. CASE DeleteTempRoute(b) \/ DeleteOld(b) \/ RenameTemp(b)
  BY <1>0, <1>1, <1>6 DEF DeleteTempRoute, DeleteOld, RenameTemp
<1>7. CASE Cleanup(b) \/ CommandRefused(b) \/ Abort(b)
  BY <1>0, <1>1, <1>7 DEF Cleanup, CommandRefused, Abort, Steps
<1> QED
  BY <1>1, <1>2, <1>3, <1>4, <1>5, <1>6, <1>7 DEF Step, Advance

\* What b remembers of X, and what it makes of it.
LEMMA StepSwap ==
  ASSUME Serial, IInv, NEW b \in Builds, Step(b)
  PROVE  FoundIsCurrent(b)' /\ Promoted(b)'
<1>0. CoreInv /\ FoundIsCurrent(b) /\ Promoted(b) /\ TempIsMine(b)
  BY DEF IInv, CoreInv
<1>1. /\ LiveApp(b)' = LiveApp(b) /\ TempApp(b)' = TempApp(b) /\ LiveRoute(b)' = LiveRoute(b)
      /\ LiveApp(b) # TempApp(b)
  BY <1>0, SwapEffects DEF LiveApp, TempApp
<1> USE DEF FoundIsCurrent, Promoted
<1>2. CASE pc'[b] \notin Steps
  BY <1>2 DEF Steps
<1>3. CASE pc'[b] \in {"prepare", "input", "login", "download", "push", "start", "check"}
  BY <1>3
<1>4. CASE CheckOld(b) /\ pc'[b] = "map" /\ apps' = apps /\ (found'[b] => Exists(LiveApp(b)))
  BY <1>1, <1>4 DEF Exists
<1>5. CASE MapLive(b) /\ found'[b] = found[b] /\ pc[b] = "map" /\ pc'[b] = "unmapOld"
  BY <1>0, <1>1, <1>5, OwnEffects DEF Exists
<1>6. CASE UnmapOld(b) /\ found'[b] = found[b] /\ pc[b] = "unmapOld" /\ pc'[b] = "unmapTemp"
  BY <1>0, <1>1, <1>6, OwnEffects DEF Exists
<1>7. CASE UnmapTemp(b) /\ found'[b] = found[b] /\ pc[b] = "unmapTemp" /\ pc'[b] = "deleteRoute"
  BY <1>0, <1>1, <1>7, OwnEffects DEF Exists
<1>8. CASE DeleteTempRoute(b) /\ found'[b] = found[b] /\ pc[b] = "deleteRoute" /\ pc'[b] = "deleteOld"
  BY <1>0, <1>1, <1>8, OwnEffects DEF Exists
<1>9. CASE DeleteOld(b) /\ found'[b] = found[b] /\ pc[b] = "deleteOld" /\ pc'[b] = "rename"
  BY <1>0, <1>1, <1>9, OwnEffects DEF Exists, Absent
<1>10. CASE RenameTemp(b) /\ pc[b] = "rename" /\ pc'[b] = "cleanup"
  BY <1>0, <1>1, <1>10, OwnEffects DEF Exists, Absent, TempIsMine
<1> QED
  BY <1>0, <1>2, <1>3, <1>4, <1>5, <1>6, <1>7, <1>8, <1>9, <1>10, SwapEffects

\* Nothing of the invariant depends on anything else.
LEMMA IInvFrame ==
  ASSUME UNCHANGED vars
  PROVE  /\ CoreInv => CoreInv'
         /\ \A b \in Builds : FoundIsCurrent(b) /\ Promoted(b) => (FoundIsCurrent(b) /\ Promoted(b))'
<1>1. UNCHANGED <<apps, owner, target, pc, req, agent, jarVersion, found>>
  BY DEF vars, cfVars, buildVars
<1>2. ASSUME NEW b \in Builds
      PROVE  /\ Space(b)' = Space(b)
             /\ LiveApp(b)' = LiveApp(b) /\ TempApp(b)' = TempApp(b)
             /\ LiveRoute(b)' = LiveRoute(b) /\ TempRoute(b)' = TempRoute(b)
  BY <1>1 DEF Space, LiveApp, TempApp, LiveRoute, TempRoute
<1>3. ASSUME TypeOK, OneAtATime, RoutesInOwnSpace, MissingIsAbsent
      PROVE  (TypeOK /\ OneAtATime /\ RoutesInOwnSpace /\ MissingIsAbsent)'
  BY <1>1, <1>3 DEF TypeOK, CFTypeOK, OneAtATime, Running, RoutesInOwnSpace, MissingIsAbsent, Exists
<1>4. ASSUME NEW b \in Builds, InOwnSpace(b), TempIsMine(b)
      PROVE  (InOwnSpace(b) /\ TempIsMine(b))'
  BY <1>1, <1>2, <1>4 DEF InOwnSpace, TempIsMine
<1>5. ASSUME NEW b \in Builds, FoundIsCurrent(b), Promoted(b)
      PROVE  (FoundIsCurrent(b) /\ Promoted(b))'
  BY <1>1, <1>2, <1>5 DEF FoundIsCurrent, Promoted, Exists
<1> QED
  BY <1>3, <1>4, <1>5 DEF CoreInv

LEMMA IInvKept ==
  ASSUME Serial, IInv, [Next]_vars
  PROVE  IInv'
<1>0. CoreInv
  BY DEF IInv
<1>1. ASSUME NEW b \in Builds, Step(b) PROVE IInv'
  <2>1. \A c \in Builds : (FoundIsCurrent(c) /\ Promoted(c))'
    BY <1>0, <1>1, OthersIdle, StepSwap
  <2> QED
    BY <1>0, <1>1, <2>1, CoreInvKept DEF IInv
<1>2. ASSUME UNCHANGED vars PROVE IInv'
  BY <1>2, IInvFrame DEF IInv
<1> QED
  BY <1>1, <1>2 DEF Next

\* In a job without concurrent builds whose environments all have a branch in
\* the Login stage, every reachable state satisfies the inductive invariant.
THEOREM SerialInvariant ==
  Serial => (Spec => []IInv)
<1> SUFFICES ASSUME Serial PROVE Spec => []IInv
  OBVIOUS
<1>1. IInv /\ [Next]_vars => IInv'
  BY IInvKept
<1> QED
  BY InitIInv, <1>1, PTL DEF Spec

-----------------------------------------------------------------------------
(* What the invariant gives *)

\* No command of b touches an application other than X and X-temp of its own
\* artifact and space.
LEMMA OwnFrame ==
  ASSUME CoreInv, NEW b \in Builds, Step(b), NEW x \in AppNames \ {LiveApp(b), TempApp(b)}
  PROVE  apps'[x] = apps[x]
<1> USE DEF Command, Steps
<1>0. /\ apps \in [AppNames -> AppState] /\ TempRoute(b) \in Routes
      /\ RoutesInOwnSpace /\ MissingIsAbsent
  BY NamesOfBuild DEF CoreInv, TypeOK, CFTypeOK
<1>1. CASE Push(b) \/ StartApp(b) \/ MapLive(b) \/ UnmapOld(b) \/ UnmapTemp(b)
  BY <1>0, <1>1, OwnNames DEF Push, CfPush, PushTo, StartApp, CfStart, StartIn, MapLive, CfMapRoute, UnmapOld,
     UnmapTemp, CfUnmapRoute, cfVars
<1>2. CASE DeleteOld(b) \/ RenameTemp(b)
  BY <1>0, <1>2, OwnNames DEF DeleteOld, CfDelete, RenameTemp, CfRename, cfVars
<1>3. CASE DeleteTempRoute(b)
  <2>1. TempRoute(b) \notin apps[x].routes
    <3>1. x[1] \in Spaces /\ x[2] \in Apps /\ x[3] \in Slots /\ x = <<x[1], x[2], x[3]>>
      BY DEF AppNames
    <3>2. ~ (x[1] = Space(b) /\ x[2] = req[b].app)
      BY <3>1, TwoSlots DEF LiveApp, TempApp
    <3>3. TempRoute(b) \in apps[x].routes => owner[TempRoute(b)] = x[1] /\ req[b].app = x[2]
      BY <1>0, <1>3, OwnNames DEF DeleteTempRoute, RoutesInOwnSpace
    <3>4. owner[TempRoute(b)] \in {NoSpace, Space(b)}
      BY <1>0, <1>3, OwnNames DEF DeleteTempRoute, RoutesInOwnSpace
    <3> QED
      BY <3>1, <3>2, <3>3, <3>4, NullsAreNew
  <2>2. CASE owner[TempRoute(b)] = target[agent[b]]
    <3>1. apps'[x] = [bits |-> apps[x].bits, up |-> apps[x].up,
                      routes |-> apps[x].routes \ {TempRoute(b)}]
      BY <1>3, <2>2 DEF DeleteTempRoute, CfDeleteRoute, WithRoutes
    <3>2. apps[x].routes \ {TempRoute(b)} = apps[x].routes
      BY <2>1
    <3>3. apps[x] = [bits |-> apps[x].bits, up |-> apps[x].up, routes |-> apps[x].routes]
      BY <1>0 DEF AppState
    <3> QED
      BY <3>1, <3>2, <3>3
  <2>3. CASE owner[TempRoute(b)] # target[agent[b]]
    BY <1>3, <2>3 DEF DeleteTempRoute, CfDeleteRoute, cfVars
  <2> QED
    BY <2>2, <2>3
<1> QED
  BY <1>1, <1>2, <1>3
     DEF Step, Advance, StartBuild, Prepare, ChooseVersion, Login, CfLogin, Download, CheckOld,
     Cleanup, CommandRefused, Abort, cfVars

\* A serial build whose environment has a login branch changes applications of
\* its own artifact in its own environment's space only.
THEOREM SerialOnlyOwnSpace ==
  Serial => (Spec => OnlyOwnSpace)
<1> SUFFICES ASSUME Serial PROVE Spec => OnlyOwnSpace
  OBVIOUS
<1>1. IInv /\ [Next]_vars => [OnlyOwnSpaceStep]_vars
  <2> SUFFICES ASSUME CoreInv, Next PROVE OnlyOwnSpaceStep
    BY DEF IInv
  <2>1. PICK c \in Builds : Step(c)
    BY DEF Next
  <2> SUFFICES ASSUME NEW b \in Builds, pc'[b] # pc[b], NEW x \in AppNames, apps'[x] # apps[x]
               PROVE  x[1] = Space(b) /\ x[2] = req[b].app
    BY DEF OnlyOwnSpaceStep
  <2>2. b = c
    BY <2>1, OthersIdle
  <2>3. x \in {LiveApp(b), TempApp(b)}
    BY <2>1, <2>2, OwnFrame
  <2> QED
    BY <2>3 DEF LiveApp, TempApp
<1> QED
  BY SerialInvariant, <1>1, PTL DEF Spec, OnlyOwnSpace

\* No deployment to one environment blocks or catches the host name of
\* another, at any moment of any sequence of builds.
THEOREM SerialRoutesInOwnSpace ==
  Serial => (Spec => []RoutesInOwnSpace)
<1>1. IInv => RoutesInOwnSpace
  BY DEF IInv, CoreInv
<1> QED
  BY SerialInvariant, <1>1, PTL

\* An application that answers on a host of an environment is X or X-temp in
\* the environment's space.
LEMMA ServedFromOwnSpace ==
  ASSUME CoreInv, NEW r \in Routes, NEW x \in Serving(r)
  PROVE  /\ x \in {<<SpaceOf[r[2]], r[1], "live">>, <<SpaceOf[r[2]], r[1], "temp">>}
         /\ Exists(x)
<1>1. x \in AppNames /\ apps[x].up /\ r \in apps[x].routes
  BY DEF Serving
<1>2. owner[r] = x[1] /\ r[1] = x[2] /\ owner[r] \in {NoSpace, SpaceOf[r[2]]}
  BY <1>1 DEF CoreInv, RoutesInOwnSpace
<1>3. x[1] = SpaceOf[r[2]] /\ x[3] \in {"live", "temp"} /\ x = <<x[1], x[2], x[3]>>
  BY <1>1, <1>2, AppNamesInSpaces, TwoSlots DEF AppNames
<1>4. Exists(x)
  BY <1>1 DEF CoreInv, MissingIsAbsent, Absent
<1> QED
  BY <1>2, <1>3, <1>4

LEMMA SuccessIsLive ==
  ASSUME Serial, IInv, Next
  PROVE  SuccessMeansLiveStep
<1>0. CoreInv
  BY DEF IInv
<1>1. PICK c \in Builds : Step(c)
  BY DEF Next
<1> SUFFICES ASSUME NEW b \in Builds, pc[b] # "SUCCESS", pc'[b] = "SUCCESS"
             PROVE  /\ Serving(LiveRoute(b)) = {LiveApp(b)}
                    /\ apps[LiveApp(b)].bits = b
                    /\ ~ Exists(TempApp(b))
                    /\ owner[TempRoute(b)] = NoSpace
  BY DEF SuccessMeansLiveStep
<1>2. b = c
  BY <1>0, <1>1, OthersIdle
<1>3. pc[b] = "cleanup"
  BY <1>0, <1>1, <1>2 DEF CoreInv, TypeOK, Step, Advance, Command, Goto, StartBuild, Prepare, ChooseVersion,
     Login, Download, Push, StartApp, CheckOld, MapLive, UnmapOld, UnmapTemp, DeleteTempRoute,
     DeleteOld, RenameTemp, Cleanup, CommandRefused, Abort
<1>4. Promoted(b) /\ TempIsMine(b)
  BY DEF IInv, CoreInv
<1>5. /\ LiveApp(b) \in AppNames /\ LiveRoute(b) \in Routes
      /\ LiveApp(b) = <<SpaceOf[LiveRoute(b)[2]], LiveRoute(b)[1], "live">>
      /\ TempApp(b) = <<SpaceOf[LiveRoute(b)[2]], LiveRoute(b)[1], "temp">>
  BY <1>0, NamesOfBuild DEF CoreInv, LiveApp, TempApp, LiveRoute, Space
<1>6. LiveApp(b) \in Serving(LiveRoute(b))
  BY <1>3, <1>4, <1>5 DEF Promoted, Serving
<1>7. ASSUME NEW x \in Serving(LiveRoute(b)) PROVE x = LiveApp(b)
  BY <1>0, <1>3, <1>4, <1>5, ServedFromOwnSpace DEF Promoted
<1> QED
  BY <1>3, <1>4, <1>6, <1>7 DEF Promoted, TempIsMine

\* A build of a serial job that reports SUCCESS is what its users get.
THEOREM SerialSuccessMeansLive ==
  Serial => (Spec => SuccessMeansLive)
<1> SUFFICES ASSUME Serial PROVE Spec => SuccessMeansLive
  OBVIOUS
<1>1. IInv /\ [Next]_vars => [SuccessMeansLiveStep]_vars
  BY SuccessIsLive
<1> QED
  BY SerialInvariant, <1>1, PTL DEF Spec, SuccessMeansLive

\* As long as an X that b has found is there to be unmapped, a command of b is refused for a
\* missing version or an existing X at the rename, and for nothing else.
LEMMA RefusedWhere ==
  ASSUME CoreInv, NEW b \in Builds, Running(b), ~ CommandOK(b),
         pc[b] = "unmapOld" /\ found[b] => Exists(LiveApp(b))
  PROVE  pc[b] = "download" \/ (pc[b] = "rename" /\ Exists(LiveApp(b)))
<1> SUFFICES ASSUME pc[b] # "download", ~ (pc[b] = "rename" /\ Exists(LiveApp(b)))
             PROVE  CommandOK(b)
  OBVIOUS
<1>1. CASE pc[b] \in {"prepare", "input", "login"}
  BY <1>1 DEF CommandOK
<1>2. CASE pc[b] \in Steps \ {"prepare", "input", "login", "download"}
  <2>1. /\ LoggedIn(agent[b])
        /\ owner[LiveRoute(b)] \in {NoSpace, target[agent[b]]}
        /\ owner[TempRoute(b)] \in {NoSpace, target[agent[b]]}
    BY <1>2, OwnNames, NamesOfBuild DEF CoreInv, LoggedIn, RoutesInOwnSpace
  <2>2. /\ LiveApp(b) = <<target[agent[b]], req[b].app, "live">>
        /\ TempApp(b) = <<target[agent[b]], req[b].app, "temp">>
        /\ target[agent[b]] = Space(b) /\ Space(b) # NoSpace
    BY <1>2, OwnNames, NamesOfBuild, NullsAreNew DEF CoreInv
  <2>3. /\ LiveApp(b) \in AppNames /\ TempApp(b) \in AppNames
        /\ TempIsMine(b) /\ RoutesInOwnSpace
    BY NamesOfBuild DEF CoreInv
  <2>4. pc[b] \in {"map", "unmapTemp", "rename"} => Exists(TempApp(b))
    BY <2>3, BuildIsDroplet DEF TempIsMine, Exists
  <2>5. pc[b] = "unmapOld" => owner[LiveRoute(b)] = target[agent[b]]
    BY <2>2, <2>3, NamesOfBuild DEF TempIsMine, RoutesInOwnSpace, TempApp
  <2>6. pc[b] = "unmapTemp" => owner[TempRoute(b)] = target[agent[b]]
    BY <2>2, <2>3 DEF TempIsMine
  <2> QED
    BY <1>2, <2>1, <2>2, <2>4, <2>5, <2>6
       DEF CommandOK, CfPushOK, CfMapRouteOK, CfUnmapRouteOK, CfRenameOK
<1> QED
  BY <1>1, <1>2 DEF Running, Steps

\* A build that a step ends REFUSED is the one that took it, at a command that was not possible.
LEMMA RefusedByCommand ==
  ASSUME Serial, CoreInv, NEW c \in Builds, Step(c),
         NEW b \in Builds, pc[b] # "REFUSED", pc'[b] = "REFUSED"
  PROVE  Running(b) /\ ~ CommandOK(b)
<1>1. b = c
  BY OthersIdle
<1> QED
  BY <1>1 DEF CoreInv, TypeOK, Step, Advance, Command, Goto, StartBuild, Prepare, ChooseVersion,
     Login, Download, Push, StartApp, CheckOld, MapLive, UnmapOld, UnmapTemp, DeleteTempRoute,
     DeleteOld, RenameTemp, Cleanup, CommandRefused, Running, Abort

\* What earlier builds left behind never refuses a command of a later one.
THEOREM SerialNeverWedged ==
  Serial => (Spec => NeverWedged)
<1> SUFFICES ASSUME Serial PROVE Spec => NeverWedged
  OBVIOUS
<1>1. IInv /\ [Next]_vars => [NeverWedgedStep]_vars
  <2> SUFFICES ASSUME IInv, Next PROVE NeverWedgedStep
    OBVIOUS
  <2>0. CoreInv
    BY DEF IInv
  <2>1. PICK c \in Builds : Step(c)
    BY DEF Next
  <2> SUFFICES ASSUME NEW b \in Builds, pc[b] # "REFUSED", pc'[b] = "REFUSED"
               PROVE  pc[b] = "download" \/ (pc[b] = "rename" /\ ~ found[b])
    BY DEF NeverWedgedStep
  <2>2. Running(b) /\ ~ CommandOK(b)
    BY <2>0, <2>1, RefusedByCommand
  <2>3. FoundIsCurrent(b)
    BY DEF IInv
  <2> QED
    BY <2>0, <2>2, <2>3, RefusedWhere DEF FoundIsCurrent
<1> QED
  BY SerialInvariant, <1>1, PTL DEF Spec, NeverWedged

\* While b swaps X-temp in, X-temp already answers on the live host: whatever
\* b takes away from another host or from X leaves somebody answering.
LEMMA StepKeepsServing ==
  ASSUME CoreInv, NEW b \in Builds, Step(b), ~ Push(b),
         NEW r \in Routes, r[3] = "live", Serving(r) # {}
  PROVE  \E y \in AppNames : apps'[y].up /\ r \in apps'[y].routes
<1>1. PICK x \in AppNames : apps[x].up /\ r \in apps[x].routes
  BY DEF Serving
<1>0. TypeOK /\ TempIsMine(b) /\ RoutesInOwnSpace
  BY DEF CoreInv
<1>2. /\ LiveApp(b) \in AppNames /\ TempApp(b) \in AppNames /\ Space(b) \in Spaces
  BY <1>0, NamesOfBuild
<1>r. r # TempRoute(b)
  BY DEF TempRoute
<1>3. x \in {LiveApp(b), TempApp(b)} => r = LiveRoute(b)
  <2> SUFFICES ASSUME x \in {LiveApp(b), TempApp(b)} PROVE r = LiveRoute(b)
    OBVIOUS
  <2>1. x[1] = Space(b) /\ x[2] = req[b].app
    BY DEF LiveApp, TempApp
  <2>2. owner[r] = x[1] /\ r[1] = x[2] /\ owner[r] \in {NoSpace, SpaceOf[r[2]]}
    BY <1>0, <1>1 DEF RoutesInOwnSpace
  <2>3. r[2] \in Envs /\ r = <<r[1], r[2], r[3]>>
    BY DEF Routes
  <2>4. SpaceOf[r[2]] = SpaceOf[req[b].env]
    BY <1>2, <2>1, <2>2, NullsAreNew DEF Space
  <2>5. r[2] = req[b].env
    BY <1>0, <2>3, <2>4, NamesOfBuild, SpacesDistinct
  <2> QED
    BY <2>1, <2>2, <2>3, <2>5 DEF LiveRoute
<1>4. CASE x \notin {LiveApp(b), TempApp(b)} \/ apps' = apps
  <2>1. apps'[x] = apps[x]
    BY <1>1, <1>4, OwnFrame
  <2> QED
    BY <1>1, <2>1
<1>5. CASE x \in {LiveApp(b), TempApp(b)} /\ (UnmapOld(b) \/ DeleteOld(b) \/ RenameTemp(b))
  <2>1. pc[b] \in {"unmapOld", "deleteOld", "rename"}
    BY <1>5 DEF UnmapOld, DeleteOld, RenameTemp, Command
  <2>2. apps[TempApp(b)].up /\ r \in apps[TempApp(b)].routes
    BY <1>0, <1>3, <1>5, <2>1 DEF TempIsMine
  <2>3. apps'[TempApp(b)] = apps[TempApp(b)] \/ apps'[LiveApp(b)] = apps[TempApp(b)]
    BY <1>5, OwnEffects
  <2> QED
    BY <1>2, <2>2, <2>3
<1>6. CASE x = LiveApp(b) /\ (StartApp(b) \/ MapLive(b) \/ UnmapTemp(b))
  <2>1. apps'[x] = apps[x]
    BY <1>6, OwnEffects
  <2> QED
    BY <1>1, <2>1
<1>7. CASE x = TempApp(b) /\ (StartApp(b) \/ MapLive(b) \/ UnmapTemp(b))
  <2>1. apps'[x].up /\ r \in apps'[x].routes
    BY <1>1, <1>r, <1>7, OwnEffects
  <2> QED
    BY <2>1
<1>8. CASE x \in {LiveApp(b), TempApp(b)} /\ DeleteTempRoute(b)
  <2>1. apps'[x].up = apps[x].up /\ apps'[x].routes = apps[x].routes \ {TempRoute(b)}
    BY <1>8, OwnEffects
  <2> QED
    BY <1>1, <1>2, <1>r, <2>1
<1>9. \/ apps' = apps
      \/ UnmapOld(b) \/ DeleteOld(b) \/ RenameTemp(b)
      \/ StartApp(b) \/ MapLive(b) \/ UnmapTemp(b) \/ DeleteTempRoute(b)
  BY DEF Step, Advance, StartBuild, Prepare, ChooseVersion, Login, CfLogin, Download, CheckOld,
     Cleanup, CommandRefused, Abort, cfVars
<1> QED
  BY <1>4, <1>5, <1>6, <1>7, <1>8, <1>9

\* A step that takes away a live host's last answer is a push over an X-temp that was the only
\* one to answer there.
LEMMA OutageIsPush ==
  ASSUME CoreInv, NEW b \in Builds, Step(b), NEW a \in Apps, NEW e \in Envs,
         Serving(<<a, e, "live">>) # {}, Serving(<<a, e, "live">>)' = {}
  PROVE  /\ pc[b] = "push" /\ pc'[b] = "start"
         /\ req[b].app = a /\ req[b].env = e
         /\ Serving(<<a, e, "live">>) = {TempApp(b)}
<1>1. ~ \E y \in AppNames : apps'[y].up /\ <<a, e, "live">> \in apps'[y].routes
  BY DEF Serving
<1>r. PICK r \in Routes : r = <<a, e, "live">>
  BY TwoSlots DEF Routes
<1>2. Push(b)
  BY <1>1, <1>r, StepKeepsServing
<1>3. pc[b] = "push" /\ pc'[b] = "start"
  BY <1>2 DEF Push, Command, Goto, CoreInv, TypeOK
<1>4. ASSUME NEW x \in Serving(r) PROVE x = TempApp(b)
  <2>1. x \in AppNames /\ apps[x].up /\ r \in apps[x].routes
    BY DEF Serving
  <2>2. apps'[x] # apps[x]
    BY <1>1, <1>r, <2>1
  <2>3. x \in {LiveApp(b), TempApp(b)}
    BY <2>1, <2>2, OwnFrame
  <2>4. apps'[LiveApp(b)] = apps[LiveApp(b)]
    BY <1>2, OwnEffects
  <2> QED
    BY <2>2, <2>3, <2>4
<1>5. Serving(r) = {TempApp(b)}
  BY <1>4, <1>r
<1>6. TempApp(b) \in AppNames /\ r \in apps[TempApp(b)].routes
  BY <1>5 DEF Serving
<1>7. /\ owner[r] = Space(b) /\ r[1] = req[b].app
      /\ owner[r] \in {NoSpace, SpaceOf[r[2]]}
  BY <1>6 DEF CoreInv, RoutesInOwnSpace, TempApp
<1>8. SpaceOf[e] = SpaceOf[req[b].env]
  BY <1>r, <1>7, NamesOfBuild, NullsAreNew DEF CoreInv, Space
<1>9. req[b].app = a /\ req[b].env = e
  BY <1>r, <1>7, <1>8, NamesOfBuild, SpacesDistinct DEF CoreInv
<1> QED
  BY <1>3, <1>5, <1>9, <1>r

\* A serial job never leaves a live host without an answer, except by pushing
\* over an X-temp that an unfinished build had made the only one to answer.
THEOREM SerialOutageOnlyByPush ==
  Serial => (Spec => OutageOnlyByPush)
<1> SUFFICES ASSUME Serial PROVE Spec => OutageOnlyByPush
  OBVIOUS
<1>1. IInv /\ [Next]_vars => [OutageOnlyByPushStep]_vars
  <2> SUFFICES ASSUME CoreInv, Next PROVE OutageOnlyByPushStep
    BY DEF IInv
  <2>1. PICK b \in Builds : Step(b)
    BY DEF Next
  <2> QED
    BY <2>1, OutageIsPush DEF OutageOnlyByPushStep
<1> QED
  BY SerialInvariant, <1>1, PTL DEF Spec, OutageOnlyByPush

-----------------------------------------------------------------------------
(* The pipeline implements the blue-green promise LiveService: first, every *)
(* droplet is in one place.                                                 *)

BeforeStart == {"queued", "prepare", "input", "login", "download", "push"}

\* No two applications run the same droplet, and nobody has the droplet of a build that has not
\* pushed yet.
DropletsApart ==
  /\ \A x, y \in AppNames : Exists(x) /\ apps[x].bits = apps[y].bits => x = y
  /\ \A b \in Builds : pc[b] \in BeforeStart => \A x \in AppNames : apps[x].bits # b

\* Where droplets go.
LEMMA DropletsMove ==
  ASSUME CoreInv, NEW b \in Builds, Step(b)
  PROVE  /\ Push(b) => \A x \in AppNames : apps'[x].bits = IF x = TempApp(b) THEN b ELSE apps[x].bits
         /\ RenameTemp(b) => /\ apps'[LiveApp(b)].bits = apps[TempApp(b)].bits
                             /\ apps'[TempApp(b)].bits = NoBuild
                             /\ \A x \in AppNames \ {LiveApp(b), TempApp(b)} : apps'[x].bits = apps[x].bits
         /\ ~ Push(b) /\ ~ RenameTemp(b) =>
              \A x \in AppNames : apps'[x].bits \in {apps[x].bits, NoBuild}
<1>1. ASSUME NEW x \in AppNames \ {LiveApp(b), TempApp(b)} PROVE apps'[x].bits = apps[x].bits
  BY OwnFrame
<1>2. Push(b) => apps'[TempApp(b)].bits = b /\ apps'[LiveApp(b)].bits = apps[LiveApp(b)].bits
  BY OwnEffects
<1>3. RenameTemp(b) => apps'[LiveApp(b)].bits = apps[TempApp(b)].bits /\ apps'[TempApp(b)].bits = NoBuild
  BY OwnEffects DEF Absent
<1>4. ASSUME StartApp(b) \/ MapLive(b) \/ UnmapTemp(b) \/ DeleteTempRoute(b) \/ UnmapOld(b) \/ DeleteOld(b),
             NEW x \in {LiveApp(b), TempApp(b)}
      PROVE  apps'[x].bits \in {apps[x].bits, NoBuild}
  <2>1. CASE DeleteOld(b) /\ ~ found[b]
    BY <2>1 DEF DeleteOld, cfVars
  <2> QED
    BY <1>4, <2>1, OwnEffects DEF Absent
<1>5. \/ apps' = apps \/ Push(b) \/ RenameTemp(b)
      \/ StartApp(b) \/ MapLive(b) \/ UnmapTemp(b) \/ DeleteTempRoute(b) \/ UnmapOld(b) \/ DeleteOld(b)
  BY DEF Step, Advance, StartBuild, Prepare, ChooseVersion, Login, CfLogin, Download, CheckOld,
     Cleanup, CommandRefused, Abort, cfVars
<1> QED
  BY <1>1, <1>2, <1>3, <1>4, <1>5

LEMMA DropletsApartKept ==
  ASSUME Serial, CoreInv, DropletsApart, NEW b \in Builds, Step(b)
  PROVE  DropletsApart'
<1>0. /\ LiveApp(b) \in AppNames /\ TempApp(b) \in AppNames /\ LiveApp(b) # TempApp(b) /\ b # NoBuild
      /\ \A x, y \in AppNames : apps[x].bits # NoBuild /\ apps[x].bits = apps[y].bits => x = y
      /\ \A c \in Builds : pc[c] \in BeforeStart => \A x \in AppNames : apps[x].bits # c
  BY NamesOfBuild, BuildIsDroplet DEF CoreInv, DropletsApart, Exists, LiveApp, TempApp
<1>1. /\ \A c \in Builds \ {b} : pc'[c] = pc[c]
      /\ pc'[b] \in BeforeStart => pc[b] \in BeforeStart /\ ~ Push(b) /\ ~ RenameTemp(b)
  BY OthersIdle
     DEF CoreInv, TypeOK, BeforeStart, Command, Goto, Step, Advance, StartBuild, Prepare, ChooseVersion,
         Login, Download, Push, StartApp, CheckOld, MapLive, UnmapOld, UnmapTemp, DeleteTempRoute,
         DeleteOld, RenameTemp, Cleanup, CommandRefused, Abort
<1>2. CASE Push(b)
  <2>1. pc[b] \in BeforeStart
    BY <1>2 DEF Push, Command, BeforeStart
  <2>2. \A x \in AppNames : apps'[x].bits = IF x = TempApp(b) THEN b ELSE apps[x].bits
    BY <1>2, DropletsMove
  <2>3. ASSUME NEW x \in AppNames, NEW y \in AppNames, apps'[x].bits # NoBuild, apps'[x].bits = apps'[y].bits
        PROVE  x = y
    BY <1>0, <2>1, <2>2, <2>3
  <2>4. ASSUME NEW c \in Builds, pc'[c] \in BeforeStart, NEW x \in AppNames PROVE apps'[x].bits # c
    BY <1>0, <1>1, <1>2, <2>2, <2>4
  <2> QED
    BY <2>3, <2>4 DEF DropletsApart, Exists
<1>3. CASE RenameTemp(b)
  <2>1. /\ apps'[LiveApp(b)].bits = apps[TempApp(b)].bits /\ apps'[TempApp(b)].bits = NoBuild
        /\ \A x \in AppNames \ {LiveApp(b), TempApp(b)} : apps'[x].bits = apps[x].bits
    BY <1>3, DropletsMove
  <2>2. ASSUME NEW x \in AppNames, NEW y \in AppNames, apps'[x].bits # NoBuild, apps'[x].bits = apps'[y].bits
        PROVE  x = y
    BY <1>0, <2>1, <2>2
  <2>3. ASSUME NEW c \in Builds, pc'[c] \in BeforeStart, NEW x \in AppNames PROVE apps'[x].bits # c
    BY <1>0, <1>1, <1>3, <2>1, <2>3, BuildIsDroplet
  <2> QED
    BY <2>2, <2>3 DEF DropletsApart, Exists
<1>4. CASE ~ Push(b) /\ ~ RenameTemp(b)
  <2>1. \A x \in AppNames : apps'[x].bits \in {apps[x].bits, NoBuild}
    BY <1>4, DropletsMove
  <2>2. \A c \in Builds : c # NoBuild
    BY BuildIsDroplet
  <2> QED
    BY <1>0, <1>1, <2>1, <2>2 DEF DropletsApart, Exists
<1> QED
  BY <1>2, <1>3, <1>4

-----------------------------------------------------------------------------
(* What a step does to the live hosts *)

\* A live host that X or X-temp of b has is the one of its environment.
LEMMA OwnHostOnly ==
  ASSUME Serial, CoreInv, NEW b \in Builds, Step(b),
         NEW r \in Routes, r[3] = "live", NEW x \in {LiveApp(b), TempApp(b)},
         r \in apps[x].routes \/ r \in apps'[x].routes
  PROVE  r = LiveRoute(b)
<1>0. x \in AppNames /\ x[1] = Space(b) /\ x[2] = req[b].app /\ Space(b) \in Spaces
  <2>1. TypeOK
    BY DEF CoreInv
  <2>2. x \in AppNames /\ Space(b) \in Spaces
    BY <2>1, NamesOfBuild
  <2>3. x[1] = Space(b) /\ x[2] = req[b].app
    BY DEF LiveApp, TempApp
  <2> QED
    BY <2>2, <2>3
<1>1. r[1] = req[b].app /\ SpaceOf[r[2]] = Space(b)
  <2>1. RoutesInOwnSpace /\ RoutesInOwnSpace'
    BY StepRoutes DEF CoreInv
  <2> QED
    BY <1>0, <2>1, NullsAreNew DEF RoutesInOwnSpace
<1>2. r[2] \in Envs /\ r = <<r[1], r[2], r[3]>>
  BY DEF Routes
<1>3. r[2] = req[b].env
  BY <1>1, <1>2, NamesOfBuild, SpacesDistinct DEF CoreInv, Space
<1> QED
  BY <1>1, <1>2, <1>3 DEF LiveRoute

LEMMA HostView ==
  ASSUME NEW h \in Apps \X Envs
  PROVE  LET r == <<h[1], h[2], "live">>
             t == <<SpaceOf[h[2]], h[1], "temp">>
         IN  /\ servingBar[h] = {apps[x].bits : x \in {y \in AppNames : apps[y].up /\ r \in apps[y].routes}}
             /\ pendingBar[h] = IF r \in apps[t].routes THEN apps[t].bits ELSE NoBuild
             /\ servingBar'[h] = {apps'[x].bits : x \in {y \in AppNames : apps'[y].up /\ r \in apps'[y].routes}}
             /\ pendingBar'[h] = IF r \in apps'[t].routes THEN apps'[t].bits ELSE NoBuild
  BY DEF servingBar, pendingBar, ServingBits, Serving

\* The users of the other hosts do not notice.
LEMMA OtherHosts ==
  ASSUME Serial, CoreInv, NEW b \in Builds, Step(b),
         NEW h \in Apps \X Envs, h # <<req[b].app, req[b].env>>
  PROVE  servingBar'[h] = servingBar[h] /\ pendingBar'[h] = pendingBar[h]
<1> DEFINE r == <<h[1], h[2], "live">>
           t == <<SpaceOf[h[2]], h[1], "temp">>
<1>0. /\ r \in Routes /\ r[3] = "live" /\ r # LiveRoute(b) /\ h[1] \in Apps /\ h[2] \in Envs
      /\ t \in AppNames
  BY TwoSlots, RedeployAssumption DEF Routes, LiveRoute, AppNames
<1>1. ASSUME NEW x \in AppNames
      PROVE  \/ apps'[x] = apps[x]
             \/ r \notin apps[x].routes /\ r \notin apps'[x].routes
  <2> HIDE DEF r
  <2> QED
    BY <1>0, OwnFrame, OwnHostOnly
<1>2. apps'[t] = apps[t]
  <2>1. t # LiveApp(b)
    BY DEF LiveApp
  <2>2. t # TempApp(b)
    <3>1. t = TempApp(b) => SpaceOf[h[2]] = SpaceOf[req[b].env] /\ h[1] = req[b].app
      BY DEF TempApp, Space
    <3>2. t = TempApp(b) => h[2] = req[b].env /\ h[1] = req[b].app
      BY <1>0, <3>1, NamesOfBuild, SpacesDistinct DEF CoreInv
    <3> QED
      BY <3>2
  <2> QED
    BY <1>0, <2>1, <2>2, OwnFrame
<1>3. pendingBar'[h] = pendingBar[h]
  BY <1>2, HostView
<1>4. servingBar'[h] = servingBar[h]
  <2> HIDE DEF r
  <2>1. \A x \in AppNames : apps'[x].up /\ r \in apps'[x].routes <=> apps[x].up /\ r \in apps[x].routes
    BY <1>1
  <2>2. \A x \in AppNames : apps'[x].up /\ r \in apps'[x].routes => apps'[x].bits = apps[x].bits
    BY <1>1
  <2>3. {apps'[x].bits : x \in {y \in AppNames : apps'[y].up /\ r \in apps'[y].routes}}
          = {apps[x].bits : x \in {y \in AppNames : apps[y].up /\ r \in apps[y].routes}}
    BY <2>1, <2>2
  <2> QED
    BY <2>3, HostView DEF r
<1> QED
  BY <1>3, <1>4

\* The build's own host, by what its two applications are.
LEMMA OwnView ==
  ASSUME Serial, CoreInv, NEW b \in Builds, Step(b)
  PROVE  LET h == <<req[b].app, req[b].env>>
             r == LiveRoute(b)
             l == LiveApp(b)
             t == TempApp(b)
         IN  /\ h \in Apps \X Envs
             /\ servingBar[h] = {apps[x].bits : x \in {y \in {l, t} : apps[y].up /\ r \in apps[y].routes}}
             /\ pendingBar[h] = IF r \in apps[t].routes THEN apps[t].bits ELSE NoBuild
             /\ servingBar'[h] = {apps'[x].bits : x \in {y \in {l, t} : apps'[y].up /\ r \in apps'[y].routes}}
             /\ pendingBar'[h] = IF r \in apps'[t].routes THEN apps'[t].bits ELSE NoBuild
<1> DEFINE h == <<req[b].app, req[b].env>>
           r == LiveRoute(b)
           l == LiveApp(b)
           t == TempApp(b)
<1>0. /\ h \in Apps \X Envs /\ r \in Routes /\ l \in AppNames /\ t \in AppNames
      /\ r = <<h[1], h[2], "live">> /\ t = <<SpaceOf[h[2]], h[1], "temp">>
  BY NamesOfBuild DEF CoreInv, LiveRoute, TempApp, Space
<1>1. ASSUME NEW x \in AppNames, r \in apps[x].routes PROVE x \in {l, t}
  <2>1. x[1] = Space(b) /\ x[2] = req[b].app
    BY <1>0, <1>1, AppNamesInSpaces DEF CoreInv, RoutesInOwnSpace, LiveRoute, Space
  <2>2. x = <<x[1], x[2], x[3]>> /\ x[3] \in {"live", "temp"}
    BY TwoSlots DEF AppNames
  <2> QED
    BY <2>1, <2>2 DEF LiveApp, TempApp
<1>2. ASSUME NEW x \in AppNames, r \in apps'[x].routes PROVE x \in {l, t}
  BY <1>1, <1>2, OwnFrame
<1> HIDE DEF r, l, t, h
<1>3. {y \in AppNames : apps[y].up /\ r \in apps[y].routes} = {y \in {l, t} : apps[y].up /\ r \in apps[y].routes}
  BY <1>0, <1>1
<1>4. {y \in AppNames : apps'[y].up /\ r \in apps'[y].routes} = {y \in {l, t} : apps'[y].up /\ r \in apps'[y].routes}
  BY <1>0, <1>2
<1>5. /\ servingBar[h] = {apps[x].bits : x \in {y \in AppNames : apps[y].up /\ r \in apps[y].routes}}
      /\ pendingBar[h] = IF r \in apps[t].routes THEN apps[t].bits ELSE NoBuild
      /\ servingBar'[h] = {apps'[x].bits : x \in {y \in AppNames : apps'[y].up /\ r \in apps'[y].routes}}
      /\ pendingBar'[h] = IF r \in apps'[t].routes THEN apps'[t].bits ELSE NoBuild
  BY <1>0, HostView
<1> QED
  BY <1>0, <1>3, <1>4, <1>5 DEF r, l, t, h

\* On its own host every command of b is a step of the promise, or nothing.
LEMMA OwnHost ==
  ASSUME Serial, CoreInv, DropletsApart, NEW b \in Builds, Step(b)
  PROVE  LET h  == <<req[b].app, req[b].env>>
             S  == servingBar[h]
             P  == pendingBar[h]
             S1 == servingBar'[h]
             P1 == pendingBar'[h]
         IN  \/ S1 = S /\ P1 = P
             \/ P \in {NoBuild, b} /\ b \notin S /\ S1 = S \cup {b} /\ P1 = b /\ Running(b)
             \/ P \in S /\ S1 = {P} /\ P1 = P
             \/ S = {P} /\ S1 = S /\ P1 = NoBuild
             \/ P # NoBuild /\ b \notin S /\ S1 = S \ {P} /\ P1 = b
<1> DEFINE h == <<req[b].app, req[b].env>>
           r == LiveRoute(b)
           l == LiveApp(b)
           t == TempApp(b)
           Answers(x)  == apps[x].up /\ r \in apps[x].routes
           Answers1(x) == apps'[x].up /\ r \in apps'[x].routes
           S  == servingBar[h]
           P  == pendingBar[h]
           S1 == servingBar'[h]
           P1 == pendingBar'[h]
<1>0. /\ l \in AppNames /\ t \in AppNames /\ l # t /\ r # TempRoute(b) /\ b # NoBuild
      /\ TempIsMine(b) /\ MissingIsAbsent
  BY NamesOfBuild, BuildIsDroplet DEF CoreInv, LiveApp, TempApp, LiveRoute, TempRoute
<1>1. /\ S  = {apps[x].bits : x \in {y \in {l, t} : Answers(y)}}
      /\ P  = IF r \in apps[t].routes THEN apps[t].bits ELSE NoBuild
      /\ S1 = {apps'[x].bits : x \in {y \in {l, t} : Answers1(y)}}
      /\ P1 = IF r \in apps'[t].routes THEN apps'[t].bits ELSE NoBuild
  BY OwnView
\* X and X-temp never run the same droplet.
<1>2. apps[t].bits # NoBuild => apps[l].bits # apps[t].bits
  BY <1>0 DEF DropletsApart, Exists
<1>3. /\ \A x \in {l, t} : Answers(x) => apps[x].bits # NoBuild
      /\ r \in apps[t].routes => apps[t].bits # NoBuild
  BY <1>0 DEF MissingIsAbsent, Exists, Absent
<1> HIDE DEF h, r, l, t, S, P, S1, P1
<1>4. CASE apps' = apps
  BY <1>1, <1>4 DEF h, S, P, S1, P1
<1>5. CASE Push(b)
  <2>1. pc[b] \in BeforeStart
    BY <1>5 DEF Push, Command, BeforeStart
  <2>2. apps[l].bits # b /\ apps[t].bits # b
    BY <1>0, <2>1 DEF DropletsApart
  <2>3. /\ apps'[l] = apps[l] /\ apps'[t].bits = b /\ ~ apps'[t].up
        /\ apps'[t].routes = apps[t].routes \cup {TempRoute(b)}
    BY <1>5, OwnEffects DEF l, t
  <2>4. CASE r \notin apps[t].routes
    <3>1. S1 = S /\ P1 = P
      BY <1>0, <1>1, <2>3, <2>4
    <3> QED
      BY <3>1 DEF h, S, P, S1, P1
  <2>5. CASE r \in apps[t].routes
    <3>1. P = apps[t].bits /\ P # NoBuild /\ P1 = b
      BY <1>0, <1>1, <1>3, <2>3, <2>5
    <3>2. b \notin S
      BY <1>1, <2>2
    <3>3. S1 = S \ {P}
      BY <1>0, <1>1, <1>2, <2>3, <3>1
    <3> QED
      BY <3>1, <3>2, <3>3 DEF h, S, P, S1, P1
  <2> QED
    BY <2>4, <2>5
<1>6. CASE StartApp(b)
  <2>1. pc[b] = "start"
    BY <1>6 DEF StartApp, Command
  <2>2. apps[t].bits = b
    BY <1>0, <2>1 DEF TempIsMine, t
  <2>3. /\ apps'[l] = apps[l] /\ apps'[t].bits = apps[t].bits /\ apps'[t].up
        /\ apps'[t].routes = apps[t].routes
    BY <1>6, OwnEffects DEF l, t
  <2>4. CASE r \notin apps[t].routes \/ apps[t].up
    <3>1. S1 = S /\ P1 = P
      BY <1>0, <1>1, <2>3, <2>4
    <3> QED
      BY <3>1 DEF h, S, P, S1, P1
  <2>5. CASE r \in apps[t].routes /\ ~ apps[t].up
    <3>1. P = b /\ P1 = b
      BY <1>1, <2>2, <2>3, <2>5
    <3>2. b \notin S /\ S1 = S \cup {b}
      BY <1>0, <1>1, <1>2, <2>2, <2>3, <2>5
    <3> QED
      BY <2>1, <3>1, <3>2 DEF h, S, P, S1, P1, Running, Steps
  <2> QED
    BY <2>4, <2>5
<1>7. CASE MapLive(b)
  <2>1. pc[b] = "map"
    BY <1>7 DEF MapLive, Command
  <2>2. apps[t].bits = b /\ apps[t].up
    BY <1>0, <2>1 DEF TempIsMine, t
  <2>3. /\ apps'[l] = apps[l] /\ apps'[t].bits = apps[t].bits /\ apps'[t].up = apps[t].up
        /\ apps'[t].routes = apps[t].routes \cup {r}
    BY <1>7, OwnEffects DEF l, t, r
  <2>4. CASE r \in apps[t].routes
    <3>1. S1 = S /\ P1 = P
      BY <1>0, <1>1, <2>3, <2>4
    <3> QED
      BY <3>1 DEF h, S, P, S1, P1
  <2>5. CASE r \notin apps[t].routes
    <3>1. P = NoBuild /\ P1 = b
      BY <1>1, <2>2, <2>3, <2>5
    <3>2. b \notin S /\ S1 = S \cup {b}
      BY <1>0, <1>1, <1>2, <2>2, <2>3, <2>5
    <3> QED
      BY <2>1, <3>1, <3>2 DEF h, S, P, S1, P1, Running, Steps
  <2> QED
    BY <2>4, <2>5
\* X-temp answers already when something is taken from X.
<1>8. CASE (UnmapOld(b) \/ DeleteOld(b)) /\ apps' # apps
  <2>1. pc[b] \in {"unmapOld", "deleteOld"}
    BY <1>8 DEF UnmapOld, DeleteOld, Command
  <2>2. apps[t].bits = b /\ Answers(t)
    BY <1>0, <2>1 DEF TempIsMine, t, r
  <2>3. found[b]
    BY <1>8 DEF UnmapOld, DeleteOld, cfVars
  <2>4. apps'[t] = apps[t] /\ ~ Answers1(l)
    BY <1>8, <2>3, OwnEffects DEF l, t, r, Absent
  <2>5. P = b /\ P1 = b /\ b \in S /\ S1 = {b}
    BY <1>0, <1>1, <2>2, <2>4
  <2> QED
    BY <2>5 DEF h, S, P, S1, P1
<1>9. CASE UnmapTemp(b) \/ DeleteTempRoute(b)
  <2>1. \A x \in {l, t} : /\ apps'[x].bits = apps[x].bits /\ apps'[x].up = apps[x].up
                          /\ r \in apps'[x].routes <=> r \in apps[x].routes
    BY <1>0, <1>9, OwnEffects DEF l, t
  <2>2. S1 = S /\ P1 = P
    BY <1>1, <2>1
  <2> QED
    BY <2>2 DEF h, S, P, S1, P1
<1>10. CASE RenameTemp(b)
  <2>1. pc[b] = "rename" /\ CommandOK(b)
    BY <1>10 DEF RenameTemp, Command
  <2>2. apps[t].bits = b /\ Answers(t)
    BY <1>0, <2>1 DEF TempIsMine, t, r
  <2>3. ~ Exists(l)
    BY <2>1, OwnNames DEF CommandOK, CfRenameOK, l, Steps
  <2>4. ~ Answers(l)
    BY <1>0, <2>3 DEF MissingIsAbsent, Absent
  <2>5. apps'[l] = apps[t] /\ apps'[t] = Absent
    BY <1>10, OwnEffects DEF l, t
  <2>6. S = {b} /\ P = b
    BY <1>1, <2>2, <2>4
  <2>7. S1 = {b} /\ P1 = NoBuild
    BY <1>0, <1>1, <2>2, <2>5 DEF Absent
  <2> QED
    BY <2>6, <2>7 DEF h, S, P, S1, P1
<1> QED
  BY <1>4, <1>5, <1>6, <1>7, <1>8, <1>9, <1>10
     DEF Step, Advance, StartBuild, Prepare, ChooseVersion, Login, CfLogin, Download, CheckOld,
     Cleanup, CommandRefused, Abort, cfVars

-----------------------------------------------------------------------------
(* The theorems *)

LEMMA InitDropletsApart == Init => DropletsApart
<1> SUFFICES ASSUME Init PROVE DropletsApart
  OBVIOUS
<1>1. \A x \in AppNames : apps[x].bits = NoBuild
  BY DEF Init, CFInit, Absent
<1> QED
  BY <1>1, BuildIsDroplet DEF DropletsApart, Exists

\* No droplet is in two places, and none comes from a build that has not pushed
\* (Redeploy.groovy:103, 114: the cf push and the rename).
THEOREM SerialDropletsApart == Serial => (Spec => [](IInv /\ DropletsApart))
<1> SUFFICES ASSUME Serial PROVE Spec => [](IInv /\ DropletsApart)
  OBVIOUS
<1>1. IInv /\ DropletsApart /\ [Next]_vars => DropletsApart'
  <2> SUFFICES ASSUME CoreInv, DropletsApart, [Next]_vars PROVE DropletsApart'
    BY DEF IInv
  <2>1. CASE Next
    BY <2>1, DropletsApartKept DEF Next
  <2>2. CASE UNCHANGED vars
    BY <2>2 DEF vars, cfVars, buildVars, DropletsApart, Exists
  <2> QED
    BY <2>1, <2>2
<1> QED
  BY SerialInvariant, InitDropletsApart, <1>1, PTL DEF Spec

LEMMA BarsAreFunctions ==
  /\ servingBar = [g \in Apps \X Envs |-> servingBar[g]]
  /\ pendingBar = [g \in Apps \X Envs |-> pendingBar[g]]
  /\ servingBar' = [g \in Apps \X Envs |-> servingBar'[g]]
  /\ pendingBar' = [g \in Apps \X Envs |-> pendingBar'[g]]
  BY DEF servingBar, pendingBar

\* A step that changes one host only, as one of the promise's steps there, is a step of the promise.
LEMMA StepImplements ==
  ASSUME Serial, CoreInv, DropletsApart, NEW b \in Builds, Step(b)
  PROVE  LS!Next \/ UNCHANGED LS!vars
<1> DEFINE h == <<req[b].app, req[b].env>>
<1>0. h \in Apps \X Envs
  BY NamesOfBuild DEF CoreInv
<1>1. \A g \in Apps \X Envs : g # h => servingBar'[g] = servingBar[g] /\ pendingBar'[g] = pendingBar[g]
  BY OtherHosts
<1>s. ASSUME NEW v PROVE servingBar'[h] = v => servingBar' = [servingBar EXCEPT ![h] = v]
  BY <1>0, <1>1, BarsAreFunctions
<1>p. ASSUME NEW v PROVE pendingBar'[h] = v => pendingBar' = [pendingBar EXCEPT ![h] = v]
  BY <1>0, <1>1, BarsAreFunctions
<1>2. CASE servingBar'[h] = servingBar[h] /\ pendingBar'[h] = pendingBar[h]
  <2>1. servingBar' = servingBar /\ pendingBar' = pendingBar
    BY <1>0, <1>1, <1>2, BarsAreFunctions
  <2> QED
    BY <2>1 DEF LS!vars
<1>3. CASE /\ pendingBar[h] \in {NoBuild, b} /\ b \notin servingBar[h]
           /\ servingBar'[h] = servingBar[h] \cup {b} /\ pendingBar'[h] = b
  <2>1. LS!Join(h, b)
    BY <1>3, <1>s, <1>p DEF LS!Join
  <2> QED
    BY <1>0, <2>1 DEF LS!Next
<1>4. CASE /\ pendingBar[h] \in servingBar[h]
           /\ servingBar'[h] = {pendingBar[h]} /\ pendingBar'[h] = pendingBar[h]
  <2>1. pendingBar' = pendingBar
    BY <1>0, <1>1, <1>4, BarsAreFunctions
  <2>2. LS!Retire(h)
    BY <1>4, <1>s, <2>1 DEF LS!Retire
  <2> QED
    BY <1>0, <2>2 DEF LS!Next
<1>5. CASE /\ servingBar[h] = {pendingBar[h]}
           /\ servingBar'[h] = servingBar[h] /\ pendingBar'[h] = NoBuild
  <2>1. servingBar' = servingBar
    BY <1>0, <1>1, <1>5, BarsAreFunctions
  <2>2. LS!Promote(h)
    BY <1>5, <1>p, <2>1 DEF LS!Promote
  <2> QED
    BY <1>0, <2>2 DEF LS!Next
<1>6. CASE /\ pendingBar[h] # NoBuild /\ b \notin servingBar[h]
           /\ servingBar'[h] = servingBar[h] \ {pendingBar[h]} /\ pendingBar'[h] = b
  <2>1. LS!Replace(h, b)
    BY <1>6, <1>s, <1>p DEF LS!Replace
  <2> QED
    BY <1>0, <2>1 DEF LS!Next
<1> QED
  BY <1>2, <1>3, <1>4, <1>5, <1>6, OwnHost

\* The builds of a serial job, one after the other, implement the blue-green promise for every
\* live host at once: no command shows the users of a host anything but a step of it
\* (Redeploy.groovy:102-116).
THEOREM SerialImplementsLiveService == Serial => (Spec => ImplementsLiveService)
<1> SUFFICES ASSUME Serial PROVE Spec => ImplementsLiveService
  OBVIOUS
<1>1. Init => LS!Init
  <2> SUFFICES ASSUME Init PROVE LS!Init
    OBVIOUS
  <2>1. \A x \in AppNames : apps[x].routes = {} /\ ~ apps[x].up
    BY DEF Init, CFInit, Absent
  <2>2. \A h \in Apps \X Envs : servingBar[h] = {}
    BY <2>1, HostView
  <2>3. ASSUME NEW h \in Apps \X Envs PROVE pendingBar[h] = NoBuild
    <3>1. <<SpaceOf[h[2]], h[1], "temp">> \in AppNames
      BY TwoSlots, RedeployAssumption DEF AppNames
    <3> QED
      BY <2>1, <3>1, HostView
  <2> QED
    BY <2>2, <2>3, BarsAreFunctions DEF LS!Init
<1>2. IInv /\ DropletsApart /\ [Next]_vars => [LS!Next]_(LS!vars)
  <2> SUFFICES ASSUME CoreInv, DropletsApart, [Next]_vars PROVE [LS!Next]_(LS!vars)
    BY DEF IInv
  <2>1. CASE Next
    BY <2>1, StepImplements DEF Next
  <2>2. CASE UNCHANGED vars
    BY <2>2 DEF vars, cfVars, LS!vars, servingBar, pendingBar, ServingBits, Serving
  <2> QED
    BY <2>1, <2>2
<1> QED
  BY SerialDropletsApart, <1>1, <1>2, PTL DEF Spec, ImplementsLiveService, LS!Spec

\* A droplet that has stopped answering on a live host after its build ended never answers there
\* again (Redeploy.groovy:103-116; nothing but the build itself starts or routes its droplet).
THEOREM SerialNoComeback == Serial => (Spec => NoComeback)
<1> SUFFICES ASSUME Serial PROVE Spec => NoComeback
  OBVIOUS
<1>1. IInv /\ DropletsApart /\ [Next]_vars => [NoComebackStep]_vars
  <2> SUFFICES ASSUME CoreInv, DropletsApart, Next PROVE NoComebackStep
    BY DEF IInv
  <2>1. PICK c \in Builds : Step(c)
    BY DEF Next
  <2> SUFFICES ASSUME NEW b \in Builds, NEW a \in Apps, NEW e \in Envs,
                      ~ Running(b), b \notin servingBar[<<a, e>>]
               PROVE  b \notin servingBar'[<<a, e>>]
    <3>1. ASSUME NEW a \in Apps, NEW e \in Envs
          PROVE  /\ ServingBits(<<a, e, "live">>) = servingBar[<<a, e>>]
                 /\ ServingBits(<<a, e, "live">>)' = servingBar'[<<a, e>>]
      BY DEF servingBar, ServingBits, Serving
    <3> QED
      BY <3>1 DEF NoComebackStep
  <2> DEFINE h == <<a, e>>
  <2>2. CASE h # <<req[c].app, req[c].env>>
    BY <2>1, <2>2, OtherHosts
  <2>3. CASE h = <<req[c].app, req[c].env>>
    <3>1. servingBar'[h] \subseteq servingBar[h] \/ (servingBar'[h] = servingBar[h] \cup {c} /\ Running(c))
      BY <2>1, <2>3, OwnHost
    <3> QED
      BY <3>1
  <2> QED
    BY <2>2, <2>3
<1> QED
  BY SerialDropletsApart, <1>1, PTL DEF Spec, NoComeback
=============================================================================
