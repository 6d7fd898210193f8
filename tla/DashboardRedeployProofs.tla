----------------------- MODULE DashboardRedeployProofs -----------------------
(***************************************************************************)
(* Theorems about the dashboard and the deployments it starts, for any     *)
(* pages, configurations, applications, agents and number of calls: what   *)
(* DashboardProofs and RedeployProofs say of either, put together.         *)
(***************************************************************************)
EXTENDS DashboardRedeploy, DashboardProofs, RedeployProofs

-----------------------------------------------------------------------------
(* The inductive invariant *)

\* The two components agree on the state of the build of call b.
Linked(b) ==
  /\ build[b] = "running" <=> pc[b] \in Steps
  /\ build[b] = "SUCCESS" <=> pc[b] = "SUCCESS"
  /\ build[b] = "FAILURE" <=> pc[b] \in {"REFUSED", "ABORTED"}

\* The build of a call has the parameters of the call.
Passed(c) == place[c] # "free" => req[c] = Parameters(c)

\* A build deploys the version it was asked for, or one its user chose.
VersionKept(b) ==
  /\ pc[b] = "input" => req[b].version = NoVersion
  /\ pc[b] \in (Steps \ {"prepare", "input"}) \cup {"SUCCESS"} =>
       req[b].version \in {NoVersion, jarVersion[b]}

\* A build that runs began after every build that has ended.
LaterKnown(b) == pc[b] \in Ended => \A e \in Calls : Running(e) => e \in later[b]

Live(b)     == Serving(LiveRoute(b)) = {LiveApp(b)} /\ apps[LiveApp(b)].bits = b
Replaced(b) == \E d \in later[b] : LiveRoute(d) = LiveRoute(b)

StillLive(b) == pc[b] = "SUCCESS" => Live(b) \/ Replaced(b)

LinkedOK(b) == Linked(b) /\ Passed(b) /\ VersionKept(b) /\ LaterKnown(b) /\ StillLive(b)

DRInv ==
  /\ DashboardInv /\ IInv /\ later \in [Calls -> SUBSET Calls]
  /\ \A b \in Calls : LinkedOK(b)

-----------------------------------------------------------------------------
(* A step of the whole is a step or a stutter of each component *)

LEMMA Components ==
  ASSUME [DRNext]_allVars
  PROVE  [DashNext]_dashVars /\ [Next]_vars
<1>1. CASE UNCHANGED allVars
  BY <1>1 DEF allVars
<1>2. CASE PageStep
  BY <1>2 DEF PageStep, DashNext
<1>3. ASSUME NEW c \in Calls,
             ServerStep(c) \/ BeginBuild(c) \/ CancelBuild(c) \/ Script(c) \/ AnswerInput(c) \/ AbortBuild(c)
      PROVE  [DashNext]_dashVars /\ [Next]_vars
  <2>0. c \in Builds
    BY BuildsAreCalls
  <2>1. CASE ServerStep(c)
    BY <2>1 DEF ServerStep, DashNext
  <2>2. CASE BeginBuild(c)
    BY <2>0, <2>2 DEF BeginBuild, DashNext, Next, Step
  <2>3. CASE CancelBuild(c)
    BY <2>3 DEF CancelBuild, DashNext
  <2>4. CASE Script(c)
    BY <2>0, <2>4 DEF Script, Ends, DashNext, Next, Step
  <2>5. CASE AnswerInput(c)
    BY <2>0, <2>5 DEF AnswerInput, Next, Step
  <2>6. CASE AbortBuild(c)
    BY <2>0, <2>6 DEF AbortBuild, Ends, DashNext, Next, Step
  <2> QED
    BY <1>3, <2>1, <2>2, <2>3, <2>4, <2>5, <2>6
<1> QED
  BY <1>1, <1>2, <1>3 DEF DRNext

LEMMA LaterTyped ==
  ASSUME later \in [Calls -> SUBSET Calls], [DRNext]_allVars
  PROVE  later' \in [Calls -> SUBSET Calls]
<1>1. ASSUME NEW c \in Calls, BeginBuild(c)
      PROVE  later' \in [Calls -> SUBSET Calls]
  BY <1>1 DEF BeginBuild
<1>2. UNCHANGED later \/ \E c \in Calls : BeginBuild(c)
  BY DEF DRNext, allVars, PageStep, ServerStep, CancelBuild, Script, AnswerInput, AbortBuild
<1> QED
  BY <1>1, <1>2

\* Every reachable state of the dashboard and its deployments is well typed, whatever
\* the settings of the job.
THEOREM DashboardRedeployTypeCorrect == DRSpec => []DRTypeOK
<1>1. DRInit => Typed /\ TypeOK /\ later \in [Calls -> SUBSET Calls]
  BY TypesStart, InitTypeOK DEF DRInit
<1>2. /\ Typed /\ TypeOK /\ later \in [Calls -> SUBSET Calls]
      /\ [DRNext]_allVars
      => (Typed /\ TypeOK /\ later \in [Calls -> SUBSET Calls])'
  BY Components, TypesKept, TypeOKKept, LaterTyped
<1>3. Typed /\ TypeOK /\ later \in [Calls -> SUBSET Calls] => DRTypeOK
  BY DEF Typed, DRTypeOK
<1> QED
  BY <1>1, <1>2, <1>3, PTL DEF DRSpec

-----------------------------------------------------------------------------
(* What the steps do to a build *)

\* A command of a build: where it goes, and the version it keeps.
LEMMA Advances ==
  ASSUME TypeOK, NEW b \in Builds, Advance(b)
  PROVE  /\ UNCHANGED <<req, agent>>
         /\ pc[b] \in Steps /\ pc'[b] \in (Steps \ {"prepare"}) \cup {"SUCCESS", "REFUSED"}
         /\ \A c \in Builds \ {b} : pc'[c] = pc[c] /\ jarVersion'[c] = jarVersion[c]
         /\ pc'[b] = "input" => req[b].version = NoVersion
         /\ pc[b] = "prepare" /\ pc'[b] \notin {"input", "REFUSED"} => jarVersion'[b] = req[b].version
         /\ pc[b] = "input" => pc'[b] = "REFUSED"
         /\ pc[b] # "prepare" => jarVersion'[b] = jarVersion[b]
  BY DEF TypeOK, Advance, Command, Goto, Keep, Running, Steps, Prepare, Login, Download, Push, StartApp,
     CheckOld, MapLive, UnmapOld, UnmapTemp, DeleteTempRoute, DeleteOld, RenameTemp, Cleanup, CommandRefused

\* Steps that leave the pipeline and its builds' results alone: those of the page, of the server
\* and of the administrator, and a cancelled item.
Outside == PageStep \/ \E c \in Calls : ServerStep(c) \/ CancelBuild(c)

LEMMA OutsideKeeps ==
  ASSUME DRInv, Outside, NEW b \in Calls
  PROVE  /\ UNCHANGED <<vars, later>>
         /\ build'[b] # build[b] =>
              build[b] \in {"none", "queued"} /\ build'[b] \in {"queued", "cancelled"}
<1>1. build \in [Calls -> BuildStates] /\ \A c \in Calls : CallOK(c) /\ item[c] \in {0} \cup Calls
  BY DEF DRInv, DashboardInv, Typed, TypeOK, DashTypeOK, BuildStates
<1>2. CASE PageStep
  BY <1>2 DEF PageStep, Load, OfferEnvironments, Select, FillVersions, VersionsFail, Click, Submit, ChangeJob
<1>3. ASSUME NEW c \in Calls, ServerStep(c)
      PROVE  /\ UNCHANGED <<vars, later>>
             /\ build'[b] # build[b] => build[b] = "none" /\ build'[b] = "queued"
  <2>1. CASE Lookup(c) \/ Await(c) \/ Show(c)
    BY <1>3, <2>1 DEF ServerStep, Lookup, Await, Show
  <2>2. CASE Schedule(c)
    <3>1. place[c] = "schedule"
      BY <2>2 DEF Schedule
    <3>2. build[c] = "none"
      BY <1>1, <3>1, ZeroIsNoCall DEF CallOK, ItemOK, BuildOwned, Answered
    <3>3. build' = build \/ build' = [build EXCEPT ![c] = "queued"]
      BY <2>2 DEF Schedule
    <3> QED
      BY <1>1, <1>3, <3>2, <3>3 DEF ServerStep
  <2> QED
    BY <1>3, <2>1, <2>2 DEF ServerStep, Handle
<1>4. ASSUME NEW c \in Calls, CancelBuild(c)
      PROVE  /\ UNCHANGED <<vars, later>>
             /\ build'[b] # build[b] => build[b] = "queued" /\ build'[b] = "cancelled"
  BY <1>1, <1>4 DEF CancelBuild, Cancel, Becomes
<1> QED
  BY <1>2, <1>3, <1>4 DEF Outside

\* Steps of a build c: the four kinds, and what they do to its state and its result.
LEMMA BuildMoves ==
  ASSUME DRInv, NEW c \in Calls, BeginBuild(c) \/ Script(c) \/ AnswerInput(c) \/ AbortBuild(c)
  PROVE  /\ c \in Builds /\ Step(c) /\ UNCHANGED <<req, place, call>>
         /\ \A b \in Calls \ {c} : pc'[b] = pc[b] /\ jarVersion'[b] = jarVersion[b] /\ build'[b] = build[b]
         /\ pc'[c] \in Steps \cup Ended /\ pc[c] \in {"queued"} \cup Steps
         /\ Linked(c)' /\ VersionKept(c)'
<1>0. /\ c \in Builds /\ TypeOK /\ build \in [Calls -> BuildStates]
      /\ pc \in [Calls -> {"queued"} \cup Steps \cup Ended] /\ LinkedOK(c)
      /\ jarVersion \in [Calls -> Versions \cup {NoVersion}]
  BY BuildsAreCalls DEF DRInv, IInv, CoreInv, DashboardInv, Typed, TypeOK, DashTypeOK, BuildStates
<1>1. CASE BeginBuild(c)
  <2>1. /\ pc[c] = "queued" /\ pc' = [pc EXCEPT ![c] = "prepare"] /\ UNCHANGED <<req, jarVersion>>
        /\ build' = [build EXCEPT ![c] = "running"] /\ UNCHANGED <<place, call>> /\ Step(c)
    BY <1>1 DEF BeginBuild, Dequeue, Becomes, server, StartBuild, Command, Goto, Keep, Step
  <2> QED
    BY <1>0, <2>1, BuildsAreCalls DEF Linked, VersionKept, Steps, Ended
<1>2. CASE Script(c)
  <2>1. /\ Step(c) /\ UNCHANGED <<place, call>>
        /\ \A b \in Calls \ {c} : build'[b] = build[b]
        /\ pc'[c] = "SUCCESS" => build'[c] = "SUCCESS"
        /\ pc'[c] = "REFUSED" => build'[c] = "FAILURE"
        /\ pc'[c] \notin {"SUCCESS", "REFUSED"} => build'[c] = build[c]
    BY <1>0, <1>2 DEF Script, Ends, EndBuild, Becomes, dashVars, server, Step
  <2>2. Advance(c)
    BY <1>2 DEF Script
  <2>3. /\ UNCHANGED req
        /\ pc[c] \in Steps /\ pc'[c] \in (Steps \ {"prepare"}) \cup {"SUCCESS", "REFUSED"}
        /\ \A b \in Calls \ {c} : pc'[b] = pc[b] /\ jarVersion'[b] = jarVersion[b]
    BY <1>0, <2>2, Advances, BuildsAreCalls
  <2>4. Linked(c)'
    BY <1>0, <2>1, <2>3 DEF LinkedOK, Linked, Steps
  <2>5. VersionKept(c)'
    <3>1. /\ pc'[c] = "input" => req[c].version = NoVersion
          /\ pc[c] = "prepare" /\ pc'[c] \notin {"input", "REFUSED"} => jarVersion'[c] = req[c].version
          /\ pc[c] = "input" => pc'[c] = "REFUSED"
          /\ pc[c] # "prepare" => jarVersion'[c] = jarVersion[c]
      BY <1>0, <2>2, Advances
    <3> QED
      BY <1>0, <2>3, <3>1 DEF LinkedOK, VersionKept, Steps
  <2> QED
    BY <1>0, <2>1, <2>3, <2>4, <2>5 DEF Ended
<1>3. CASE AnswerInput(c)
  <2>1. /\ Step(c) /\ pc[c] = "input" /\ pc' = [pc EXCEPT ![c] = "login"] /\ UNCHANGED <<req, place, call, build>>
        /\ \E v \in Versions : jarVersion' = [jarVersion EXCEPT ![c] = v]
    BY <1>3 DEF AnswerInput, ChooseVersion, Command, Goto, Step, dashVars, server
  <2> QED
    BY <1>0, <2>1, BuildsAreCalls DEF LinkedOK, Linked, VersionKept, Steps, Ended
<1>4. CASE AbortBuild(c)
  <2>1. /\ Step(c) /\ pc[c] \in Steps /\ pc' = [pc EXCEPT ![c] = "ABORTED"]
        /\ UNCHANGED <<req, place, call, jarVersion>>
        /\ build'[c] = "FAILURE" /\ \A b \in Calls \ {c} : build'[b] = build[b]
    BY <1>0, <1>4 DEF AbortBuild, Abort, Running, Goto, Keep, Step, Ends, EndBuild, Becomes, server
  <2> QED
    BY <1>0, <2>1, BuildsAreCalls DEF Linked, VersionKept, Steps, Ended
<1> QED
  BY <1>1, <1>2, <1>3, <1>4

-----------------------------------------------------------------------------
(* The inductive invariant is kept *)

LEMMA DRNextCases ==
  ASSUME [DRNext]_allVars
  PROVE  \/ UNCHANGED allVars
         \/ Outside
         \/ \E c \in Calls : BeginBuild(c) \/ Script(c) \/ AnswerInput(c) \/ AbortBuild(c)
  BY DEF DRNext, Outside

\* A call that has left the page asks for what its build was given.
LEMMA PassedKept ==
  ASSUME DRInv, [DRNext]_allVars, NEW b \in Calls
  PROVE  Passed(b)'
<1>0. Passed(b) /\ DOMAIN call = Calls /\ place \in [Calls -> Places]
  BY DEF DRInv, LinkedOK, DashboardInv, Typed, DashTypeOK, Places
<1>1. UNCHANGED req
  <2>1. CASE Outside
    BY <2>1, OutsideKeeps DEF vars, buildVars
  <2>2. CASE \E c \in Calls : BeginBuild(c) \/ Script(c) \/ AnswerInput(c) \/ AbortBuild(c)
    BY <2>2, BuildMoves
  <2> QED
    BY <2>1, <2>2, DRNextCases DEF allVars, vars, buildVars
<1>2. ASSUME NEW p \in Pages, NEW c \in Calls, Click(p, c), req[c] = Parameters(c)'
      PROVE  Passed(b)'
  <2>1. CASE b = c
    BY <1>1, <1>2, <2>1 DEF Passed
  <2>2. CASE b # c
    BY <1>0, <1>1, <1>2, <2>2 DEF Click, Passed, Parameters
  <2> QED
    BY <2>1, <2>2
<1>3. ASSUME UNCHANGED call, place'[b] # "free" => place[b] # "free"
      PROVE  Passed(b)'
  BY <1>0, <1>1, <1>3 DEF Passed, Parameters
<1>4. CASE PageStep
  <2>1. \/ UNCHANGED <<call, place>>
        \/ \E p \in Pages, c \in Calls : Click(p, c) /\ req[c] = Parameters(c)'
    BY <1>4 DEF PageStep, Load, OfferEnvironments, Select, FillVersions, VersionsFail, Submit, ChangeJob, server
  <2> QED
    BY <1>2, <1>3, <2>1
<1>5. ASSUME NEW c \in Calls, ServerStep(c) \/ CancelBuild(c)
      PROVE  Passed(b)'
  <2>1. UNCHANGED call
    BY <1>5 DEF ServerStep, Handle, Lookup, Schedule, Await, Show, CancelBuild, Cancel, Becomes, server
  <2>2. place'[b] # place[b] => place[b] # "free"
    BY <1>0, <1>5 DEF ServerStep, Handle, Lookup, Schedule, Await, Show, Proceed, Return, CancelBuild,
       Cancel, Becomes, server
  <2> QED
    BY <1>3, <2>1, <2>2
<1>6. CASE \E c \in Calls : BeginBuild(c) \/ Script(c) \/ AnswerInput(c) \/ AbortBuild(c)
  <2>1. UNCHANGED <<call, place>>
    BY <1>6, BuildMoves
  <2> QED
    BY <1>3, <2>1
<1>7. CASE UNCHANGED allVars
  BY <1>3, <1>7 DEF allVars, dashVars, server
<1> QED
  BY <1>4, <1>5, <1>6, <1>7, DRNextCases DEF Outside

\* Steps that leave the builds alone.
LEMMA OutsideKept ==
  ASSUME DRInv, Outside \/ UNCHANGED allVars, NEW b \in Calls
  PROVE  Linked(b)' /\ VersionKept(b)' /\ LaterKnown(b)' /\ StillLive(b)'
<1>0. LinkedOK(b)
  BY DEF DRInv
<1>1. /\ UNCHANGED <<apps, owner, target, pc, req, agent, jarVersion, found, later>>
      /\ build'[b] # build[b] =>
           build[b] \in {"none", "queued"} /\ build'[b] \in {"queued", "cancelled"}
  BY OutsideKeeps DEF allVars, dashVars, vars, cfVars, buildVars
<1>2. Linked(b)' /\ VersionKept(b)' /\ LaterKnown(b)'
  BY <1>0, <1>1 DEF LinkedOK, Linked, VersionKept, LaterKnown, Running
<1>3. Live(b)' = Live(b) /\ Replaced(b)' = Replaced(b)
  BY <1>1 DEF Live, Replaced, Serving, LiveRoute, LiveApp, Space
<1> QED
  BY <1>0, <1>1, <1>2, <1>3 DEF LinkedOK, StillLive

\* While a build runs the others stand still, and it is a later build than those that ended.
LEMMA OnlyThisRuns ==
  ASSUME Serial, DRInv, NEW c \in Calls, BeginBuild(c) \/ Script(c) \/ AnswerInput(c) \/ AbortBuild(c)
  PROVE  \A b \in Calls \ {c} :
           /\ pc'[b] = pc[b] /\ pc[b] \notin Steps /\ later[b] \subseteq later'[b]
           /\ pc[b] \in Ended => c \in later'[b]
<1>1. /\ c \in Builds /\ Step(c) /\ pc[c] \in {"queued"} \cup Steps
      /\ \A b \in Calls \ {c} : pc'[b] = pc[b] /\ pc[b] \notin Steps
  BY BuildMoves, OthersIdle, BuildsAreCalls DEF DRInv, IInv
<1>2. \A b \in Calls : LaterKnown(b)
  BY DEF DRInv, LinkedOK
<1>3. CASE BeginBuild(c)
  <2>1. later' = [b \in Calls |-> IF pc[b] \in Ended THEN later[b] \cup {c} ELSE later[b]]
    BY <1>3 DEF BeginBuild
  <2> QED
    BY <1>1, <2>1
<1>4. CASE Script(c) \/ AnswerInput(c) \/ AbortBuild(c)
  <2>1. later' = later /\ Running(c)
    <3>1. CASE Script(c)
      BY <1>1, <3>1, Advances DEF Script, Running, DRInv, IInv, CoreInv
    <3>2. CASE AnswerInput(c) \/ AbortBuild(c)
      BY <3>2 DEF AnswerInput, ChooseVersion, Command, AbortBuild, Abort, Running, Steps
    <3> QED
      BY <1>4, <3>1, <3>2
  <2> QED
    BY <1>1, <1>2, <2>1 DEF LaterKnown
<1> QED
  BY <1>3, <1>4

\* A deployment to another host leaves this one alone.
LEMMA OtherHostStaysLive ==
  ASSUME Serial, CoreInv, NEW b \in Builds, NEW c \in Builds, Step(c),
         LiveRoute(c) # LiveRoute(b), Live(b)
  PROVE  Live(b)'
<1> DEFINE r == LiveRoute(b)
           l == LiveApp(b)
<1>0. r \in Routes /\ r[3] = "live" /\ r' = r /\ l' = l /\ l \in AppNames
  BY NamesOfBuild, OthersIdle DEF CoreInv, LiveRoute, LiveApp, Space
<1>1. Serving(r) = {l} /\ apps[l].bits = b
  BY DEF Live
<1>2. r # LiveRoute(c)
  OBVIOUS
<1> HIDE DEF r, l
<1>3. ASSUME NEW x \in AppNames
      PROVE  \/ apps'[x] = apps[x]
             \/ r \notin apps[x].routes /\ r \notin apps'[x].routes
  BY <1>0, <1>2, OwnFrame, OwnHostOnly
<1>4. apps'[l] = apps[l]
  BY <1>0, <1>1, <1>3 DEF Serving
<1>5. {x \in AppNames : apps'[x].up /\ r \in apps'[x].routes} = {l}
  BY <1>1, <1>3 DEF Serving
<1>6. Serving(LiveRoute(b))' = {x \in AppNames : apps'[x].up /\ r \in apps'[x].routes}
  BY <1>0 DEF Serving, r
<1> QED
  BY <1>0, <1>1, <1>4, <1>5, <1>6 DEF Live, l

LEMMA StillLiveKept ==
  ASSUME Serial, DRInv, NEW c \in Calls, BeginBuild(c) \/ Script(c) \/ AnswerInput(c) \/ AbortBuild(c),
         NEW b \in Calls
  PROVE  StillLive(b)'
<1>0. /\ IInv /\ CoreInv /\ b \in Builds /\ c \in Builds /\ Step(c) /\ UNCHANGED <<req, agent>>
      /\ pc[c] \in {"queued"} \cup Steps /\ StillLive(b)
  BY BuildMoves, OthersIdle, BuildsAreCalls DEF DRInv, IInv, LinkedOK
<1>1. \A d \in Calls : LiveRoute(d)' = LiveRoute(d) /\ LiveApp(d)' = LiveApp(d)
  BY <1>0 DEF LiveRoute, LiveApp, Space
<1> SUFFICES ASSUME pc'[b] = "SUCCESS"
             PROVE  Live(b)' \/ Replaced(b)'
  BY DEF StillLive
<1>2. CASE b = c
  <2>1. pc[b] # "SUCCESS"
    BY <1>0, <1>2 DEF Steps
  <2>2. Live(b)
    BY <1>0, <2>1, SuccessIsLive DEF SuccessMeansLiveStep, Live, Next
  <2>3. apps' = apps
    <3>1. Cleanup(b)
      BY <1>0, <1>2 DEF CoreInv, TypeOK, Step, Advance, Command, Goto, StartBuild, Prepare, ChooseVersion,
         Login, Download, Push, StartApp, CheckOld, MapLive, UnmapOld, UnmapTemp, DeleteTempRoute,
         DeleteOld, RenameTemp, CommandRefused, Abort
    <3> QED
      BY <3>1 DEF Cleanup, cfVars
  <2> QED
    BY <1>1, <2>2, <2>3 DEF Live, Serving
<1>3. CASE b # c
  <2>1. /\ pc[b] = "SUCCESS" /\ c \in later'[b] /\ later[b] \subseteq later'[b]
        /\ later' \in [Calls -> SUBSET Calls]
    BY <1>3, OnlyThisRuns, LaterTyped DEF Ended, DRInv, DRNext
  <2>2. CASE LiveRoute(c) = LiveRoute(b)
    BY <1>1, <2>1, <2>2 DEF Replaced
  <2>3. CASE Replaced(b)
    <3>1. PICK d \in later[b] : LiveRoute(d) = LiveRoute(b)
      BY <2>3 DEF Replaced
    <3>2. d \in later'[b] /\ d \in Calls
      BY <2>1, <3>1
    <3> QED
      BY <1>1, <3>1, <3>2 DEF Replaced
  <2>4. CASE LiveRoute(c) # LiveRoute(b) /\ Live(b)
    BY <1>0, <2>4, OtherHostStaysLive
  <2> QED
    BY <1>0, <2>1, <2>2, <2>3, <2>4 DEF StillLive
<1> QED
  BY <1>2, <1>3

LEMMA DRInvStart ==
  ASSUME DRInit
  PROVE  DRInv
<1>1. /\ DashboardInv /\ IInv /\ later = [b \in Calls |-> {}]
      /\ \A b \in Calls : pc[b] = "queued" /\ build[b] = "none" /\ place[b] = "free"
  BY InvStart, InitIInv, BuildsAreCalls DEF DRInit, DashInit, Init
<1> QED
  BY <1>1 DEF DRInv, LinkedOK, Linked, Passed, VersionKept, LaterKnown, StillLive, Steps, Ended

LEMMA DRInvKept ==
  ASSUME Serial, Jobs \subseteq Workflow, DRInv, [DRNext]_allVars
  PROVE  DRInv'
<1>1. DashboardInv' /\ IInv' /\ later' \in [Calls -> SUBSET Calls]
  BY Components, InvKept, IInvKept, LaterTyped DEF DRInv
<1>2. ASSUME NEW b \in Calls
      PROVE  LinkedOK(b)'
  <2>1. Passed(b)'
    BY PassedKept
  <2>2. CASE Outside \/ UNCHANGED allVars
    BY <2>1, <2>2, OutsideKept DEF LinkedOK
  <2>3. ASSUME NEW c \in Calls, BeginBuild(c) \/ Script(c) \/ AnswerInput(c) \/ AbortBuild(c)
        PROVE  LinkedOK(b)'
    <3>1. Linked(b)' /\ VersionKept(b)'
      <4>1. CASE b = c
        BY <2>3, <4>1, BuildMoves
      <4>2. CASE b # c
        <5>1. pc'[b] = pc[b] /\ jarVersion'[b] = jarVersion[b] /\ build'[b] = build[b] /\ req' = req
          BY <2>3, <4>2, BuildMoves
        <5>2. Linked(b) /\ VersionKept(b)
          BY DEF DRInv, LinkedOK
        <5> QED
          BY <5>1, <5>2 DEF Linked, VersionKept
      <4> QED
        BY <4>1, <4>2
    <3>2. LaterKnown(b)'
      <4>1. \A d \in Calls \ {c} : pc'[d] = pc[d] /\ pc[d] \notin Steps /\ (pc[d] \in Ended => c \in later'[d])
        BY <2>3, OnlyThisRuns
      <4> QED
        BY <4>1 DEF LaterKnown, Running, Steps, Ended
    <3> QED
      BY <2>1, <2>3, <3>1, <3>2, StillLiveKept DEF LinkedOK
  <2> QED
    BY <2>2, <2>3, DRNextCases
<1> QED
  BY <1>1, <1>2 DEF DRInv

-----------------------------------------------------------------------------
(* From the click to the swap *)

\* Of a serial job all of whose environments have a login branch, in a view of pipeline jobs:
\* what the page calls successful is what the users of the live host get, until a later
\* deployment of the same application to the same environment begins.
THEOREM DashboardSuccessfulIsLive ==
  ASSUME Serial, Jobs \subseteq Workflow
  PROVE  DRSpec => []SuccessfulIsLive
<1>1. DRInit => DRInv
  BY DRInvStart
<1>2. DRInv /\ [DRNext]_allVars => DRInv'
  BY DRInvKept
<1>3. DRInv => SuccessfulIsLive
  <2> SUFFICES ASSUME DRInv, NEW c \in Calls, Answered(c), answer[c] = "successful"
               PROVE  /\ call[c].version \in {jarVersion[item[c]], NoVersion}
                      /\ req[item[c]] = Parameters(c)
                      /\ Live(item[c]) \/ Replaced(item[c])
    BY DEF SuccessfulIsLive, Live, Replaced
  <2> DEFINE b == item[c]
  <2>0. DashboardInv /\ CallOK(c)
    BY DEF DRInv, DashboardInv
  <2>1. b # 0 /\ build[b] = "SUCCESS" /\ Same(c, b)
    BY <2>0 DEF CallOK, ItemFits, AnswerFits
  <2>2. b \in Calls /\ place[b] # "free" /\ place[c] # "free"
    BY <2>0, <2>1, Settled
  <2>3. LinkedOK(b) /\ pc[b] = "SUCCESS"
    BY <2>1, <2>2 DEF DRInv, LinkedOK, Linked
  <2>4. req[b] = Parameters(b) /\ Parameters(b) = Parameters(c)
    BY <2>1, <2>2, <2>3 DEF LinkedOK, Passed, Parameters, Same
  <2>5. req[b].version \in {NoVersion, jarVersion[b]} /\ req[b].version = call[c].version
    BY <2>3, <2>4 DEF LinkedOK, VersionKept, Parameters
  <2> QED
    BY <2>3, <2>4, <2>5 DEF LinkedOK, StillLive
<1> QED
  BY <1>1, <1>2, <1>3, PTL DEF DRSpec

-----------------------------------------------------------------------------
(* What answers was asked for *)

\* The steps of a build that precede its push.
Early == {"queued", "prepare", "input", "login", "download"}

\* A build has the application and the version it was asked for from the repository.
Obtained(b) ==
  /\ <<req[b].app, jarVersion[b]>> \in Published
  /\ req[b].version \in {NoVersion, jarVersion[b]}
Fetched(b) == pc[b] \in (Steps \ Early) \cup {"SUCCESS"} => Obtained(b)

\* An application carries the droplet of a build that pushed it, whatever became of the build.
Carried(x) ==
  Exists(x) => LET b == apps[x].bits
               IN  b \in Calls /\ pc[b] \notin Early /\ x \in {LiveApp(b), TempApp(b)} /\ Obtained(b)

AskedInv == DRInv /\ (\A b \in Calls : Fetched(b)) /\ \A x \in AppNames : Carried(x)

\* A command changes the droplet of an application of its own build, to none or to its own.
LEMMA OwnDropletMoves ==
  ASSUME CoreInv, NEW b \in Builds, Step(b), NEW x \in AppNames
  PROVE  \/ apps'[x].bits \in {apps[x].bits, NoBuild}
         \/ apps'[x].bits = b /\ x \in {LiveApp(b), TempApp(b)} /\ pc'[b] \in {"start", "cleanup"}
<1>0. TempIsMine(b) /\ pc \in [Builds -> {"queued"} \cup Steps \cup Ended]
  BY DEF CoreInv, TypeOK
<1>1. CASE Push(b)
  BY <1>0, <1>1, DropletsMove DEF Push, Command, Goto
<1>2. CASE RenameTemp(b)
  <2>1. pc[b] = "rename" /\ pc'[b] = "cleanup" /\ apps[TempApp(b)].bits = b
    BY <1>0, <1>2 DEF RenameTemp, Command, Goto, TempIsMine
  <2> QED
    BY <1>2, <2>1, DropletsMove
<1> QED
  BY <1>1, <1>2, DropletsMove

\* A build goes past its push with what its download found, and keeps its version from then on.
LEMMA FetchedKept ==
  ASSUME TypeOK, NEW b \in Builds, Step(b), VersionKept(b), VersionKept(b)', Fetched(b)
  PROVE  /\ Fetched(b)' /\ UNCHANGED req
         /\ pc[b] \notin Early => jarVersion'[b] = jarVersion[b] /\ pc'[b] \notin Early
         /\ \A c \in Builds \ {b} : pc'[c] = pc[c] /\ jarVersion'[c] = jarVersion[c]
<1>0. pc \in [Builds -> {"queued"} \cup Steps \cup Ended]
  BY DEF TypeOK
<1>1. CASE Advance(b)
  <2>1. /\ UNCHANGED req /\ pc[b] \in Steps
        /\ \A c \in Builds \ {b} : pc'[c] = pc[c] /\ jarVersion'[c] = jarVersion[c]
        /\ pc[b] # "prepare" => jarVersion'[b] = jarVersion[b]
    BY <1>1, Advances
  <2>2. CASE pc'[b] \in Early \cup {"REFUSED"} /\ pc[b] \in Early
    BY <2>1, <2>2 DEF Fetched, Early, Steps
  <2>3. CASE pc[b] = "download" /\ pc'[b] = "push"
    <3>1. CommandOK(b)
      BY <1>0, <1>1, <2>3 DEF Advance, Prepare, Login, Download, Push, StartApp, CheckOld, MapLive, UnmapOld,
         UnmapTemp, DeleteTempRoute, DeleteOld, RenameTemp, Cleanup, CommandRefused, Command, Goto
    <3>2. <<req[b].app, jarVersion[b]>> \in Published
      BY <2>3, <3>1 DEF CommandOK
    <3>3. req[b].version \in {NoVersion, jarVersion[b]}
      BY <2>3 DEF VersionKept, Steps
    <3> QED
      BY <2>1, <2>3, <3>2, <3>3 DEF Fetched, Early, Obtained
  <2>4. CASE pc[b] \in Steps \ Early /\ pc'[b] \notin Early
    BY <2>1, <2>4 DEF Fetched, Early, Obtained
  <2>5. \/ pc'[b] \in Early \cup {"REFUSED"} /\ pc[b] \in Early
        \/ pc[b] = "download" /\ pc'[b] = "push"
        \/ pc[b] \in Steps \ Early /\ pc'[b] \notin Early
    BY <1>0, <1>1 DEF Advance, Prepare, Login, Download, Push, StartApp, CheckOld, MapLive, UnmapOld, UnmapTemp,
       DeleteTempRoute, DeleteOld, RenameTemp, Cleanup, CommandRefused, Running, Command, Goto, Early, Steps
  <2> QED
    BY <2>2, <2>3, <2>4, <2>5
<1>2. CASE StartBuild(b) \/ Abort(b)
  <2>1. /\ UNCHANGED <<req, jarVersion>> /\ \A c \in Builds \ {b} : pc'[c] = pc[c]
        /\ \/ pc[b] = "queued" /\ pc'[b] = "prepare"
           \/ pc'[b] = "ABORTED"
    BY <1>0, <1>2 DEF StartBuild, Abort, Command, Goto, Keep
  <2> QED
    BY <2>1 DEF Fetched, Early, Steps
<1>3. CASE ChooseVersion(b)
  <2>1. /\ UNCHANGED req /\ pc[b] = "input" /\ pc' = [pc EXCEPT ![b] = "login"]
        /\ \E v \in Versions : jarVersion' = [jarVersion EXCEPT ![b] = v]
    BY <1>3 DEF ChooseVersion, Command, Goto
  <2>2. pc'[b] = "login"
    BY <1>0, <2>1
  <2>3. \A c \in Builds \ {b} : pc'[c] = pc[c] /\ jarVersion'[c] = jarVersion[c]
    BY <1>0, <2>1 DEF TypeOK
  <2> QED
    BY <2>1, <2>2, <2>3 DEF Fetched, Early
<1> QED
  BY <1>1, <1>2, <1>3 DEF Step

LEMMA CarriedKept ==
  ASSUME AskedInv, NEW b \in Builds, Step(b), VersionKept(b)', NEW x \in AppNames
  PROVE  Carried(x)'
<1>0. /\ CoreInv /\ TypeOK /\ b \in Calls /\ VersionKept(b) /\ Fetched(b) /\ Carried(x)
      /\ Builds = Calls /\ pc \in [Builds -> {"queued"} \cup Steps \cup Ended]
  BY BuildsAreCalls DEF AskedInv, DRInv, LinkedOK, IInv, CoreInv, TypeOK
<1>1. /\ Fetched(b)' /\ UNCHANGED req
      /\ pc[b] \notin Early => jarVersion'[b] = jarVersion[b] /\ pc'[b] \notin Early
      /\ \A c \in Builds \ {b} : pc'[c] = pc[c] /\ jarVersion'[c] = jarVersion[c]
  BY <1>0, FetchedKept
<1>2. CASE apps'[x].bits = NoBuild
  BY <1>2 DEF Carried, Exists
<1>3. CASE apps'[x].bits = apps[x].bits /\ Exists(x)
  <2>1. PICK c \in Calls : c = apps[x].bits /\ pc[c] \notin Early /\ x \in {LiveApp(c), TempApp(c)} /\ Obtained(c)
    BY <1>0, <1>3 DEF Carried
  <2>2. pc'[c] \notin Early /\ jarVersion'[c] = jarVersion[c]
    BY <1>0, <1>1, <2>1
  <2>3. x \in {LiveApp(c)', TempApp(c)'} /\ Obtained(c)'
    BY <1>1, <2>1, <2>2 DEF Obtained, LiveApp, TempApp, Space
  <2> QED
    BY <1>3, <2>1, <2>2, <2>3 DEF Carried
<1>4. CASE apps'[x].bits = b /\ x \in {LiveApp(b), TempApp(b)} /\ pc'[b] \in {"start", "cleanup"}
  <2>1. Obtained(b)' /\ pc'[b] \notin Early
    BY <1>1, <1>4 DEF Fetched, Early, Steps
  <2>2. x \in {LiveApp(b)', TempApp(b)'}
    BY <1>1, <1>4 DEF LiveApp, TempApp, Space
  <2> QED
    BY <1>0, <1>4, <2>1, <2>2 DEF Carried
<1>5. \/ apps'[x].bits \in {apps[x].bits, NoBuild}
      \/ apps'[x].bits = b /\ x \in {LiveApp(b), TempApp(b)} /\ pc'[b] \in {"start", "cleanup"}
  BY <1>0, OwnDropletMoves
<1> QED
  BY <1>2, <1>3, <1>4, <1>5 DEF Exists

LEMMA AskedInvKept ==
  ASSUME Serial, Jobs \subseteq Workflow, AskedInv, [DRNext]_allVars
  PROVE  AskedInv'
<1>1. DRInv' /\ [Next]_vars
  BY DRInvKept, Components DEF AskedInv
<1>2. CASE UNCHANGED vars
  BY <1>1, <1>2 DEF vars, cfVars, buildVars, AskedInv, Fetched, Obtained, Carried, Exists, LiveApp, TempApp, Space
<1>3. ASSUME NEW b \in Builds, Step(b)
      PROVE  AskedInv'
  <2>1. TypeOK /\ VersionKept(b) /\ VersionKept(b)' /\ b \in Calls /\ \A c \in Calls : Fetched(c)
    BY <1>1, BuildsAreCalls DEF AskedInv, DRInv, LinkedOK, IInv, CoreInv
  <2>2. Fetched(b)' /\ UNCHANGED req /\ \A c \in Builds \ {b} : pc'[c] = pc[c] /\ jarVersion'[c] = jarVersion[c]
    BY <1>3, <2>1, FetchedKept
  <2>3. \A c \in Calls : Fetched(c)'
    BY <2>1, <2>2, BuildsAreCalls DEF Fetched, Obtained
  <2>4. \A x \in AppNames : Carried(x)'
    BY <1>3, <2>1, CarriedKept
  <2> QED
    BY <1>1, <2>3, <2>4 DEF AskedInv, AppNames
<1> QED
  BY <1>1, <1>2, <1>3 DEF Next

\* Of such a job: whatever answers a live host was asked for by a click on its application
\* and its environment, and is a version the repository has of that application, whatever
\* list the version was chosen from and whoever died on the way.
THEOREM DashboardLiveWasAskedFor ==
  ASSUME Serial, Jobs \subseteq Workflow
  PROVE  DRSpec => []LiveWasAskedFor
<1>1. DRInit => AskedInv
  <2>1. ASSUME DRInit
        PROVE  /\ DRInv /\ \A x \in AppNames : ~ Exists(x)
               /\ \A b \in Calls : pc[b] = "queued"
    BY <2>1, DRInvStart, BuildsAreCalls DEF DRInit, Init, CFInit, Exists, Absent
  <2> QED
    BY <2>1 DEF AskedInv, Fetched, Carried, Steps
<1>2. AskedInv /\ [DRNext]_allVars => AskedInv'
  BY AskedInvKept
<1>3. AskedInv => LiveWasAskedFor
  <2> SUFFICES ASSUME AskedInv, NEW a \in Apps, NEW e \in Envs, NEW x \in Serving(<<a, e, "live">>)
               PROVE  LET b == apps[x].bits
                      IN  /\ call[b].app = a /\ call[b].env = e
                          /\ call[b].version \in {jarVersion[b], NoVersion}
                          /\ <<a, jarVersion[b]>> \in Published
    BY DEF LiveWasAskedFor
  <2> DEFINE r == <<a, e, "live">>
  <2>0. CoreInv /\ r \in Routes /\ r[1] = a /\ r[2] = e
    BY TwoSlots DEF AskedInv, DRInv, IInv, Routes
  <2>1. x \in AppNames /\ Exists(x) /\ x[1] = SpaceOf[e] /\ x[2] = a
    BY <2>0, ServedFromOwnSpace DEF Serving
  <2>2. PICK b \in Calls : b = apps[x].bits /\ pc[b] \notin Early /\ x \in {LiveApp(b), TempApp(b)} /\ Obtained(b)
    BY <2>1 DEF AskedInv, Carried
  <2>3. b \in Builds /\ req[b] \in Requests
    BY <2>0, BuildsAreCalls DEF CoreInv, TypeOK
  <2>4. x[1] = SpaceOf[req[b].env] /\ x[2] = req[b].app
    BY <2>2 DEF LiveApp, TempApp, Space
  <2>5. req[b].app = a /\ req[b].env = e
    BY <2>1, <2>3, <2>4, SpacesDistinct DEF Requests
  <2>6. req[b] = Parameters(b)
    <3>1. LinkedOK(b) /\ CallOK(b) /\ pc[b] \in {"queued"} \cup Steps \cup Ended
      BY <2>0, <2>3 DEF AskedInv, DRInv, DashboardInv, CoreInv, TypeOK
    <3>2. build[b] # "none"
      BY <2>2, <3>1 DEF LinkedOK, Linked, Early, Ended
    <3>3. item[b] # 0
      BY <3>1, <3>2, ZeroIsNoCall DEF CallOK, BuildOwned
    <3>4. place[b] # "free"
      BY <3>1, <3>3 DEF CallOK, ItemOK, Answered
    <3> QED
      BY <3>1, <3>4 DEF LinkedOK, Passed
  <2> QED
    BY <2>2, <2>5, <2>6 DEF Obtained, Parameters
<1> QED
  BY <1>1, <1>2, <1>3, PTL DEF DRSpec
=============================================================================
