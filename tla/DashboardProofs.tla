--------------------------- MODULE DashboardProofs ---------------------------
(***************************************************************************)
(* Theorems about the dashboard, for any pages, applications, versions,    *)
(* configurations and jobs, and any number of calls.                       *)
(***************************************************************************)
EXTENDS Dashboard, TLAPS

-----------------------------------------------------------------------------
(* The inductive invariant *)

Places      == {"free", "lookup", "schedule", "wait", "answer", "shown", "error"}
BuildStates == {"none", "queued", "running", "SUCCESS", "FAILURE", "cancelled"}
Over        == {"SUCCESS", "FAILURE", "cancelled"}

\* DashTypeOK, the functions DashTypeOK only looks into, that an answer is there, and
\* that the environments of a page come after its applications.
Typed ==
  /\ DashTypeOK
  /\ DOMAIN appId = Pages /\ DOMAIN call = Calls /\ DOMAIN row = Calls
  /\ \A c \in Calls : Answered(c) => answer[c] \in Answers
  /\ \A c \in Calls : item[c] # 0 => row[c] \in Rows
  /\ \A p \in Pages : offered[p] # <<>> => rendered[p] # <<>>

\* A call has a build from the moment it waits, and only then.
ItemOK(c) ==
  /\ item[c] # 0 => Answered(c) \/ place[c] = "wait"
  /\ place[c] = "wait" => item[c] # 0

\* A build that was scheduled was scheduled by the call of its number.
BuildOwned(c) == build[c] # "none" => item[c] = c

\* The build a call waits for is one for its job and its parameters.
ItemFits(c) == item[c] # 0 => build[item[c]] # "none" /\ Same(c, item[c])

\* An answer that came of a build says how it ended, and no other says successful.
AnswerFits(c) ==
  Answered(c) =>
    /\ item[c] # 0 => /\ build[item[c]] \in Over
                      /\ (answer[c] = "successful") <=> (build[item[c]] = "SUCCESS")
    /\ item[c] = 0 => answer[c] # "successful"

CallOK(c) == ItemOK(c) /\ BuildOwned(c) /\ ItemFits(c) /\ AnswerFits(c)

DashboardInv == Typed /\ \A c \in Calls : CallOK(c)

-----------------------------------------------------------------------------
(* Types *)

LEMMA ConfigRows ==
  ASSUME NEW rows \in Configs \cup {<<>>}
  PROVE  /\ AppList(rows) \subseteq Apps /\ EnvList(rows) \subseteq Envs
         /\ rows # <<>> => rows[1] \in Rows
<1>1. rows \in Seq(Rows)
  <2>1. CASE rows \in Configs
    BY <2>1, DashboardAssumption
  <2>2. CASE rows = <<>>
    BY <2>2
  <2> QED
    BY <2>1, <2>2
<1>2. \A i \in DOMAIN rows : rows[i] \in Rows
  BY <1>1
<1>3. \A i \in DOMAIN rows : rows[i].names \subseteq Apps /\ rows[i].types \subseteq Envs
  BY <1>2 DEF Rows
<1>4. rows # <<>> => 1 \in DOMAIN rows
  BY <1>1
<1> QED
  BY <1>2, <1>3, <1>4 DEF AppList, EnvList

LEMMA ZeroIsNoCall == 0 \notin Calls
  BY DashboardAssumption DEF Calls

LEMMA TypesStart ==
  ASSUME DashInit
  PROVE  Typed
  BY ZeroIsNoCall DEF DashInit, Typed, DashTypeOK, Answered, Calls

\* The steps of a page.
LEMMA PageTyped ==
  ASSUME Typed, NEW p \in Pages,
         \/ Load(p) \/ OfferEnvironments(p) \/ Select(p)
         \/ FillVersions(p) \/ VersionsFail(p) \/ \E c \in Calls : Click(p, c)
  PROVE  Typed'
<1>0. DashTypeOK /\ DOMAIN appId = Pages /\ DOMAIN call = Calls /\ DOMAIN row = Calls
  BY DEF Typed
<1>1. CASE Load(p)
  <2>1. /\ rendered' \in [Pages -> Configs \cup {<<>>}]
        /\ \A q \in Pages : appId'[q] \in AppList(rendered'[q]) \/ rendered'[q] = <<>>
        /\ \A q \in Pages : offered'[q] # <<>> => rendered'[q] # <<>>
        /\ DOMAIN appId' = Pages
    BY <1>0, <1>1 DEF Load, DashTypeOK, Typed
  <2> QED
    BY <1>1, <2>1 DEF Load, Typed, DashTypeOK, server, Answered
<1>2. CASE Select(p)
  <2>0. AppList(rendered[p]) \subseteq Apps
    BY <1>0, ConfigRows DEF DashTypeOK
  <2>2. PICK a \in AppList(rendered[p]) :
          appId' = [appId EXCEPT ![p] = a] /\ asked' = [asked EXCEPT ![p] = @ \cup {a}]
    BY <1>2 DEF Select
  <2>3. asked' \in [Pages -> SUBSET Apps]
    BY <1>0, <2>0, <2>2 DEF DashTypeOK
  <2>4. /\ DOMAIN appId' = Pages
        /\ \A q \in Pages : appId'[q] \in AppList(rendered[q]) \/ rendered[q] = <<>>
    BY <1>0, <2>2 DEF DashTypeOK
  <2> QED
    BY <1>2, <2>3, <2>4 DEF Select, Typed, DashTypeOK, server, Answered
<1>3. CASE FillVersions(p)
  <2>1. versionId' \in [Pages -> SUBSET Versions] /\ asked' \in [Pages -> SUBSET Apps]
    <3>1. PICK a \in asked[p] : /\ asked' = [asked EXCEPT ![p] = @ \ {a}]
                                /\ \E f \in Found(a) : versionId' = [versionId EXCEPT ![p] = f]
      BY <1>3 DEF FillVersions
    <3>2. a \in Apps
      BY <1>0, <3>1 DEF DashTypeOK
    <3>3. PICK found \in SUBSET Versions : versionId' = [versionId EXCEPT ![p] = found]
      BY <3>1, <3>2, DashboardAssumption DEF Found
    <3>4. asked' \in [Pages -> SUBSET Apps]
      BY <1>0, <3>1 DEF DashTypeOK
    <3>5. versionId' \in [Pages -> SUBSET Versions]
      BY <1>0, <3>3 DEF DashTypeOK
    <3> QED
      BY <3>4, <3>5
  <2> QED
    BY <1>3, <2>1 DEF FillVersions, Typed, DashTypeOK, server, Answered
<1>4. CASE VersionsFail(p)
  <2>1. asked' \in [Pages -> SUBSET Apps]
    BY <1>0, <1>4 DEF VersionsFail, DashTypeOK
  <2> QED
    BY <1>4, <2>1 DEF VersionsFail, Typed, DashTypeOK, server, Answered
<1>5. ASSUME NEW c \in Calls, Click(p, c)
      PROVE  Typed'
  <2>1. PICK v \in IF versionId[p] = {} THEN {NoVersion} ELSE versionId[p], e \in EnvList(offered[p]) :
          call' = [call EXCEPT ![c] = [page |-> p, app |-> appId[p], version |-> v, env |-> e]]
    BY <1>5 DEF Click
  <2>2. v \in Versions \cup {NoVersion} /\ e \in Envs /\ appId[p] \in Apps
    <3>1. offered[p] # <<>> /\ rendered[p] # <<>>
      BY <1>5 DEF Click, Typed
    <3> QED
      BY <1>0, <2>1, <3>1, ConfigRows DEF DashTypeOK
  <2>3. /\ DOMAIN call' = Calls /\ call'[c] \in Request
        /\ \A d \in Calls \ {c} : call'[d] = call[d]
    BY <1>0, <2>1, <2>2 DEF Request
  <2>4. /\ place' \in [Calls -> Places] /\ place'[c] = "lookup"
        /\ \A d \in Calls \ {c} : place'[d] = place[d]
        /\ msg' \in [Pages -> {"", "Please wait"} \cup Answers]
    BY <1>0, <1>5 DEF Click, DashTypeOK, Places
  <2>5. \A d \in Calls : place'[d] # "free" => call'[d] \in Request
    BY <1>0, <2>3, <2>4 DEF DashTypeOK
  <2>6. /\ \A d \in Calls : place'[d] \in {"schedule", "wait"} => row'[d] \in Rows
        /\ \A d \in Calls : Answered(d)' => answer'[d] \in Answers
    BY <1>5, <2>4 DEF Click, Typed, DashTypeOK, Answered
  <2> QED
    BY <1>5, <2>3, <2>4, <2>5, <2>6 DEF Click, Typed, DashTypeOK, Places
<1>6. CASE OfferEnvironments(p)
  <2>1. /\ offered' \in [Pages -> Configs \cup {<<>>}]
        /\ \A q \in Pages : offered'[q] # <<>> => rendered'[q] # <<>>
    BY <1>0, <1>6 DEF OfferEnvironments, DashTypeOK, Typed
  <2> QED
    BY <1>6, <2>1 DEF OfferEnvironments, Typed, DashTypeOK, server, Answered
<1> QED
  BY <1>1, <1>2, <1>3, <1>4, <1>5, <1>6

\* The steps of a call.
LEMMA CallTyped ==
  ASSUME Typed, NEW c \in Calls, Handle(c) \/ Show(c)
  PROVE  Typed'
<1>0. /\ DashTypeOK /\ DOMAIN appId = Pages /\ DOMAIN call = Calls /\ DOMAIN row = Calls
      /\ place \in [Calls -> Places] /\ answer \in [Calls -> {""} \cup Answers]
  BY DEF Typed, DashTypeOK, Places
<1>1. ASSUME NEW step \in Places \ {"answer", "shown"}, Proceed(c, step)
      PROVE  /\ place' \in [Calls -> Places] /\ answer' \in [Calls -> {""} \cup Answers]
             /\ place'[c] = step /\ \A d \in Calls \ {c} : place'[d] = place[d]
             /\ \A d \in Calls : Answered(d)' => answer'[d] \in Answers
  BY <1>0, <1>1 DEF Proceed, Typed, Answered
<1>2. ASSUME NEW str \in Answers, Return(c, str)
      PROVE  /\ place' \in [Calls -> Places] /\ answer' \in [Calls -> {""} \cup Answers]
             /\ place'[c] = "answer" /\ \A d \in Calls \ {c} : place'[d] = place[d]
             /\ \A d \in Calls : Answered(d)' => answer'[d] \in Answers
  <2>1. /\ place' \in [Calls -> Places] /\ answer' \in [Calls -> {""} \cup Answers]
        /\ place'[c] = "answer" /\ answer'[c] = str
        /\ \A d \in Calls \ {c} : place'[d] = place[d] /\ answer'[d] = answer[d]
    BY <1>0, <1>2 DEF Return, Places
  <2> QED
    BY <1>2, <2>1 DEF Typed, Answered
<1>3. CASE Lookup(c)
  <2>1. place[c] = "lookup" /\ item' = item /\ UNCHANGED <<environments, jobs, pages, call, build>>
    BY <1>3 DEF Lookup
  <2>2. \/ row' = row /\ Proceed(c, "error")
        \/ /\ row' = [row EXCEPT ![c] = environments[1]] /\ environments[1] \in Rows
           /\ Proceed(c, "error") \/ Proceed(c, "schedule") \/ Return(c, "deploymentCannotBeExecuted")
    BY <1>0, <1>3, ConfigRows DEF Lookup, DashTypeOK
  <2>3. /\ place' \in [Calls -> Places] /\ answer' \in [Calls -> {""} \cup Answers]
        /\ place'[c] \in {"error", "schedule", "answer"} /\ \A d \in Calls \ {c} : place'[d] = place[d]
        /\ \A d \in Calls : Answered(d)' => answer'[d] \in Answers
    BY <1>1, <1>2, <2>2 DEF Places, Answers
  <2>4. /\ DOMAIN row' = Calls /\ \A d \in Calls \ {c} : row'[d] = row[d]
        /\ row'[c] \in Rows \/ (row' = row /\ place'[c] = "error")
    <3>1. CASE row' = row /\ Proceed(c, "error")
      BY <1>0, <1>1, <3>1 DEF Places
    <3>2. CASE row' = [row EXCEPT ![c] = environments[1]] /\ environments[1] \in Rows
      BY <1>0, <3>2
    <3> QED
      BY <2>2, <3>1, <3>2
  <2>5. \A d \in Calls : /\ place'[d] # "free" => call'[d] \in Request
                         /\ place'[d] \in {"schedule", "wait"} => row'[d] \in Rows
                         /\ item'[d] # 0 => row'[d] \in Rows
    BY <2>1, <2>3, <2>4 DEF Typed, DashTypeOK
  <2> QED
    BY <1>0, <2>1, <2>3, <2>4, <2>5 DEF Typed, DashTypeOK, pages, Places
<1>4. CASE Schedule(c)
  <2>1. place[c] = "schedule" /\ row[c] \in Rows /\ UNCHANGED <<environments, jobs, pages, call, row>>
    BY <1>0, <1>4 DEF Schedule, DashTypeOK
  <2>2. /\ Proceed(c, "error") \/ Proceed(c, "wait")
        /\ item' \in [Calls -> {0} \cup Calls] /\ \A d \in Calls \ {c} : item'[d] = item[d]
        /\ build' \in [Calls -> BuildStates]
    BY <1>0, <1>4 DEF Schedule, DashTypeOK, BuildStates
  <2>3. /\ place' \in [Calls -> Places] /\ answer' \in [Calls -> {""} \cup Answers]
        /\ place'[c] \in {"error", "wait"} /\ \A d \in Calls \ {c} : place'[d] = place[d]
        /\ \A d \in Calls : Answered(d)' => answer'[d] \in Answers
    BY <1>1, <2>2 DEF Places
  <2>4. \A d \in Calls : /\ place'[d] # "free" => call'[d] \in Request
                         /\ place'[d] \in {"schedule", "wait"} => row'[d] \in Rows
                         /\ item'[d] # 0 => row'[d] \in Rows
    BY <2>1, <2>2, <2>3 DEF Typed, DashTypeOK
  <2> QED
    BY <1>0, <2>1, <2>2, <2>3, <2>4 DEF Typed, DashTypeOK, pages, Places, BuildStates
<1>5. CASE Await(c)
  <2>1. place[c] = "wait" /\ UNCHANGED <<environments, jobs, pages, call, row, item, build>>
    BY <1>5 DEF Await
  <2>2. \E str \in Answers : Return(c, str)
    BY <1>5 DEF Await, Answers
  <2>3. /\ place' \in [Calls -> Places] /\ answer' \in [Calls -> {""} \cup Answers]
        /\ place'[c] = "answer" /\ \A d \in Calls \ {c} : place'[d] = place[d]
        /\ \A d \in Calls : Answered(d)' => answer'[d] \in Answers
    BY <1>2, <2>2
  <2>4. \A d \in Calls : /\ place'[d] # "free" => call'[d] \in Request
                         /\ place'[d] \in {"schedule", "wait"} => row'[d] \in Rows
    BY <2>1, <2>3 DEF Typed, DashTypeOK
  <2> QED
    BY <1>0, <2>1, <2>3, <2>4 DEF Typed, DashTypeOK, pages, Places
<1>6. CASE Show(c)
  <2>1. /\ place[c] = "answer" /\ answer[c] \in Answers /\ call[c].page \in Pages
    BY <1>6 DEF Show, Typed, DashTypeOK, Answered, Request
  <2>2. /\ place' \in [Calls -> Places] /\ place'[c] = "shown" /\ \A d \in Calls \ {c} : place'[d] = place[d]
        /\ msg' \in [Pages -> {"", "Please wait"} \cup Answers]
    BY <1>0, <1>6, <2>1 DEF Show, DashTypeOK, Places
  <2>3. \A d \in Calls : /\ place'[d] # "free" => call'[d] \in Request
                         /\ place'[d] \in {"schedule", "wait"} => row'[d] \in Rows
                         /\ Answered(d)' => answer'[d] \in Answers
    BY <1>6, <2>1, <2>2 DEF Show, Typed, DashTypeOK, Answered
  <2> QED
    BY <1>0, <1>6, <2>2, <2>3 DEF Show, Typed, DashTypeOK, Places
<1> QED
  BY <1>3, <1>4, <1>5, <1>6 DEF Handle

\* The administrator and Jenkins.
LEMMA OutsideTyped ==
  ASSUME Typed, \/ \E c \in Calls : Dequeue(c) \/ EndBuild(c) \/ Cancel(c)
                \/ Submit \/ \E j \in Jobs : ChangeJob(j)
  PROVE  Typed'
<1>0. DashTypeOK
  BY DEF Typed
<1>1. ASSUME NEW c \in Calls, NEW s \in BuildStates, Becomes(c, s)
      PROVE  Typed'
  <2>1. build' \in [Calls -> BuildStates]
    BY <1>0, <1>1 DEF Becomes, DashTypeOK, BuildStates
  <2> QED
    BY <1>1, <2>1 DEF Becomes, Typed, DashTypeOK, pages, server, BuildStates, Answered
<1>2. CASE \E c \in Calls : Dequeue(c) \/ EndBuild(c) \/ Cancel(c)
  BY <1>1, <1>2 DEF Dequeue, EndBuild, Cancel, BuildStates
<1>3. CASE Submit
  BY <1>3 DEF Submit, Typed, DashTypeOK, pages, server, Answered
<1>4. CASE \E j \in Jobs : ChangeJob(j)
  <2>1. jobs' \in [Jobs -> JobStates]
    BY <1>0, <1>4 DEF ChangeJob, DashTypeOK
  <2> QED
    BY <1>4, <2>1 DEF ChangeJob, Typed, DashTypeOK, pages, server, Answered
<1> QED
  BY <1>2, <1>3, <1>4

LEMMA TypesKept ==
  ASSUME Typed, [DashNext]_dashVars
  PROVE  Typed'
<1>1. CASE UNCHANGED dashVars
  BY <1>1 DEF dashVars, pages, server, Typed, DashTypeOK, Answered
<1>2. CASE DashNext
  BY <1>2, PageTyped, CallTyped, OutsideTyped DEF DashNext
<1> QED
  BY <1>1, <1>2

\* Every reachable state of the dashboard is well typed.
THEOREM DashboardTypeCorrect == DashSpec => []DashTypeOK
<1>1. DashInit => Typed
  BY TypesStart
<1>2. Typed /\ [DashNext]_dashVars => Typed'
  BY TypesKept
<1>3. Typed => DashTypeOK
  BY DEF Typed
<1> QED
  BY <1>1, <1>2, <1>3, PTL DEF DashSpec

-----------------------------------------------------------------------------
(* Answers *)

\* A call with a build, and the call that scheduled it, are past their lookup.
LEMMA Settled ==
  ASSUME DashboardInv, NEW d \in Calls, item[d] # 0
  PROVE  /\ item[d] \in Calls /\ item[item[d]] = item[d]
         /\ place[d] \in {"wait", "answer", "shown"} /\ place[item[d]] \in {"wait", "answer", "shown"}
<1>1. item[d] \in Calls
  BY DEF DashboardInv, Typed, DashTypeOK
<1>2. item[item[d]] = item[d]
  BY <1>1 DEF DashboardInv, CallOK, ItemFits, BuildOwned
<1> QED
  BY <1>1, <1>2 DEF DashboardInv, CallOK, ItemOK, Answered

\* Steps that leave the calls and the builds alone.
LEMMA PlainKept ==
  ASSUME DashboardInv, UNCHANGED <<place, call, row, item, answer, build>>, NEW c \in Calls
  PROVE  CallOK(c)'
<1>1. CallOK(c)
  BY DEF DashboardInv
<1> QED
  BY <1>1 DEF CallOK, ItemOK, BuildOwned, ItemFits, Same, AnswerFits, Answered

\* A click, and the lookup of its row, touch a call no other call waits for.
LEMMA EarlyKept ==
  ASSUME DashboardInv, NEW e \in Calls, Lookup(e) \/ \E p \in Pages : Click(p, e), NEW c \in Calls
  PROVE  CallOK(c)'
<1>0. /\ CallOK(c) /\ CallOK(e) /\ place[e] \in {"free", "lookup"} /\ item[e] = 0
      /\ place \in [Calls -> Places] /\ answer \in [Calls -> {""} \cup Answers]
      /\ DOMAIN call = Calls /\ DOMAIN row = Calls
  BY DEF DashboardInv, Typed, DashTypeOK, Places, CallOK, ItemOK, Answered, Lookup, Click
<1>1. /\ UNCHANGED <<item, build>> /\ place'[e] \in {"lookup", "error", "schedule", "answer"}
      /\ \A d \in Calls \ {e} : /\ place'[d] = place[d] /\ answer'[d] = answer[d]
                                /\ call'[d] = call[d] /\ row'[d] = row[d]
      /\ place'[e] = "answer" => answer'[e] = "deploymentCannotBeExecuted"
  <2>1. CASE Lookup(e)
    <3>1. /\ UNCHANGED <<item, build, call>>
          /\ row' = row \/ row' = [row EXCEPT ![e] = environments[1]]
          /\ Proceed(e, "error") \/ Proceed(e, "schedule") \/ Return(e, "deploymentCannotBeExecuted")
      BY <2>1 DEF Lookup
    <3> QED
      BY <1>0, <3>1 DEF Proceed, Return
  <2>2. CASE \E p \in Pages : Click(p, e)
    BY <1>0, <2>2 DEF Click
  <2> QED
    BY <2>1, <2>2
<1>2. CASE c = e
  BY <1>0, <1>1, <1>2 DEF CallOK, ItemOK, BuildOwned, ItemFits, AnswerFits, Answered
<1>3. CASE c # e
  <2>1. ItemOK(c)' /\ BuildOwned(c)' /\ AnswerFits(c)'
    BY <1>0, <1>1, <1>3 DEF CallOK, ItemOK, BuildOwned, AnswerFits, Answered
  <2>2. ItemFits(c)'
    <3>1. CASE item[c] = 0
      BY <1>1, <3>1 DEF ItemFits
    <3>2. CASE item[c] # 0
      <4>1. item[c] \in Calls \ {e}
        BY <1>0, <3>2, Settled
      <4>2. /\ call'[c] = call[c] /\ row'[c] = row[c]
            /\ call'[item[c]] = call[item[c]] /\ row'[item[c]] = row[item[c]]
        BY <1>1, <1>3, <4>1
      <4> QED
        BY <1>0, <1>1, <4>2 DEF CallOK, ItemFits, Same
    <3> QED
      BY <3>1, <3>2
  <2> QED
    BY <2>1, <2>2 DEF CallOK
<1> QED
  BY <1>2, <1>3

LEMMA ScheduleKept ==
  ASSUME DashboardInv, NEW e \in Calls, Schedule(e), NEW c \in Calls
  PROVE  CallOK(c)'
<1>0. /\ CallOK(c) /\ place[e] = "schedule" /\ item[e] = 0 /\ build[e] = "none"
      /\ place \in [Calls -> Places] /\ item \in [Calls -> {0} \cup Calls]
      /\ build \in [Calls -> BuildStates]
      /\ UNCHANGED <<call, row, answer>>
  BY ZeroIsNoCall DEF DashboardInv, Typed, DashTypeOK, Places, BuildStates, CallOK, ItemOK, BuildOwned,
     Answered, Schedule, Proceed
<1>1. CASE Proceed(e, "error") /\ UNCHANGED <<item, build>>
  BY <1>0, <1>1 DEF Proceed, CallOK, ItemOK, BuildOwned, ItemFits, Same, AnswerFits, Answered
<1>2. ASSUME NEW d \in Calls, build[d] = "queued", Same(e, d), place' = [place EXCEPT ![e] = "wait"],
             item' = [item EXCEPT ![e] = d], build' = build
      PROVE  CallOK(c)'
  <2>1. CASE c = e
    <3>1. place'[c] = "wait" /\ item'[c] = d
      BY <1>0, <1>2, <2>1
    <3>2. Same(c, d)'
      BY <1>0, <1>2, <2>1 DEF Same
    <3> QED
      BY <1>0, <1>2, <2>1, <3>1, <3>2, ZeroIsNoCall DEF CallOK, ItemOK, BuildOwned, ItemFits, AnswerFits, Answered
  <2>2. CASE c # e
    <3>1. place'[c] = place[c] /\ item'[c] = item[c]
      BY <1>0, <1>2, <2>2
    <3> QED
      BY <1>0, <1>2, <3>1 DEF CallOK, ItemOK, BuildOwned, ItemFits, Same, AnswerFits, Answered
  <2> QED
    BY <2>1, <2>2
<1>3. CASE place' = [place EXCEPT ![e] = "wait"] /\ item' = [item EXCEPT ![e] = e]
           /\ build' = [build EXCEPT ![e] = "queued"]
  <2>1. CASE c = e
    <3>1. place'[c] = "wait" /\ item'[c] = c /\ build'[c] = "queued"
      BY <1>0, <1>3, <2>1
    <3>2. Same(c, c)'
      BY DEF Same
    <3> QED
      BY <3>1, <3>2, ZeroIsNoCall DEF CallOK, ItemOK, BuildOwned, ItemFits, AnswerFits, Answered
  <2>2. CASE c # e
    <3>1. place'[c] = place[c] /\ item'[c] = item[c] /\ build'[c] = build[c]
      BY <1>0, <1>3, <2>2
    <3>2. item[c] # 0 => item[c] \in Calls \ {e} /\ build'[item[c]] = build[item[c]]
      BY <1>0, <1>3, Settled
    <3> QED
      BY <1>0, <3>1, <3>2 DEF CallOK, ItemOK, BuildOwned, ItemFits, Same, AnswerFits, Answered
  <2> QED
    BY <2>1, <2>2
<1> QED
  BY <1>0, <1>1, <1>2, <1>3 DEF Schedule, Proceed

LEMMA AwaitKept ==
  ASSUME Jobs \subseteq Workflow, DashboardInv, NEW e \in Calls, Await(e), NEW c \in Calls
  PROVE  CallOK(c)'
<1>0. /\ CallOK(c) /\ CallOK(e) /\ place[e] = "wait" /\ build[item[e]] \in Over
      /\ place \in [Calls -> Places] /\ answer \in [Calls -> {""} \cup Answers]
      /\ UNCHANGED <<call, row, item, build>> /\ row[e] \in Rows
  BY DEF DashboardInv, Typed, DashTypeOK, Places, Over, Await
<1>1. row[e].buildJob \in Workflow
  BY <1>0 DEF Rows
<1>2. PICK str \in Answers : Return(e, str) /\ (str = "successful" <=> build[item[e]] = "SUCCESS")
  BY <1>0, <1>1 DEF Await, Answers, Over
<1>3. /\ place'[e] = "answer" /\ answer'[e] = str
      /\ \A d \in Calls \ {e} : place'[d] = place[d] /\ answer'[d] = answer[d]
  BY <1>0, <1>2 DEF Return
<1>4. CASE c = e
  BY <1>0, <1>2, <1>3, <1>4 DEF CallOK, ItemOK, BuildOwned, ItemFits, Same, AnswerFits, Answered
<1>5. CASE c # e
  BY <1>0, <1>3, <1>5 DEF CallOK, ItemOK, BuildOwned, ItemFits, Same, AnswerFits, Answered
<1> QED
  BY <1>4, <1>5

LEMMA ShowKept ==
  ASSUME DashboardInv, NEW e \in Calls, Show(e), NEW c \in Calls
  PROVE  CallOK(c)'
<1>1. /\ CallOK(c) /\ place[e] = "answer" /\ place'[e] = "shown"
      /\ \A d \in Calls \ {e} : place'[d] = place[d]
      /\ UNCHANGED <<call, row, item, answer, build>>
  BY DEF DashboardInv, Typed, DashTypeOK, Show
<1> QED
  BY <1>1 DEF CallOK, ItemOK, BuildOwned, ItemFits, Same, AnswerFits, Answered

\* What becomes of a build does not change how an earlier one ended.
LEMMA JenkinsKept ==
  ASSUME DashboardInv, NEW e \in Calls, Dequeue(e) \/ EndBuild(e) \/ Cancel(e), NEW c \in Calls
  PROVE  CallOK(c)'
<1>0. /\ CallOK(c) /\ build \in [Calls -> BuildStates] /\ build[e] \in {"queued", "running"}
      /\ UNCHANGED <<place, call, row, item, answer>>
  BY DEF DashboardInv, Typed, DashTypeOK, BuildStates, Dequeue, EndBuild, Cancel, Becomes, server
<1>1. build'[e] # "none" /\ \A d \in Calls \ {e} : build'[d] = build[d]
  BY <1>0 DEF Dequeue, EndBuild, Cancel, Becomes
<1>2. ItemOK(c)' /\ BuildOwned(c)'
  BY <1>0, <1>1 DEF CallOK, ItemOK, BuildOwned, Answered
<1>3. CASE item[c] = 0
  BY <1>0, <1>2, <1>3 DEF CallOK, ItemFits, AnswerFits, Answered
<1>4. CASE item[c] # 0
  <2>1. item[c] \in Calls
    BY <1>4, Settled
  <2>2. ItemFits(c)'
    BY <1>0, <1>1, <2>1 DEF CallOK, ItemFits, Same
  <2>3. Answered(c) => item[c] # e
    BY <1>0, <1>4 DEF CallOK, AnswerFits, Over
  <2>4. AnswerFits(c)'
    BY <1>0, <1>1, <2>1, <2>3 DEF CallOK, AnswerFits, Answered
  <2> QED
    BY <1>2, <2>2, <2>4 DEF CallOK
<1> QED
  BY <1>3, <1>4

LEMMA InvStart ==
  ASSUME DashInit
  PROVE  DashboardInv
  BY TypesStart DEF DashInit, DashboardInv, CallOK, ItemOK, BuildOwned, ItemFits, AnswerFits, Answered

LEMMA InvKept ==
  ASSUME Jobs \subseteq Workflow, DashboardInv, [DashNext]_dashVars
  PROVE  DashboardInv'
<1> SUFFICES ASSUME NEW c \in Calls
             PROVE  CallOK(c)'
  BY TypesKept DEF DashboardInv
<1>1. CASE UNCHANGED dashVars
  BY <1>1, PlainKept DEF dashVars, server
<1>2. CASE \E p \in Pages : Load(p) \/ OfferEnvironments(p) \/ Select(p) \/ FillVersions(p) \/ VersionsFail(p)
  BY <1>2, PlainKept DEF Load, OfferEnvironments, Select, FillVersions, VersionsFail, server
<1>3. CASE \E e \in Calls : Lookup(e) \/ \E p \in Pages : Click(p, e)
  BY <1>3, EarlyKept
<1>4. CASE \E e \in Calls : Schedule(e)
  BY <1>4, ScheduleKept
<1>5. CASE \E e \in Calls : Await(e)
  BY <1>5, AwaitKept
<1>6. CASE \E e \in Calls : Show(e)
  BY <1>6, ShowKept
<1>7. CASE \E e \in Calls : Dequeue(e) \/ EndBuild(e) \/ Cancel(e)
  BY <1>7, JenkinsKept
<1>8. CASE Submit \/ \E j \in Jobs : ChangeJob(j)
  BY <1>8, PlainKept DEF Submit, ChangeJob, server
<1> QED
  BY <1>1, <1>2, <1>3, <1>4, <1>5, <1>6, <1>7, <1>8 DEF DashNext, Handle

-----------------------------------------------------------------------------
(* The theorems *)

\* What deploy answers of a pipeline job is true of a build with exactly the
\* arguments of the call, whatever was joined, cancelled or reconfigured meanwhile.
THEOREM DashboardAnswersAreTrue ==
  ASSUME Jobs \subseteq Workflow
  PROVE  DashSpec => []AnswersAreTrue
<1>1. DashInit => DashboardInv
  BY InvStart
<1>2. DashboardInv /\ [DashNext]_dashVars => DashboardInv'
  BY InvKept
<1>3. DashboardInv => AnswersAreTrue
  <2> SUFFICES ASSUME DashboardInv, NEW c \in Calls, Answered(c), item[c] # 0
               PROVE  /\ answer[c] = "successful" <=> build[item[c]] = "SUCCESS"
                      /\ [call[item[c]] EXCEPT !.page = call[c].page] = call[c]
                      /\ row[item[c]].buildJob = row[c].buildJob
    BY DEF AnswersAreTrue
  <2>1. CallOK(c) /\ item[c] \in Calls /\ place[c] # "free" /\ place[item[c]] # "free"
    BY Settled DEF DashboardInv
  <2>2. call[c] \in Request /\ call[item[c]] \in Request
    BY <2>1 DEF DashboardInv, Typed, DashTypeOK
  <2>3. Same(c, item[c])
    BY <2>1 DEF CallOK, ItemFits
  <2>4. /\ call[c].app = call[item[c]].app /\ call[c].version = call[item[c]].version
        /\ call[c].env = call[item[c]].env
    BY <2>2, <2>3 DEF Same, Request
  <2>5. [call[item[c]] EXCEPT !.page = call[c].page] = call[c]
    BY <2>2, <2>4 DEF Request
  <2> QED
    BY <2>1, <2>3, <2>5 DEF CallOK, AnswerFits, Same
<1> QED
  BY <1>1, <1>2, <1>3, PTL DEF DashSpec
=============================================================================
