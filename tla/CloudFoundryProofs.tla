------------------------- MODULE CloudFoundryProofs -------------------------
(***************************************************************************)
(* Lemmas about the cf commands, for the proofs about the two deployment   *)
(* pipelines.                                                              *)
(***************************************************************************)
EXTENDS CloudFoundry, TLAPS

LEMMA AppTyped ==
  ASSUME CFTypeOK, NEW x \in AppNames
  PROVE  /\ apps[x].bits \in Droplets \cup {NoBuild}
         /\ apps[x].up \in BOOLEAN
         /\ apps[x].routes \in SUBSET Routes
  BY DEF CFTypeOK, AppState

LEMMA AbsentTyped == Absent \in AppState
  BY DEF Absent, AppState

\* Every cf command leaves a well-typed foundation.
LEMMA CommandsTyped ==
  ASSUME CFTypeOK, NEW g \in Agents, NEW a \in Apps, NEW k \in Slots, NEW r \in Routes
  PROVE  /\ \A s \in Spaces : CfLogin(g, s) => CFTypeOK'
         /\ \A b \in Droplets : LoggedIn(g) /\ CfPush(g, a, r, b) => CFTypeOK'
         /\ CfStart(g, a) => CFTypeOK'
         /\ LoggedIn(g) /\ CfMapRoute(g, a, k, r) => CFTypeOK'
         /\ CfUnmapRoute(g, a, k, r) => CFTypeOK'
         /\ CfDeleteRoute(g, r) => CFTypeOK'
         /\ CfDelete(g, a, k) => CFTypeOK'
         /\ LoggedIn(g) /\ CfRename(g, a, k) => CFTypeOK'
<1>1. \A s \in Spaces : CfLogin(g, s) => CFTypeOK'
  BY DEF CFTypeOK, CfLogin
<1>2. \A b \in Droplets : LoggedIn(g) /\ CfPush(g, a, r, b) => CFTypeOK'
  <2> SUFFICES ASSUME NEW b \in Droplets, LoggedIn(g), CfPush(g, a, r, b) PROVE CFTypeOK'
    OBVIOUS
  <2>1. ASSUME NEW y \in AppNames PROVE apps'[y] \in AppState
    BY AppTyped DEF CFTypeOK, CfPush, PushTo, AppState
  <2> QED
    BY <2>1 DEF CFTypeOK, CfPush, PushTo, LoggedIn
<1>3. CfStart(g, a) => CFTypeOK'
  <2> SUFFICES ASSUME CfStart(g, a) PROVE CFTypeOK'
    OBVIOUS
  <2>1. ASSUME NEW y \in AppNames PROVE apps'[y] \in AppState
    BY AppTyped DEF CFTypeOK, CfStart, StartIn, AppState
  <2> QED
    BY <2>1 DEF CFTypeOK, CfStart, StartIn
<1>4. LoggedIn(g) /\ CfMapRoute(g, a, k, r) => CFTypeOK'
  <2> SUFFICES ASSUME LoggedIn(g), CfMapRoute(g, a, k, r) PROVE CFTypeOK'
    OBVIOUS
  <2>1. ASSUME NEW y \in AppNames PROVE apps'[y] \in AppState
    BY AppTyped DEF CFTypeOK, CfMapRoute, AppState, WithRoutes
  <2> QED
    BY <2>1 DEF CFTypeOK, CfMapRoute, LoggedIn
<1>5. CfUnmapRoute(g, a, k, r) => CFTypeOK'
  <2> SUFFICES ASSUME CfUnmapRoute(g, a, k, r) PROVE CFTypeOK'
    OBVIOUS
  <2>1. ASSUME NEW y \in AppNames PROVE apps'[y] \in AppState
    <3>1. apps[y].routes \ {r} \in SUBSET Routes
      BY AppTyped
    <3> QED
      BY <3>1, AppTyped DEF CFTypeOK, CfUnmapRoute, AppState, WithRoutes
  <2> QED
    BY <2>1 DEF CFTypeOK, CfUnmapRoute
<1>6. CfDeleteRoute(g, r) => CFTypeOK'
  <2> SUFFICES ASSUME CfDeleteRoute(g, r) PROVE CFTypeOK'
    OBVIOUS
  <2>1. CASE owner[r] = target[g]
    <3>1. ASSUME NEW y \in AppNames PROVE apps'[y] \in AppState
      <4>1. apps[y].routes \ {r} \in SUBSET Routes
        BY AppTyped
      <4> QED
        BY <2>1, <4>1, AppTyped DEF CfDeleteRoute, AppState, WithRoutes
    <3> QED
      BY <2>1, <3>1 DEF CFTypeOK, CfDeleteRoute
  <2>2. CASE owner[r] # target[g]
    BY <2>2 DEF CFTypeOK, CfDeleteRoute, cfVars
  <2> QED
    BY <2>1, <2>2
<1>7. CfDelete(g, a, k) => CFTypeOK'
  BY AbsentTyped DEF CFTypeOK, CfDelete
<1>8. LoggedIn(g) /\ CfRename(g, a, k) => CFTypeOK'
  <2>1. LoggedIn(g) => <<target[g], a, "temp">> \in AppNames
    BY TempIsASlot DEF LoggedIn, AppNames
  <2> QED
    BY <2>1, AbsentTyped DEF CFTypeOK, CfRename
<1> QED
  BY <1>1, <1>2, <1>3, <1>4, <1>5, <1>6, <1>7, <1>8
=============================================================================
