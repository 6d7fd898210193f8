---------------------------- MODULE LiveService ----------------------------
(***************************************************************************)
(* What a blue-green deployment promises the users of the live host names: *)
(* a new version joins the one that answers, the old one retires, the new  *)
(* one is promoted.  At most one version is pending on a host, and only a  *)
(* pending version is ever taken away by anything but its successor.       *)
(***************************************************************************)
CONSTANTS Hosts, Builds, NoBuild

VARIABLES serving,   \* serving[h]: the builds whose droplet answers requests
          pending    \* pending[h]: the build routed but not promoted yet, or NoBuild

vars == <<serving, pending>>

Init ==
  /\ serving = [h \in Hosts |-> {}]
  /\ pending = [h \in Hosts |-> NoBuild]

\* Build b starts answering, beside the version that does.
Join(h, b) ==
  /\ pending[h] \in {NoBuild, b} /\ b \notin serving[h]
  /\ serving' = [serving EXCEPT ![h] = @ \cup {b}]
  /\ pending' = [pending EXCEPT ![h] = b]

\* The old version stops; the pending one answers alone.
Retire(h) ==
  /\ pending[h] \in serving[h]
  /\ serving' = [serving EXCEPT ![h] = {pending[h]}]
  /\ UNCHANGED pending

\* The pending version answers alone and becomes the live one.
Promote(h) ==
  /\ serving[h] = {pending[h]}
  /\ pending' = [pending EXCEPT ![h] = NoBuild]
  /\ UNCHANGED serving

\* A pending version nobody promoted is replaced by the next build, which
\* does not answer yet.  The only step that may leave nobody answering.
Replace(h, b) ==
  /\ pending[h] # NoBuild /\ b \notin serving[h]
  /\ serving' = [serving EXCEPT ![h] = @ \ {pending[h]}]
  /\ pending' = [pending EXCEPT ![h] = b]

Next ==
  \E h \in Hosts :
    \/ Retire(h) \/ Promote(h)
    \/ \E b \in Builds : Join(h, b) \/ Replace(h, b)

Spec == Init /\ [][Next]_vars
=============================================================================
