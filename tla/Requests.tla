------------------------------ MODULE Requests ------------------------------
(***************************************************************************)
(* The parameters of a build of Redeploy.groovy, as its users and the      *)
(* dashboard give them.                                                    *)
(***************************************************************************)
EXTENDS Artifacts

CONSTANTS Versions,   \* versions somebody may ask for
          NoVersion   \* the parameter version is null or empty, as a version list without options sends it

ASSUME NoVersionIsNew == NoVersion \notin Versions

Requests == [app : Apps, env : Envs, version : Versions \cup {NoVersion}]
=============================================================================
