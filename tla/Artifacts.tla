------------------------------ MODULE Artifacts ------------------------------
(* What is deployed, and where to: the parameters app and envs of the jobs. *)

CONSTANTS Apps,      \* deployable artifacts
          Envs       \* values of the parameter envs
=============================================================================
