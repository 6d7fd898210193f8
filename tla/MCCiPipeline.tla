---------------------------- MODULE MCCiPipeline ----------------------------
(* The builds of CiPipeline, the first of a given artifact and the others of any.  *)
EXTENDS CiPipeline

CONSTANT first

MCInit == Init /\ app[Old + 1] = first
MCSpec == MCInit /\ [][Next]_vars
=============================================================================
