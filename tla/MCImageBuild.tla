----------------------------- MODULE MCImageBuild -----------------------------
(***************************************************************************)
(* TLC instance of ImageBuild: a failure, two restarts and two kills, so   *)
(* that each can hit the recovery from another.                            *)
(***************************************************************************)
EXTENDS ImageBuild
=============================================================================
