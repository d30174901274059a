-------------------------------- MODULE MCBless --------------------------------
(***************************************************************************)
(* TLC instance of Bless: three runs, so that a run follows one that was   *)
(* cut off after another had been cut off.                                 *)
(***************************************************************************)
EXTENDS Bless
=============================================================================
