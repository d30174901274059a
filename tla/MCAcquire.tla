------------------------------ MODULE MCAcquire ------------------------------
(***************************************************************************)
(* TLC instance of Acquire: two children fail and the device restarts      *)
(* twice, so that a fault can hit the recovery from an earlier one; there  *)
(* is room for no to three files beside the 650 MB.                        *)
(***************************************************************************)
EXTENDS Acquire
=============================================================================
