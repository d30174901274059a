---------------------------- MODULE MCChildReaper ----------------------------
(***************************************************************************)
(* TLC instances of ChildReaper: five commands, so that a handler of one   *)
(* can be late for several later ones.                                     *)
(***************************************************************************)
EXTENDS ChildReaper
=============================================================================
