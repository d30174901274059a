---------------------------- MODULE MCSoftUpgrade ----------------------------
(***************************************************************************)
(* TLC instances of SoftUpgrade: three runs and three faults, and free     *)
(* space just below, at and just above what the script asks for.           *)
(***************************************************************************)
EXTENDS SoftUpgrade

AroundTheLimit == {MinMB - 1, MinMB, MinMB + 1}
=============================================================================
