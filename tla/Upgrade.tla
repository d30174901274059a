-------------------------------- MODULE Upgrade --------------------------------
(***************************************************************************)
(* What Upgrade.app and jb113.sh both promise, whatever their steps are:   *)
(* the partition the device boots from goes from the old system to the     *)
(* whole new one, and is never left in between by the program itself.      *)
(* Commit and SoftUpgrade implement this under refinement mappings.        *)
(***************************************************************************)
EXTENDS Naturals

VARIABLES
  part,     \* what the partition holds: "old", "torn", "new", "other"
  power,    \* "on": running the old system; "up": booted the new one; "dead"
  faults,   \* how much has gone wrong so far
  excused,  \* something struck that the program does not guard against
  stuck     \* the image cannot be read any further (never constrained here)

vars == <<part, power, faults, excused>>

Init == part = "old" /\ power = "on" /\ faults = 0 /\ excused = FALSE

\* Some of the image is written, or the last of it; the writing may start again.
Write ==
  /\ power = "on"
  /\ part' \in {"torn", "new"}
  /\ UNCHANGED <<power, faults>>

\* The program restarts the device: only when the partition is whole.
Finish ==
  /\ power = "on" /\ part # "old"
  /\ part' = "new" /\ power' = "up"
  /\ UNCHANGED faults

\* Something goes wrong; at worst the device restarts with what there is.
Mishap ==
  /\ faults' > faults
  /\ UNCHANGED part
  /\ power' = power \/ power' = (CASE part = "old"  -> "on"
                                   [] part = "torn" -> "dead"
                                   [] OTHER         -> "up")

\* Outside the promise only this is left: the old system is not written back.
Anything == (excused \/ excused') /\ (part' = "old" => part = "old")

Next == ((Write \/ Finish \/ Mishap) /\ excused' = excused) \/ Anything

Safe == Init /\ [][Next]_vars

\* A partition that has been touched will be whole, unless the power goes or there is
\* no more of the image to be had.
Live ==
  (part = "torn" /\ ~excused /\ ~stuck)
    ~> (part = "new" \/ power # "on" \/ excused \/ stuck)

Spec == Safe /\ Live
=============================================================================
