------------------------------- MODULE MCCommit -------------------------------
(***************************************************************************)
(* TLC instances of Commit: an image of three chunks (a first, a middle    *)
(* and a last one), and how many mishaps of each kind may strike.          *)
(***************************************************************************)
EXTENDS Commit

\* Every kind of mishap, and the application killed twice.
AnyMishap == [reboot |-> 1, kill |-> 2, fault |-> 1]

\* Nothing goes wrong but the order in which the worker and the job run.
NoMishap == [m \in Mishaps |-> 0]

\* One restart of the device.
OneReboot == [NoMishap EXCEPT !["reboot"] = 1]
=============================================================================
