------------------------------- MODULE Acquire -------------------------------
(***************************************************************************)
(* How Upgrade.app obtains the 1.1.3 root image: the two tests of          *)
(* -[UpgradeApplication applicationDidFinishLaunching:] before the worker  *)
(* thread is detached, and -[UpgradeApplication jailbreak:] from its start *)
(* to the last "not found, aborting" check (UpgradeApplication.m, lines    *)
(* 59-245).                                                                *)
(*                                                                         *)
(* Four children run one after another, each reading the file the one      *)
(* before it left in /private/var and writing its own:                     *)
(*                                                                         *)
(*    wget -> "zip" -> ditto -> "dmg" -> vfdecrypt -> "decr" ->            *)
(*    dmg2img -> "dd"                                                      *)
(*                                                                         *)
(* No exit status is looked at.  What a later launch skips is decided by   *)
(* which files exist and, for the zip alone, by its size.  The device may  *)
(* reboot at any point; the files survive, the worker does not.            *)
(***************************************************************************)
EXTENDS Naturals, FiniteSets

CONSTANTS
  MaxFailures,  \* bound: children that fail on a good input, per behaviour
  MaxReboots,   \* bound: reboots per behaviour
  MaxRoom       \* bound: files that /private/var may have room for

ASSUME BoundsAssumption == {MaxFailures, MaxReboots, MaxRoom} \subseteq Nat

VARIABLES
  pc,        \* where the application is; "off" when it is not running
  file,      \* what each artifact in /private/var holds
  media,     \* the copies the user left in /private/var/root/Media
  room,      \* how many such files there is room for beside the 650 MB asked for
  version,   \* the firmware
  failures,  \* children that failed on a good input so far
  reboots,   \* reboots so far
  harm       \* history: the faults so far that no check of the code detects

device == <<room, version>>
vars == <<pc, file, media, device, failures, reboots, harm>>

(***************************************************************************)
(* An artifact is missing, there but cut short (or garbage), or complete.  *)
(***************************************************************************)
Artifacts == {"zip", "dmg", "decr", "dd"}
Contents  == {"absent", "partial", "full"}

\* The stages that run a child, and the stages between two children.
Stages  == {"downloading", "extracting", "decrypting", "decompressing"}
Between == {"adopt", "check", "gate", "dropX", "dropDecrypted", "verify"}

Output == [s \in Stages |-> CASE s = "downloading"   -> "zip"
                              [] s = "extracting"    -> "dmg"
                              [] s = "decrypting"    -> "decr"
                              [] s = "decompressing" -> "dd"]

\* Mutant of After: x is removed before vfdecrypt has read the dmg in it.
AfterXDroppedFirst ==
  [s \in Stages |-> CASE s = "downloading"   -> "extracting"
                      [] s = "extracting"    -> "dropX"
                      [] s = "decrypting"    -> "dropX"
                      [] s = "decompressing" -> "dropDecrypted"]

After == [s \in Stages |-> CASE s = "downloading"   -> "extracting"
                             [] s = "extracting"    -> "gate"
                             [] s = "decrypting"    -> "dropX"
                             [] s = "decompressing" -> "dropDecrypted"]

\* What the child of stage s reads; the download reads Apple's server.
Source(s) == CASE s = "downloading"   -> "full"
               [] s = "extracting"    -> file["zip"]
               [] s = "decrypting"    -> file["dmg"]
               [] s = "decompressing" -> file["decr"]

Exists(a) == file[a] # "absent"

TypeOK ==
  /\ pc \in {"off", "asked", "ready"} \cup Between \cup Stages
  /\ file \in [Artifacts -> Contents]
  /\ media \in [{"zip", "dmg"} -> Contents]
  /\ room \in 0..MaxRoom /\ version \in {"1.1.2", "other"}
  /\ failures \in 0..MaxFailures
  /\ reboots \in 0..MaxReboots
  /\ harm \subseteq Stages \cup {"media"}

Init ==
  /\ pc = "off"
  /\ file = [a \in Artifacts |-> "absent"]
  /\ media \in [{"zip", "dmg"} -> Contents]
  /\ room \in 0..MaxRoom /\ version \in {"1.1.2", "other"}
  /\ failures = 0
  /\ reboots = 0
  /\ harm = {}

-----------------------------------------------------------------------------
(***************************************************************************)
(* The user starts the application.                                        *)
(***************************************************************************)
Copies == {m \in DOMAIN media : media[m] # "absent"}
Leftovers == {a \in Artifacts : Exists(a)}

\* The 650 MB are free: what earlier launches left behind, and the user's own copies on
\* the same partition, count against them.
EnoughSpace == Cardinality(Leftovers) + Cardinality(Copies) <= room

\* With too little space the application says so and terminates; if statvfs fails it
\* does not look.
Launch(statted) ==
  /\ pc = "off"
  /\ pc' = IF statted /\ ~EnoughSpace THEN "off" ELSE "asked"
  /\ UNCHANGED <<file, media, device, failures, reboots, harm>>

\* Under another firmware the user is asked, and the application terminates if the
\* answer is no; then the worker thread is detached.
Question(goOn) ==
  /\ pc = "asked"
  /\ pc' = IF version # "1.1.2" /\ ~goOn THEN "off" ELSE "adopt"
  /\ UNCHANGED <<file, media, device, failures, reboots, harm>>

-----------------------------------------------------------------------------
(***************************************************************************)
(* The steps the worker takes by itself.                                   *)
(***************************************************************************)

\* Files found under Media are renamed over the worker's own.
AdoptMedia ==
  /\ pc = "adopt"
  /\ file' = [a \in Artifacts |->
                IF a \in DOMAIN media /\ media[a] # "absent" THEN media[a] ELSE file[a]]
  /\ media' = [a \in DOMAIN media |-> "absent"]
  /\ harm' = IF media["dmg"] = "partial" THEN harm \cup {"media"} ELSE harm
  /\ pc' = "check"
  /\ UNCHANGED <<device, failures, reboots>>

\* Mutant of ZipUsable: the size is not compared.
ZipExists == Exists("zip")

\* The size comparison: only a complete zip has restoreFileSize bytes.
ZipUsable == file["zip"] = "full"

\* The nested fileExists tests choose the first stage that still has work.
Check ==
  /\ pc = "check"
  /\ pc' = CASE Exists("dd")                             -> "verify"
             [] ~Exists("dd") /\ Exists("decr")          -> "decompressing"
             [] ~Exists("dd") /\ ~Exists("decr") /\ Exists("dmg")
                                                         -> "gate"
             [] OTHER -> IF ZipUsable THEN "extracting" ELSE "downloading"
  /\ UNCHANGED <<file, media, device, failures, reboots, harm>>

\* Mutant of Gate: the zip is not unlinked.
GateKeepsZip ==
  /\ pc = "gate"
  /\ pc' = IF Exists("dmg") THEN "decrypting" ELSE "off"
  /\ UNCHANGED <<file, media, device, failures, reboots, harm>>

\* Without an extracted dmg the application terminates; otherwise the zip goes.
Gate ==
  /\ pc = "gate"
  /\ IF Exists("dmg")
     THEN /\ file' = [file EXCEPT !["zip"] = "absent"]
          /\ pc' = "decrypting"
     ELSE /\ pc' = "off"
          /\ UNCHANGED file
  /\ UNCHANGED <<media, device, failures, reboots, harm>>

\* rm -rf /private/var/x, whatever vfdecrypt did.
DropX ==
  /\ pc = "dropX"
  /\ file' = [file EXCEPT !["dmg"] = "absent"]
  /\ pc' = "decompressing"
  /\ UNCHANGED <<media, device, failures, reboots, harm>>

\* unlink of decrypted.dmg, whatever dmg2img did.
DropDecrypted ==
  /\ pc = "dropDecrypted"
  /\ file' = [file EXCEPT !["decr"] = "absent"]
  /\ pc' = "verify"
  /\ UNCHANGED <<media, device, failures, reboots, harm>>

\* Without disk0s1.dd the application terminates.
Verify ==
  /\ pc = "verify"
  /\ pc' = IF Exists("dd") THEN "ready" ELSE "off"
  /\ UNCHANGED <<file, media, device, failures, reboots, harm>>

-----------------------------------------------------------------------------
(***************************************************************************)
(* The children.  cmd_system_progress waits for the child of stage s and   *)
(* drops its exit status, so that the worker goes on to After[s] whatever  *)
(* the child did.                                                          *)
(***************************************************************************)

\* The child creates its output: wget at once, the others if they find an input.
ChildOpens(s) ==
  /\ pc = s
  /\ Source(s) # "absent"
  /\ ~Exists(Output[s])
  /\ file' = [file EXCEPT ![Output[s]] = "partial"]
  /\ UNCHANGED <<pc, media, device, failures, reboots, harm>>

\* A good input and a child that reaches the end of its work.
ChildSucceeds(s) ==
  /\ pc = s
  /\ Source(s) = "full"
  /\ Exists(Output[s])
  /\ file' = [file EXCEPT ![Output[s]] = "full"]
  /\ pc' = After[s]
  /\ UNCHANGED <<media, device, failures, reboots, harm>>

\* A bad input: whatever the child wrote stays as it is.
ChildStumbles(s) ==
  /\ pc = s
  /\ Source(s) # "full"
  /\ pc' = After[s]
  /\ UNCHANGED <<file, media, device, failures, reboots, harm>>

\* A good input, but no route to the server, a full disk, a crash, no exec.
ChildFails(s) ==
  /\ pc = s
  /\ Source(s) = "full"
  /\ failures < MaxFailures
  /\ failures' = failures + 1
  /\ harm' = harm \cup {s}
  /\ pc' = After[s]
  /\ UNCHANGED <<file, media, device, reboots>>

Child(s) == ChildOpens(s) \/ ChildSucceeds(s) \/ ChildStumbles(s) \/ ChildFails(s)

(***************************************************************************)
(* The device restarts, or the application is killed with its child.  Only *)
(* the download's output is examined by more than its name next time.      *)
(***************************************************************************)
Reboot ==
  /\ pc # "off"
  /\ reboots < MaxReboots
  /\ reboots' = reboots + 1
  /\ harm' = IF pc \in Stages \ {"downloading"} /\ file[Output[pc]] = "partial"
             THEN harm \cup {pc} ELSE harm
  /\ pc' = "off"
  /\ UNCHANGED <<file, media, device, failures>>

\* The image is there: the worker goes on to build the new system from it.
HandedOver == pc = "ready" /\ UNCHANGED vars

WorkerStep == AdoptMedia \/ Check \/ Gate \/ DropX \/ DropDecrypted \/ Verify

Next ==
  \/ \E statted \in BOOLEAN : Launch(statted)
  \/ \E goOn \in BOOLEAN : Question(goOn)
  \/ WorkerStep
  \/ \E s \in Stages : Child(s)
  \/ Reboot
  \/ HandedOver

\* The user starts the application again and again and answers its question; no system
\* call has to fail for it to go on.
Fairness ==
  /\ WF_vars(Launch(TRUE))
  /\ WF_vars(\E goOn \in BOOLEAN : Question(goOn))
  /\ WF_vars(WorkerStep)
  /\ WF_vars(\E s \in Stages : Child(s))

Spec == Init /\ [][Next]_vars /\ Fairness

-----------------------------------------------------------------------------
(***************************************************************************)
(* What the checks of the code do guarantee.                               *)
(***************************************************************************)

\* When the worker goes on to build the new system, the 1.1.3 image it found is
\* complete, unless a fault struck inside a child (or the user's own copy of the
\* dmg was bad): a reboot during the download or between two children never is
\* enough to make the existence tests of lines 187-245 accept a bad file.
ReadyImageComplete == pc = "ready" /\ file["dd"] # "full" => harm # {}

\* The number of stages whose result is there to be reused.
Rank(f) == IF f["dd"] = "full" THEN 4
           ELSE IF f["decr"] = "full" THEN 3
           ELSE IF f["dmg"] = "full" THEN 2
           ELSE IF f["zip"] = "full" THEN 1
           ELSE 0

\* The unlinks and the rm of lines 215, 226 and 238 never throw away the most
\* advanced result while no child has failed: what a launch completed, every
\* later launch reuses (the user's own copies may replace it).
WorkKept ==
  [][pc # "adopt" /\ harm' = {} => Rank(file') >= Rank(file)]_vars

\* An upgrade that no reboot interrupted leaves nothing but the image behind in
\* /private/var, however many children failed and launches aborted on the way:
\* the 650 MB checked at the start have to hold that image and its copy only.
CleanDisk == pc = "ready" /\ reboots = 0 => Leftovers = {"dd"}

\* A user who keeps starting the application on the right firmware gets an image if
\* /private/var has room for three such files beside the 650 MB: no set of files that
\* interrupted or failed launches leave behind then makes all later ones abort, neither
\* by the test for space nor by one of those for a file.  With less room they may.
EventuallyReady == version = "1.1.2" /\ room >= 3 => <>(pc = "ready")

(***************************************************************************)
(* The inductive invariant behind ReadyImageComplete: without harm, a file *)
(* cut short is one a running child is writing, and what a running child   *)
(* reads, or has just written, is complete.                                *)
(***************************************************************************)
PartialOnlyInProgress ==
  harm = {} =>
    /\ file["dmg"]  = "partial" => pc = "extracting"
    /\ file["decr"] = "partial" => pc = "decrypting"
    /\ file["dd"]   = "partial" => pc = "decompressing"
    /\ pc = "extracting" => file["zip"] = "full"
    /\ pc = "decrypting" => file["dmg"] = "full"
    /\ pc \in {"dropX", "decompressing"} => file["decr"] = "full"
    /\ pc = "dropDecrypted" => file["dd"] = "full"

ReadyHasImage == pc = "ready" => Exists("dd")

CompletenessInv == PartialOnlyInProgress /\ ReadyHasImage

(***************************************************************************)
(* The inductive invariant behind CleanDisk: before the first reboot each  *)
(* place of the worker has seen the files of the stages behind it removed  *)
(* and none of the stages ahead of it begun, through aborted launches too. *)
(***************************************************************************)
MayExist(p) ==
  CASE p \in {"decrypting", "dropX"}             -> {"dmg", "decr"}
    [] p \in {"decompressing", "dropDecrypted"}  -> {"decr", "dd"}
    [] p \in {"verify", "ready"}                 -> {"dd"}
    [] OTHER                                     -> {"zip", "dmg"}

OnlyTheStagesFiles == reboots = 0 => Leftovers \subseteq MayExist(pc)

=============================================================================
