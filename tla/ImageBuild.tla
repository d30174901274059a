------------------------------ MODULE ImageBuild ------------------------------
(***************************************************************************)
(* How the worker thread of Upgrade.app turns 112.dd, a copy of the root   *)
(* partition, into the system that will be written back:                   *)
(* UpgradeApplication.m, lines 247-322, with fileCopy of utilities.c and   *)
(* resources/globscript.sh.                                                *)
(*                                                                         *)
(* The code is one list of commands.  None of their exit statuses is       *)
(* looked at: a command that cannot do its work (the device is busy, the   *)
(* mount point has nothing mounted on it) does nothing or does it to the   *)
(* wrong file system, and the next command runs.  Only the first step      *)
(* tests anything: 112.dd is reused if it has the right size.              *)
(***************************************************************************)
EXTENDS Naturals, Sequences

CONSTANTS
  MaxFailures,   \* bound: commands that fail for no reason of the model
  MaxReboots,    \* bound: restarts of the device
  MaxKills       \* bound: times the application is killed between two commands

ASSUME BuildAssumption == {MaxFailures, MaxReboots, MaxKills} \subseteq Nat

VARIABLES
  pc,        \* index of the next command of Script; 0 when the worker is off
  root,      \* how / is mounted
  vn,        \* the file attached to each vnode disk, or "none"
  mounted,   \* the vnode disk mounted on /mnt and /mnt2, or "none"
  image,     \* 112.dd
  polluted,  \* history: something meant for the image was written to /
  failed,    \* whether a command failed since the application was started
  failures, reboots, kills

devices == <<root, vn, mounted>>
counts  == <<failures, reboots, kills>>
vars == <<pc, devices, image, polluted, failed, counts>>

(***************************************************************************)
(* 112.dd: its size, whether its file system was left consistent, how much *)
(* of each layer it holds, and whether its volume header names the folder  *)
(* the boot loader is to use.                                              *)
(***************************************************************************)
Amount == {"none", "some", "all"}
Layers == {"old", "sys", "jb"}
Image  == [size : {"absent", "short", "right"}, clean : BOOLEAN,
           has : [Layers -> Amount], blessed : BOOLEAN]

Nothing == [l \in Layers |-> "none"]

\* The image the program is there to build: 1.1.3 and the jailbreak, no 1.1.2.
Finished(i) ==
  /\ i.size = "right" /\ i.clean /\ i.blessed
  /\ i.has = [Nothing EXCEPT !["sys"] = "all", !["jb"] = "all"]

Vns    == {"vn0", "vn1"}
Points == {"/mnt", "/mnt2"}

(***************************************************************************)
(* The commands, in the order of the code.                                 *)
(***************************************************************************)
Cmd(c, a, b) == [cmd |-> c, a |-> a, b |-> b]

OpenDisks ==                                           \* lines 251-267
  << Cmd("remount", "ro", ""), Cmd("copyRoot", "", ""), Cmd("remount", "rw", ""),
     Cmd("attach", "vn1", "disk0s1.dd"), Cmd("mount", "vn1", "/mnt2"),
     Cmd("attach", "vn0", "112.dd"), Cmd("fsck", "vn0", ""),
     Cmd("mount", "vn0", "/mnt") >>

Fill ==                                                \* lines 272-299
  << Cmd("nuke", "/mnt", ""), Cmd("ditto", "/mnt2", "/mnt"),
     Cmd("jailbreak", "/mnt", "") >>

CloseImage ==                                          \* lines 304-308, 315-319
  << Cmd("umount", "/mnt", ""), Cmd("fsck", "vn0", ""), Cmd("detach", "vn0", "") >>

BlessImage ==                                          \* lines 311-313
  << Cmd("attach", "vn0", "112.dd"), Cmd("mount", "vn0", "/mnt"),
     Cmd("bless", "/mnt", "") >>

\* Mutant of CloseBase: the disk is detached before it is unmounted.
CloseBaseSwapped ==
  << Cmd("detach", "vn1", ""), Cmd("umount", "/mnt2", "") >>

CloseBase ==                                           \* lines 321-322
  << Cmd("umount", "/mnt2", ""), Cmd("detach", "vn1", "") >>

Script ==
  OpenDisks \o Fill \o CloseImage \o BlessImage \o CloseImage \o CloseBase

Done == pc = Len(Script) + 1

TypeOK ==
  /\ pc \in 0..(Len(Script) + 1)
  /\ root \in {"rw", "ro"}
  /\ vn \in [Vns -> {"none", "112.dd", "disk0s1.dd"}]
  /\ mounted \in [Points -> Vns \cup {"none"}]
  /\ \A p \in Points : mounted[p] # "none" => vn[mounted[p]] # "none"
  /\ image \in Image
  /\ polluted \in BOOLEAN /\ failed \in BOOLEAN
  /\ failures \in 0..MaxFailures /\ reboots \in 0..MaxReboots /\ kills \in 0..MaxKills

NoDevices ==
  /\ root = "rw"
  /\ vn = [v \in Vns |-> "none"]
  /\ mounted = [p \in Points |-> "none"]

Init ==
  /\ pc = 0
  /\ NoDevices
  /\ image = [size |-> "absent", clean |-> FALSE, has |-> Nothing, blessed |-> FALSE]
  /\ polluted = FALSE /\ failed = FALSE
  /\ failures = 0 /\ reboots = 0 /\ kills = 0

-----------------------------------------------------------------------------
\* The worker reaches line 247.
Launch ==
  /\ pc = 0
  /\ pc' = 1
  /\ failed' = FALSE
  /\ UNCHANGED <<devices, image, polluted, counts>>

\* The next command is c and its process ends.
Step(c) ==
  /\ pc \in DOMAIN Script /\ Script[pc].cmd = c
  /\ pc' = pc + 1
  /\ UNCHANGED <<failed, counts>>

A == Script[pc].a
B == Script[pc].b

IsMounted(v) == \E p \in Points : mounted[p] = v

Remount ==
  /\ Step("remount")
  /\ root' = A
  /\ UNCHANGED <<vn, mounted, image, polluted>>

\* The copy of /dev/rdisk0s1 is consistent if / was read-only all along.
Copied == [size |-> "right", clean |-> root = "ro",
           has |-> [Nothing EXCEPT !["old"] = "all"], blessed |-> TRUE]

\* Mutant of CopyRoot: 112.dd is reused whatever its size.
CopyRootIfMissing ==
  /\ Step("copyRoot")
  /\ image' = IF image.size = "absent" THEN Copied ELSE image
  /\ UNCHANGED <<devices, polluted>>

CopyRoot ==
  /\ Step("copyRoot")
  /\ image' = IF image.size = "right" THEN image ELSE Copied
  /\ UNCHANGED <<devices, polluted>>

\* vncontrol refuses a disk that is attached already, and a missing file.
Attach ==
  /\ Step("attach")
  /\ vn' = IF vn[A] = "none" /\ (B = "112.dd" => image.size # "absent")
           THEN [vn EXCEPT ![A] = B] ELSE vn
  /\ UNCHANGED <<root, mounted, image, polluted>>

Detach ==
  /\ Step("detach")
  /\ vn' = IF IsMounted(A) THEN vn ELSE [vn EXCEPT ![A] = "none"]
  /\ UNCHANGED <<root, mounted, image, polluted>>

\* A whole and consistent file system; disk0s1.dd is one (Acquire).
Mountable(v) ==
  CASE vn[v] = "none"       -> FALSE
    [] vn[v] = "disk0s1.dd" -> TRUE
    [] vn[v] = "112.dd"     -> image.size = "right" /\ image.clean

\* While 112.dd is mounted its file system counts as inconsistent.
Mount ==
  /\ Step("mount")
  /\ IF Mountable(A) /\ ~IsMounted(A) /\ mounted[B] = "none"
     THEN /\ mounted' = [mounted EXCEPT ![B] = A]
          /\ image' = [image EXCEPT !.clean = @ /\ vn[A] # "112.dd"]
     ELSE UNCHANGED <<mounted, image>>
  /\ UNCHANGED <<root, vn, polluted>>

\* umount -f, between two syncs.
Umount ==
  /\ Step("umount")
  /\ mounted' = [mounted EXCEPT ![A] = "none"]
  /\ image' = [image EXCEPT !.clean = @ \/ (A = "/mnt" /\ mounted[A] # "none")]
  /\ UNCHANGED <<root, vn, polluted>>

\* Mutant of Fsck: without -y nothing is repaired.
FsckAsks ==
  /\ Step("fsck")
  /\ UNCHANGED <<devices, image, polluted>>

\* fsck_hfs -y repairs a disk that is not mounted.
Fsck ==
  /\ Step("fsck")
  /\ image' = [image EXCEPT !.clean = @ \/ (~IsMounted(A) /\ vn[A] = "112.dd"
                                                        /\ image.size = "right")]
  /\ UNCHANGED <<devices, polluted>>

(***************************************************************************)
(* The commands that change what is under /mnt: the image if it is mounted *)
(* there, a directory of / if it is not.  Outcome(how) is the image after  *)
(* the command did "all" or "some" of its work.                            *)
(***************************************************************************)
Less(x) == IF x = "none" THEN "none" ELSE "some"

Outcome(how) ==
  CASE Script[pc].cmd = "nuke" ->
         [image EXCEPT !.has = IF how = "all" THEN Nothing
                               ELSE [l \in Layers |-> Less(image.has[l])],
                       !.blessed = FALSE]
    [] Script[pc].cmd = "ditto" ->
         [image EXCEPT !.has["sys"] = IF mounted["/mnt2"] = "none" THEN @ ELSE how]
    [] Script[pc].cmd = "jailbreak" ->    \* needs the directories of 1.1.3
         [image EXCEPT !.has["jb"] = IF image.has["sys"] = "all" THEN how ELSE "some"]
    [] Script[pc].cmd = "bless" ->
         [image EXCEPT !.blessed = how = "all" /\ image.has["sys"] = "all"]

Writers == {"nuke", "ditto", "jailbreak", "bless"}

\* What a command that did so much of its work has done.
Works(how) ==
  IF mounted["/mnt"] = "vn0"
  THEN image' = Outcome(how) /\ UNCHANGED polluted
  ELSE /\ polluted' = (polluted \/ Script[pc].cmd \in {"ditto", "jailbreak"})
       /\ UNCHANGED image

Write ==
  /\ \E c \in Writers : Step(c)
  /\ Works("all")
  /\ UNCHANGED devices

Command ==
  \/ Remount \/ CopyRoot \/ Attach \/ Detach \/ Mount \/ Umount \/ Fsck \/ Write

-----------------------------------------------------------------------------
(***************************************************************************)
(* What may go wrong.                                                      *)
(***************************************************************************)

\* The command under way stops half-way through.
HalfDone ==
  CASE Script[pc].cmd \in Writers ->
         \/ Works("some")
         \/ UNCHANGED <<image, polluted>>
    [] Script[pc].cmd = "copyRoot" ->
         /\ image' = IF image.size = "right" THEN image
                     ELSE [Copied EXCEPT !.size = "short", !.clean = FALSE]
         /\ UNCHANGED polluted
    [] OTHER -> UNCHANGED <<image, polluted>>

\* It fails (bless may have unmounted /mnt by then); the next one runs.
Fail ==
  /\ pc \in DOMAIN Script
  /\ failures < MaxFailures
  /\ failures' = failures + 1
  /\ failed' = TRUE
  /\ pc' = pc + 1
  /\ HalfDone
  /\ mounted' \in IF Script[pc].cmd = "bless"
                  THEN {mounted, [mounted EXCEPT !["/mnt"] = "none"]} ELSE {mounted}
  /\ UNCHANGED <<root, vn, reboots, kills>>

\* The device restarts: nothing is attached, nothing mounted, / writable.
Reboot ==
  /\ pc \in DOMAIN Script
  /\ reboots < MaxReboots
  /\ reboots' = reboots + 1
  /\ pc' = 0
  /\ HalfDone
  /\ root' = "rw"
  /\ vn' = [v \in Vns |-> "none"]
  /\ mounted' = [p \in Points |-> "none"]
  /\ UNCHANGED <<failed, failures, kills>>

\* The application is killed between two commands: the kernel's state stays.
Kill ==
  /\ pc \in DOMAIN Script
  /\ kills < MaxKills
  /\ kills' = kills + 1
  /\ pc' = 0
  /\ UNCHANGED <<devices, image, polluted, failed, failures, reboots>>

\* The image is handed over (Commit).
HandedOver == Done /\ UNCHANGED vars

Next == Launch \/ Command \/ Fail \/ Reboot \/ Kill \/ HandedOver

Spec == Init /\ [][Next]_vars

-----------------------------------------------------------------------------
\* If no command failed since the application was last started, the image that
\* goes to the partition is the finished one: 1.1.3 and the jailbreak complete,
\* nothing left of 1.1.2, blessed, consistent.  What earlier launches, cut off
\* by a restart or a kill anywhere, left in 112.dd, attached or mounted, does
\* not matter, although nothing but the size of 112.dd is looked at.
ImageRight == Done /\ ~failed => Finished(image)

\* The files of the new system are never copied into the running one: /mnt has
\* the image mounted on it whenever something is written there, unless some
\* command has failed.
RootUntouched == polluted => failures > 0

\* What is mounted is attached (TypeOK), and nothing stays so when the worker goes on
\* to rename 112.dd and, to restore the user's data, to attach vn1 a second time.
DevicesQuiet == TypeOK /\ (Done /\ ~failed => NoDevices)

=============================================================================
