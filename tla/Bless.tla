--------------------------------- MODULE Bless ---------------------------------
(***************************************************************************)
(* bless.c: the four fields of an HFS+ volume header and of its backup     *)
(* that name the system folder are set to the inode of CoreServices.  The  *)
(* tool unmounts the volume, writes the fields through one stdio stream    *)
(* and mounts the volume again; every system call may fail, and then it    *)
(* exits at once.  It is run again by a later launch of Upgrade.app, for a *)
(* system that has been copied anew and has another inode.                 *)
(***************************************************************************)
EXTENDS Naturals

CONSTANT MaxRuns   \* bound: how many times bless is run

ASSUME BlessAssumption == MaxRuns \in Nat \ {0}

\* systemFolderId and osxSystemFolderId of the header, then of the backup.
Fields == 1..4

VARIABLES
  pc,       \* the next system call of the tool
  run,      \* the number of this run; it stands for the inode it writes
  mount,    \* how the volume is mounted, or "no"
  mode,     \* how it was mounted when the tool began: readOnly
  hdr,      \* for each field, the run whose inode is on the disk; 0 at first
  k,        \* the field to write next; field k - 1 is in the stream's buffer
  status,   \* the exit status of the last run that ended, 2 before
  lost      \* whether fclose could not write the last field in this run

vars == <<pc, run, mount, mode, hdr, k, status, lost>>

TypeOK ==
  /\ pc \in {"idle", "check", "unmount", "open", "fields", "close", "mount"}
  /\ run \in 0..MaxRuns
  /\ mount \in {"no", "ro", "rw"} /\ mode \in {"ro", "rw"}
  /\ hdr \in [Fields -> 0..run]
  /\ k \in 1..5
  /\ status \in 0..2 /\ lost \in BOOLEAN
  /\ pc = "fields" => k \in Fields

Init ==
  /\ pc = "idle" /\ run = 0
  /\ mount = "no" /\ mode = "rw"
  /\ hdr = [f \in Fields |-> 0]
  /\ k = 1 /\ status = 2 /\ lost = FALSE

-----------------------------------------------------------------------------
\* The volume is mounted and the tool is started on it.
Start ==
  /\ pc = "idle" /\ run < MaxRuns
  /\ pc' = "check"
  /\ run' = run + 1
  /\ mode' \in {"ro", "rw"} /\ mount' = mode'
  /\ k' = 1 /\ lost' = FALSE
  /\ UNCHANGED <<hdr, status>>

Goes(here, there) == pc = here /\ pc' = there /\ UNCHANGED <<run, mode>>

Exits(here, s) == Goes(here, "idle") /\ status' = s

\* statfs, stat, the old fields read and printed: lines 25-79.
Check ==
  /\ \/ Goes("check", "unmount") /\ UNCHANGED status
     \/ Exits("check", 1)
  /\ UNCHANGED <<mount, hdr, k, lost>>

\* Mutant of Unmount: its result is not looked at.
UnmountUnchecked ==
  /\ Goes("unmount", "open")
  /\ mount' \in {mount, "no"}
  /\ UNCHANGED <<hdr, k, status, lost>>

Unmount ==
  /\ \/ Goes("unmount", "open") /\ mount' = "no" /\ UNCHANGED status
     \/ Exits("unmount", 1) /\ UNCHANGED mount
  /\ UNCHANGED <<hdr, k, lost>>

Open ==
  /\ \/ Goes("open", "fields") /\ UNCHANGED status
     \/ Exits("open", 1)
  /\ UNCHANGED <<mount, hdr, k, lost>>

\* What the buffer holds reaches the disk.
Flushed == IF k = 1 THEN hdr ELSE [hdr EXCEPT ![k - 1] = run]

\* fseek writes out the field before this one; fwrite puts this one in the buffer.
Field ==
  /\ Goes("fields", IF k = 4 THEN "close" ELSE "fields")
  /\ hdr' = Flushed
  /\ k' = k + 1
  /\ UNCHANGED <<mount, status, lost>>

\* Mutant of FieldFails: the error is reported and the next field written.
FieldFailsGoesOn ==
  /\ Goes("fields", IF k = 4 THEN "close" ELSE "fields")
  /\ k' = k + 1
  /\ UNCHANGED <<mount, hdr, status, lost>>

\* Either fails.  The stream is not closed, and exit tries to write it out.
FieldFails ==
  /\ Exits("fields", 1)
  /\ hdr' \in {hdr, Flushed}
  /\ UNCHANGED <<mount, k, lost>>

\* fclose writes out the last field; nobody looks whether it could.
Close ==
  /\ Goes("close", "mount")
  /\ \/ hdr' = Flushed /\ UNCHANGED lost
     \/ lost' = TRUE /\ UNCHANGED hdr
  /\ UNCHANGED <<mount, k, status>>

\* Mutant of Mount: the volume is always mounted read-write.
MountWritable ==
  /\ \/ Exits("mount", 0) /\ mount' = "rw"
     \/ Exits("mount", 1) /\ UNCHANGED mount
  /\ UNCHANGED <<hdr, k, lost>>

Mount ==
  /\ \/ Exits("mount", 0) /\ mount' = mode
     \/ Exits("mount", 1) /\ UNCHANGED mount
  /\ UNCHANGED <<hdr, k, lost>>

\* The device restarts; stdio's buffer is lost with the process.
Crash ==
  /\ pc # "idle"
  /\ Goes(pc, "idle")
  /\ mount' = "no"
  /\ UNCHANGED <<hdr, k, status, lost>>

Finished == pc = "idle" /\ run = MaxRuns /\ UNCHANGED vars

Next ==
  \/ Start \/ Check \/ Unmount \/ Open \/ Field \/ FieldFails \/ Close \/ Mount
  \/ Crash \/ Finished

Spec == Init /\ [][Next]_vars

-----------------------------------------------------------------------------
\* The header of a volume is never written under a mounted file system.
WrittenUnmounted == [][hdr' # hdr => mount = "no" /\ mount' = "no"]_vars

\* The backup is never ahead of the header, nor a second field ahead of a first,
\* whatever failed and however often the tool was cut off and run again: a header
\* that fsck has to repair is repaired towards the older system, never to a mix
\* that no run wrote in this order.
InOrder == \A f, g \in Fields : f < g => hdr[f] >= hdr[g]

\* Exit status 0 means that all four fields name this run's folder, whatever the
\* runs before it left, and that the volume is mounted as it was: except for the
\* last field, whose failure to be written is the one that goes unnoticed.
SuccessIsComplete ==
  [][pc = "mount" /\ pc' = "idle" /\ status' = 0 /\ mount' # "no" =>
       /\ mount' = mode
       /\ \A f \in Fields : hdr[f] = run \/ (f = 4 /\ lost)]_vars

=============================================================================
