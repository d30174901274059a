---------------------------- MODULE RecursiveCopy ----------------------------
(***************************************************************************)
(* utilities.c, safeRecursiveCopy() and its callback recursiveCopy(): how  *)
(* the new system was copied from /mnt2 into the image mounted on /mnt     *)
(* before ditto did it.  /mnt1 is a link to /mnt, so a file's new name is  *)
(* its old one with the 2 replaced by 1.  After every 30 MB, in the middle *)
(* of the walk, the image is unmounted, detached, attached and mounted     *)
(* again, for the sake of the buffer cache; no exit status is looked at.   *)
(***************************************************************************)
EXTENDS Naturals, FiniteSets, FiniteSetsExt

CONSTANTS
  Dirs, Files,   \* what is below /mnt2
  Top,           \* /mnt2 itself
  Parent,        \* the directory of an entry
  Size,          \* of a file
  Limit,         \* 30 MB
  MaxFailures    \* bound: commands that fail

Entries == Dirs \cup Files

TreeAssumption ==
  /\ Top \notin Entries /\ Dirs \cap Files = {}
  /\ Parent \in [Entries -> Dirs \cup {Top}]
  /\ Size \in [Files -> Nat] /\ IsFiniteSet(Files) /\ Files # {}
  /\ Limit \in Nat \ {0} /\ MaxFailures \in Nat

VARIABLES
  pc,            \* "walk", "umount", "detach", "attach", "mount" or "done"
  last,          \* the walk is over
  visited,       \* the entries the callback has been called for
  bytesCopied,
  attached, mounted,
  image, root,   \* what has been copied into the image; into / below it
  failed,        \* history: the commands that failed
  failures,
  unsynced       \* history: bytes written since the image was last unmounted

vars == <<pc, last, visited, bytesCopied, attached, mounted, image, root,
          failed, failures, unsynced>>
disk  == <<attached, mounted>>
trees == <<image, root>>

Init ==
  /\ pc = "walk" /\ last = FALSE /\ visited = {Top} /\ bytesCopied = 0
  /\ attached = TRUE /\ mounted = TRUE
  /\ image = {Top} /\ root = {Top}
  /\ failed = {} /\ failures = 0 /\ unsynced = 0

Bytes(e) == IF e \in Files THEN Size[e] ELSE 0

Fails(c) == /\ failures < MaxFailures /\ failures' = failures + 1
            /\ failed' = failed \cup {c}

Succeeds == UNCHANGED <<failures, failed>>

-----------------------------------------------------------------------------
\* mkdir or cp -a: into the image if it is mounted, else into the directory of /;
\* nothing if the parent is not there.
Put(e) ==
  /\ image' = IF mounted /\ Parent[e] \in image THEN image \cup {e} ELSE image
  /\ root'  = IF ~mounted /\ Parent[e] \in root THEN root \cup {e} ELSE root

Full == bytesCopied' >= Limit

\* Mutant of Count: only what was copied is counted.
CountCopied(e) == bytesCopied' = bytesCopied + (IF image' # image THEN Bytes(e) ELSE 0)

\* Counted whether it was copied or not.
Count(e) == bytesCopied' = bytesCopied + Bytes(e)

\* The callback: for a directory before what is in it, otherwise in any order.
Visit(e) ==
  /\ pc = "walk"
  /\ e \in Entries \ visited /\ Parent[e] \in visited
  /\ visited' = visited \cup {e}
  /\ \/ Succeeds /\ Put(e)
     \/ Fails("copy") /\ UNCHANGED trees
  /\ unsynced' \in IF image' # image          THEN {unsynced + Bytes(e)}
                   ELSE IF mounted /\ failures' # failures THEN unsynced..(unsynced + Bytes(e))
                   ELSE {unsynced}
  /\ Count(e)
  /\ pc' = IF e \in Files /\ Full THEN "umount" ELSE "walk"
  /\ UNCHANGED <<last, disk>>

WalkEnds ==
  /\ pc = "walk" /\ visited = Entries \cup {Top}
  /\ pc' = "umount" /\ last' = TRUE
  /\ UNCHANGED <<visited, bytesCopied, disk, trees, failed, failures, unsynced>>

Command(c, next) ==
  /\ pc = c /\ pc' = next
  /\ UNCHANGED <<visited, trees, last>>

Umount ==
  /\ Command("umount", "detach")
  /\ \/ Succeeds /\ mounted' = FALSE /\ unsynced' = 0
     \/ Fails("umount") /\ UNCHANGED <<mounted, unsynced>>
  /\ UNCHANGED <<attached, bytesCopied>>

\* A mounted disk is not detached.
Detach ==
  /\ Command("detach", "attach")
  /\ \/ Succeeds /\ attached' = (attached /\ mounted)
     \/ Fails("detach") /\ UNCHANGED attached
  /\ UNCHANGED <<mounted, bytesCopied, unsynced>>

Attach ==
  /\ Command("attach", "mount")
  /\ \/ Succeeds /\ attached' = TRUE
     \/ Fails("attach") /\ UNCHANGED attached
  /\ UNCHANGED <<mounted, bytesCopied, unsynced>>

\* A mounted disk stays mounted, one that is not attached is not mounted.
Mount ==
  /\ Command("mount", IF last THEN "done" ELSE "walk")
  /\ bytesCopied' = 0
  /\ \/ Succeeds /\ mounted' = attached
     \/ Fails("mount") /\ UNCHANGED mounted
  /\ UNCHANGED <<attached, unsynced>>

Ended == pc = "done" /\ UNCHANGED vars

Walk ==
  \/ \E e \in Entries : Visit(e)
  \/ WalkEnds \/ Umount \/ Detach \/ Attach \/ Mount

Spec == Init /\ [][Walk \/ Ended]_vars

-----------------------------------------------------------------------------
TypeOK ==
  /\ pc \in {"walk", "umount", "detach", "attach", "mount", "done"}
  /\ last \in BOOLEAN /\ bytesCopied \in Nat /\ unsynced \in Nat
  /\ {visited, image, root} \subseteq SUBSET (Entries \cup {Top})
  /\ attached \in BOOLEAN /\ mounted \in BOOLEAN /\ (mounted => attached)
  /\ failed \subseteq {"copy", "umount", "detach", "attach", "mount"}
  /\ failures \in 0..MaxFailures

\* If no command fails, the remounts in the middle of the walk lose nothing.
CopiesAll == pc = "done" /\ failed = {} => image = visited /\ mounted

\* A file is copied into the running system, below the mount point, only after the
\* image could not be attached or mounted again.
RootUntouched == root # {Top} => failed \cap {"attach", "mount"} # {}

\* The largest file.
Biggest == Max({Size[f] : f \in Files})

\* What waits in the buffer cache is less than 30 MB and one file, unless the image
\* could not be unmounted.
CacheBounded == "umount" \notin failed => unsynced < Limit + Biggest

\* The files that are missing in a directory that is not.
Missing == {f \in Files \cap visited : f \notin image /\ Parent[f] \in image}

\* A command that fails costs at most one batch, because the next remount makes up for
\* it, except below directories that were not made.
LossBounded == MapThenSumSet(Bytes, Missing) <= failures * (Limit - 1 + Biggest)
=============================================================================
