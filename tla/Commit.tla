-------------------------------- MODULE Commit --------------------------------
(***************************************************************************)
(* How the finished image gets onto /dev/rdisk0s1: the worker thread of    *)
(* Upgrade.app from the moment disk0s1.dd is there to its last line        *)
(* (UpgradeApplication.m, lines 247-384 and writeimage(), lines 31-55) and *)
(* the writeimage job that launchd runs beside it (writeimage.c).          *)
(*                                                                         *)
(* The job binds /progress.sock on the root file system and waits for a    *)
(* client; the worker moves the image to the place the job reads it from,  *)
(* remounts the root file system read-only and connects.  Nothing else     *)
(* keeps the two in step, and no call of either is checked.                *)
(*                                                                         *)
(* What comes before (Acquire) and the building of the image are one step  *)
(* each here.                                                              *)
(***************************************************************************)
EXTENDS Naturals

CONSTANTS
  Chunks,    \* bound: reads that make up the image (300 of 1 MB in the code)
  Budget     \* bound: how many mishaps of each kind a behaviour may have

Mishaps == {"reboot", "kill", "fault"}

ASSUME CommitAssumption ==
  Chunks \in Nat \ {0} /\ Budget \in [Mishaps -> Nat]

VARIABLES
  device,    \* "on", "upgraded" (booted the written image) or "dead"
  worker,    \* the next step of the worker; "off" without the application
  restore,   \* the answer to "restore your device?"
  root,      \* how / is mounted
  dd, work,  \* what disk0s1.dd and 112.dd hold
  user,      \* what /private/var holds of the user's data
  daemon,    \* the next step of the writeimage job
  peer,      \* the connection the job accepted
  queue,     \* the connection waiting to be accepted (backlog 1)
  opened,    \* what disk0s1.dd held when the job opened it
  spoiled,   \* a write of this copy failed: what follows lands in the wrong place
  bad,       \* the chunk of disk0s1.dd that cannot be read; 0: none
  sent, received,  \* progress messages of the job, and those the worker read
  raw,       \* what /dev/rdisk0s1 holds
  budget,    \* mishaps left
  harm       \* history: the mishaps nothing in the code guards against

disk    == <<root, dd, work, user, raw, bad>>
channel == <<peer, queue, sent, received>>
copy    == <<opened, spoiled>>
others  == <<budget, harm>>
vars == <<device, worker, restore, disk, daemon, copy, channel, others>>

Ends    == {"announced", "spinning"}
Workers == {"off", "freeze", "copyRoot", "thaw", "build", "submit", "clear",
            "refill", "migrate", "unlink", "rename", "remount", "connect",
            "recv"} \cup Ends
Daemons == {"none", "starting", "bound", "listening", "open", "copying"}
Ears    == {"none", "live", "dead"}

TypeOK ==
  /\ device \in {"on", "upgraded", "dead"}
  /\ worker \in Workers
  /\ restore \in BOOLEAN
  /\ root \in {"rw", "ro"}
  /\ dd \in {"absent", "base", "final"}
  /\ work \in {"absent", "old", "final"}
  /\ user \in {"original", "cleared", "fresh", "empty", "migrated", "lost"}
  /\ daemon \in Daemons
  /\ peer \in Ears /\ queue \in Ears
  /\ opened \in {"none", "base", "final"} /\ spoiled \in BOOLEAN
  /\ sent \in 0..Chunks /\ received \in 0..sent
  /\ raw \in {"old", "torn", "base", "final"} /\ bad \in 0..Chunks
  /\ budget \in [Mishaps -> Nat]
  /\ harm \subseteq {"writable", "frozen", "relaunched", "overlap"}

Init ==
  /\ device = "on" /\ worker = "off" /\ restore = FALSE
  /\ root = "rw" /\ dd = "base" /\ work = "absent"
  /\ user = "original" /\ raw = "old" /\ bad = 0
  /\ daemon = "none" /\ peer = "none" /\ queue = "none"
  /\ opened = "none" /\ spoiled = FALSE /\ sent = 0 /\ received = 0
  /\ budget = Budget /\ harm = {}

-----------------------------------------------------------------------------
(***************************************************************************)
(* The worker.                                                             *)
(***************************************************************************)

At(here, there) == device = "on" /\ worker = here /\ worker' = there

\* Spending one mishap of kind m.
Spend(m) == budget[m] > 0 /\ budget' = [budget EXCEPT ![m] = @ - 1]

\* mount -o <mode> / ; a failing mount is not noticed.
RemountRoot(mode, h) ==
  \/ root' = mode /\ UNCHANGED others
  \/ Spend("fault") /\ harm' = harm \cup {h} /\ UNCHANGED root

\* The application starts, asks its question and leaves disk0s1.dd in place.
Launch ==
  /\ At("off", "freeze")
  /\ restore' \in BOOLEAN
  /\ dd' = IF dd = "absent" THEN "base" ELSE dd
  /\ harm' = harm \cup (IF dd = "final" THEN {"relaunched"} ELSE {})
                  \cup (IF daemon # "none" THEN {"overlap"} ELSE {})
  /\ UNCHANGED <<device, root, work, user, raw, bad, daemon, copy, channel, budget>>

Freeze ==
  /\ At("freeze", "copyRoot")
  /\ RemountRoot("ro", "writable")
  /\ UNCHANGED <<device, restore, dd, work, user, raw, bad, daemon, copy, channel>>

\* 112.dd of the right size is reused, whatever it holds.
CopyRoot ==
  /\ At("copyRoot", "thaw")
  /\ work' = IF work = "absent" THEN "old" ELSE work
  /\ UNCHANGED <<device, restore, root, dd, user, raw, bad, daemon, copy, channel, others>>

Thaw ==
  /\ At("thaw", "build")
  /\ RemountRoot("rw", "frozen")
  /\ UNCHANGED <<device, restore, dd, work, user, raw, bad, daemon, copy, channel>>

\* Mutant of Build: vn0 and vn1 are swapped, disk0s1.dd is customised.
BuildInPlace ==
  /\ At("build", "submit")
  /\ work' = "final" /\ dd' = "final"
  /\ UNCHANGED <<device, restore, root, user, raw, bad, daemon, copy, channel, others>>

\* Everything from the first vncontrol to the last.
Build ==
  /\ At("build", "submit")
  /\ work' = "final"
  /\ UNCHANGED <<device, restore, root, dd, user, raw, bad, daemon, copy, channel, others>>

AfterSubmit == IF restore THEN "clear" ELSE "migrate"

\* launchctl submit: a job already submitted since the last boot stays as it is.
Submit ==
  /\ At("submit", AfterSubmit)
  /\ \/ daemon' = (IF daemon = "none" THEN "starting" ELSE daemon) /\ UNCHANGED budget
     \/ Spend("fault") /\ UNCHANGED daemon
  /\ UNCHANGED <<device, restore, disk, copy, channel, harm>>

Clear ==
  /\ At("clear", "refill")
  /\ user' = "cleared"
  /\ UNCHANGED <<device, restore, root, dd, work, raw, bad, daemon, copy, channel, others>>

\* ditto of the image's own private/var, which the building of "final" emptied.
Refill ==
  /\ At("refill", "unlink")
  /\ user' = IF dd = "base" THEN "fresh" ELSE "empty"
  /\ UNCHANGED <<device, restore, root, dd, work, raw, bad, daemon, copy, channel, others>>

\* migrate.sh removes mobile/Library and moves root/Library there: the second
\* time it removes what the first moved.
Migrate ==
  /\ At("migrate", "unlink")
  /\ user' = CASE user = "original" -> "migrated"
               [] user = "migrated" -> "lost"
               [] OTHER             -> user
  /\ UNCHANGED <<device, restore, root, dd, work, raw, bad, daemon, copy, channel, others>>

Unlink ==
  /\ At("unlink", "rename")
  /\ dd' = "absent" /\ bad' = 0
  /\ UNCHANGED <<device, restore, root, work, user, raw, daemon, copy, channel, others>>

\* Mutant of Rename: the image stays where it is.
RenameForgotten ==
  /\ At("rename", "remount")
  /\ UNCHANGED <<device, restore, disk, daemon, copy, channel, others>>

Rename ==
  /\ At("rename", "remount")
  /\ dd' = work
  /\ work' = "absent"
  /\ UNCHANGED <<device, restore, root, user, raw, bad, daemon, copy, channel, others>>

\* Mutant of Remount: the mount is forgotten.
RemountForgotten ==
  /\ At("remount", "connect")
  /\ UNCHANGED <<device, restore, disk, daemon, copy, channel, others>>

Remount ==
  /\ At("remount", "connect")
  /\ RemountRoot("ro", "writable")
  /\ UNCHANGED <<device, restore, dd, work, user, raw, bad, daemon, copy, channel>>

\* A job that reached listen() holds the socket until it dies.
Listening == daemon = "listening" \/ (daemon \in {"open", "copying"} /\ peer # "none")

\* A failed connect is reported and ignored: recv then leaves written and size
\* uninitialised, and the loop ends at once or never.
Connect ==
  /\ device = "on" /\ worker = "connect"
  /\ IF Listening /\ queue = "none"
     THEN worker' = "recv" /\ queue' = "live"
     ELSE worker' \in Ends /\ UNCHANGED queue
  /\ UNCHANGED <<device, restore, disk, daemon, copy, peer, sent, received, others>>

\* Mutant of Receive: the loop ends one message early.
ReceiveOneLess ==
  /\ device = "on" /\ worker = "recv" /\ peer = "live" /\ received < sent
  /\ received' = received + 1
  /\ worker' = IF received' + 1 >= Chunks THEN "announced" ELSE "recv"
  /\ UNCHANGED <<device, restore, disk, daemon, copy, peer, queue, sent, others>>

\* One (written, size) pair; the loop ends when written reaches size.
Receive ==
  /\ device = "on" /\ worker = "recv"
  /\ peer = "live" /\ received < sent
  /\ received' = received + 1
  /\ worker' = IF received' >= Chunks THEN "announced" ELSE "recv"
  /\ UNCHANGED <<device, restore, disk, daemon, copy, peer, queue, sent, others>>

WorkerStep ==
  \/ Freeze \/ CopyRoot \/ Thaw \/ Build \/ Submit \/ Clear \/ Refill \/ Migrate
  \/ Unlink \/ Rename \/ Remount \/ Connect \/ Receive

-----------------------------------------------------------------------------
(***************************************************************************)
(* The writeimage job.                                                     *)
(***************************************************************************)

\* Mutant of Bind: the job does not wait for a client.
BindNoClient ==
  /\ device = "on" /\ daemon = "starting"
  /\ daemon' = "open"
  /\ UNCHANGED <<device, worker, restore, disk, copy, channel, others>>

\* Mutant of Bind: the socket is put where it can always be bound (/private/var).
BindAnywhere ==
  /\ device = "on" /\ daemon = "starting"
  /\ daemon' = "bound"
  /\ UNCHANGED <<device, worker, restore, disk, copy, channel, others>>

\* unlink and bind need a writable /.  Without a bound socket listen and accept
\* fail at once, unnoticed, and the copy starts without a client.
Bind ==
  /\ device = "on" /\ daemon = "starting"
  /\ daemon' = IF root = "rw" THEN "bound" ELSE "open"
  /\ UNCHANGED <<device, worker, restore, disk, copy, channel, others>>

Listen ==
  /\ device = "on" /\ daemon = "bound"
  /\ daemon' = "listening"
  /\ UNCHANGED <<device, worker, restore, disk, copy, channel, others>>

\* A connection whose client died while it waited is accepted like any other.
Accept ==
  /\ device = "on" /\ daemon = "listening" /\ queue # "none"
  /\ daemon' = "open"
  /\ peer' = queue
  /\ queue' = "none"
  /\ UNCHANGED <<device, worker, restore, disk, copy, sent, received, others>>

\* Mutant of Dies: launchd does not start the job again.
DiesForGood ==
  /\ daemon' = "none"
  /\ opened' = "none" /\ spoiled' = FALSE
  /\ peer' = "none" /\ queue' = "none"
  /\ sent' = 0 /\ received' = 0
  /\ worker' \in IF "live" \in {peer, queue} THEN Ends ELSE {worker}

\* The job dies; launchd starts it again.  A client that waits for a message reads
\* an end of file, and looks at what it read before or at nothing.
Dies ==
  /\ daemon' = "starting"
  /\ opened' = "none" /\ spoiled' = FALSE
  /\ peer' = "none" /\ queue' = "none"
  /\ sent' = 0 /\ received' = 0
  /\ worker' \in IF "live" \in {peer, queue} THEN Ends ELSE {worker}

\* fopen of the image and of the partition: if either fails, fileno of a null FILE
\* kills the job.
Open ==
  /\ device = "on" /\ daemon = "open"
  /\ \/ dd # "absent" /\ daemon' = "copying" /\ opened' = dd
        /\ UNCHANGED <<worker, peer, queue, sent, received, spoiled, budget>>
     \/ dd = "absent" /\ Dies /\ UNCHANGED budget
     \/ dd # "absent" /\ Spend("fault") /\ Dies
  /\ UNCHANGED <<device, restore, disk, harm>>

\* One round of the loop: the next chunk goes to the partition and is announced,
\* whatever fwrite said; SIGPIPE if the client is gone.  After a failing write the
\* position in the partition stays behind the one in the image.
Round(fails) ==
  /\ raw' \in IF fails THEN {raw, "torn"}
             ELSE {IF sent + 1 = Chunks THEN opened ELSE "torn"}
  /\ IF peer = "dead"
     THEN Dies
     ELSE /\ sent' = sent + 1 /\ spoiled' = fails
          /\ UNCHANGED <<worker, daemon, opened, peer, queue, received>>

Write ==
  /\ device = "on" /\ daemon = "copying" /\ sent < Chunks /\ sent + 1 # bad
  /\ \/ Round(spoiled) /\ UNCHANGED budget
     \/ ~spoiled /\ Spend("fault") /\ Round(TRUE)
  /\ UNCHANGED <<device, restore, root, dd, work, user, bad, harm>>

\* The next chunk turns out to be unreadable; what fread got of it is written.  (An
\* error that passes costs nothing: the next fread goes on where this one ended.)
ReadFails ==
  /\ device = "on" /\ daemon = "copying" /\ sent < Chunks /\ bad = 0
  /\ Spend("fault")
  /\ bad' = sent + 1
  /\ raw' \in {raw, "torn"}
  /\ UNCHANGED <<device, worker, restore, root, dd, work, user, daemon, copy, channel, harm>>

\* A round that reads nothing announces the old number: once at the end of the file,
\* for ever before a chunk that cannot be read, because feof is not true there.
ReadNothing ==
  /\ device = "on" /\ daemon = "copying"
  /\ sent = Chunks \/ sent + 1 = bad
  /\ IF peer = "dead"
     THEN Dies
     ELSE UNCHANGED <<worker, daemon, copy, channel>>
  /\ UNCHANGED <<device, restore, disk, others>>

\* The device restarts: only the files and the partition survive.
Boot ==
  /\ device' = CASE raw = "old"  -> "on"
                 [] raw = "torn" -> "dead"
                 [] OTHER        -> "upgraded"
  /\ dd' = IF raw = "final" THEN "absent" ELSE dd   \* com.devteam.rm.plist
  /\ worker' = "off" /\ root' = "rw"
  /\ daemon' = "none" /\ opened' = "none" /\ spoiled' = FALSE
  /\ peer' = "none" /\ queue' = "none" /\ sent' = 0 /\ received' = 0
  /\ UNCHANGED <<restore, work, user, raw, bad>>

\* Mutant of Finish: the loop also ends when ferror is true.
FinishAnyhow ==
  /\ device = "on" /\ daemon = "copying" /\ (sent = Chunks \/ sent + 1 = bad)
  /\ Boot
  /\ UNCHANGED others

\* sync, sync, sync, reboot(RB_NOSYNC): after the last round, whatever the writes did.
Finish ==
  /\ device = "on" /\ daemon = "copying" /\ sent = Chunks
  /\ Boot
  /\ UNCHANGED others

DaemonStep ==
  Bind \/ Listen \/ Accept \/ Open \/ Write \/ ReadFails \/ ReadNothing \/ Finish

-----------------------------------------------------------------------------
(***************************************************************************)
(* What may happen to them.                                                *)
(***************************************************************************)

\* The application is killed; its connection is closed.
Hear(e) == IF e = "live" THEN "dead" ELSE e

Kill ==
  /\ device = "on" /\ worker # "off"
  /\ Spend("kill")
  /\ worker' = "off"
  /\ peer' = Hear(peer) /\ queue' = Hear(queue)
  /\ UNCHANGED <<device, restore, disk, daemon, copy, sent, received, harm>>

\* The user or the battery restarts the device.
Reboot ==
  /\ device = "on"
  /\ Spend("reboot")
  /\ Boot
  /\ UNCHANGED harm

\* Where nothing is left to happen: the device runs the written image or none,
\* or the worker missed the job, and each waits for the other.
Stopped ==
  /\ \/ device # "on"
     \/ worker \in Ends /\ daemon \in {"none", "listening"}
  /\ UNCHANGED vars

Next == Launch \/ WorkerStep \/ DaemonStep \/ Kill \/ Reboot \/ Stopped

Spec == Init /\ [][Next]_vars /\ WF_vars(WorkerStep) /\ WF_vars(DaemonStep)

-----------------------------------------------------------------------------
(***************************************************************************)
(* What the handshake achieves.                                            *)
(***************************************************************************)

\* The partition / is mounted from is written only while / is mounted read-only,
\* whatever the order in which the job and the worker run: unless a remount
\* failed, or the application was started a second time beside the job.
RawWrittenReadOnly ==
  [][raw' # raw => root = "ro" \/ harm \cap {"writable", "overlap"} # {}]_vars

\* What the job copies is the customised image, never the 1.1.3 image that has
\* the same name until line 366: also when the job starts late, finds / read-only
\* and does not wait for the worker at all.  Nor does it ever open disk0s1.dd between
\* the unlink and the rename.
FlashesFinal ==
  (daemon = "copying" /\ opened # "final") \/ (daemon = "open" /\ dd = "absent")
    => harm \cap {"frozen", "overlap"} # {}

\* A worker that read its way to the last progress message of a job that is still
\* there knows that the partition holds a whole image, if no write of that copy failed:
\* what the job announces is what it read, not what it wrote.
HeardToTheEnd ==
  worker = "announced" /\ peer = "live" => raw \in {"base", "final"} \/ spoiled

\* The user's data is replaced by the contents of the 1.1.3 image, not by those
\* of the customised image (whose private/var is empty), in every launch that
\* did not find an image that an earlier launch had already put in place.
RestoredFromBase == user = "empty" => "relaunched" \in harm

\* Once a client has connected, the image will be written, even if the
\* application is killed the next moment and the job dies of SIGPIPE with it:
\* launchd starts the job again, / is read-only by then, so that bind fails and
\* the job copies the image from its first byte without waiting for anybody.
\* A failing fopen only starts the job once more.  A restart of the device (the job is
\* gone; after failed writes its own restart) prevents it, and a chunk that cannot be
\* read, which the job tries again for ever.
ConnectionCommits ==
  (queue # "none") ~> \/ raw = "final"
                      \/ daemon = "none" \/ bad # 0
                      \/ harm \cap {"writable", "overlap"} # {}

\* recv's result is ignored, and a job that died would leave the worker looping on
\* old numbers (line 48): but the job does not die while a live worker waits for its
\* messages, however late it starts, because it finds the image when it opens it;
\* unless that very fopen fails.
JobOutlivesItsClient ==
  [][worker = "recv" /\ worker' \in Ends /\ daemon' = "starting"
       => (daemon = "open" /\ budget' # budget)
            \/ harm \cap {"frozen", "overlap"} # {}]_vars

-----------------------------------------------------------------------------
(***************************************************************************)
(* The upgrade this implements: the partition is written once the job gets *)
(* past the socket; kills, failing submits, failing opens and unreadable   *)
(* images are nothing to it.  It is excused from a copy in which a write   *)
(* failed until that copy has ended, and for good after a remount that     *)
(* failed or a launch beside the job.                                      *)
(***************************************************************************)
Excused == harm \cap {"writable", "frozen", "overlap"} # {} \/ spoiled

Promise == INSTANCE Upgrade WITH
  part    <- IF raw = "final" THEN "new" ELSE IF raw = "base" THEN "other" ELSE raw,
  power   <- IF device = "upgraded" THEN "up" ELSE device,
  faults  <- Budget["reboot"] - budget["reboot"],
  excused <- Excused,
  stuck   <- bad # 0

\* The device never restarts itself before the image is whole, not even when the
\* image cannot be read to its end: only when a write of this copy failed, which
\* nobody notices.  The old system and the 1.1.3 image never get where the new one
\* belongs, and a device left dead was restarted from outside between the first chunk
\* and the last, or had such a write.
KeepsPromise == Promise!Safe

\* Once the first chunk is written, the whole image will be, whoever is killed, as
\* long as the image can be read and no write fails.
WritingGoesOn == Promise!Live

-----------------------------------------------------------------------------
(***************************************************************************)
(* What the program tells its user, and what is not so.                    *)
(***************************************************************************)

\* After "Attempting to reboot..." (line 378) the device restarts.
AnnouncedReboots == (worker = "announced") ~> (device # "on")

\* "Would you like to restore your device (recommended)? All content, settings
\* and music will be deleted." (line 114): not if the answer is no.
KeptUnlessAsked == [][user' = "lost" /\ user # "lost" => restore]_vars

=============================================================================
