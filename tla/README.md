# A verification project for the 1.1.2 → 1.1.3 upgrade tools

The repository upgrades a jailbroken iPhone or iPod touch from system 1.1.2 to
1.1.3. It replaces the root partition of the device *while the device is running
from it*. Two programs do the same job: `Upgrade.app`, started by tapping an icon,
and the shell script `jb113.sh`. Both drive small tools (`vfdecrypt`, `dmg2img`,
`bless`, `writeimage`) and the system's own (`mount`, `vncontrol`, `ditto`, `rm`,
`launchctl`). Nearly no exit status is looked at, and everything survives a restart
except the processes: what these models are about is which orders of steps,
failures, kills and restarts this tolerates.

## 1. Inventory

| Component | Source | State it keeps | Operations | Hard behaviour |
|---|---|---|---|---|
| Image acquisition | `UpgradeApplication.m` 59-122, 124-245 | `restore.zip`, `x/…dmg`, `decrypted.dmg`, `disk0s1.dd` in `/private/var`, the room beside them | test the space, ask, adopt the user's files, download, extract, decrypt, decompress, remove inputs, abort | restart or failure in a stage, existence tests only, leftovers that take the space |
| Image building | `UpgradeApplication.m` 247-322, `globscript.sh` | `112.dd`, vnode disks, mounts, mode of `/`, `xtmp` | attach, mount, fsck, rm, ditto, customise, umount, detach, bless | unchecked commands, a half-built `112.dd` reused, leftovers of a cut run |
| Commit | `UpgradeApplication.m` 324-384 and 31-55, `writeimage.c` | user data, `disk0s1.dd`, `/dev/rdisk0s1`, the socket | submit the job, restore or migrate, rename, remount, connect, copy, restart | two processes and launchd, SIGPIPE, races, unchecked reads and writes, restart |
| Migration | `migrate.sh`, `jb113.sh` 192-213 | the user's files under `/private/var` | mkdir, mv, rm | a cut between two commands, a second run |
| Running commands | `utilities.c` 406-502, `UpgradeApplication.m` 386-425 | child processes, SIGCHLD action, text requests | fork, poll, handle SIGCHLD, show progress | two threads, asynchronous signals |
| bless | `bless.c` | volume header and its backup, stdio buffer, the mount | check, unmount, write four fields, mount | failure or restart between any two calls |
| jb113.sh | `jb113.sh` | the same files as the acquisition, vn0 | clean up, check space, four checked tools, attach, mount, customise, migrate, write | tools that return 0 after failing, leftovers of earlier runs |
| vfdecrypt | `vfdecrypt.c` | chunk number, position in the output, keys | read a header, unwrap the keys, decrypt chunks, cut the last | short input, wrong pass phrase, unsigned differences |
| dmg2img | `dmg2img.c`, `base64.c` | position in the input and output, block table, two buffers | find and decode tables, inflate, copy, zero | table boundaries, a failed read leaves an earlier block, damaged blocks and other errors that return 0 |
| File copies | `utilities.c` (`fileCopySimple`, `fileCopy`), `writeimage.c` | position, `feof` | read, write, announce | read and write errors nobody looks at |
| HTTP client | `utilities.c` 230-350 | one buffer, the length announced, two descriptors | request, find the header's end, append | answers cut into reads anywhere, closed early |
| `recursiveCopy` | `utilities.c` 53-150 | the walk, bytes since the last remount, the mount | copy an entry, remount | the target is remounted in the middle of an open walk |
| User interface | `UpgradeApplication.m` 59-122, 386-457 | answers, progress text | questions, alerts, progress | main thread against worker |
| `killcmd`, `fixPerms`, `getSize`; queries of the device; `approot`; build files | `utilities.c`, `activationState.m` … | none | — | — |

The components interact through files (`disk0s1.dd` and `112.dd` are handed from
acquisition to building to commit, and read by the `writeimage` job;
`decrypted.dmg` from `vfdecrypt` to `dmg2img`), the socket `/progress.sock`, the
mode in which `/` is mounted, signals, and
`performSelectorOnMainThread:waitUntilDone:`. What makes each of them correct:

* acquisition: a truncated file is never taken for a whole one; no finished work is
  thrown away; an image is obtained in the end if there is room; nothing else stays on
  the disk;
* building: `112.dd` ends as exactly the new system, whatever it held; nothing is
  written to the running system; no device stays busy; the new system's own files
  win over the tools that are added;
* commit: only the finished image is written, only under a read-only `/`, entirely,
  and the user's data is replaced by the right thing;
* migration: every piece of data ends where 1.1.3 looks for it, and none is lost;
* running commands: one at a time, in order, and each wait ends;
* bless: header before backup, never under a mount, status 0 only if done;
* jb113.sh: a reported failure never reaches the partition; a run works on its own
  image; the space it asks for is enough;
* vfdecrypt and dmg2img: each chunk under its own number, each block in its place,
  and nothing incomplete goes unnoticed through both;
* the copies, the walk, the client, the decoder: the output is the input, or there
  is a reason outside of them; each call ends and closes what it opened.

## 2. Modules

| Module | Models | State ↔ code | Actions ↔ code |
|---|---|---|---|
| `Acquire` | the start of the application and the worker up to the second "not found, aborting" | `file` = the four files (absent / partial / full), `media` = the user's copies, `room` = how many such files fit beside the 650 MB, `version`, `pc` = the line | `Launch` = the test for space, `Question` = the one about the firmware; `AdoptMedia`, `Check`, `Gate`, `DropX`, `DropDecrypted`, `Verify` = the worker's own steps; `ChildOpens`, `ChildSucceeds`, `ChildStumbles`, `ChildFails` = a child of one of the four stages |
| `ImageBuild` | the list of commands from the first `mount` to the last `vncontrol detach` | `Script` is that list; `vn`, `mounted`, `root` = the kernel's tables; `image` = `112.dd` as size, consistency, layers, header | one action per kind of command; `Fail`, `Reboot`, `Kill` |
| `Commit` | the worker from there on, the `writeimage` job, launchd | `worker`, `daemon` = where each is; `dd`, `work`, `user`, `raw` = the files, the data, the partition; `queue`, `peer` = the socket; `bad` = a chunk that cannot be read, `spoiled` = a write of this copy failed | one action per step of each; `Open`, `Write`, `ReadFails`, `ReadNothing` with the calls that fail |
| `Upgrade` | abstract: what both programs promise about the partition | `part`, `power`, `faults`, `excused`, `stuck` | `Write`, `Finish`, `Mishap` |
| `ChildReaper` | `cmd_system` and its variants, both SIGCHLD handlers, the progress callback | `child`, `action`, `pending`, `handler` per thread, `hud` | one per call; signal delivery and the handlers apart |
| `Bless` | `bless.c` | `hdr` = for each field the run that wrote it, `k` = what stdio buffers, `mount` | one per system call, with its failure |
| `SoftUpgrade` | `jb113.sh` with the exit statuses of its tools | `file`, `rc` = `$?`, `free`, `attached` = whose image is on vn0, `raw` | `Run(t)` a tool, `Judge(t)` the `if` after it, one per checked command afterwards |
| `VfDecrypt` | `vfdecrypt.c`, `main` | `inPos`, `outPos`, `n` = chunk number, `out` = runs of chunks with the number each was decrypted under, `key` | `Start` (options, files), `Detect` (header), `Key`, `Decrypt` a chunk, `EndOfInput` |
| `Dmg2Img` | `dmg2img.c`, `main` | `at` = the statement, `i`, `offset`, `type`, `tmp`, `otmp` = whose data the buffers hold, `image`; `from`, `misread` = history | trailer, property list, partitions, blocks by type, with each call that fails and damaged data |
| `Conversion` | the two one after the other | `decrypted` = what the first leaves, read by the second | `HandOver` between the two `Next`s |
| `GlobScript` | `globscript.sh` | `image`, `xtmp` = whose file lies under each name | save, overwrite, copy back, empty `xtmp`, for each directory |
| `Migration` | `migrate.sh` and the same moves in `jb113.sh` | `fs` = a tree of paths | each `mkdir`, `mv`, `rm -rf`, with what `mv` does to an existing directory |
| `DeviceScripts` | these two, a behaviour being about one of them | | |
| `HttpDownload` | `download` | `got` = what has been read of the answer, `clen` = what is left of Content-Length, `written`, `fds` | resolve, connect, send, open, the header's reads, the two loops for the body, each of the returns |
| `FileCopy` | the three copies of one loop | `pos`, `eof`, `dest` = which places of the source arrived | open, one turn of the loop, close |
| `RecursiveCopy` | `safeRecursiveCopy` and its callback | `visited`, `bytesCopied`, `mounted`, `unsynced` | an entry, and each of the four commands of a remount |
| `Base64` | `base64.c` as `dmg2img` calls it | `buf`, `inp`, `out` = one buffer with two pointers | clean, decode byte by byte, count the padding |
| `Utilities` | these four, a behaviour being one call of one of them | | |
| `AcquireProofs`, `ImageBuildProofs`, `CommitProofs`, `ReaperProofs`, `BlessProofs`, `SoftUpgradeProofs`, `ConversionProofs`, `UtilitiesProofs` | theorems about the module each extends (`ImageBuildProofs` two of them: `ImageBuild` and `DeviceScripts`, with both of its scripts) | | |
| `MC…` | instances for TLC | | |

How they compose.

* `Conversion` runs `VfDecrypt` and `Dmg2Img` as both programs do: the output of the
  first is the input of the second. It shows what neither shows alone: that the
  failures the first does not report are found by the second, in the trailer and the
  property list at the end of a disk image.
* `Commit` and `SoftUpgrade` both implement `Upgrade`. The refinement mapping sends
  the raw device to `part`, the device to `power`, the restarts (or the faults of the
  script) to `faults`, and the mishaps neither program guards against to `excused`:
  in `Commit` a remount that failed, a second launch beside a living job, or a failed
  write of the copy under way (until that copy ends: what follows lands in the wrong
  place, and the job restarts the device with it); in `SoftUpgrade` a tool that failed
  and returned 0. Under that mapping each step is a step of `Upgrade` or a stutter
  (`KeepsPromise`). `Commit` also implements its liveness (`WritingGoesOn`), which
  leaves out an image that cannot be read to its end (`stuck`): there the job's loop
  goes round for ever.
* `Commit` takes the acquisition as its guarantee (`Launch` leaves `disk0s1.dd` in
  place) and the building as one step; `ImageBuild` takes `disk0s1.dd` as a mountable
  image, and its customising commands, one of which is `GlobScript`, as one; `Commit`
  and `SoftUpgrade` take `Migration` as one step that may be run again.
* `DeviceScripts` and `Utilities` put side by side programs that share no state: one
  instance each, chosen by the initial state, with the variables of the others
  unused. Their invariants are the conjunctions of those of the modules inside.

Operators called *Mutant of X* precede X; nothing uses them but the test that each
property notices a plausible slip of the code.

Abstractions: a file is absent, cut short (or garbage) or whole, or, where its bytes
matter, a sequence of the places in the source they came from; a command either does
its work, does part of it, or does nothing; wording and logging are left out.
`x/` stands for the dmg in it. The copying of the utilities (lines 134-154) and the
customising commands are each taken as one. Integers keep their width where the code
computes differences of unsigned ones (`Word` in `VfDecrypt`, `Unsigned` in
`Dmg2Img`; the proofs hold for every width). The order in which a compiler evaluates
two operands of one expression is chosen in `Base64`'s initial state.

## 3. Runs

Each run asks one question of a component or of a composition. The properties of each
are the INVARIANTS and PROPERTIES of its configuration; what each says is in the
comment above it.

| Run | Question | Bounds | Result |
|---|---|---|---|
| `acquire` | do existence tests suffice, and is an image obtained in the end? | 2 failing children, 2 restarts, all contents of the user's folder, room for 0 to 3 files beside the 650 MB, the right firmware or not | holds; a restart during the download or between two children does no harm; the image is obtained for sure only with room for three files |
| `image_build` | is the list of commands restartable? | 1 failure, 2 restarts, 2 kills | holds if no command of the last launch fails |
| `commit` | does the handshake keep worker and job in step, and the promise of `Upgrade`? | 3 chunks; 1 restart, 2 kills, 1 failing call (remount, submit, `fopen`, `fread` or `fwrite`) | holds outside the named mishaps |
| `commit_handshake` | does the device restart after "Attempting to reboot…"? | no mishap | **violated** |
| `commit_twice` | is user data kept if the user says so? | 1 restart | **violated** |
| `child_reaper` | is every command waited for? | 5 commands, both threads take signals, fork may fail | holds but for late handlers and fork |
| `bless` | is a partial run harmless? | 3 runs | holds; the last field may be missing unnoticed |
| `soft_upgrade` | what are the script's checks worth, and does it keep the promise of `Upgrade`? | 3 runs, 3 faults, free space around 425 MB | holds but for tools that return 0 |
| `soft_upgrade_convert` | does the script notice a failing `dmg2img`? | 1 run, 1 fault | **violated** |
| `conversion` | what gets through `vfdecrypt` and `dmg2img`? | chunks of 3, inputs of 0 to 12 units, data sizes of 0 to 10, 1 failing read or write, then up to 4 small partitions with damaged blocks and 2 failing calls | whatever `vfdecrypt` misses `dmg2img` refuses; what `dmg2img` misses is a failing call of its own, a damaged block or a malformed table |
| `device_scripts` | may `globscript.sh` and `migrate.sh` be run again after a cut? | 3 runs; 3 directories with 3 names and 2 failing `cp`; 7 trees of user data | the first always; the second loses only the Library, and only once it has been moved |
| `utilities` | do the copies, the walk, the client and the decoder do what they are called for? | buffers of 4 and 2, lengths of 0 to 6, 2 faults; a tree of three levels; texts of one and two groups | each does, or there is a reason outside of it; each ends |

Why the bounds are enough. In `Acquire`, `ImageBuild` and `Commit` a mishap matters
through what it leaves behind and through what a second one does to the recovery from
it; the bounds give such pairs, and the proofs of section 6 lift them, as they do for all
other modules.
Three chunks have a first, a middle and a last one. Five commands let the handler of
the first be late for each of four others. Three runs of `bless` let a run follow two
that were cut off at different fields. In `conversion` the lengths go through every
remainder of a chunk twice, on both sides of the data size and of the end of the
input; four partitions are what the largest loop of `dmg2img` needs to have run with
the buffers of two others behind it. In `utilities` the buffer is smaller than,
equal to and larger than what has to go through it; the tree has a directory that is
entered before, and one that is entered after, a remount.

History variables (`harm`, `failed`, `polluted`, `thief`, `silent`, `lost`, `past`,
`dirty`, `cut`, `misread`) record which mishap struck, so that a property can say *which*
mishaps it tolerates: `harm` in `Commit` is empty after restarts, kills, a failing
submit and failing calls of the job, and is set only by a remount that failed, a launch beside a living job, or a
launch that found the image of an earlier one in place (`relaunched`, which only
`RestoredFromBase` excuses). A property that excuses a mishap does not catch it: where
that mishap is the very case of a hazard, the hazard's note in `PROJECT.json` says so,
and what the property adds is that nothing else leads there. `from` in `Dmg2Img` says
which block a sector was written for.

Deadlock is checked in every run. Where the system really stops there is a named
disjunct (`Stopped`, `HandedOver`, `Ended`, …) whose guard lists those states: in
`Commit` they are the written device, the dead device, and a worker that missed the
job; in `HttpDownload` also a client that waits for a server that says nothing more.

## 4. Findings

1. *commit_handshake*: nothing makes the worker wait until the job listens. If the job
   has bound its socket, while `/` was still writable, but not yet called `listen` when
   the worker connects, `connect` fails and only `perror` is called; the receive loop
   then compares two uninitialised numbers. Either it never ends, or "Attempting to
   reboot…" is shown although nothing was written. The job then listens, waits in
   `accept` for ever, and the device never restarts. (A job that has not even bound
   its socket by then cannot bind it any more, `/` being read-only; it writes the image
   without a client and does restart the device.)
2. *commit_twice*: `migrate.sh` is not idempotent. A restart after it and a second
   launch remove the Library it moved. `device_scripts` shows how far that goes: the
   Library, and Lockdown if the cut came between its two moves; nothing else.
3. *soft_upgrade_convert*: `dmg2img` returns 0 after "Inflation failed".

Others that no document contradicts. They are named where the models show them:

* with `-p`, `vfdecrypt` takes the HMAC key from the buffer that holds the AES key
  (`vfdecrypt.c:189`): right only if the two begin alike (`key = "half"`);
* `decode_base64` counts the padding after the decoding, in the buffer it has
  overwritten (`base64.c:77`): for a text of one group, "xx==" counts as two bytes;
* the space check of `jb113.sh` (`-le`) sends a device with exactly the 425 MB it
  asks for away (`MinMB`);
* without a `preferences` directory two of the moves of `migrate.sh` fail, and the
  network settings go with the Library to where 1.1.3 does not look for them (`Ready`);
* after a restart between the rename and the writing, a restore fills `/private/var`
  from the customised image, whose `private/var` is empty (`RestoredFromBase`);
* a failing `fwrite` of the job is not noticed: what follows lands too early on the
  partition, the worker hears of every chunk, and the device restarts with what there
  is (`HeardToTheEnd`, `Excused`);
* before a chunk that it cannot read the job's loop goes round for ever, because `feof`
  is not true there: the partition stays half-written (`ReadNothing`);
* a damaged block in one of the three partitions that `dmg2img` inflates only to throw
  them away cuts the image short, with status 0 (`Damaged`);
* with room for two files or less beside the 650 MB, the files that an interrupted
  launch leaves can make every later one terminate at the test for space
  (`EventuallyReady`);
* a kill of the application during the writing is survived only because `/` is
  read-only, so that the restarted job cannot bind its socket and does not wait
  (`ConnectionCommits`, `JobOutlivesItsClient`).

## 5. Fairness

Only what the scheduler, the kernel and the user owe:

* `Acquire`: weak fairness of the worker's steps and of the running child (both are
  scheduled; wget and the tools end), and of `Launch(TRUE)` and `Question`, because
  `EventuallyReady` is about a user who keeps starting the application and answers it;
  that `statvfs` fails is possible but never owed;
* `Commit`: weak fairness of the worker and of the job, none of `Launch`, `Kill`,
  `Reboot`; `ConnectionCommits` and `WritingGoesOn` need no more;
* `ChildReaper`: of the worker, the main thread, every child's end and every running
  handler; none of signal delivery, which no property needs;
* `Utilities`: of the call under way. `CallsEnd` says for which calls this is enough:
  not for a copy whose source cannot be read any more, nor for a download from a
  server that keeps the connection open, where one more read is waited for.

The other modules have only safety properties and no fairness.

## 6. Proofs

Proved by TLAPS, for every value of the constants. Type correctness of each proved
module is a theorem and not checked again by its run, unless a property contains it.

* `AcquireProofs`: `TypeCorrect`; `Completeness`, the inductive invariant
  `CompletenessInv`; `ReadyImageIsComplete`; `WorkIsKept`. `ReadyImageComplete` is not
  inductive: it speaks of `disk0s1.dd` at the end only. `CompletenessInv` says for every
  stage that, while `harm` is empty, a truncated output is one its child is writing now,
  and that what a child reads, or has just written, is whole. Each action then either
  sets `harm` or preserves it. `DiskIsClean` (`CleanDisk`) needs to know which files may
  lie on the disk: `MayExist` names them for each stage, and `OnlyTheStagesFiles` says
  that there are no others before the first reboot; every way out of a launch, the
  aborts included, has to leave what the next launch's first stage may find.
* `ImageBuildProofs`: `FinishedInTheEnd`, `NothingWrittenToRoot`, `NothingLeftAttached`
  for any number of failures, restarts and kills. What is true depends on the place in
  the list: `DevicesInv` and `ImageInv` say, for each stretch of it, what must hold
  there if no command of this launch has failed, and nothing before the command that
  makes it so, which is why anything may be left behind by earlier launches.
  `KernelInv` is what holds after failures too: each disk has only ever its own file,
  each mount point its own disk. `TheScript` and `Places` unfold the concatenation. The
  second part is about `globscript.sh`, one of the commands: `OwnFilesStay`
  (`OwnFilesWin` of `DeviceScripts`), for any list of directories, any files in them, any
  runs, cuts and failing `cp`. `GlobInv` follows one directory: ahead of it the image is
  as the new system has it (`Ahead`); `xtmp` holds its own files and nothing else, or, in
  the first one only, also what a cut run left there (`Stash`); what the tools have gone
  over, and what the copying back has restored (`Merged`). The third part is about
  `migrate.sh`, see below.
* `CommitProofs`: type correctness, `FlashesFinal`, `RawWrittenReadOnly`,
  `HeardToTheEnd`, `RestoredFromBase`, `JobOutlivesItsClient` and `KeepsPromise`. None
  is inductive: the job's next step says nothing about the worker, and the other way
  round. The invariant `IInv` has three parts. `WorkerInv`: what the worker has done
  holds where it is now (from the remount on `disk0s1.dd` is the finished image;
  between thaw and remount `/` is writable, or the thaw failed). `ChannelInv`: a live
  end of a connection belongs to a worker in its receive loop. `JobInv` ties the two
  together: a job that is past the socket got a client, or found `/` read-only, and
  either way the image was in place; a worker that prepares an image beside a job
  comes from a second launch, which is the mishap "overlap". The three are preserved
  together, action by action. What the partition holds during a copy is said for copies
  in which no write failed, and all excuse the one in which one did: no more is true of
  code that does not look at `fwrite`. For the refinement (`PromiseKept`) three steps touch the
  partition or the device (`OthersLeaveThePartition`), and each is a step of `Upgrade`.
* `SoftUpgradeProofs`: `FlashedIsWhole`, `CustomisesItsOwn` and `KeepsPromise` for any
  number of runs, faults and free space. `ChainInv`: while no tool of this run has
  failed silently, what the next tool reads is whole. `PartitionInv`: the partition is
  the old one until `cp` begins. `SpaceIsEnough` (`SpaceSuffices`): `Held` names the
  files a stage may have on the disk, at most two at a time, and `SpaceInv` says that
  there are no others, and that a run gets past its first test only with the space.
* `ConversionProofs`, of `VfDecrypt`: `RightNumber`, `WholeOrCutOff`,
  `GoodCallGoodImage`, and that the output never exceeds the data size and has no gap,
  for every input, chunk size and width of the unsigned numbers. The invariant ties four
  positions together: input, chunk number, number of pieces, output (`InStep`,
  `FullSoFar`).
* `ConversionProofs`, of `Dmg2Img`: `ImageIsRight` (`ImageRight`), `StaleExplained`
  (`StaleOnlyAfterFault`) and `ZeroExplained` (`ZeroMeansWhole`), for tables with any
  number of partitions and blocks of any length, and any number of faults. The image
  after *n* blocks is compared with the table position by position: `InsideTable` says
  that an entry is read from outside the table only if that is shorter than one entry,
  `StageInv` that nothing is written before the wanted partition is reached, and that
  the loop stops early only at a damaged block or a failing call; `TableInv` that the
  entries before the one at hand are written out, each at its place. `StaleExplained`
  looks at each sector by the block it was written for (`from`): it holds that block's
  data, or the read of that very block failed (`misread`). What it may hold then needs
  `BuffersInv`: the buffers hold only what was read from a block before the one at hand
  (`Seen`), of an earlier partition or of this one.
* `ConversionProofs`, of the two together: `CaughtByTrailer`. `GapInv` says that
  pieces are missing only as wholes and that their numbers grow; so an output that ends with the last chunk and
  has the right length is the image (`EndAndLengthSuffice`). `HandedOver`: past its
  first tests `dmg2img` works on what `vfdecrypt` handed over.
* `ReaperProofs`: type correctness, `OneAtATime` and `OnlyLateHandlersSteal` for any
  number of commands and any receiving threads. `CommandInv` says what each process is
  from where the worker is; `HandlerInv` that a reaping handler that began during the
  current command cannot exist while the command is being waited for.
* `BlessProofs`: type correctness, `InOrder`, `WrittenUnmounted` and
  `SuccessIsComplete` for any number of runs. The strengthening `FieldsInv` says that
  while the tool writes field *k*, all fields before the buffered one carry this run's
  number, and that the volume is unmounted from the `open` on.
* `UtilitiesProofs`: each of the four for any sizes, inputs and number of faults.
  `DownloadIsBody` (`FileIsBody`): `HttpInv` says at each read of the header how much of
  what has been received belongs to it, so that wherever the header ends within a read
  the first write begins at the body; the rest of Content-Length and the file add up to
  it. `CopyIsRight` (`RightUnlessWriteFailed`): `CopyInv` says that every place before
  `pos` has arrived or a write failed, which the loop never makes good. `WalkIsSafe`
  (`RemountsHarmless`): `WalkInv` says that nothing is missing while no command has
  failed (`Visited`, `Faultless`), which failure left the image unmounted (`Missed`), what
  waits in the cache (`Waiting`), and that what is missing adds up to one batch for each
  failure, the batch under way included (`Accounted`). `TextIsDecoded` (`DecodesText`): `DecodeInv` gives the places of the two
  pointers into the one buffer: three bytes are written for four that are read, so that
  what has been overwritten is not read again.

* `ImageBuildProofs`, of `Migration`: `DataStays` (`DataKept` of `DeviceScripts`), for
  any tree of a device with 1.1.2, with files of any names at any depth, either script,
  any number of runs and restarts. The run has seven trees and three runs. First come
  lemmas on any tree: which paths are below which, what `rename` makes of each path
  (`MovedIs`, and back: `RenamedAt`), that it leaves a tree (`MovedTree`), and what
  `mv`, `rm -rf` and `mkdir` keep, take along or do not touch (`MvGives`, `RmGives`,
  `MkdirGives`). Then that the script's places are apart from each other
  (`ApartFromTo`, `ApartOthers`, `LibrariesApart`), so that no command disturbs what
  another one moved. The three parts of `DataKept` speak of the data alone and none is
  inductive. `MigInv` adds, beside the types:
  - `Frees`: whenever a move comes, its new place is free, or an earlier run has taken
    everything from the old one; without it a second run's `mv` would put
    `root/Media` *into* `mobile/Media`. Only for the Library is it the `rm -rf` just
    before that makes the place free, which is why only the Library can be lost;
  - `Directories`: the directories it moves things into, once there, stay directories: no
    command but the Library's move, which mkdir follows, takes one of them away;
  - `Untaken`, `Going`, `LockdownKept`, `BeforeMove`, `OneRun`: where each piece of
    data is, by what its path begins with, how far the run is, and whether a run has
    moved the Library or was cut behind that; `Book` ties the history to the run.

  `EverythingInItsPlace` is then `Going`, `OneRun` and `LockdownKept` at the end of the
  first run; `LostOnlyByARerun` is `BeforeMove` and `OneRun`; `OnlyTheLibraryIsLost` is
  `Going`, `LockdownKept` and `Untaken`. What a restart may add is empty directories,
  which carry no data and are never where a move goes (`FreshFacts`).

  What a tree has to be like is the assumption `IsDevice`: the home of root is there,
  nothing is yet in the five places that 1.1.3 looks for and 1.1.2 does not, and the six
  directories the script works in are directories if they are there. The second
  is where the property would fail: a device that has `db/timezone/localtime` before the
  first run loses it to the move of `db/localtime`. `FileNames` has to contain the names the script itself uses.

The induction theorems of the library take a predicate as a parameter, which none of the
provers can instantiate. Where an argument needs induction (the sum of file sizes over a
finite set, the largest of finitely many files, the text after the first *n* characters
have been cleaned), `SubsetInduction` and `NumberInduction` of `UtilitiesProofs` make it
with a set in the place of the predicate.

The only assumptions are the named ones on the constants (`BoundsAssumption`,
`BuildAssumption`, `CommitAssumption`, `ReaperAssumption`, `BlessAssumption`,
`SoftAssumption`, `InputAssumption`, `ConversionAssumption`, `ScriptsAssumption`,
`UtilitiesAssumption`); the runs evaluate them. Three say more
than types: no directory is listed twice in `globscript.sh`; the trees `migrate.sh` may
find are those of a device with 1.1.2 (`IsDevice`, above); and a base64 text has its
padding only at the end of a group (`PaddedAtTheEnd`), without which the size
`decode_base64` returns is not that of the text.

Every invariant and every action property of the passing runs is a theorem, and so are
both refinements of `Upgrade`. Only model-checked is liveness (`EventuallyReady`,
`ConnectionCommits`, `WritingGoesOn`, `EndsUnlessStolen`, `CallsEnd`),
which is out of the prover's reach.

## 7. Not modelled

* `approot` (wrappers without state), build files and property lists,
  `activationState`, `deviceName`, `firmwareVersion` (one read each);
* `killcmd` and `fixPerms`, which have no caller; `getSize`, which adds up file sizes
  for a progress text;
* of the user interface: what is shown and how. The question and the alert that may end
  a launch are in `Acquire`, the choice between restore and migration is an input of
  `Commit`, the progress texts that cross the threads are in `ChildReaper`;
* zlib, OpenSSL, the file systems and the kernel's `vncontrol` and `mount`: modelled
  from how the code uses them;
* of `dmg2img`, the search for the tables in the property list is one step; of
  `vfdecrypt`, the conversion of arguments and messages (`convert_hex`, `print_hex`) is
  left out;
* nobody calls two of the functions that `Utilities` contains: `download()` (wget
  replaced it) and `recursiveCopy()` (its only call, line 278, is commented out). The
  models take them as they would be called; whether `connect` succeeds is left open in
  `HttpDownload`, because line 232 copies an `addrinfo` over the address;
* `bless` called without its arguments (it prints its usage and returns 0); a failing
  `rm` in `globscript.sh`; an `rm -rf` of `migrate.sh` that is cut short; what a 1.1.2
  that runs between two cut runs of `migrate.sh` creates anew; the wait of `jb113.sh`
  for the return key;
* a command still running after its application was killed is taken to end at once;
  failures of `umount -f /private/var` (lines 328, 134 of the script) and of single
  customising commands are not distinguished.

## 8. Plan

1. (done) The modules of section 2, the abstract specification and both refinements.
2. (done) Proofs of the safety properties of every module.
3. `KeepsPromise` across a composition of `Acquire`, `ImageBuild` and `Commit` in one
   state space; now each takes the guarantee of the one before it as its beginning.
