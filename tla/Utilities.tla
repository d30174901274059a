------------------------------- MODULE Utilities -------------------------------
(***************************************************************************)
(* The functions that work on files one call at a time and share no state: *)
(* download, recursiveCopy and fileCopy of utilities.c (and writeimage.c), *)
(* and the base64 decoder of dmg2img.  A behaviour is one call of one of   *)
(* them; what belongs to the others is unused.                             *)
(***************************************************************************)
EXTENDS Integers

CONSTANTS
  Answers, Buffer,                          \* of HttpDownload
  Lengths, Room, BUFSIZE, Copies,           \* of FileCopy
  Dirs, Files, Top, Parent, Size, Limit, MaxFailures,   \* of RecursiveCopy
  Texts, Orders,                            \* of Base64
  MaxFaults                                 \* bound of the first two

VARIABLES
  call,     \* "download", "copy", "walk" or "decode"
  pc,
  answer, got, clen, carried, file, written, fds, cut,                 \* of download
  copy, pos, eof, broken, dest, currentRead, message,                  \* of fileCopy
  len, faults, lost,                                                   \* of both
  last, visited, bytesCopied, attached, mounted, image, root, failed,
  failures, unsynced,                                                  \* of recursiveCopy
  text, order, buf, inp, out, isize, osize                             \* of base64.c

http  == <<answer, got, clen, carried, file, written, fds, cut>>
loop  == <<copy, pos, eof, broken, dest, currentRead, message>>
both  == <<len, faults, lost>>
walk  == <<last, visited, bytesCopied, attached, mounted, image, root, failed,
           failures, unsynced>>
codes == <<text, order, buf, inp, out, isize, osize>>
vars  == <<call, pc, http, loop, both, walk, codes>>

H == INSTANCE HttpDownload
F == INSTANCE FileCopy
R == INSTANCE RecursiveCopy
B == INSTANCE Base64

ASSUME UtilitiesAssumption ==
  /\ H!HttpAssumption /\ F!CopyAssumption /\ R!TreeAssumption /\ B!TextAssumption

NoHttp  == /\ answer = "unused" /\ got = 0 /\ clen = 0 /\ carried = 0 /\ file = "absent"
           /\ written = 0 /\ fds = {} /\ cut = FALSE
NoLoop  == /\ copy = "unused" /\ pos = 0 /\ eof = FALSE /\ broken = FALSE /\ dest = <<>>
           /\ currentRead = 0 /\ message = <<>>
NoBoth  == len = 0 /\ faults = 0 /\ lost = FALSE
NoWalk  == /\ last = FALSE /\ visited = {} /\ bytesCopied = 0
           /\ attached = FALSE /\ mounted = FALSE /\ image = {} /\ root = {}
           /\ failed = {} /\ failures = 0 /\ unsynced = 0
NoCodes == /\ text = <<>> /\ order = "unused" /\ buf = <<>> /\ inp = 0 /\ out = 0
           /\ isize = 0 /\ osize = 0

Init ==
  \/ call = "download" /\ H!Init /\ NoLoop /\ NoWalk /\ NoCodes
  \/ call = "copy"     /\ F!Init /\ NoHttp /\ NoWalk /\ NoCodes
  \/ call = "walk"     /\ R!Init /\ NoHttp /\ NoLoop /\ NoBoth /\ NoCodes
  \/ call = "decode"   /\ B!Init /\ NoHttp /\ NoLoop /\ NoBoth /\ NoWalk

Running ==
  /\ UNCHANGED call
  /\ \/ call = "download" /\ H!Client  /\ UNCHANGED <<loop, walk, codes>>
     \/ call = "copy"     /\ F!Step    /\ UNCHANGED <<http, walk, codes>>
     \/ call = "walk"     /\ R!Walk    /\ UNCHANGED <<http, loop, both, codes>>
     \/ call = "decode"   /\ B!Decoder /\ UNCHANGED <<http, loop, both, walk>>

Ended ==
  /\ UNCHANGED vars
  /\ \/ call = "download" /\ H!Ended
     \/ call = "copy"     /\ F!Ended
     \/ call = "walk"     /\ R!Ended
     \/ call = "decode"   /\ B!Ended

Next == Running \/ Ended

\* A call that can go on goes on; a server that says nothing more is one that cannot.
Spec == Init /\ [][Next]_vars /\ WF_vars(Running)

-----------------------------------------------------------------------------
\* download: however the answer was cut into reads, the file is what has come of its
\* body; one that is kept short has a reason, and no return leaves a descriptor open.
FileIsBody ==
  call = "download" =>
    H!TypeOK /\ H!FileIsBody /\ H!ShortOnlyIfCut /\ H!KeptOnlyWithHeader /\ H!NothingLeftOpen

\* fileCopy: a copy is right unless a write failed, and then it is never right again;
\* what is announced as written has been read.
RightUnlessWriteFailed ==
  call = "copy" =>
    F!TypeOK /\ F!WholeUnlessWriteFailed /\ F!ShiftedForGood /\ F!AnnouncedWhenRead

\* recursiveCopy: the remounts in the middle of the walk lose nothing, bound what waits
\* in the cache, and a failing command costs a batch.
RemountsHarmless ==
  call = "walk" =>
    R!TypeOK /\ R!CopiesAll /\ R!RootUntouched /\ R!CacheBounded /\ R!LossBounded

\* base64.c: the decoder that overwrites its own input decodes it.
DecodesText == call = "decode" => B!TypeOK /\ B!DecodesText /\ B!SizeRight

\* Each call comes to its end: a download unless the server leaves the connection open,
\* a copy unless its source fails for good, the other two always.
CallsEnd ==
  <>(\/ call = "download" /\ H!EndedOrWaits
     \/ call = "copy" /\ F!EndedOrBroken
     \/ call \in {"walk", "decode"} /\ pc = "done")
=============================================================================
