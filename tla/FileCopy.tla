------------------------------- MODULE FileCopy -------------------------------
(***************************************************************************)
(* The three copies of one loop: fileCopySimple (tools, at the launch) and *)
(* fileCopy (112.dd from the partition) of utilities.c, and fileCopy of    *)
(* writeimage.c (the partition from the image, with progress messages).    *)
(* "while (!feof)" around fread and fwrite, whose results are not tested.  *)
(*                                                                         *)
(* The destination is a sequence of places in the source: the k-th unit of *)
(* a right copy came from place k.                                         *)
(***************************************************************************)
EXTENDS Integers, Sequences

CONSTANTS
  Lengths,    \* of the source
  Room,       \* of the destination: a write beyond it fails
  BUFSIZE,
  Copies,     \* subset of {"tools", "reading", "writing"}
  MaxFaults   \* bound: reads and writes that fail once

CopyAssumption ==
  /\ Lengths \subseteq Nat /\ Room \in Nat
  /\ BUFSIZE \in Nat \ {0} /\ MaxFaults \in Nat
  /\ Copies \subseteq {"tools", "reading", "writing"}

VARIABLES
  copy, len,
  pc,          \* "orig", "dest", "loop", "done", "skipped" or "crashed"
  pos,         \* the position in the source
  eof,         \* feof(fOrig)
  broken,      \* the source cannot be read any more
  dest,
  currentRead,
  message,     \* the last progress message: <<currentRead, size>>
  faults,
  lost         \* history: a write failed

vars == <<copy, len, pc, pos, eof, broken, dest, currentRead, message, faults, lost>>
streams == <<pos, eof, broken, dest, currentRead, message, faults, lost>>

Unsaid == <<0, 1>>

Init ==
  /\ copy \in Copies /\ len \in Lengths
  /\ pc = "orig" /\ pos = 0 /\ eof = FALSE /\ broken = FALSE
  /\ dest = <<>> /\ currentRead = 0 /\ message = Unsaid
  /\ faults = 0 /\ lost = FALSE

-----------------------------------------------------------------------------
\* A source that cannot be opened is skipped, but writeimage.c asks for its number
\* before it looks, which kills the process.
OpenOrig ==
  /\ pc = "orig"
  /\ pc' \in {"dest", IF copy = "writing" THEN "crashed" ELSE "skipped"}
  /\ UNCHANGED <<copy, len, streams>>

\* A destination that cannot be opened kills the process, here (writeimage.c) or at
\* the first write, which takes at least an empty buffer.
OpenDest ==
  /\ pc = "dest"
  /\ pc' \in {"loop", "crashed"}
  /\ UNCHANGED <<copy, len, streams>>

Least(a, b) == IF a < b THEN a ELSE b

\* Mutant of Fread: the end is noticed only by a read that brought something.
FreadEager(fails) ==
  /\ pos' = Least(pos + BUFSIZE, len)
  /\ currentRead' = pos'
  /\ eof' = (pos < pos' /\ pos' < pos + BUFSIZE)
  /\ UNCHANGED broken

\* A full buffer; or the rest, and the end is noticed; or, if the source fails, now or
\* for good, less, and it is not.
Fread(fails) ==
  /\ IF broken THEN UNCHANGED <<pos, eof, broken>>
     ELSE IF fails
     THEN /\ pos' \in pos..Least(pos + BUFSIZE - 1, len)
          /\ broken' \in BOOLEAN
          /\ UNCHANGED eof
     ELSE /\ pos' = Least(pos + BUFSIZE, len)
          /\ eof' = (pos' < pos + BUFSIZE)
          /\ UNCHANGED broken
  /\ currentRead' = currentRead + (pos' - pos)

Piece(from, to) == [k \in 1..(to - from) |-> from + k]

\* Mutant of Fwrite: the whole buffer is written, whatever was read into it.
FwriteBuffer(fails) ==
  dest' = dest \o Piece(pos, pos + BUFSIZE) /\ UNCHANGED lost

\* What was read is written, or a part of it: what is missing is dropped, and the
\* position in the destination is where the writing stopped.
Fwrite(fails) ==
  \E to \in pos..pos' :
    /\ Len(dest) + to - pos <= Room
    /\ to = pos' \/ fails \/ Len(dest) + to - pos = Room
    /\ dest' = dest \o Piece(pos, to)
    /\ lost' = (lost \/ to < pos')

\* Two sends, writeimage.c only; the number that is shown is what was read.
Send == message' = IF copy = "writing" THEN <<currentRead', len>> ELSE message

Loop ==
  /\ pc = "loop" /\ ~eof
  /\ \E r, w \in BOOLEAN :
       /\ Fread(r) /\ Fwrite(w)
       /\ faults' = faults + (IF r THEN 1 ELSE 0) + (IF w THEN 1 ELSE 0)
       /\ faults' <= MaxFaults
  /\ Send
  /\ UNCHANGED <<copy, len, pc>>

\* fclose, twice; writeimage then restarts the device.
Close ==
  /\ pc = "loop" /\ eof
  /\ pc' = "done"
  /\ UNCHANGED <<copy, len, streams>>

Ended == pc \in {"done", "skipped", "crashed"} /\ UNCHANGED vars

Step == OpenOrig \/ OpenDest \/ Loop \/ Close
Next == Step \/ Ended

Spec == Init /\ [][Next]_vars /\ WF_vars(Step)

-----------------------------------------------------------------------------
TypeOK ==
  /\ copy \in Copies /\ len \in Lengths
  /\ pc \in {"orig", "dest", "loop", "done", "skipped", "crashed"}
  /\ pos \in 0..len /\ eof \in BOOLEAN /\ broken \in BOOLEAN
  /\ dest \in Seq(1..len) /\ Len(dest) <= Room
  /\ currentRead \in 0..len /\ message \in Nat \X Nat
  /\ faults \in 0..MaxFaults /\ lost \in BOOLEAN

RightUpTo(n) == Len(dest) = n /\ \A k \in 1..n : dest[k] = k

\* A copy that was read to its end, through reads that failed and came right again,
\* has every unit in its place, unless a write failed.
WholeUnlessWriteFailed == pc = "done" /\ ~lost => RightUpTo(len)

\* Once a write has failed what follows it comes to lie too early: the copy is as short
\* as what was lost, and does not begin to be right again.
ShiftedForGood ==
  \A k \in 1..Len(dest) : /\ k > 1 => dest[k] > dest[k - 1]
                          /\ dest[k] # k => \A j \in k..Len(dest) : dest[j] > j

\* A message says that all has been written only if all has been read, and then it has
\* been written, unless a write failed: that none could be is not told.
AnnouncedWhenRead ==
  message[1] = message[2] => pos = len /\ (lost \/ RightUpTo(len))

\* The copy comes to an end unless its source fails for good: then it goes round the
\* loop for ever, in writeimage with the partition half-written and no restart.
EndedOrBroken == pc \in {"done", "skipped", "crashed"} \/ broken
=============================================================================
