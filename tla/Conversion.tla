------------------------------ MODULE Conversion ------------------------------
(***************************************************************************)
(* vfdecrypt and dmg2img one after the other, as jb113.sh (lines 98-119)   *)
(* and Upgrade.app (lines 218-238) run them: decrypted.dmg, which the one  *)
(* writes, is what the other reads.  vfdecrypt returns 0 for output that   *)
(* lacks pieces.  But a disk image ends in its property list and in a      *)
(* trailer that names the place of the list, and that is what dmg2img      *)
(* looks at first.                                                         *)
(***************************************************************************)
EXTENDS VfDecrypt

CONSTANTS
  Partitions,    \* lists of partitions that the encrypted image may hold
  ImageFaults,   \* bound: calls of dmg2img that fail
  Data,          \* the pieces of data that a sector of the image may hold
  Unsigned       \* 2^32

DiskImages == [found : BOOLEAN, creatable : BOOLEAN, trailer : BOOLEAN, plist : BOOLEAN,
               parts : Partitions]

VARIABLES
  decrypted,   \* decrypted.dmg, once vfdecrypt has ended
  dmg, at, i, offset, type, tmp, otmp, image, result, imageFaults,   \* of dmg2img
  from, misread                                                     \* its history

dmg2img == <<dmg, at, i, offset, type, tmp, otmp, image, result, imageFaults, from, misread>>

D == INSTANCE Dmg2Img WITH
       Inputs <- DiskImages, MaxFaults <- ImageFaults, Word <- Unsigned,
       in <- dmg, pc <- at, status <- result, faults <- imageFaults

ASSUME ConversionAssumption == D!InputAssumption

Unwritten == [ends |-> FALSE, whole |-> FALSE, right |-> FALSE]

ConversionInit ==
  /\ Init
  /\ decrypted = Unwritten
  /\ dmg = [found |-> FALSE, creatable |-> FALSE, trailer |-> FALSE, plist |-> FALSE,
            parts |-> <<>>]
  /\ D!Init

-----------------------------------------------------------------------------
\* vfdecrypt runs.
Decrypting ==
  /\ ~dmg.found
  /\ Next
  /\ UNCHANGED <<decrypted, dmg2img>>

\* The file ends with the last byte of the image.
Ends == /\ key = "right" /\ out # <<>>
        /\ out[Len(out)].at + out[Len(out)].len = in.offset + in.size

\* Each byte of the file is the image's byte at this place.
Right == /\ key = "right" /\ outPos = in.size
         /\ \A k \in 1..Len(out) : out[k].at = in.offset + Chunk * (k - 1)

\* Nothing remains of a process but its files.
Gone ==
  /\ pc' = "start" /\ in' = CHOOSE c \in Inputs : TRUE
  /\ key' = "unset" /\ inPos' = 0 /\ chunk_no' = 0 /\ out' = <<>> /\ outPos' = 0
  /\ status' = "none" /\ faults' = 0

\* Mutant of Finds: the two addresses in the trailer are not compared.
FindsBlindly(file) == [trailer |-> TRUE, plist |-> file.whole]

\* dmg2img reads the trailer from the end of the file, and the property list at the
\* place that the trailer names, where it is if nothing before it is missing.
Finds(file) == [trailer |-> file.ends, plist |-> file.ends /\ file.whole]

\* vfdecrypt has ended and created its output.  (Upgrade.app asks for no more; jb113.sh
\* asks for status 0, without which the output is empty.)
HandOver ==
  /\ pc = "exit" /\ in.options /\ in.opens /\ Version2 /\ ~in.pass
  /\ decrypted' = [ends |-> Ends, whole |-> outPos = in.size, right |-> Right]
  /\ Gone
  /\ \E c \in BOOLEAN, p \in Partitions :
       dmg' = [found |-> TRUE, creatable |-> c, trailer |-> Finds(decrypted').trailer,
               plist |-> Finds(decrypted').plist, parts |-> p]
  /\ UNCHANGED <<at, i, offset, type, tmp, otmp, image, result, imageFaults, from, misread>>

\* dmg2img runs.
Converting ==
  /\ dmg.found
  /\ D!Next
  /\ UNCHANGED <<decrypted, vars>>

ConversionNext == Decrypting \/ HandOver \/ Converting

ConversionSpec == ConversionInit /\ [][ConversionNext]_<<vars, decrypted, dmg2img>>

-----------------------------------------------------------------------------
\* What vfdecrypt does not notice, dmg2img does: if it returns 0, vfdecrypt's output
\* was the image, byte for byte.  A write that failed, an input that ended early or a
\* wrong key shows in the trailer, or in the list that is not where the trailer says,
\* also where a padding at the end makes up the size.
CaughtByTrailer == dmg.found /\ result = "ok" => decrypted.right

\* Blocks are written one after the other and the place that each names is not looked
\* at: yet each lands there if the table is contiguous, and the whole image is written,
\* whatever the three partitions before it left behind.
ImageRight == D!InPlace /\ D!WholeImage

\* Every sector of the image holds the data of the block it was written for, unless the
\* read of that block failed: no other failure, and nothing in the partitions before,
\* puts another block's data there.
StaleOnlyAfterFault == D!StaleOnlyAfterFault

\* Exit status 0 with something missing at the end is due to a failing call, a damaged
\* block (also one that is not wanted) or a malformed table; what lies behind a table is
\* read only if it is too short to hold an entry.
ZeroMeansWhole == D!TypeOK /\ D!ZeroMeansWhole /\ D!InsideTable
=============================================================================
