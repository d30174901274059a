------------------------------- MODULE VfDecrypt -------------------------------
(***************************************************************************)
(* vfdecrypt.c, main: an encrypted disk image is decrypted chunk by chunk, *)
(* each chunk under its own number.  Bytes are counted, not modelled: a    *)
(* piece of output is known by the place in the input it was read from,    *)
(* by the number it was decrypted with and by its length.                  *)
(***************************************************************************)
EXTENDS Integers, Sequences

CONSTANTS
  Inputs,     \* the calls: see InputAssumption
  Chunk,      \* CHUNK_SIZE, 4096
  HeaderLen,  \* the sizes of the two headers
  Word,       \* 2^64: the range of a uint64_t
  MaxFaults   \* bound: reads and writes that fail

Headers == {"v1", "v2", "unknown"}

ASSUME InputAssumption ==
  /\ Chunk \in Nat \ {0} /\ Word \in Nat /\ MaxFaults \in Nat
  /\ HeaderLen \in [Headers -> Nat]
  /\ Inputs \subseteq [header : Headers,
                       len : Nat,               \* of the input file
                       offset : Nat,            \* v2header.dataoffset
                       size : 0..(Word - 1),    \* v2header.datasize
                       options : BOOLEAN,       \* one of -k and -p, well-formed
                       opens : BOOLEAN,         \* both files can be opened
                       pass : BOOLEAN,          \* -p rather than -k
                       secret : BOOLEAN,        \* and it is the right one
                       shared : BOOLEAN,        \* the image's HMAC key begins as its AES key
                       verbose : BOOLEAN,
                       seekable : BOOLEAN]      \* the output, not a pipe

VARIABLES
  in,        \* the call
  pc,        \* "start", "detect", "key", "loop", "exit"
  key,       \* "unset", "right", "wrong", or "half": the AES key only
  inPos,     \* ftell(in)
  chunk_no,
  out,       \* the pieces written, in order
  outPos,    \* how many bytes they are
  status,    \* exit status
  faults

vars == <<in, pc, key, inPos, chunk_no, out, outPos, status, faults>>
files == <<inPos, chunk_no, out, outPos, faults>>

Init ==
  /\ in \in Inputs
  /\ pc = "start" /\ key = "unset"
  /\ inPos = 0 /\ chunk_no = 0 /\ out = <<>> /\ outPos = 0
  /\ status = "none" /\ faults = 0

Exit(s) == pc' = "exit" /\ status' = s

Goto(p) == pc' = p /\ UNCHANGED status

-----------------------------------------------------------------------------
Start ==
  /\ pc = "start"
  /\ IF in.options /\ in.opens THEN Goto("detect") ELSE Exit("bad")
  /\ UNCHANGED <<in, key, files>>

\* The signature of version 2 is looked for first.  An unknown format is an error
\* only with -v; a header must be there in full.
Detect ==
  /\ pc = "detect"
  /\ IF (in.header = "unknown" /\ in.verbose) \/ in.len < HeaderLen[in.header]
     THEN Exit("bad") ELSE Goto("key")
  /\ UNCHANGED <<in, key, files>>

\* Both passes of the unwrapping end in a padding that only the right pass phrase gives.
Unwrapped == in.secret /\ in.header # "unknown"

\* From a version 2 header both keys are taken from the same place (lines 188, 189),
\* with -k the HMAC key is what follows the AES key.
SecretKey == CASE ~in.secret -> "wrong"
               [] in.secret /\ in.pass /\ in.header = "v2" /\ ~in.shared -> "half"
               [] OTHER -> "right"

\* Mutant of Key: the flags are confused.
KeySwapped ==
  /\ pc = "key"
  /\ key' = CASE ~(in.pass /\ Unwrapped) -> "unset"
              [] OTHER -> SecretKey
  /\ inPos' = IF in.header = "v2" THEN in.offset ELSE 0
  /\ Goto("loop")
  /\ UNCHANGED <<in, chunk_no, out, outPos, faults>>

\* -k is taken as it is; with -p the keys are unwrapped from the header.  That fails
\* for a wrong pass phrase (the padding shows it), but the result is not looked at, and
\* what the keys are is then not known; nor are they without a header.
Key ==
  /\ pc = "key"
  /\ key' = CASE in.pass /\ ~Unwrapped -> "unset"
              [] OTHER -> SecretKey
  /\ inPos' = IF in.header = "v2" THEN in.offset ELSE 0
  /\ Goto("loop")
  /\ UNCHANGED <<in, chunk_no, out, outPos, faults>>

\* Mutant of Ftell: the position in the input.
FtellIn == inPos

\* ftell(out): -1 if it is a pipe.
Ftell == IF in.seekable THEN outPos ELSE -1

Left == (in.size - Ftell) % Word

Last == in.header = "v2" /\ Left < Chunk

\* fwrite of n bytes of the chunk at hand, or none of them if it fails.
Fwrite(n, fails) ==
  IF fails
  THEN /\ faults < MaxFaults /\ faults' = faults + 1
       /\ UNCHANGED <<out, outPos>>
  ELSE /\ out' = IF n = 0 THEN out
                 ELSE Append(out, [no |-> chunk_no, at |-> inPos, len |-> n])
       /\ outPos' = outPos + n
       /\ UNCHANGED faults

\* Mutant of Decrypt: chunk_no counts what was written, not what was read.
DecryptCounts ==
  /\ pc = "loop" /\ inPos + Chunk <= in.len
  /\ \E fails \in BOOLEAN :
       /\ Fwrite(IF Last THEN Left ELSE Chunk, fails)
       /\ chunk_no' = IF fails THEN chunk_no ELSE chunk_no + 1
  /\ inPos' = inPos + Chunk
  /\ IF Last THEN Exit("ok") ELSE Goto("loop")
  /\ UNCHANGED <<in, key>>

\* A whole chunk is read, decrypted under its number, and written: all of it, or as
\* much as the data size leaves.
Decrypt ==
  /\ pc = "loop" /\ inPos + Chunk <= in.len
  /\ \E fails \in BOOLEAN : Fwrite(IF Last THEN Left ELSE Chunk, fails)
  /\ chunk_no' = chunk_no + 1
  /\ inPos' = inPos + Chunk
  /\ IF Last THEN Exit("ok") ELSE Goto("loop")
  /\ UNCHANGED <<in, key>>

\* Less than a chunk is left, or fread fails: the loop ends, what there is of the chunk
\* is dropped, and the status is 0.
EndOfInput ==
  /\ pc = "loop"
  /\ \/ inPos + Chunk > in.len /\ UNCHANGED faults
     \/ faults < MaxFaults /\ faults' = faults + 1
  /\ Exit("ok")
  /\ UNCHANGED <<in, key, inPos, chunk_no, out, outPos>>

Ended == pc = "exit" /\ UNCHANGED vars

Next == Start \/ Detect \/ Key \/ Decrypt \/ EndOfInput \/ Ended

Spec == Init /\ [][Next]_vars

-----------------------------------------------------------------------------
TypeOK ==
  /\ in \in Inputs
  /\ pc \in {"start", "detect", "key", "loop", "exit"}
  /\ key \in {"unset", "right", "wrong", "half"}
  /\ inPos \in Nat /\ (chunk_no > 0 => inPos <= in.len)
  /\ chunk_no \in Nat /\ outPos \in Nat
  /\ out \in Seq([no : Nat, at : Nat, len : Nat])
  /\ status \in {"none", "ok", "bad"}
  /\ faults \in 0..MaxFaults

Version2 == in.header = "v2" /\ in.seekable

\* The output never grows beyond the data size, although it is not known beforehand
\* which chunk is the last: what is left, an unsigned difference, never wraps.
NeverBeyond == Version2 => outPos <= in.size

\* Every piece of output was decrypted under the number of the chunk it was read from,
\* counted from where the data begins: also after writes that failed.
RightNumber ==
  \A k \in 1..Len(out) :
    out[k].at = (IF in.header = "v2" THEN in.offset ELSE 0) + Chunk * out[k].no

\* Where no write failed, the pieces lie without a gap where they belong.
Contiguous ==
  faults = 0 => \A k \in 1..Len(out) :
    out[k].no = k - 1 /\ (k < Len(out) => out[k].len = Chunk)

Chunks(n) == (n + Chunk - 1) \div Chunk

\* Exit status 0 and less than the data size: a read or write failed, or the input ends before
\* the last chunk does, be it by one byte of padding.
\* And data of no multiple of the chunk size is cut where it ends.
WholeOrCutOff ==
  pc = "exit" /\ status = "ok" /\ Version2 /\ outPos # in.size =>
    \/ faults > 0
    \/ in.len < in.offset + Chunk * Chunks(in.size)

\* A well-formed version 2 image, called for with the right key, comes out decrypted,
\* whole and with status 0 if no read or write fails.  Called for with the right pass phrase it
\* does too, except that the HMAC key is right only if it begins as the AES key does.
GoodCallGoodImage ==
  pc = "exit" /\ faults = 0 /\ Version2 /\ in.options /\ in.opens /\ in.secret
    /\ in.len >= HeaderLen["v2"] /\ in.len >= in.offset + Chunk * Chunks(in.size)
  => /\ status = "ok" /\ outPos = in.size
     /\ key = IF in.pass /\ ~in.shared THEN "half" ELSE "right"
=============================================================================
