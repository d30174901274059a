-------------------------------- MODULE Base64 --------------------------------
(***************************************************************************)
(* base64.c, as dmg2img calls it: a partition's table of blocks is a       *)
(* base64 text between XML tags, with line breaks and indentation.  It is  *)
(* cleaned in its buffer, then decoded in the same buffer, the decoder's   *)
(* writes following its reads.                                             *)
(*                                                                         *)
(* A byte is the disjunction of two operands, both of which read through   *)
(* tinp and one or both of which advance it: the language does not say     *)
(* which comes first, so the build decides it.                             *)
(***************************************************************************)
EXTENDS Integers, Sequences

CONSTANTS
  Texts,    \* sequences of character codes, each with four of base64's at least
  Orders    \* subset of {"left", "right"}: the operand that may be evaluated first

Pad == 61   \* '='

Capital == 65..90
Small   == 97..122
Digit   == 48..57

is_base64(c) == c \in Capital \cup Small \cup Digit \cup {43, 47, Pad}

decode_base64_char(c) == CASE c \in Capital -> c - 65
                           [] c \in Small   -> c - 97 + 26
                           [] c \in Digit   -> c - 48 + 52
                           [] c = 43        -> 62
                           [] c = Pad       -> 0
                           [] OTHER         -> 63

\* The characters of base64 among the first n of a text.
CleanUpTo(t, n) ==
  LET clean[k \in 0..Len(t)] ==
        IF k = 0 THEN <<>>
        ELSE IF is_base64(t[k]) THEN Append(clean[k - 1], t[k]) ELSE clean[k - 1]
  IN clean[n]

CleanOf(t) == CleanUpTo(t, Len(t))

\* '=' is the last character of its group, or the last two are.
PaddedAtTheEnd(c) ==
  LET n == 4 * (Len(c) \div 4)
  IN c[n - 1] = Pad => c[n] = Pad

TextAssumption ==
  /\ \A t \in Texts : /\ t \in Seq(1..127) /\ Len(CleanOf(t)) >= 4
                      /\ PaddedAtTheEnd(CleanOf(t))
  /\ Orders \subseteq {"left", "right"}

VARIABLES
  text,    \* the text as it was in the property list
  order,   \* how the build evaluates the operands
  pc,      \* "clean", "first", "second", "third" byte of a group, "pads", "done"
  buf,     \* parts[i], one byte longer than the text
  inp,     \* the index that tinp, tinp2 points to
  out,     \* the index that tout, tinp1 points to
  isize, osize

vars == <<text, order, pc, buf, inp, out, isize, osize>>
fixed == <<text, order>>

Init ==
  /\ text \in Texts /\ order \in Orders
  /\ pc = "clean"
  /\ buf = [k \in 0..Len(text) |-> IF k = Len(text) THEN 0 ELSE text[k + 1]]
  /\ inp = 0 /\ out = 0 /\ isize = 0 /\ osize = 0

-----------------------------------------------------------------------------
\* cleanup_base64: a character that is none of base64's is overwritten by the next.
CleanOne ==
  /\ pc = "clean" /\ inp < Len(text)
  /\ buf' = [buf EXCEPT ![out] = buf[inp]]
  /\ inp' = inp + 1
  /\ out' = IF is_base64(buf[inp]) THEN out + 1 ELSE out
  /\ UNCHANGED <<fixed, pc, isize, osize>>

strlen(b) == CHOOSE n \in DOMAIN b : b[n] = 0 /\ \A k \in 0..(n - 1) : b[k] # 0

\* Mutant of Cleaned: the end of the text is not marked.
CleanedOpen ==
  /\ pc = "clean" /\ inp >= Len(text)
  /\ isize' = strlen(buf) /\ osize' = (isize' \div 4) * 3
  /\ inp' = 0 /\ out' = 0 /\ pc' = "first"
  /\ UNCHANGED <<fixed, buf>>

\* The text is ended; its new length decides how much is decoded.
Cleaned ==
  /\ pc = "clean" /\ inp >= Len(text)
  /\ buf' = [buf EXCEPT ![out] = 0]
  /\ isize' = strlen(buf') /\ osize' = (isize' \div 4) * 3
  /\ inp' = 0 /\ out' = 0 /\ pc' = "first"
  /\ UNCHANGED fixed

\* The two operands of a byte, and how far tinp moves.  If the second one is evaluated
\* first, the first two bytes of a group get the same character twice.
Operand(k) == decode_base64_char(buf[inp + k])
Left  == IF order = "right" /\ pc = "third" THEN Operand(1) ELSE Operand(0)
Right == IF order = "right" THEN Operand(0) ELSE Operand(1)

Byte == CASE pc = "first"  -> ((Left * 4) % 256) + Right \div 16
          [] pc = "second" -> ((Left * 16) % 256) + Right \div 4
          [] pc = "third"  -> ((Left * 64) % 256) + Right

MoreGroups == inp \div 4 < isize \div 4

Follows == [first |-> "second", second |-> "third", third |-> "first"]

\* decode_base64: a group of four characters becomes three bytes.
Decode ==
  /\ pc \in {"first", "second", "third"} /\ (pc = "first" => MoreGroups)
  /\ buf' = [buf EXCEPT ![out] = Byte]
  /\ out' = out + 1
  /\ inp' = IF pc = "third" THEN inp + 2 ELSE inp + 1
  /\ pc' = Follows[pc]
  /\ UNCHANGED <<fixed, isize, osize>>

Decoded ==
  /\ pc = "first" /\ ~MoreGroups
  /\ pc' = "pads"
  /\ UNCHANGED <<fixed, buf, inp, out, isize, osize>>

IsPad(k) == IF buf[inp - k] = Pad THEN 1 ELSE 0

\* The last two characters, if they are still there.
Pads ==
  /\ pc = "pads"
  /\ osize' = osize - IsPad(1) - IsPad(2)
  /\ pc' = "done"
  /\ UNCHANGED <<fixed, buf, inp, out, isize>>

Ended == pc = "done" /\ UNCHANGED vars

Decoder == CleanOne \/ Cleaned \/ Decode \/ Decoded \/ Pads

Spec == Init /\ [][Decoder \/ Ended]_vars

-----------------------------------------------------------------------------
\* Types; no read or write leaves the buffer, and no write passes the reads.
TypeOK ==
  /\ text \in Seq(1..127) /\ order \in Orders
  /\ pc \in {"clean", "first", "second", "third", "pads", "done"}
  /\ DOMAIN buf = 0..Len(text) /\ \A k \in DOMAIN buf : buf[k] \in 0..255
  /\ inp \in 0..Len(text) /\ out \in 0..inp
  /\ isize \in 0..Len(text) /\ osize \in 0..Len(text)

Clean  == CleanOf(text)
Groups == Len(Clean) \div 4
Code(k) == decode_base64_char(Clean[k])

\* The definition of base64: four characters are a number of 24 bits.
Number(g) == 262144 * Code(4 * g + 1) + 4096 * Code(4 * g + 2) + 64 * Code(4 * g + 3)
               + Code(4 * g + 4)

\* What decode_base64 leaves in the buffer is what the text stands for and nothing
\* else, although it overwrites what it reads, provided that the build evaluates the
\* operands from left to right.
DecodesText ==
  pc \in {"pads", "done"} /\ order = "left" =>
    /\ isize = Len(Clean)
    /\ \A g \in 0..(Groups - 1) :
         Number(g) = 65536 * buf[3 * g] + 256 * buf[3 * g + 1] + buf[3 * g + 2]

PadsOfText == IF Clean[4 * Groups] # Pad THEN 0 ELSE IF Clean[4 * Groups - 1] # Pad THEN 1 ELSE 2

\* The size is three bytes for each group, less one for each '=' at the end.  In a text
\* of a single group the last but one character has been overwritten by the third byte
\* when it is looked at: "xx==" counts for two bytes, and three bytes of which the last
\* is '=' count for two.
SizeRight ==
  pc = "done" /\ osize # 3 * Groups - PadsOfText =>
    Groups = 1 /\ (PadsOfText = 2 \/ buf[2] = Pad)
=============================================================================
