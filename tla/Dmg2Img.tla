-------------------------------- MODULE Dmg2Img --------------------------------
(***************************************************************************)
(* dmg2img.c, main: the fourth partition of a disk image is written out,   *)
(* block by block.  The input is a trailer, a property list and, for each  *)
(* partition, a decoded block table: a header of 0xcc bytes and entries of *)
(* 0x28 bytes, each naming a type, a place and a size in the output.       *)
(*                                                                         *)
(* A sector of output is the piece of data it belongs to.  tmp and otmp    *)
(* are allocated once and keep what the block before left in them.  Two    *)
(* history variables say which block a sector was written for, and whose   *)
(* reads failed.                                                           *)
(***************************************************************************)
EXTENDS Integers, Sequences

CONSTANTS
  Inputs,     \* the disk images: found, creatable, trailer, plist, parts
  Data,       \* the pieces of data that a sector may hold
  MaxFaults,  \* bound: reads, writes, allocations and calls of zlib that fail
  Word        \* 2^32: the range of an unsigned int

HeadLen  == 204    \* 0xcc
EntryLen == 40     \* 0x28

Types == {"zlib", "copy", "zero", "other", "end"}

\* good: the data of a zlib block can be inflated.
Entries == [type : Types, out : Nat, size : Nat, data : Data, good : BOOLEAN]

\* The entries of a table are those that lie inside its len bytes as a whole.
HoldsItsEntries(p) ==
  /\ p.len < HeadLen + EntryLen * (Len(p.table) + 1)
  /\ p.table # <<>> => p.len >= HeadLen + EntryLen * Len(p.table)

\* Assumed by the modules that give the constants their values.
InputAssumption ==
  /\ MaxFaults \in Nat /\ Word \in Nat
  /\ {"none", "zero", "garbage"} \subseteq Data
  /\ \A d \in Inputs :
       /\ {d.found, d.creatable, d.trailer, d.plist} \subseteq BOOLEAN
       /\ d.parts \in Seq([len : 0..(Word - 1), table : Seq(Entries)])
       /\ \A p \in 1..Len(d.parts) : HoldsItsEntries(d.parts[p])

VARIABLES
  in,         \* the disk image
  pc,         \* "open", "part", "block", "close", "ended", or "wild": past the table
  i,          \* the partition, from 0
  offset,     \* the place in its table
  type,       \* block_type
  tmp, otmp,  \* the buffers for what is read and what is inflated
  image,      \* the sectors written so far
  status,     \* exit status: "ok" is 0, "bad" is -1 or a signal
  faults,
  from,       \* history: the entry that each sector of the image was written for
  misread     \* history: the entries of the wanted table whose fread failed

history == <<from, misread>>
vars == <<in, pc, i, offset, type, tmp, otmp, image, status, faults, history>>

Wanted == 3
Nothing == [kind |-> "none", data |-> "none"]

Table == in.parts[i + 1].table
Length == in.parts[i + 1].len

\* The number of the entry at offset.
Index == (offset - HeadLen) \div EntryLen + 1

Init ==
  /\ in \in Inputs
  /\ pc = "open" /\ i = 0 /\ offset = HeadLen /\ type = "none"
  /\ tmp = Nothing /\ otmp = "none"
  /\ image = <<>> /\ status = "none" /\ faults = 0
  /\ from = <<>> /\ misread = {}

Return(s) == pc' = "ended" /\ status' = s

-----------------------------------------------------------------------------
\* Lines 101-148.  A missing input is not an error; the output is opened, but not
\* whether it could be.
Open ==
  /\ pc = "open"
  /\ IF in.found /\ in.trailer /\ in.plist
     THEN pc' = "part" /\ UNCHANGED status
     ELSE Return(IF in.found THEN "bad" ELSE "ok")
  /\ UNCHANGED <<in, i, offset, type, tmp, otmp, image, faults, history>>

\* Mutant of Partition: the last one is never opened.
PartitionButLast ==
  /\ pc = "part"
  /\ pc' = IF i + 1 < Len(in.parts) THEN "block" ELSE "close"
  /\ offset' = HeadLen /\ type' = "none"
  /\ UNCHANGED <<in, i, tmp, otmp, image, status, faults, history>>

Partition ==
  /\ pc = "part"
  /\ pc' = IF i < Len(in.parts) THEN "block" ELSE "close"
  /\ offset' = HeadLen /\ type' = "none"
  /\ UNCHANGED <<in, i, tmp, otmp, image, status, faults, history>>

\* Mutant of More: two entries are left out.
MoreButTwo == type # "end" /\ offset < (Length - 2 * EntryLen) % Word

\* offset < partlen - 40, unsigned.
More == type # "end" /\ offset < (Length - EntryLen) % Word

LeaveTable ==
  /\ pc = "block" /\ ~More
  /\ IF i = Wanted THEN pc' = "close" /\ UNCHANGED i
                   ELSE pc' = "part" /\ i' = i + 1
  /\ UNCHANGED <<in, offset, type, tmp, otmp, image, status, faults, history>>

\* What lies behind the table is not known.
RunWild ==
  /\ pc = "block" /\ More /\ Index > Len(Table)
  /\ pc' = "wild"
  /\ UNCHANGED <<in, i, offset, type, tmp, otmp, image, status, faults, history>>

Sectors(d, n) == [s \in 1..n |-> d]

Write(d, n) == image' = image \o Sectors(d, n) /\ from' = from \o Sectors(Index, n)

\* Mutant of Done: skip is not looked at.
DoneUnskipped(d, n, fault) ==
  IF ~in.creatable
  THEN Return("bad") /\ UNCHANGED <<offset, image, from>>
  ELSE /\ offset' = offset + EntryLen
       /\ IF fault = "write" THEN UNCHANGED <<image, from>> ELSE Write(d, n)
       /\ UNCHANGED <<pc, status>>

\* The block at hand is done: fwrite of n sectors of d if this partition is wanted.
Done(d, n, fault) ==
  IF i = Wanted /\ ~in.creatable
  THEN Return("bad") /\ UNCHANGED <<offset, image, from>>
  ELSE /\ offset' = offset + EntryLen
       /\ IF i # Wanted \/ fault = "write" THEN UNCHANGED <<image, from>> ELSE Write(d, n)
       /\ UNCHANGED <<pc, status>>

Stop(s) == Return(s) /\ UNCHANGED <<offset, image, from>>

\* What a block holds; damaged data is like no data to inflate.
Content(b) == IF b.type = "zlib" /\ ~b.good THEN Nothing
              ELSE [kind |-> b.type, data |-> b.data]

\* fread into tmp, whose result is not looked at; if it fails, tmp is what it was, or
\* the beginning of the one and the end of the other.
Fread(b, fault) ==
  /\ tmp' \in IF fault = "read" THEN {tmp, Nothing} ELSE {Content(b)}
  /\ misread' = IF fault = "read" /\ i = Wanted THEN misread \cup {Index} ELSE misread

\* Mutant of Zlib: what is in otmp is written before the block is inflated into it.
ZlibLate(b, fault) ==
  /\ b.type = "zlib" /\ fault \in {"none", "read", "write"}
  /\ Fread(b, fault)
  /\ IF tmp'.kind = "zlib"
     THEN otmp' = tmp'.data /\ Done(otmp, b.size, fault)
     ELSE Stop("ok") /\ UNCHANGED otmp

\* inflateInit, inflate (as long as it takes) and inflateEnd: if one of them fails main
\* returns 0, be it for want of memory or because the data is damaged.
Zlib(b, fault) ==
  /\ b.type = "zlib"
  /\ \/ fault = "init" /\ Stop("ok") /\ UNCHANGED <<tmp, otmp, misread>>
     \/ fault \in {"none", "read", "write", "end"} /\ Fread(b, fault)
        /\ IF tmp'.kind # "zlib"
           THEN Stop("ok") /\ UNCHANGED otmp
           ELSE /\ otmp' = tmp'.data
                /\ IF fault = "end" THEN Stop("ok") ELSE Done(otmp', b.size, fault)

Copy(b, fault) ==
  /\ b.type = "copy" /\ fault \in {"none", "read", "write"}
  /\ Fread(b, fault)
  /\ Done(IF tmp'.kind = "copy" THEN tmp'.data ELSE "garbage", b.size, fault)
  /\ UNCHANGED otmp

Zero(b, fault) ==
  /\ b.type = "zero" /\ fault \in {"none", "alloc", "write"}
  /\ IF fault = "alloc" THEN Stop("bad") ELSE Done("zero", b.size, fault)
  /\ UNCHANGED <<tmp, otmp, misread>>

\* Other types and empty blocks are passed over.
Pass(b) ==
  /\ b.size = 0 \/ b.type \in {"other", "end"}
  /\ offset' = offset + EntryLen
  /\ UNCHANGED <<pc, status, tmp, otmp, image, history>>

Block ==
  /\ pc = "block" /\ More /\ Index <= Len(Table)
  /\ LET b == Table[Index] IN
     /\ type' = b.type
     /\ \/ Pass(b) /\ UNCHANGED faults
        \/ \E fault \in {"none", "read", "write", "alloc", "init", "end"} :
             /\ b.size > 0 /\ (Zlib(b, fault) \/ Copy(b, fault) \/ Zero(b, fault))
             /\ faults' = faults + (IF fault = "none" THEN 0 ELSE 1)
             /\ faults' <= MaxFaults
  /\ UNCHANGED <<in, i>>

\* fclose, also of a stream that could not be opened.
Close ==
  /\ pc = "close"
  /\ Return(IF in.creatable THEN "ok" ELSE "bad")
  /\ UNCHANGED <<in, i, offset, type, tmp, otmp, image, faults, history>>

Ended == pc \in {"ended", "wild"} /\ UNCHANGED vars

Next == Open \/ Partition \/ LeaveTable \/ RunWild \/ Block \/ Close \/ Ended

Spec == Init /\ [][Next]_vars

-----------------------------------------------------------------------------
TypeOK ==
  /\ in \in Inputs
  /\ pc \in {"open", "part", "block", "close", "ended", "wild"}
  /\ i \in Nat /\ (pc = "block" => i < Len(in.parts))
  /\ offset \in Nat /\ (offset - HeadLen) % EntryLen = 0
  /\ type \in Types \cup {"none"}
  /\ tmp.kind \in {"none", "zlib", "copy"}
  /\ image \in Seq(Data)
  /\ from \in Seq(Nat) /\ Len(from) = Len(image) /\ misread \subseteq Nat
  /\ status \in {"none", "ok", "bad"} /\ (status # "none" <=> pc = "ended")
  /\ faults \in 0..MaxFaults

\* A table as Apple's tools write it: undamaged blocks of known types that follow one
\* another in the output, and an end.
WellFormed(t) ==
  /\ Len(t) > 0 /\ t[Len(t)].type = "end" /\ t[1].out = 0
  /\ \A k \in 1..(Len(t) - 1) :
       /\ t[k].type \in {"zlib", "copy", "zero"}
       /\ t[k].type = "zero" => t[k].data = "zero"
       /\ t[k].type = "zlib" => t[k].good
       /\ t[k + 1].out = t[k].out + t[k].size

Sound == i = Wanted /\ i < Len(in.parts) /\ WellFormed(Table) /\ faults = 0

\* Blocks are written one after the other and out_offs is never used (line 204 only
\* prints it): yet each lands at the place its entry names, as long as the table is
\* contiguous.
InPlace ==
  pc = "block" /\ Sound /\ Index <= Len(Table) =>
    /\ Len(image) = Table[Index].out
    /\ \A k \in 1..(Index - 1) : \A s \in 1..Table[k].size :
         image[Table[k].out + s] = Table[k].data

\* A well-formed image comes out whole: nothing that the three partitions before
\* it left in the buffers, or the test that leaves out the last entry, is lost or
\* put in its place.
WholeImage ==
  pc = "close" /\ Sound =>
    /\ Len(image) = Table[Len(Table)].out
    /\ \A k \in 1..(Len(Table) - 1) : \A s \in 1..Table[k].size :
         image[Table[k].out + s] = Table[k].data

\* An entry is read only from inside the table, except when the table is shorter
\* than one entry, so that the subtraction wraps.
InsideTable == pc = "wild" => Length < EntryLen

WantedTable == in.parts[Wanted + 1].table

\* What belongs into the sectors of entry k.
Own(k) == IF WantedTable[k].type = "zero" THEN "zero" ELSE WantedTable[k].data

\* The pieces of data in the tables of the first n partitions.
Pieces(n) ==
  {d \in Data : \E p \in 1..n : /\ p <= Len(in.parts)
                              /\ \E k \in 1..Len(in.parts[p].table) :
                                   d = in.parts[p].table[k].data}

\* Those that may still be in the buffers when entry k is at hand.
Earlier(k) == Pieces(Wanted) \cup {WantedTable[j].data : j \in 1..(k - 1)}

\* Every sector holds the data of the block it was written for, whatever else failed,
\* unless the fread of that very block did: then it is data of a block before it in
\* this table or of a partition before this, or a mixture.  The exit status does not
\* tell.
StaleOnlyAfterFault ==
  \A s \in 1..Len(image) :
    \/ image[s] = Own(from[s])
    \/ from[s] \in misread /\ image[s] \in {"garbage"} \cup Earlier(from[s])

\* One of the first n partitions has a block that cannot be inflated.
Damaged(n) ==
  \E p \in 1..n : /\ p <= Len(in.parts)
                 /\ \E k \in 1..Len(in.parts[p].table) :
                      LET b == in.parts[p].table[k]
                      IN  b.type = "zlib" /\ b.size # 0 /\ ~b.good

\* Exit status 0 with something missing at the end means one of these, and nothing
\* else: no input, no fourth partition, a call that failed, a damaged block in the
\* fourth or in a partition before it that nobody wants, or a table of the fourth
\* that is not contiguous.  An undamaged image that is read and written without an
\* error comes out whole.
ZeroMeansWhole ==
  pc = "ended" /\ status = "ok" =>
    \/ ~in.found \/ Len(in.parts) <= Wanted \/ faults > 0 \/ Damaged(Wanted + 1)
    \/ WellFormed(WantedTable) => Len(image) = WantedTable[Len(WantedTable)].out

(***************************************************************************)
(* The inductive invariant behind these: where main is in the partitions   *)
(* and in the table, and where the data in its buffers comes from.         *)
(***************************************************************************)
\* Nothing is written before the fourth partition; the loop over the partitions ends
\* with it or with the last one.
StageInv ==
  /\ i <= Wanted
  /\ i < Wanted \/ pc \in {"open", "part"} => image = <<>>
  /\ image # <<>> => Wanted < Len(in.parts)
  /\ pc = "close" => i = Wanted \/ Len(in.parts) <= i
  /\ pc = "block" => offset >= HeadLen
  /\ pc = "ended" /\ status = "ok" /\ in.found /\ faults = 0 =>
       i = Wanted \/ Len(in.parts) <= i \/ Damaged(i + 1)

\* The pieces of data read so far: of the partitions before, and of the entries before
\* the one at hand.
Seen == Pieces(i) \cup
          (IF pc = "block" THEN {Table[j].data : j \in {k \in 1..Len(Table) : k < Index}}
                          ELSE {})

\* What the buffers hold was read from a block before the one at hand, or never.
BuffersInv ==
  pc \in {"open", "part", "block"} =>
    /\ tmp \in {Nothing} \cup [kind : {"zlib", "copy"}, data : Seen]
    /\ otmp \in {"none"} \cup Seen

\* The first n - 1 entries of a table are written out, each at its place.
WrittenUpTo(n) ==
  /\ Len(image) = Table[n].out
  /\ \A k \in 1..(n - 1) :
       /\ Table[k].out + Table[k].size <= Len(image)
       /\ \A s \in 1..Table[k].size : image[Table[k].out + s] = Table[k].data

\* type is that of the entry before the one at hand; nothing follows the end.
TableInv ==
  /\ pc = "block" /\ Sound =>
       /\ Index <= Len(Table) + 1
       /\ type = IF Index = 1 THEN "none" ELSE Table[Index - 1].type
       /\ WrittenUpTo(IF Index <= Len(Table) THEN Index ELSE Len(Table))
  /\ pc = "close" \/ (pc = "ended" /\ status = "ok" /\ in.found) =>
       (Sound => WrittenUpTo(Len(Table)))

IInv == TypeOK /\ InsideTable /\ StageInv /\ BuffersInv /\ TableInv /\ StaleOnlyAfterFault
=============================================================================
