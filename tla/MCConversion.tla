------------------------------ MODULE MCConversion ------------------------------
(***************************************************************************)
(* TLC instance of Conversion.  Of vfdecrypt: chunks of three bytes; files *)
(* and data sizes from nothing to three chunks and a bit, in step or not;  *)
(* every way to call it.  Of dmg2img: two small partitions (one of them    *)
(* twice) before the wanted one, whose table has up to two blocks (of all  *)
(* types, contiguous or not, some empty, some damaged) before its end;     *)
(* tables that are cut short, or shorter than an entry; inputs with parts  *)
(* missing or a damaged partition before the wanted one.                   *)
(***************************************************************************)
EXTENDS Conversion

Sizes == [h \in Headers |-> CASE h = "v1" -> 2 [] h = "v2" -> 2 [] OTHER -> 0]

Proper == [options : {TRUE}, opens : {TRUE}, header : Headers, len : 0..12,
           offset : {2}, size : 0..10, pass : {FALSE}, secret : {TRUE},
           shared : {FALSE}, verbose : {FALSE}, seekable : BOOLEAN]

\* Calls that differ in what is given.
Calls == [options : BOOLEAN, opens : BOOLEAN, header : Headers, len : {8},
          offset : {2, 9}, size : {4}, pass : BOOLEAN, secret : BOOLEAN,
          shared : BOOLEAN, verbose : BOOLEAN, seekable : {TRUE}]

AllCalls == Proper \cup Calls

HeadBytes == 204
EntryBytes == 40

E(t, o, n, d) == [type |-> t, out |-> o, size |-> n, data |-> d, good |-> TRUE]
Bad(e) == [e EXCEPT !.good = FALSE]
Full(t) == [len |-> HeadBytes + EntryBytes * Len(t), table |-> t]

Before == {Full(<<E("zlib", 0, 1, "map"), E("end", 1, 0, "none")>>),
           Full(<<E("copy", 0, 2, "free"), E("end", 2, 0, "none")>>)}

DamagedBefore == Full(<<Bad(E("zlib", 0, 1, "map")), E("end", 1, 0, "none")>>)

First  == {E(t, 0, n, "a") : t \in {"zlib", "copy", "other"}, n \in 0..2}
          \cup {E("zero", 0, 1, "zero"), Bad(E("zlib", 0, 1, "a"))}
Second == {E(t, o, 1, "b") : t \in {"zlib", "copy"}, o \in 1..2}
          \cup {E("zero", 1, 1, "zero"), Bad(E("zlib", 1, 1, "b"))}

Tables == {Full(<<a, b, E("end", b.out + b.size, 0, "none")>>) : a \in First, b \in Second}
          \cup {Full(<<a, E("end", a.size, 0, "none")>>) : a \in First}

\* No end, and part of an entry after the last; part of one after the end; less than
\* an entry; nothing but a header.
Odd == {Full(<<E("zlib", 0, 1, "a"), E("copy", 1, 1, "b")>>),
        [len |-> HeadBytes + EntryBytes + 7, table |-> <<E("zlib", 0, 1, "a")>>],
        [len |-> HeadBytes + EntryBytes * 2 + 7,
         table |-> <<E("zlib", 0, 1, "a"), E("end", 1, 0, "none")>>],
        [len |-> EntryBytes - 1, table |-> <<>>],
        [len |-> EntryBytes, table |-> <<>>],
        Full(<<>>)}

SomeData == {"map", "free", "a", "b", "none", "zero", "garbage"}

SomePartitions == {<<x, x, y, t>> : x \in Before, y \in Before, t \in Tables \cup Odd}
                  \cup {<<x, DamagedBefore, x, t>> : x \in Before, t \in Odd}
                  \cup {<<x, x, x>> : x \in Before}
                  \cup {<<>>} \cup {<<x>> : x \in Before \cup Odd}
=============================================================================
