---------------------------- MODULE ConversionProofs ----------------------------
(***************************************************************************)
(* What the run of Conversion checks of vfdecrypt and dmg2img on small     *)
(* images, for images, chunks, tables and partitions of any size and any   *)
(* number of failing reads and writes: first vfdecrypt, then what it hands *)
(* over, then dmg2img, then both together.                                 *)
(***************************************************************************)
EXTENDS Conversion, TLAPS

(***************************************************************************)
(* vfdecrypt.                                                              *)
(***************************************************************************)
Base == IF in.header = "v2" THEN in.offset ELSE 0

\* Nothing is read, decrypted or written before the loop.
NotBegun ==
  pc \in {"start", "detect", "key"} =>
    inPos = 0 /\ chunk_no = 0 /\ out = <<>> /\ outPos = 0 /\ faults = 0 /\ status = "none"

InStep == pc = "loop" => inPos = Base + Chunk * chunk_no /\ status = "none"

\* While the loop has not ended and no write has failed, every chunk was written whole.
FullSoFar ==
  pc = "loop" /\ faults = 0 =>
    /\ outPos = Chunk * chunk_no
    /\ Len(out) = chunk_no
    /\ \A k \in 1..Len(out) : out[k].no = k - 1 /\ out[k].len = Chunk

\* The key of a call with the right secret.
KeyKept ==
  pc \in {"loop", "exit"} /\ in.secret /\ in.header = "v2" /\ status # "bad" =>
    key = IF in.pass /\ ~in.shared THEN "half" ELSE "right"

\* An exit with "bad" is one of the tests before the loop.
BadIsEarly ==
  status = "bad" =>
    pc = "exit" /\ ~(in.options /\ in.opens /\ in.header = "v2" /\ in.len >= HeaderLen["v2"])

IInv ==
  /\ TypeOK /\ NotBegun /\ InStep /\ FullSoFar /\ KeyKept /\ BadIsEarly
  /\ NeverBeyond /\ RightNumber /\ Contiguous /\ WholeOrCutOff
  /\ (pc = "exit" => status # "none")

-----------------------------------------------------------------------------
\* A difference that is in range does not wrap.
LEMMA NoWrap ==
  ASSUME NEW w \in Nat, NEW x \in Nat, x < w
  PROVE  x % w = x
OBVIOUS

\* A remainder is in range.
LEMMA InRange ==
  ASSUME NEW w \in Nat, w > 0, NEW x \in Int
  PROVE  x % w \in 0..(w - 1)
OBVIOUS

\* Append.
LEMMA Appended ==
  ASSUME NEW S, NEW s \in Seq(S), NEW e \in S
  PROVE  /\ Append(s, e) \in Seq(S)
         /\ Len(Append(s, e)) = Len(s) + 1
         /\ \A k \in 1..Len(s) : Append(s, e)[k] = s[k]
         /\ Append(s, e)[Len(s) + 1] = e
OBVIOUS

\* A number of chunks is a number.
LEMMA ChunksType ==
  ASSUME NEW s \in Nat, Chunk \in Nat \ {0}
  PROVE  Chunks(s) \in Int
BY DEF Chunks

\* n chunks that do not hold s bytes are fewer than Chunks(s).
LEMMA OneMoreChunk ==
  ASSUME NEW c \in Nat \ {0}, NEW n \in Nat, NEW s \in Nat, c * n < s
  PROVE  c * n + c <= c * ((s + c - 1) \div c)
<1> DEFINE q == (s + c - 1) \div c
<1>1. q \in Int /\ s + c - 1 < c * q + c
  OBVIOUS
<1>2. c * (n + 1) < c * (q + 1)
  BY <1>1
<1>3. n + 1 < q + 1
  BY <1>1, <1>2
<1>4. c * (n + 1) <= c * q
  BY <1>1, <1>3
<1> QED
  BY <1>4, <1>1

\* What a call is made of.
LEMMA CallType ==
  ASSUME in \in Inputs
  PROVE  /\ in.header \in Headers /\ in.len \in Nat /\ in.offset \in Nat
         /\ Word > 0 /\ in.size \in 0..(Word - 1)
         /\ {in.options, in.opens, in.pass, in.secret, in.shared, in.verbose,
               in.seekable} \subseteq BOOLEAN
         /\ Base \in Nat
         /\ Chunk \in Nat \ {0} /\ Word \in Nat /\ MaxFaults \in Nat
BY InputAssumption DEF Base

-----------------------------------------------------------------------------
THEOREM Initially == Init => IInv
<1> SUFFICES ASSUME Init PROVE IInv
  OBVIOUS
<1> USE DEF Init
<1>1. TypeOK
  BY InputAssumption DEF TypeOK
<1>2. NotBegun /\ InStep /\ FullSoFar /\ KeyKept /\ BadIsEarly
  BY DEF NotBegun, InStep, FullSoFar, KeyKept, BadIsEarly
<1>3. NeverBeyond
  BY CallType DEF NeverBeyond
<1>4. RightNumber /\ Contiguous /\ WholeOrCutOff
  BY DEF RightNumber, Contiguous, WholeOrCutOff
<1> QED
  BY <1>1, <1>2, <1>3, <1>4 DEF IInv

\* The steps before the loop.
LEMMA EarlySteps ==
  ASSUME IInv, Start \/ Detect \/ Key
  PROVE  IInv'
<1> USE DEF IInv
<1>1. pc \in {"start", "detect", "key"} /\ pc' \in {"detect", "key", "loop", "exit"}
  BY DEF Start, Detect, Key, Goto, Exit
<1>2. /\ in' = in /\ chunk_no' = 0 /\ out' = <<>> /\ outPos' = 0 /\ faults' = 0
      /\ chunk_no = 0 /\ outPos = 0 /\ status = "none"
  BY <1>1 DEF Start, Detect, Key, files, NotBegun
<1>3. inPos' = (IF pc' = "loop" THEN Base ELSE 0)
  BY <1>1 DEF Start, Detect, Key, files, NotBegun, Goto, Exit, Base
<1>4. key' \in {"unset", "right", "wrong", "half"}
  BY DEF Start, Detect, Key, SecretKey, Unwrapped, TypeOK
<1>5. status' \in {"none", "bad"} /\ (pc' = "exit" <=> status' = "bad")
  BY <1>1, <1>2 DEF Start, Detect, Key, Goto, Exit
<1>6. in \in Inputs
  BY DEF TypeOK
<1>7. TypeOK'
  BY <1>1, <1>2, <1>3, <1>4, <1>5, <1>6, CallType DEF TypeOK
<1>8. NotBegun'
  BY <1>1, <1>2, <1>3, <1>5 DEF NotBegun
<1>9. InStep' /\ FullSoFar'
  BY <1>1, <1>2, <1>3, <1>5, <1>6, CallType DEF InStep, FullSoFar, Base
<1>10. KeyKept'
  BY <1>1, <1>2, <1>5, <1>6, CallType
    DEF KeyKept, Start, Detect, Key, SecretKey, Unwrapped, Goto, Exit
<1>11. BadIsEarly'
  <2>1. CASE Start
    BY <2>1, <1>1, <1>2, <1>5 DEF BadIsEarly, Start, Goto, Exit
  <2>2. CASE Detect
    BY <2>2, <1>1, <1>2, <1>5, <1>6, CallType, InputAssumption
      DEF BadIsEarly, Detect, Goto, Exit, Headers
  <2>3. CASE Key
    BY <2>3, <1>1, <1>2, <1>5 DEF BadIsEarly, Key, Goto
  <2> QED
    BY <2>1, <2>2, <2>3
<1>12. NeverBeyond'
  BY <1>2, <1>6, CallType DEF NeverBeyond, Version2
<1>13. RightNumber' /\ Contiguous' /\ WholeOrCutOff'
  BY <1>2, <1>5 DEF RightNumber, Contiguous, WholeOrCutOff
<1> QED
  BY <1>5, <1>7, <1>8, <1>9, <1>10, <1>11, <1>12, <1>13

\* One chunk: n bytes are written, or none.
LEMMA ChunkStep ==
  ASSUME IInv, Decrypt
  PROVE  IInv'
<1> USE DEF IInv
<1> DEFINE n == IF Last THEN Left ELSE Chunk
           piece == [no |-> chunk_no, at |-> inPos, len |-> n]
<1>1. PICK fails \in BOOLEAN : Fwrite(n, fails)
  BY DEF Decrypt
<1>2. /\ pc = "loop" /\ inPos + Chunk <= in.len
      /\ chunk_no' = chunk_no + 1 /\ inPos' = inPos + Chunk
      /\ in' = in /\ key' = key
      /\ Base' = Base
  BY DEF Decrypt, Base
<1>3. /\ Last => pc' = "exit" /\ status' = "ok"
      /\ ~Last => pc' = "loop" /\ status' = status
  BY DEF Decrypt, Exit, Goto
<1>4. in \in Inputs /\ inPos \in Nat /\ chunk_no \in Nat /\ outPos \in Nat
        /\ faults \in Nat /\ out \in Seq([no : Nat, at : Nat, len : Nat])
  BY DEF TypeOK
<1>5. inPos = Base + Chunk * chunk_no /\ status = "none"
  BY <1>2 DEF InStep
<1>6. inPos' = Base + Chunk * (chunk_no + 1)
  BY <1>2, <1>4, <1>5, CallType
<1>7. Ftell \in Int
  BY <1>4 DEF Ftell
<1>8. Left \in Nat
  BY <1>4, <1>7, CallType, InRange DEF Left
<1>9. n \in Nat /\ (~Last => n = Chunk /\ n > 0)
  BY <1>4, <1>8, CallType
<1>10. ASSUME Version2 PROVE Left = in.size - outPos
  <2>1. Ftell = outPos /\ outPos <= in.size
    BY <1>10 DEF Version2, NeverBeyond, Ftell
  <2>2. in.size - outPos \in Nat /\ in.size - outPos < Word /\ Word \in Nat
    BY <2>1, <1>4, CallType
  <2>3. (in.size - outPos) % Word = in.size - outPos
    BY <2>2, NoWrap
  <2> QED
    BY <2>1, <2>3 DEF Left
<1>11. \/ faults < MaxFaults /\ faults' = faults + 1 /\ out' = out /\ outPos' = outPos
       \/ faults' = faults /\ outPos' = outPos + n
            /\ out' = (IF n = 0 THEN out ELSE Append(out, piece))
  <2>1. CASE fails
    BY <2>1, <1>1 DEF Fwrite
  <2>2. CASE ~fails
    BY <2>2, <1>1 DEF Fwrite
  <2> QED
    BY <2>1, <2>2
<1>12. piece \in [no : Nat, at : Nat, len : Nat]
  BY <1>4, <1>9
<1> HIDE DEF n, piece
<1> DEFINE R == [no : Nat, at : Nat, len : Nat]
<1>13. \/ n = 0 /\ out' = out
       \/ faults' = faults + 1 /\ out' = out
       \/ faults' = faults /\ n # 0 /\ out' = Append(out, piece)
  BY <1>11
<1>14. /\ Append(out, piece) \in Seq(R)
       /\ Len(Append(out, piece)) = Len(out) + 1
       /\ \A k \in 1..Len(out) : Append(out, piece)[k] = out[k]
       /\ Append(out, piece)[Len(out) + 1] = piece
  BY <1>4, <1>12, Appended
<1>15. /\ out' \in Seq(R)
       /\ \A k \in 1..Len(out') :
            \/ k \in 1..Len(out) /\ out'[k] = out[k]
            \/ k = Len(out) + 1 /\ out'[k] = piece
       /\ Len(out') \in {Len(out), Len(out) + 1}
       /\ n # 0 /\ faults' = faults => Len(out') = Len(out) + 1
  <2>1. CASE out' = out
    BY <2>1, <1>4, <1>13
  <2>2. CASE out' = Append(out, piece)
    <3>1. Len(out) \in Nat
      BY <1>4
    <3> QED
      BY <2>2, <3>1, <1>14
  <2> QED
    BY <2>1, <2>2, <1>13
<1>16. TypeOK'
  <2>1. inPos' \in Nat /\ inPos' <= in'.len
    BY <1>2, <1>4, CallType
  <2>2. chunk_no' \in Nat
    BY <1>2, <1>4
  <2>3. outPos' \in Nat
    <3>1. outPos' \in {outPos, outPos + n}
      BY <1>11
    <3> QED
      BY <3>1, <1>4, <1>9, CallType
  <2>4. faults' \in 0..MaxFaults
    BY <1>4, <1>11, CallType DEF TypeOK
  <2>5. pc' \in {"loop", "exit"} /\ status' \in {"none", "ok"}
    BY <1>3, <1>5
  <2> QED
    BY <2>1, <2>2, <2>3, <2>4, <2>5, <1>2, <1>15 DEF TypeOK
<1>17. NotBegun' /\ InStep'
  BY <1>2, <1>3, <1>5, <1>6, CallType DEF NotBegun, InStep, Base
<1>18. FullSoFar'
  <2> SUFFICES ASSUME pc' = "loop", faults' = 0
               PROVE  /\ outPos' = Chunk * chunk_no'
                      /\ Len(out') = chunk_no'
                      /\ \A k \in 1..Len(out') : out'[k].no = k - 1 /\ out'[k].len = Chunk
    BY DEF FullSoFar
  <2>1. ~Last /\ n = Chunk /\ n # 0
    BY <1>3, <1>9
  <2>2. faults = 0 /\ faults' = faults
    BY <1>4, <1>11
  <2>3. /\ outPos = Chunk * chunk_no /\ Len(out) = chunk_no
        /\ \A k \in 1..Len(out) : out[k].no = k - 1 /\ out[k].len = Chunk
    BY <2>2, <1>2 DEF FullSoFar
  <2>4. outPos' = Chunk * chunk_no'
    BY <2>1, <2>2, <2>3, <1>2, <1>4, <1>11, CallType
  <2>5. Len(out') = chunk_no'
    BY <2>1, <2>2, <2>3, <1>2, <1>15
  <2>6. piece.no = chunk_no /\ piece.len = Chunk
    BY <2>1 DEF piece
  <2> QED
    <3>1. ASSUME NEW k \in 1..Len(out')
          PROVE  out'[k].no = k - 1 /\ out'[k].len = Chunk
      <4>1. CASE k \in 1..Len(out) /\ out'[k] = out[k]
        BY <4>1, <2>3
      <4>2. CASE k = Len(out) + 1 /\ out'[k] = piece
        BY <4>2, <2>3, <2>6, <1>4
      <4> QED
        BY <4>1, <4>2, <1>15
    <3> QED
      BY <3>1, <2>4, <2>5
<1>19. KeyKept' /\ BadIsEarly'
  BY <1>2, <1>3, <1>5 DEF KeyKept, BadIsEarly
<1>20. NeverBeyond'
  <2> SUFFICES ASSUME Version2 PROVE outPos' <= in.size
    BY <1>2 DEF NeverBeyond, Version2
  <2>1. outPos <= in.size /\ Left = in.size - outPos
    BY <1>10 DEF NeverBeyond
  <2>2. n <= Left
    <3>1. ~Last => Chunk <= Left
      BY <1>4, <1>8, CallType DEF Last, Version2
    <3> QED
      BY <3>1, <1>8 DEF n
  <2>3. outPos' \in {outPos, outPos + n}
    BY <1>11
  <2>4. in.size \in Nat
    BY <1>4, CallType
  <2> QED
    BY <2>1, <2>2, <2>3, <2>4, <1>4, <1>8, <1>9
<1>21. RightNumber'
  <2> SUFFICES ASSUME NEW k \in 1..Len(out')
               PROVE  out'[k].at = Base + Chunk * out'[k].no
    BY <1>2 DEF RightNumber, Base
  <2>1. CASE k \in 1..Len(out) /\ out'[k] = out[k]
    BY <2>1 DEF RightNumber, Base
  <2>2. CASE out'[k] = piece
    BY <2>2, <1>5 DEF piece
  <2> QED
    BY <2>1, <2>2, <1>15
<1>22. Contiguous'
  <2> SUFFICES ASSUME faults' = 0, NEW k \in 1..Len(out')
               PROVE  out'[k].no = k - 1 /\ (k < Len(out') => out'[k].len = Chunk)
    BY DEF Contiguous
  <2>1. faults = 0
    BY <1>4, <1>11
  <2>2. /\ Len(out) = chunk_no
        /\ \A j \in 1..Len(out) : out[j].no = j - 1 /\ out[j].len = Chunk
    BY <2>1, <1>2 DEF FullSoFar
  <2>3. CASE k \in 1..Len(out) /\ out'[k] = out[k]
    BY <2>2, <2>3
  <2>4. CASE k = Len(out) + 1 /\ out'[k] = piece
    BY <2>2, <2>4, <1>4, <1>15 DEF piece
  <2> QED
    BY <2>3, <2>4, <1>15
<1>23. WholeOrCutOff'
  <2> SUFFICES ASSUME pc' = "exit", Version2', faults' = 0
               PROVE  outPos' = in'.size
    BY <1>4, <1>11 DEF WholeOrCutOff
  <2>1. Last /\ faults' = faults /\ Version2
    BY <1>2, <1>3, <1>4, <1>11 DEF Version2
  <2> QED
    BY <2>1, <1>2, <1>4, <1>10, <1>11, CallType DEF n
<1> QED
  BY <1>3, <1>5, <1>16, <1>17, <1>18, <1>19, <1>20, <1>21, <1>22, <1>23

\* The end of the input, or a read that fails.
LEMMA LastStep ==
  ASSUME IInv, EndOfInput
  PROVE  IInv'
<1> USE DEF IInv
<1>1. /\ pc = "loop" /\ pc' = "exit" /\ status' = "ok"
      /\ UNCHANGED <<in, key, inPos, chunk_no, out, outPos>>
      /\ \/ inPos + Chunk > in.len /\ faults' = faults
         \/ faults < MaxFaults /\ faults' = faults + 1
  BY DEF EndOfInput, Exit
<1>2. in \in Inputs /\ chunk_no \in Nat /\ outPos \in Nat /\ faults \in Nat
  BY DEF TypeOK
<1>3. faults' \in 0..MaxFaults /\ (faults' = 0 => faults = 0 /\ inPos + Chunk > in.len)
  BY <1>1, <1>2, CallType DEF TypeOK
<1>4. TypeOK' /\ NotBegun' /\ InStep' /\ FullSoFar' /\ KeyKept' /\ BadIsEarly'
  BY <1>1, <1>3 DEF TypeOK, NotBegun, InStep, FullSoFar, KeyKept, BadIsEarly
<1>5. NeverBeyond' /\ RightNumber' /\ Contiguous'
  BY <1>1, <1>3 DEF NeverBeyond, Version2, RightNumber, Contiguous
<1>6. WholeOrCutOff'
  <2> SUFFICES ASSUME Version2, outPos # in.size, faults' = 0
               PROVE  in.len < in.offset + Chunk * Chunks(in.size)
    BY <1>1, <1>3 DEF WholeOrCutOff, Version2, Chunks
  <2>1. inPos = in.offset + Chunk * chunk_no /\ outPos = Chunk * chunk_no
    BY <1>1, <1>3 DEF InStep, Base, Version2, FullSoFar
  <2>2. Chunk * chunk_no < in.size /\ in.size \in Nat
    BY <2>1, <1>2, CallType DEF NeverBeyond
  <2>3. Chunk * chunk_no + Chunk <= Chunk * Chunks(in.size)
    BY <2>2, <1>2, CallType, OneMoreChunk DEF Chunks
  <2>4. Chunks(in.size) \in Int
    BY <2>2, <1>2, CallType, ChunksType
  <2> QED
    BY <2>1, <2>3, <2>4, <1>2, <1>3, CallType
<1> QED
  BY <1>1, <1>4, <1>5, <1>6

THEOREM Preserved == IInv /\ [Next]_vars => IInv'
<1> SUFFICES ASSUME IInv, [Next]_vars PROVE IInv'
  OBVIOUS
<1>1. CASE Start \/ Detect \/ Key
  BY <1>1, EarlySteps
<1>2. CASE Decrypt
  BY <1>2, ChunkStep
<1>3. CASE EndOfInput
  BY <1>3, LastStep
<1>4. CASE UNCHANGED vars
  BY <1>4
    DEF vars, IInv, TypeOK, NotBegun, InStep, FullSoFar, KeyKept, BadIsEarly, NeverBeyond,
              Version2, RightNumber, Contiguous, WholeOrCutOff, Chunks, Base
<1> QED
  BY <1>1, <1>2, <1>3, <1>4 DEF Next, Ended

\* The inductive invariant: where the loop stands, in the input, in the output and in
\* its count of chunks.
THEOREM Chunkwise == Spec => []IInv
BY Initially, Preserved, PTL DEF Spec

\* Type correctness.
THEOREM TypeCorrect == Spec => []TypeOK
<1>1. IInv => TypeOK
  BY DEF IInv
<1> QED
  BY <1>1, Chunkwise, PTL

\* The unsigned difference (vfdecrypt.c, line 372) never wraps: the output of a
\* version 2 image never grows beyond its data size.
THEOREM NeverTooMuch == Spec => []NeverBeyond
<1>1. IInv => NeverBeyond
  BY DEF IInv
<1> QED
  BY <1>1, Chunkwise, PTL

\* Every piece of the output was decrypted under its own chunk's number.
THEOREM NumberedByPlace == Spec => []RightNumber
<1>1. IInv => RightNumber
  BY DEF IInv
<1> QED
  BY <1>1, Chunkwise, PTL

\* Without a failing call the pieces lie without a gap where they belong.
THEOREM NoGap == Spec => []Contiguous
<1>1. IInv => Contiguous
  BY DEF IInv
<1> QED
  BY <1>1, Chunkwise, PTL

\* Exit status 0 and less than the data size: a call failed or the input was cut off.
THEOREM ShortOutputExplained == Spec => []WholeOrCutOff
<1>1. IInv => WholeOrCutOff
  BY DEF IInv
<1> QED
  BY <1>1, Chunkwise, PTL

\* The right call on a whole image gives the whole plaintext and status 0.
THEOREM GoodCalls == Spec => []GoodCallGoodImage
<1>1. ASSUME IInv PROVE GoodCallGoodImage
  <2> SUFFICES ASSUME pc = "exit", faults = 0, Version2, in.options, in.opens, in.secret,
                      in.len >= HeaderLen["v2"],
                      in.len >= in.offset + Chunk * Chunks(in.size)
               PROVE  /\ status = "ok" /\ outPos = in.size
                      /\ key = IF in.pass /\ ~in.shared THEN "half" ELSE "right"
    BY DEF GoodCallGoodImage
  <2>1. status = "ok"
    BY <1>1 DEF IInv, BadIsEarly, Version2, TypeOK
  <2>2. key = IF in.pass /\ ~in.shared THEN "half" ELSE "right"
    BY <1>1, <2>1 DEF IInv, KeyKept, Version2
  <2>3. in \in Inputs
    BY <1>1 DEF IInv, TypeOK
  <2>4. in.size \in Nat /\ Chunks(in.size) \in Int
    BY <2>3, CallType, ChunksType
  <2>5. outPos = in.size
    BY <1>1, <2>1, <2>3, <2>4, CallType DEF IInv, WholeOrCutOff
  <2> QED
    BY <2>1, <2>2, <2>5
<1> QED
  BY <1>1, Chunkwise, PTL

-----------------------------------------------------------------------------
(***************************************************************************)
(* What vfdecrypt hands over.                                              *)
(***************************************************************************)
\* The chunk that the last piece was read from.
LastNo == out[Len(out)].no

\* Pieces may be missing, but only as a whole: their numbers grow, and before the last
\* all are chunks.
GapInv ==
  /\ pc = "loop" => outPos = Chunk * Len(out)
  /\ out # <<>> => /\ LastNo < chunk_no
                   /\ outPos = Chunk * (Len(out) - 1) + out[Len(out)].len
  /\ \A k \in 1..Len(out) : k - 1 <= out[k].no /\ out[k].no + (Len(out) - k) <= LastNo

\* dmg2img gets past its first tests only with a trailer and a property list, and
\* these are what vfdecrypt has handed over.
HandedOver ==
  /\ ~dmg.found => at = "open"
  /\ at = "open" => result = "none"
  /\ dmg.found => /\ pc = "start"
                  /\ dmg.trailer /\ dmg.plist => decrypted.right
                  /\ at = "open" \/ (at = "ended" /\ result = "bad") \/ (dmg.trailer /\ dmg.plist)

ConvInv == IInv /\ GapInv /\ HandedOver

-----------------------------------------------------------------------------
\* A piece of the output.
LEMMA PieceType ==
  ASSUME TypeOK, NEW k \in 1..Len(out)
  PROVE  out[k].no \in Nat /\ out[k].at \in Nat /\ out[k].len \in Nat
<1> DEFINE R == [no : Nat, at : Nat, len : Nat]
<1>1. out \in Seq(R)
  BY DEF TypeOK
<1> HIDE DEF R
<1>2. out[k] \in R
  BY <1>1
<1> QED
  BY <1>2 DEF R

\* The last of them.
LEMMA LastType ==
  ASSUME TypeOK, out # <<>>
  PROVE  Len(out) \in 1..Len(out) /\ LastNo \in Nat /\ out[Len(out)].len \in Nat
<1>1. Len(out) \in 1..Len(out)
  BY DEF TypeOK
<1> QED
  BY <1>1, PieceType DEF LastNo

\* A number and the pieces after it, when one more is written.
LEMMA OneMore ==
  ASSUME NEW a \in Nat, NEW len \in Nat, NEW k \in Nat, NEW last \in Nat, NEW c \in Nat,
         a + (len - k) <= last, last + 1 <= c
  PROVE  a + (len + 1 - k) <= c
OBVIOUS

\* Nothing is written yet.
LEMMA GapInitially == Init => GapInv
<1> SUFFICES ASSUME Init PROVE GapInv
  OBVIOUS
<1> QED
  BY DEF Init, GapInv

\* Neither the steps before the loop nor the end of the input write anything.
LEMMA GapNoWrite ==
  ASSUME IInv, GapInv, Start \/ Detect \/ Key \/ EndOfInput \/ UNCHANGED vars
  PROVE  GapInv'
<1>1. CASE Start \/ Detect \/ Key
  <2>1. out' = <<>> /\ outPos' = 0
    BY <1>1 DEF IInv, NotBegun, Start, Detect, Key, files
  <2>2. in \in Inputs
    BY DEF IInv, TypeOK
  <2>3. Chunk * Len(out') = 0
    BY <2>1, <2>2, CallType
  <2> QED
    BY <2>1, <2>3 DEF GapInv
<1>2. CASE EndOfInput
  BY <1>2 DEF EndOfInput, Exit, GapInv, LastNo
<1>3. CASE UNCHANGED vars
  BY <1>3 DEF vars, GapInv, LastNo
<1> QED
  BY <1>1, <1>2, <1>3

\* A chunk is written whole, or cut if it is the last, or not at all.
LEMMA GapWrite == ASSUME IInv, GapInv, Decrypt PROVE GapInv'
<1> DEFINE n == IF Last THEN Left ELSE Chunk
           piece == [no |-> chunk_no, at |-> inPos, len |-> n]
           R == [no : Nat, at : Nat, len : Nat]
<1>1. PICK fails \in BOOLEAN : Fwrite(n, fails)
  BY DEF Decrypt
<1>2. pc = "loop" /\ chunk_no' = chunk_no + 1 /\ in' = in
  BY DEF Decrypt
<1>3. pc' = "loop" => n = Chunk
  BY DEF Decrypt, Exit, Goto
<1>4. in \in Inputs /\ inPos \in Nat /\ chunk_no \in Nat /\ outPos \in Nat /\ out \in Seq(R)
  BY DEF IInv, TypeOK
<1>5. n \in Nat /\ Chunk \in Nat \ {0} /\ Len(out) \in Nat
  <2>1. Ftell \in Int
    BY <1>4 DEF Ftell
  <2>2. Left \in Nat
    BY <1>4, <2>1, CallType, InRange DEF Left
  <2> QED
    BY <1>4, <2>2, CallType
<1>6. \/ out' = out /\ outPos' = outPos /\ (fails \/ n = 0)
      \/ out' = Append(out, piece) /\ outPos' = outPos + n
  <2>1. CASE fails
    BY <2>1, <1>1 DEF Fwrite
  <2>2. CASE ~fails
    BY <2>2, <1>1, <1>4 DEF Fwrite
  <2> QED
    BY <2>1, <2>2
<1>7. piece \in R /\ piece.no = chunk_no /\ piece.len = n
  BY <1>4, <1>5
<1> HIDE DEF n, piece
<1>8. outPos = Chunk * Len(out)
  BY <1>2 DEF GapInv
<1>9. CASE out' = out /\ outPos' = outPos
  <2>1. out # <<>> => LastNo < chunk_no'
    BY <1>2, <1>4, LastType DEF GapInv, IInv
  <2> QED
    BY <2>1, <1>8, <1>9 DEF GapInv, LastNo
<1>10. CASE out' = Append(out, piece) /\ outPos' = outPos + n
  <2>1. /\ Len(out') = Len(out) + 1
        /\ \A k \in 1..Len(out) : out'[k] = out[k]
        /\ out'[Len(out) + 1] = piece
    BY <1>4, <1>7, <1>10, Appended
  <2>2. LastNo' = chunk_no /\ out'[Len(out')].len = n
    BY <2>1, <1>7 DEF LastNo
  <2>3. outPos' = Chunk * (Len(out') - 1) + n
    BY <2>1, <1>5, <1>8, <1>10
  <2>4. pc' = "loop" => outPos' = Chunk * Len(out')
    <3>1. Chunk * (Len(out) + 1) = Chunk * Len(out) + Chunk
      BY <1>5
    <3> QED
      BY <3>1, <2>1, <1>3, <1>5, <1>8, <1>10
  <2>5. \A k \in 1..Len(out) : out[k].no \in Nat
    BY PieceType DEF IInv
  <2>6. out # <<>> => LastNo \in Nat /\ Len(out) - 1 <= LastNo /\ LastNo < chunk_no
    BY LastType DEF GapInv, LastNo, IInv
  <2>7. Len(out) <= chunk_no
    <3>1. CASE out = <<>>
      BY <3>1, <1>4
    <3>2. CASE out # <<>>
      BY <3>2, <2>6, <1>4, <1>5
    <3> QED
      BY <3>1, <3>2
  <2>8. ASSUME NEW k \in 1..Len(out')
        PROVE  k - 1 <= out'[k].no /\ out'[k].no + (Len(out') - k) <= LastNo'
    <3>1. CASE k \in 1..Len(out)
      <4>1. k - 1 <= out[k].no /\ out[k].no + (Len(out) - k) <= LastNo
        BY <3>1 DEF GapInv
      <4>2. out # <<>>
        BY <3>1, <1>4
      <4>3. out[k].no \in Nat /\ k \in Nat /\ LastNo \in Nat /\ LastNo + 1 <= chunk_no
        BY <3>1, <4>2, <2>5, <2>6, <1>4
      <4>4. out[k].no + (Len(out) + 1 - k) <= chunk_no
        BY <4>1, <4>3, <1>4, <1>5, OneMore
      <4>5. out'[k] = out[k] /\ Len(out') = Len(out) + 1 /\ LastNo' = chunk_no
        BY <3>1, <2>1, <2>2
      <4> QED
        BY <4>1, <4>4, <4>5
    <3>2. CASE k = Len(out) + 1
      BY <3>2, <2>1, <2>2, <2>7, <1>4, <1>5, <1>7
    <3> QED
      BY <3>1, <3>2, <2>1, <1>5
  <2> QED
    BY <2>1, <2>2, <2>3, <2>4, <2>8, <1>2, <1>4 DEF GapInv
<1> QED
  BY <1>6, <1>9, <1>10

LEMMA GapPreserved == ASSUME IInv, GapInv, [Next]_vars PROVE GapInv'
BY GapNoWrite, GapWrite DEF Next, Ended

-----------------------------------------------------------------------------
\* Two places and a count are enough: a file that ends with the last byte of the image
\* and is as long as the image has all of it, in order.
LEMMA EndAndLengthSuffice ==
  ASSUME IInv, GapInv, Version2, Ends, outPos = in.size
  PROVE  Right
<1>1. in \in Inputs /\ out \in Seq([no : Nat, at : Nat, len : Nat]) /\ in.header = "v2"
  BY DEF IInv, TypeOK, Version2
<1>2. Chunk \in Nat \ {0} /\ in.offset \in Nat /\ in.size \in Nat
  BY <1>1, CallType
<1>3. out # <<>> /\ Len(out) \in Nat /\ Len(out) \in 1..Len(out)
  BY <1>1 DEF Ends
<1>4. LastNo \in Nat /\ out[Len(out)].len \in Nat
  BY <1>3, LastType DEF IInv
<1>5. \A k \in 1..Len(out) : out[k].no \in Nat /\ out[k].at = in.offset + Chunk * out[k].no
  BY <1>1, PieceType DEF IInv, RightNumber
<1>6. in.offset + Chunk * LastNo + out[Len(out)].len = in.offset + in.size
  BY <1>3, <1>5 DEF Ends, LastNo
<1>7. in.size = Chunk * (Len(out) - 1) + out[Len(out)].len
  BY <1>3 DEF GapInv
<1>8. Chunk * LastNo = Chunk * (Len(out) - 1)
  BY <1>2, <1>3, <1>4, <1>6, <1>7
<1>9. LastNo = Len(out) - 1
  BY <1>2, <1>3, <1>4, <1>8
<1>10. ASSUME NEW k \in 1..Len(out)
       PROVE  out[k].at = in.offset + Chunk * (k - 1)
  <2>1. out[k].no = k - 1
    BY <1>3, <1>5, <1>9 DEF GapInv
  <2> QED
    BY <2>1, <1>5
<1> QED
  BY <1>10 DEF Right, Ends

\* vfdecrypt ends, and with it all that it knew.
LEMMA HandOverKeeps == ASSUME ConvInv, HandOver PROVE ConvInv'
<1> USE DEF ConvInv
<1>1. Init'
  <2>1. in \in Inputs
    BY DEF IInv, TypeOK
  <2>2. (CHOOSE c \in Inputs : TRUE) \in Inputs
    BY <2>1
  <2> QED
    BY <2>2 DEF HandOver, Gone, Init
<1>2. IInv'
  <2>1. Init' => IInv'
    BY Initially, PTL
  <2> QED
    BY <1>1, <2>1
<1>3. GapInv'
  <2>1. Init' => GapInv'
    BY GapInitially, PTL
  <2> QED
    BY <1>1, <2>1
<1>4. HandedOver'
  <2>1. /\ pc = "exit" /\ Version2
        /\ decrypted' = [ends |-> Ends, whole |-> outPos = in.size, right |-> Right]
        /\ UNCHANGED <<at, result>>
    BY DEF HandOver
  <2>2. PICK c \in BOOLEAN, p \in Partitions :
          dmg' = [found |-> TRUE, creatable |-> c, trailer |-> Finds(decrypted').trailer,
                  plist |-> Finds(decrypted').plist, parts |-> p]
    BY DEF HandOver
  <2>3. dmg'.found /\ dmg'.trailer = Ends /\ dmg'.plist = (Ends /\ outPos = in.size)
    BY <2>1, <2>2 DEF Finds
  <2>4. at = "open" /\ result = "none"
    <3>1. ~dmg.found
      BY <2>1 DEF HandedOver
    <3> QED
      BY <3>1 DEF HandedOver
  <2>5. dmg'.trailer /\ dmg'.plist => decrypted'.right
    BY <2>1, <2>3, EndAndLengthSuffice
  <2>6. pc' = "start"
    BY DEF HandOver, Gone
  <2> QED
    BY <2>1, <2>3, <2>4, <2>5, <2>6 DEF HandedOver
<1> QED
  BY <1>2, <1>3, <1>4

\* dmg2img: without a trailer and a list, its first step is its last.
LEMMA ConvertingKeeps == ASSUME ConvInv, Converting PROVE ConvInv'
<1> USE DEF ConvInv
<1>1. dmg.found /\ D!Next /\ UNCHANGED <<decrypted, vars>>
  BY DEF Converting
<1>2. IInv' /\ GapInv'
  <2>1. UNCHANGED vars
    BY <1>1
  <2> QED
    BY <2>1, Preserved, GapPreserved
<1>3. dmg' = dmg
  BY <1>1
    DEF D!Next, D!Open, D!Partition, D!LeaveTable, D!RunWild, D!Block, D!Close, D!Ended,
        D!vars
<1>4. pc' = pc /\ decrypted' = decrypted
  BY <1>1 DEF vars
<1>5. CASE D!Open
  <2>1. at = "open" /\ result = "none"
    BY <1>5 DEF D!Open, HandedOver
  <2>2. IF dmg.trailer /\ dmg.plist THEN at' = "part" /\ result' = result
        ELSE at' = "ended" /\ result' = "bad"
    BY <1>1, <1>5 DEF D!Open, D!Return
  <2> QED
    BY <1>1, <1>2, <1>3, <1>4, <2>1, <2>2 DEF HandedOver
<1>6. CASE D!Ended
  <2>1. at' = at /\ result' = result
    BY <1>6 DEF D!Ended, D!vars
  <2> QED
    BY <1>1, <1>2, <1>3, <1>4, <2>1 DEF HandedOver
<1>7. CASE D!Partition \/ D!LeaveTable \/ D!RunWild \/ D!Block \/ D!Close
  <2>1. at \in {"part", "block", "close"}
    BY <1>7 DEF D!Partition, D!LeaveTable, D!RunWild, D!Block, D!Close
  <2>2. at' \in {"part", "block", "close", "wild", "ended"}
    <3>1. CASE D!Block
      <4>1. at = "block" /\ (at' = at \/ at' = "ended")
        BY <3>1 DEF D!Block, D!Pass, D!Zlib, D!Copy, D!Zero, D!Done, D!Stop, D!Return
      <4> QED
        BY <4>1
    <3>2. CASE ~D!Block
      BY <1>7, <3>2 DEF D!Partition, D!LeaveTable, D!RunWild, D!Close, D!Return
    <3> QED
      BY <3>1, <3>2
  <2>3. dmg.trailer /\ dmg.plist
    BY <1>1, <2>1 DEF HandedOver
  <2> QED
    BY <1>1, <1>2, <1>3, <1>4, <2>2, <2>3 DEF HandedOver
<1> QED
  BY <1>1, <1>5, <1>6, <1>7 DEF D!Next

-----------------------------------------------------------------------------
(***************************************************************************)
(* dmg2img.                                                                *)
(***************************************************************************)
\* The images that dmg2img may be given.
LEMMA ImageType ==
  ASSUME NEW d \in DiskImages
  PROVE  /\ {d.found, d.creatable, d.trailer, d.plist} \subseteq BOOLEAN
         /\ Len(d.parts) \in Nat
         /\ \A p \in 1..Len(d.parts) :
              /\ d.parts[p].len \in Nat /\ d.parts[p].len < Unsigned
              /\ d.parts[p].table \in Seq(D!Entries)
              /\ D!HoldsItsEntries(d.parts[p])
<1> DEFINE P == [len : 0..(Unsigned - 1), table : Seq(D!Entries)]
<1>1. /\ {d.found, d.creatable, d.trailer, d.plist} \subseteq BOOLEAN
      /\ d.parts \in Seq(P)
      /\ \A p \in 1..Len(d.parts) : D!HoldsItsEntries(d.parts[p])
  BY ConversionAssumption DEF D!InputAssumption
<1>2. Unsigned \in Nat
  BY ConversionAssumption DEF D!InputAssumption
<1>3. \A r \in P : r.len \in Nat /\ r.len < Unsigned /\ r.table \in Seq(D!Entries)
  BY <1>2
<1> HIDE DEF P
<1>4. \A p \in 1..Len(d.parts) : d.parts[p] \in P
  BY <1>1
<1> QED
  BY <1>1, <1>3, <1>4

\* An entry of a table.
LEMMA EntryType ==
  ASSUME NEW t \in Seq(D!Entries), NEW k \in 1..Len(t)
  PROVE  t[k].type \in D!Types /\ t[k].out \in Nat /\ t[k].size \in Nat /\ t[k].data \in Data
<1> DEFINE S == D!Entries
<1>1. t \in Seq(S)
  OBVIOUS
<1>2. \A e \in S : e.type \in D!Types /\ e.out \in Nat /\ e.size \in Nat /\ e.data \in Data
  BY DEF D!Entries
<1> HIDE DEF S
<1>3. t[k] \in S
  BY <1>1
<1> QED
  BY <1>2, <1>3

\* The table at hand.
LEMMA TableType ==
  ASSUME D!TypeOK, i < Len(dmg.parts)
  PROVE  /\ i + 1 \in 1..Len(dmg.parts)
         /\ D!Table \in Seq(D!Entries) /\ Len(D!Table) \in Nat
         /\ D!Length \in Nat /\ D!Length < Unsigned
          /\ D!Length < D!HeadLen + D!EntryLen * (Len(D!Table) + 1)
         /\ D!Table # <<>> => D!Length >= D!HeadLen + D!EntryLen * Len(D!Table)
<1>1. dmg \in DiskImages /\ i \in Nat
  BY DEF D!TypeOK
<1>2. i + 1 \in 1..Len(dmg.parts)
  BY <1>1, ImageType
<1>3. /\ D!Length \in Nat /\ D!Length < Unsigned
      /\ D!Table \in Seq(D!Entries)
      /\ D!HoldsItsEntries(dmg.parts[i + 1])
  BY <1>1, <1>2, ImageType DEF D!Table, D!Length
<1>4. Len(D!Table) \in Nat
  BY <1>3
<1> QED
  BY <1>2, <1>3, <1>4 DEF D!HoldsItsEntries, D!Table, D!Length

\* The place in the table is that of an entry, from 1 on.
LEMMA AtAnEntry ==
  ASSUME D!TypeOK, offset >= D!HeadLen
  PROVE  D!Index \in Nat /\ D!Index >= 1 /\ offset = D!HeadLen + D!EntryLen * (D!Index - 1)
BY DEF D!TypeOK, D!Index, D!HeadLen, D!EntryLen

\* The loop goes on only over entries that are there, unless the table is too short to
\* hold one.
LEMMA MoreIsInside ==
  ASSUME D!TypeOK, at = "block", offset >= D!HeadLen, D!More, D!Index > Len(D!Table)
  PROVE  D!Length < D!EntryLen
<1>1. i < Len(dmg.parts) /\ offset \in Nat
  BY DEF D!TypeOK
<1>2. /\ D!Length \in Nat /\ D!Length < Unsigned /\ Len(D!Table) \in Nat
      /\ D!Length < D!HeadLen + D!EntryLen * (Len(D!Table) + 1)
  BY <1>1, TableType
<1>3. D!Index \in Nat /\ offset = D!HeadLen + D!EntryLen * (D!Index - 1)
  BY AtAnEntry
<1>4. SUFFICES ASSUME D!Length >= D!EntryLen PROVE FALSE
  BY <1>2 DEF D!EntryLen
<1>5. Unsigned \in Nat
  BY ConversionAssumption DEF D!InputAssumption
<1>6. D!Length - D!EntryLen \in Nat /\ D!Length - D!EntryLen < Unsigned
  BY <1>2, <1>4, <1>5 DEF D!EntryLen
<1>7. (D!Length - D!EntryLen) % Unsigned = D!Length - D!EntryLen
  BY <1>5, <1>6
<1>8. offset < D!Length - D!EntryLen
  BY <1>7 DEF D!More
<1> QED
  BY <1>1, <1>2, <1>3, <1>8 DEF D!HeadLen, D!EntryLen

\* It ends behind the last entry but one at the earliest.
LEMMA LeftAtTheEnd ==
  ASSUME D!TypeOK, at = "block", offset >= D!HeadLen, ~D!More, type # "end", D!Table # <<>>
  PROVE  D!Index >= Len(D!Table)
<1>1. i < Len(dmg.parts) /\ offset \in Nat
  BY DEF D!TypeOK
<1>2. /\ D!Length \in Nat /\ D!Length < Unsigned /\ Len(D!Table) \in Nat
      /\ D!Length >= D!HeadLen + D!EntryLen * Len(D!Table)
  BY <1>1, TableType
<1>3. D!Index \in Nat /\ offset = D!HeadLen + D!EntryLen * (D!Index - 1)
  BY AtAnEntry
<1>4. Unsigned \in Nat
  BY ConversionAssumption DEF D!InputAssumption
<1>5. D!Length - D!EntryLen \in Nat /\ D!Length - D!EntryLen < Unsigned
  BY <1>2, <1>4 DEF D!EntryLen, D!HeadLen
<1>6. (D!Length - D!EntryLen) % Unsigned = D!Length - D!EntryLen
  BY <1>4, <1>5
<1>7. ~(offset < D!Length - D!EntryLen)
  BY <1>6 DEF D!More
<1> QED
  BY <1>1, <1>2, <1>3, <1>7 DEF D!HeadLen, D!EntryLen

\* n sectors more, of the image or of its history.
LEMMA SectorsAdded ==
  ASSUME NEW S, NEW img \in Seq(S), NEW d \in S, NEW n \in Nat
  PROVE  /\ img \o D!Sectors(d, n) \in Seq(S)
         /\ Len(img \o D!Sectors(d, n)) = Len(img) + n
         /\ \A s \in 1..Len(img) : (img \o D!Sectors(d, n))[s] = img[s]
         /\ \A s \in 1..n : (img \o D!Sectors(d, n))[Len(img) + s] = d
<1> DEFINE more == D!Sectors(d, n)
<1>1. more \in [1..n -> S] /\ \A s \in 1..n : more[s] = d
  BY DEF D!Sectors
<1>2. more \in Seq(S) /\ Len(more) = n
  BY <1>1
<1> HIDE DEF more
<1>3. img \o more \in Seq(S) /\ Len(img \o more) = Len(img) + n
  BY <1>2
<1>4. ASSUME NEW s \in 1..Len(img) PROVE (img \o more)[s] = img[s]
  BY <1>2
<1>5. ASSUME NEW s \in 1..n PROVE (img \o more)[Len(img) + s] = d
  <2>1. (img \o more)[Len(img) + s] = more[s]
    BY <1>2
  <2> QED
    BY <2>1, <1>1
<1> QED
  BY <1>3, <1>4, <1>5 DEF more

\* The same for the image, and for its history.
LEMMA ImageAdded ==
  ASSUME NEW img \in Seq(Data), NEW d \in Data, NEW n \in Nat
  PROVE  /\ img \o D!Sectors(d, n) \in Seq(Data)
         /\ Len(img \o D!Sectors(d, n)) = Len(img) + n
         /\ \A s \in 1..Len(img) : (img \o D!Sectors(d, n))[s] = img[s]
         /\ \A s \in 1..n : (img \o D!Sectors(d, n))[Len(img) + s] = d
<1> DEFINE S == Data
<1>1. img \in Seq(S) /\ d \in S
  OBVIOUS
<1> HIDE DEF S
<1>2. img \o D!Sectors(d, n) \in Seq(S)
  BY <1>1, SectorsAdded
<1>3. /\ Len(img \o D!Sectors(d, n)) = Len(img) + n
      /\ \A s \in 1..Len(img) : (img \o D!Sectors(d, n))[s] = img[s]
      /\ \A s \in 1..n : (img \o D!Sectors(d, n))[Len(img) + s] = d
  BY <1>1, SectorsAdded
<1> QED
  BY <1>2, <1>3 DEF S

LEMMA HistoryAdded ==
  \A h \in Seq(Nat), k \in Nat, n \in Nat :
    /\ h \o D!Sectors(k, n) \in Seq(Nat)
    /\ Len(h \o D!Sectors(k, n)) = Len(h) + n
    /\ \A s \in 1..Len(h) : (h \o D!Sectors(k, n))[s] = h[s]
    /\ \A s \in 1..n : (h \o D!Sectors(k, n))[Len(h) + s] = k
<1> DEFINE S == Nat
<1>1. ASSUME NEW h \in Seq(S), NEW k \in S, NEW n \in Nat
      PROVE  /\ h \o D!Sectors(k, n) \in Seq(S)
             /\ Len(h \o D!Sectors(k, n)) = Len(h) + n
             /\ \A s \in 1..Len(h) : (h \o D!Sectors(k, n))[s] = h[s]
             /\ \A s \in 1..n : (h \o D!Sectors(k, n))[Len(h) + s] = k
  <2> HIDE DEF S
  <2> QED
    BY SectorsAdded
<1> QED
  BY <1>1, Zenon

\* The step to the next entry, and the two ways to end with the one at hand.
NextEntry == at' = at /\ result' = result /\ offset' = offset + D!EntryLen

DamagedAtHand ==
  LET b == D!Table[D!Index] IN b.type = "zlib" /\ b.size # 0 /\ ~b.good

Stopped ==
  /\ at' = "ended" /\ result' \in {"ok", "bad"} /\ offset' = offset
  /\ image' = image /\ from' = from
  /\ result' = "ok" => imageFaults' > imageFaults \/ DamagedAtHand

PassedOver ==
  /\ NextEntry /\ image' = image /\ from' = from
  /\ \/ imageFaults' > imageFaults \/ i # D!Wanted
     \/ D!Table[D!Index].size = 0 \/ D!Table[D!Index].type \in {"other", "end"}

\* What belongs to the entry at hand, and what may be written instead if its read fails.
Proper == IF D!Table[D!Index].type = "zero" THEN "zero" ELSE D!Table[D!Index].data

Origins ==
  {Proper} \cup (IF imageFaults' > imageFaults /\ (i = D!Wanted => D!Index \in misread')
                 THEN {"garbage"} \cup (IF tmp.kind = "none" THEN {} ELSE {tmp.data})
                 ELSE {})

WrittenOut ==
  /\ NextEntry /\ i = D!Wanted /\ D!Table[D!Index].type \in {"zlib", "copy", "zero"}
  /\ from' = from \o D!Sectors(D!Index, D!Table[D!Index].size)
  /\ \E d \in Origins : image' = image \o D!Sectors(d, D!Table[D!Index].size)

\* fwrite, or not, of data of one of the origins.
LEMMA DoneCases ==
  ASSUME D!TypeOK, at = "block", NEW d \in Origins, NEW fault, D!Done(d, D!Table[D!Index].size, fault),
         D!Table[D!Index].type \in {"zlib", "copy", "zero"},
         fault = "write" => imageFaults' > imageFaults
  PROVE  PassedOver \/ Stopped \/ WrittenOut
<1>1. CASE i = D!Wanted /\ ~dmg.creatable
  BY <1>1 DEF D!Done, D!Return, Stopped
<1>2. CASE ~(i = D!Wanted /\ ~dmg.creatable)
  <2>1. NextEntry
    BY <1>2 DEF D!Done, NextEntry
  <2>2. CASE i # D!Wanted \/ fault = "write"
    BY <1>2, <2>1, <2>2 DEF D!Done, PassedOver
  <2>3. CASE ~(i # D!Wanted \/ fault = "write")
    BY <1>2, <2>1, <2>3 DEF D!Done, D!Write, WrittenOut
  <2> QED
    BY <2>2, <2>3
<1> QED
  BY <1>1, <1>2

\* What a read of the entry at hand leaves.
LEMMA FreadCases ==
  ASSUME NEW fault, D!Table[D!Index].type \in {"zlib", "copy"},
         D!Fread(D!Table[D!Index], fault), fault # "none" => imageFaults' > imageFaults
  PROVE  /\ misread' = misread \/ misread' = misread \cup {D!Index}
         /\ \/ tmp' = D!Nothing \/ tmp' = tmp
            \/ tmp' = [kind |-> D!Table[D!Index].type, data |-> D!Table[D!Index].data]
         /\ tmp'.kind # "none" => tmp'.data \in Origins
         /\ "garbage" \in Origins \/ fault # "read"
         /\ fault # "read" => tmp'.kind = D!Table[D!Index].type
                                \/ (D!Table[D!Index].type = "zlib" /\ ~D!Table[D!Index].good)
<1> DEFINE b == D!Table[D!Index]
<1>1. CASE fault = "read"
  <2>1. (tmp' = tmp \/ tmp' = D!Nothing) /\ (i = D!Wanted => D!Index \in misread')
    BY <1>1 DEF D!Fread
  <2>2. imageFaults' > imageFaults
    BY <1>1
  <2>3. "garbage" \in Origins /\ (tmp.kind # "none" => tmp.data \in Origins)
    BY <2>1, <2>2 DEF Origins
  <2>4. misread' = misread \/ misread' = misread \cup {D!Index}
    BY <1>1 DEF D!Fread
  <2> QED
    BY <1>1, <2>1, <2>3, <2>4 DEF D!Nothing
<1>2. CASE fault # "read"
  <2>1. tmp' = D!Content(b) /\ misread' = misread
    BY <1>2 DEF D!Fread
  <2>2. CASE b.type = "zlib" /\ ~b.good
    BY <1>2, <2>1, <2>2 DEF D!Content, D!Nothing
  <2>3. CASE ~(b.type = "zlib" /\ ~b.good)
    <3>1. tmp' = [kind |-> b.type, data |-> b.data]
      BY <2>1, <2>3 DEF D!Content
    <3>2. b.data \in Origins
      BY DEF Origins, Proper
    <3> QED
      BY <1>2, <2>1, <3>1, <3>2
  <2> QED
    BY <2>2, <2>3
<1> QED
  BY <1>1, <1>2

\* What a step of the inner loop does, whatever fails in it.
LEMMA BlockCases ==
  ASSUME D!TypeOK, D!Block
  PROVE  /\ at = "block" /\ D!More /\ D!Index <= Len(D!Table)
         /\ dmg' = dmg /\ i' = i /\ type' = D!Table[D!Index].type
         /\ imageFaults' \in 0..ImageFaults /\ imageFaults' >= imageFaults
         /\ misread' = misread \/ misread' = misread \cup {D!Index}
         /\ \/ tmp' = D!Nothing \/ tmp' = tmp
            \/ /\ D!Table[D!Index].type \in {"zlib", "copy"}
               /\ tmp' = [kind |-> D!Table[D!Index].type, data |-> D!Table[D!Index].data]
         /\ otmp' = otmp \/ (tmp'.kind # "none" /\ otmp' = tmp'.data)
         /\ PassedOver \/ Stopped \/ WrittenOut
<1> DEFINE b == D!Table[D!Index]
           Fine == /\ imageFaults' \in 0..ImageFaults /\ imageFaults' >= imageFaults
                   /\ misread' = misread \/ misread' = misread \cup {D!Index}
                   /\ \/ tmp' = D!Nothing \/ tmp' = tmp
                      \/ b.type \in {"zlib", "copy"} /\ tmp' = [kind |-> b.type, data |-> b.data]
                   /\ otmp' = otmp \/ (tmp'.kind # "none" /\ otmp' = tmp'.data)
                   /\ PassedOver \/ Stopped \/ WrittenOut
<1>1. at = "block" /\ D!More /\ D!Index <= Len(D!Table) /\ dmg' = dmg /\ i' = i /\ type' = b.type
  BY DEF D!Block
<1>2. imageFaults \in 0..ImageFaults /\ ImageFaults \in Nat
  BY ConversionAssumption DEF D!TypeOK, D!InputAssumption
<1>3. CASE D!Pass(b) /\ UNCHANGED imageFaults
  BY <1>1, <1>2, <1>3 DEF D!Pass, D!history, PassedOver, NextEntry
<1>4. ASSUME NEW fault \in {"none", "read", "write", "alloc", "init", "end"}, b.size > 0,
             D!Zlib(b, fault) \/ D!Copy(b, fault) \/ D!Zero(b, fault),
             imageFaults' = imageFaults + (IF fault = "none" THEN 0 ELSE 1),
             imageFaults' <= ImageFaults
      PROVE  Fine
  <2>1. imageFaults' \in 0..ImageFaults /\ imageFaults' >= imageFaults
           /\ (fault # "none" => imageFaults' > imageFaults)
    BY <1>2, <1>4
  <2>2. CASE D!Zlib(b, fault)
    <3>1. b.type = "zlib"
      BY <2>2 DEF D!Zlib
    <3>2. CASE fault = "init"
      BY <2>1, <2>2, <3>2 DEF D!Zlib, D!Stop, D!Return, Stopped
    <3>3. CASE fault # "init"
      <4>1. D!Fread(b, fault)
        BY <2>2, <3>3 DEF D!Zlib
      <4>2. CASE tmp'.kind = "zlib"
        <5>1. otmp' = tmp'.data /\ tmp'.data \in Origins
          BY <2>1, <2>2, <3>1, <3>3, <4>1, <4>2, FreadCases DEF D!Zlib
        <5>2. CASE fault = "end"
          <6>1. D!Stop("ok") /\ imageFaults' > imageFaults
            BY <2>1, <2>2, <3>3, <4>2, <5>2 DEF D!Zlib
          <6>2. Stopped
            BY <6>1 DEF D!Stop, D!Return, Stopped
          <6> QED
            BY <2>1, <3>1, <4>1, <4>2, <5>1, <6>2, FreadCases
        <5>3. CASE fault # "end"
          <6>1. D!Done(tmp'.data, b.size, fault)
            BY <2>2, <3>3, <4>2, <5>1, <5>3 DEF D!Zlib
          <6>2. PassedOver \/ Stopped \/ WrittenOut
            BY <1>1, <2>1, <3>1, <5>1, <6>1, DoneCases
          <6> QED
            BY <2>1, <3>1, <4>1, <4>2, <5>1, <6>2, FreadCases
        <5> QED
          BY <5>2, <5>3
      <4>3. CASE tmp'.kind # "zlib"
        <5>1. D!Stop("ok") /\ otmp' = otmp
          BY <2>2, <3>3, <4>3 DEF D!Zlib
        <5>2. imageFaults' > imageFaults \/ DamagedAtHand
          BY <1>4, <2>1, <3>1, <4>1, <4>3, FreadCases DEF DamagedAtHand
        <5>3. Stopped
          BY <5>1, <5>2 DEF D!Stop, D!Return, Stopped
        <5> QED
          BY <2>1, <3>1, <4>1, <5>1, <5>3, FreadCases
      <4> QED
        BY <4>2, <4>3
    <3> QED
      BY <3>2, <3>3
  <2>3. CASE D!Copy(b, fault)
    <3>1. b.type = "copy" /\ D!Fread(b, fault) /\ otmp' = otmp
      BY <2>3 DEF D!Copy
    <3>2. PICK d : d = (IF tmp'.kind = "copy" THEN tmp'.data ELSE "garbage")
      OBVIOUS
    <3>3. d \in Origins
      BY <2>1, <3>1, <3>2, FreadCases
    <3>4. D!Done(d, b.size, fault)
      BY <2>3, <3>2 DEF D!Copy
    <3>5. PassedOver \/ Stopped \/ WrittenOut
      BY <1>1, <2>1, <3>1, <3>3, <3>4, DoneCases
    <3> QED
      BY <2>1, <3>1, <3>5, FreadCases
  <2>4. CASE D!Zero(b, fault)
    <3>1. b.type = "zero" /\ tmp' = tmp /\ otmp' = otmp /\ misread' = misread
      BY <2>4 DEF D!Zero
    <3>2. CASE fault = "alloc"
      BY <2>1, <2>4, <3>1, <3>2 DEF D!Zero, D!Stop, D!Return, Stopped
    <3>3. CASE fault # "alloc"
      <4>1. D!Done("zero", b.size, fault) /\ "zero" \in Origins
        BY <2>4, <3>1, <3>3 DEF D!Zero, Origins, Proper
      <4>2. PassedOver \/ Stopped \/ WrittenOut
        BY <1>1, <2>1, <3>1, <4>1, DoneCases
      <4> QED
        BY <2>1, <3>1, <4>2
    <3> QED
      BY <3>2, <3>3
  <2> QED
    BY <1>4, <2>2, <2>3, <2>4
<1> QED
  BY <1>1, <1>3, <1>4 DEF D!Block

LEMMA ImageStart == D!Init => D!IInv
<1> SUFFICES ASSUME D!Init PROVE D!IInv
  OBVIOUS
<1> USE DEF D!Init
<1>1. image = <<>> /\ Len(image) = 0
  OBVIOUS
<1>2. D!TypeOK
  <2>1. ImageFaults \in Nat
    BY ConversionAssumption DEF D!InputAssumption
  <2>2. <<>> \in Seq(Data)
    OBVIOUS
  <2> QED
    BY <2>1, <2>2 DEF D!TypeOK, D!HeadLen, D!EntryLen, D!Nothing
<1>3. D!InsideTable /\ D!TableInv
  BY DEF D!InsideTable, D!TableInv
<1>4. D!StageInv /\ D!BuffersInv
  BY DEF D!StageInv, D!BuffersInv, D!Wanted
<1>5. D!StaleOnlyAfterFault
  BY <1>1 DEF D!StaleOnlyAfterFault
<1> QED
  BY <1>2, <1>3, <1>4, <1>5 DEF D!IInv

\* The other steps leave the buffers, the image and its history alone.
LEMMA OtherSteps ==
  ASSUME [D!Next]_D!vars, ~D!Block
  PROVE  UNCHANGED <<dmg, tmp, otmp, image, imageFaults, from, misread>>
BY
  DEF D!Next, D!Open, D!Partition, D!LeaveTable, D!RunWild, D!Close, D!Ended, D!vars,
      D!history

\* The entry at hand.
LEMMA AtHand ==
  ASSUME D!IInv, D!Block
  PROVE  /\ i \in Nat /\ i + 1 \in 1..Len(dmg.parts) /\ Len(dmg.parts) \in Nat
         /\ D!Index \in 1..Len(D!Table) /\ D!Index \in Nat /\ Len(D!Table) \in Nat
         /\ D!Table \in Seq(D!Entries)
         /\ D!Table[D!Index].data \in Data /\ D!Table[D!Index].size \in Nat
<1>1. /\ i < Len(dmg.parts) /\ i \in Nat /\ dmg \in DiskImages
      /\ D!Index \in Nat /\ D!Index >= 1 /\ D!Index <= Len(D!Table)
  BY BlockCases, AtAnEntry DEF D!IInv, D!TypeOK, D!StageInv
<1>2. D!Table \in Seq(D!Entries) /\ Len(D!Table) \in Nat /\ i + 1 \in 1..Len(dmg.parts)
  BY <1>1, TableType DEF D!IInv
<1> QED
  BY <1>1, <1>2, EntryType, ImageType

\* What a block writes, and what the buffers hold, are pieces of data.
LEMMA DataType ==
  ASSUME D!IInv, D!Block
  PROVE  /\ Origins \subseteq Data
         /\ tmp.kind # "none" => tmp.data \in D!Pieces(i) \cup
              {D!Table[j].data : j \in {k \in 1..Len(D!Table) : k < D!Index}}
<1>1. at = "block" /\ D!Table \in Seq(D!Entries) /\ D!Table[D!Index].data \in Data
  BY AtHand, BlockCases DEF D!IInv
<1>2. tmp.kind # "none" => tmp.data \in D!Seen
  BY <1>1 DEF D!IInv, D!BuffersInv, D!Nothing
<1>3. D!Seen = D!Pieces(i) \cup {D!Table[j].data : j \in {k \in 1..Len(D!Table) : k < D!Index}}
  BY <1>1 DEF D!Seen
<1>4. D!Seen \subseteq Data
  BY <1>1, <1>3, EntryType DEF D!Pieces
<1> QED
  BY <1>1, <1>2, <1>3, <1>4, ConversionAssumption DEF Origins, Proper, D!InputAssumption

\* What is read and written stays within its types.
LEMMA TypeKept == ASSUME D!IInv, [D!Next]_D!vars PROVE D!TypeOK'
<1> USE DEF D!IInv
<1>1. CASE D!Block
  <2>1. image' \in Seq(Data) /\ from' \in Seq(Nat) /\ Len(from') = Len(image')
    <3>1. CASE image' = image /\ from' = from
      BY <3>1 DEF D!TypeOK
    <3>2. CASE WrittenOut
      <4> DEFINE n == D!Table[D!Index].size
                 x == D!Index
      <4>1. PICK d \in Origins : image' = image \o D!Sectors(d, n)
        BY <3>2 DEF WrittenOut
      <4>2. from' = from \o D!Sectors(x, n)
        BY <3>2 DEF WrittenOut
      <4>3. n \in Nat /\ x \in Nat /\ d \in Data
        BY <1>1, AtHand, DataType
      <4>4. image \in Seq(Data) /\ from \in Seq(Nat) /\ Len(from) = Len(image)
        BY DEF D!TypeOK
      <4> HIDE DEF n, x
      <4>5. image' \in Seq(Data) /\ Len(image') = Len(image) + n
        BY <4>1, <4>3, <4>4, ImageAdded
      <4>6. from' \in Seq(Nat) /\ Len(from') = Len(from) + n
        BY <4>2, <4>3, <4>4, HistoryAdded
      <4> QED
        BY <4>4, <4>5, <4>6
    <3> QED
      BY <1>1, <3>1, <3>2, BlockCases DEF PassedOver, Stopped
  <2>2. type' \in D!Types \cup {"none"}
    <3>1. i < Len(dmg.parts) /\ D!Index \in Nat /\ D!Index >= 1 /\ D!Index <= Len(D!Table)
      BY <1>1, BlockCases, AtAnEntry DEF D!TypeOK, D!StageInv
    <3>2. D!Table \in Seq(D!Entries) /\ D!Index \in 1..Len(D!Table)
      BY <3>1, TableType
    <3> QED
      BY <1>1, <3>2, EntryType, BlockCases
  <2>3. at = "block" /\ result = "none" /\ dmg' = dmg /\ i' = i /\ imageFaults' \in 0..ImageFaults
    BY <1>1, BlockCases DEF D!TypeOK
  <2>4. tmp'.kind \in {"none", "zlib", "copy"}
    BY <1>1, BlockCases DEF D!TypeOK, D!Nothing
  <2>5. \/ at' = at /\ result' = result /\ offset' = offset + D!EntryLen
        \/ at' = "ended" /\ result' \in {"ok", "bad"} /\ offset' = offset
    BY <1>1, BlockCases DEF PassedOver, Stopped, WrittenOut, NextEntry
  <2>6. offset' \in Nat /\ (offset' - D!HeadLen) % D!EntryLen = 0
    BY <2>5 DEF D!TypeOK, D!HeadLen, D!EntryLen
  <2>7. misread' \subseteq Nat
    BY <1>1, BlockCases, AtHand DEF D!TypeOK
  <2> QED
    BY <2>1, <2>2, <2>3, <2>4, <2>5, <2>6, <2>7 DEF D!TypeOK
<1>2. CASE ~D!Block
  <2>1. UNCHANGED <<dmg, tmp, otmp, image, imageFaults, from, misread>>
    BY <1>2, OtherSteps
  <2>2. D!HeadLen \in Nat /\ (D!HeadLen - D!HeadLen) % D!EntryLen = 0
    BY DEF D!HeadLen, D!EntryLen
  <2>3. CASE D!Open
    <3>1. dmg.found \in BOOLEAN
      BY ImageType DEF D!TypeOK
    <3> QED
      BY <2>1, <2>3, <3>1 DEF D!Open, D!Return, D!TypeOK
  <2>4. CASE D!Partition
    BY <2>1, <2>2, <2>4 DEF D!Partition, D!TypeOK
  <2>5. CASE D!LeaveTable
    BY <2>1, <2>5 DEF D!LeaveTable, D!TypeOK
  <2>6. CASE D!RunWild
    BY <2>1, <2>6 DEF D!RunWild, D!TypeOK
  <2>7. CASE D!Close
    BY <2>1, <2>7 DEF D!Close, D!Return, D!TypeOK
  <2>8. CASE UNCHANGED D!vars
    BY <2>1, <2>8 DEF D!vars, D!TypeOK
  <2> QED
    BY <1>2, <2>3, <2>4, <2>5, <2>6, <2>7, <2>8 DEF D!Next, D!Ended
<1> QED
  BY <1>1, <1>2

LEMMA InsideKept == ASSUME D!IInv, [D!Next]_D!vars PROVE D!InsideTable'
<1> USE DEF D!IInv, D!InsideTable
<1>1. CASE D!RunWild
  <2>1. D!Length < D!EntryLen
    BY <1>1, MoreIsInside DEF D!RunWild, D!StageInv
  <2> QED
    BY <1>1, <2>1 DEF D!RunWild, D!Length
<1>2. CASE D!Block
  BY <1>2, BlockCases DEF PassedOver, Stopped, WrittenOut, NextEntry
<1>3. CASE D!Open \/ D!Partition \/ D!LeaveTable \/ D!Close
  BY <1>3 DEF D!Open, D!Partition, D!LeaveTable, D!Close, D!Return
<1>4. CASE UNCHANGED D!vars
  BY <1>4 DEF D!vars, D!Length
<1> QED
  BY <1>1, <1>2, <1>3, <1>4 DEF D!Next, D!Ended

LEMMA StageKept == ASSUME D!IInv, [D!Next]_D!vars PROVE D!StageInv'
<1> USE DEF D!IInv
<1>0. i \in Nat /\ Len(dmg.parts) \in Nat
  BY ImageType DEF D!TypeOK
<1>1. CASE D!Block
  <2>1. at = "block" /\ dmg' = dmg /\ i' = i /\ result = "none" /\ imageFaults \in Nat
    BY <1>1, BlockCases DEF D!TypeOK
  <2>2. image' = image \/ i = D!Wanted
    BY <1>1, BlockCases DEF PassedOver, Stopped, WrittenOut
  <2>3. \/ at' = at /\ result' = result /\ offset' = offset + D!EntryLen
        \/ /\ at' = "ended" /\ offset' = offset
           /\ result' = "ok" => imageFaults' > imageFaults \/ DamagedAtHand
    BY <1>1, BlockCases DEF PassedOver, Stopped, WrittenOut, NextEntry
  <2>4. offset' >= D!HeadLen
    BY <2>1, <2>3 DEF D!StageInv, D!TypeOK, D!HeadLen, D!EntryLen
  <2>5. image' # <<>> => D!Wanted < Len(dmg.parts)
    BY <2>1, <2>2 DEF D!StageInv, D!TypeOK
  <2>6. DamagedAtHand => D!Damaged(i + 1)'
    BY <1>1, <2>1, AtHand DEF DamagedAtHand, D!Damaged, D!Table
  <2>7. at' = "ended" /\ result' = "ok" /\ imageFaults' = 0 => D!Damaged(i + 1)'
    BY <1>1, <2>1, <2>3, <2>6
  <2> QED
    BY <1>0, <2>1, <2>2, <2>3, <2>4, <2>5, <2>7 DEF D!StageInv, D!Wanted
<1>2. CASE ~D!Block
  <2>1. UNCHANGED <<dmg, tmp, otmp, image, imageFaults, from, misread>>
    BY <1>2, OtherSteps
  <2>2. CASE D!Open
    <3>1. dmg.found \in BOOLEAN
      BY ImageType DEF D!TypeOK
    <3> QED
      BY <2>1, <2>2, <3>1 DEF D!Open, D!Return, D!StageInv
  <2>3. CASE D!Partition
    BY <1>0, <2>1, <2>3 DEF D!Partition, D!StageInv, D!TypeOK, D!HeadLen, D!Wanted
  <2>4. CASE D!LeaveTable
    BY <1>0, <2>1, <2>4 DEF D!LeaveTable, D!StageInv, D!TypeOK, D!Wanted
  <2>5. CASE D!RunWild
    BY <2>1, <2>5 DEF D!RunWild, D!StageInv
  <2>6. CASE D!Close
    BY <2>1, <2>6 DEF D!Close, D!Return, D!StageInv
  <2>7. CASE UNCHANGED D!vars
    BY <2>7 DEF D!vars, D!StageInv, D!Damaged
  <2> QED
    BY <1>2, <2>2, <2>3, <2>4, <2>5, <2>6, <2>7 DEF D!Next, D!Ended
<1> QED
  BY <1>1, <1>2

\* Partitions and entries that come to those seen.
LEMMA MorePieces ==
  ASSUME D!TypeOK, i < Len(dmg.parts)
  PROVE  /\ D!Pieces(i) \subseteq D!Pieces(i + 1)
         /\ \A k \in 1..Len(D!Table) : D!Table[k].data \in D!Pieces(i + 1)
<1>1. i \in Nat /\ i + 1 \in 1..Len(dmg.parts) /\ D!Table \in Seq(D!Entries) /\ Len(dmg.parts) \in Nat
  BY TableType, ImageType DEF D!TypeOK
<1>2. D!Pieces(i) \subseteq D!Pieces(i + 1)
  <2>1. 1..i \subseteq 1..(i + 1)
    BY <1>1
  <2> QED
    BY <2>1 DEF D!Pieces
<1>3. \A k \in 1..Len(D!Table) : D!Table[k].data \in Data
  BY <1>1, EntryType
<1>4. i + 1 \in 1..(i + 1) /\ i + 1 <= Len(dmg.parts)
  BY <1>1
<1> QED
  BY <1>2, <1>3, <1>4 DEF D!Pieces, D!Table

LEMMA BuffersKept == ASSUME D!IInv, [D!Next]_D!vars PROVE D!BuffersInv'
<1> USE DEF D!IInv
<1> DEFINE In(T) == /\ tmp \in {D!Nothing} \cup [kind : {"zlib", "copy"}, data : T]
                    /\ otmp \in {"none"} \cup T
<1>1. CASE D!Block
  <2>1. at = "block" /\ dmg' = dmg /\ i' = i /\ In(D!Seen)
    BY <1>1, BlockCases DEF D!BuffersInv
  <2>2. CASE at' # "block"
    BY <1>1, <2>2, BlockCases DEF PassedOver, Stopped, WrittenOut, NextEntry, D!BuffersInv
  <2>3. CASE at' = "block"
    <3>1. offset' = offset + D!EntryLen /\ offset \in Nat
      BY <1>1, <2>3, BlockCases DEF PassedOver, Stopped, WrittenOut, NextEntry, D!TypeOK
    <3>2. D!Index' = D!Index + 1 /\ D!Index \in 1..Len(D!Table) /\ Len(D!Table) \in Nat
      BY <1>1, <3>1, AtHand DEF D!Index, D!HeadLen, D!EntryLen
    <3>3. D!Table' = D!Table /\ D!Pieces(i)' = D!Pieces(i)
      BY <2>1 DEF D!Table, D!Pieces
    <3>4. D!Seen \subseteq D!Seen' /\ D!Table[D!Index].data \in D!Seen'
      <4>1. /\ D!Seen = D!Pieces(i) \cup
                 {D!Table[j].data : j \in {k \in 1..Len(D!Table) : k < D!Index}}
            /\ D!Seen' = D!Pieces(i) \cup
                 {D!Table[j].data : j \in {k \in 1..Len(D!Table) : k < D!Index + 1}}
        BY <2>1, <2>3, <3>2, <3>3 DEF D!Seen
      <4>2. {k \in 1..Len(D!Table) : k < D!Index} \subseteq {k \in 1..Len(D!Table) : k < D!Index + 1}
        BY <3>2
      <4>3. D!Index \in {k \in 1..Len(D!Table) : k < D!Index + 1}
        BY <3>2
      <4> QED
        BY <4>1, <4>2, <4>3
    <3>5. /\ \/ tmp' = D!Nothing \/ tmp' = tmp
             \/ /\ D!Table[D!Index].type \in {"zlib", "copy"}
                /\ tmp' = [kind |-> D!Table[D!Index].type, data |-> D!Table[D!Index].data]
          /\ otmp' = otmp \/ (tmp'.kind # "none" /\ otmp' = tmp'.data)
      BY <1>1, BlockCases
    <3>6. tmp' \in {D!Nothing} \cup [kind : {"zlib", "copy"}, data : D!Seen']
      BY <2>1, <3>4, <3>5
    <3>7. otmp' \in {"none"} \cup D!Seen'
      BY <2>1, <3>4, <3>5, <3>6 DEF D!Nothing
    <3> QED
      BY <3>6, <3>7 DEF D!BuffersInv, D!Nothing
  <2> QED
    BY <2>2, <2>3
<1>2. CASE D!Open
  <2>1. at = "open" /\ dmg' = dmg /\ tmp' = tmp /\ otmp' = otmp /\ i' = i /\ at' # "block"
    BY <1>2 DEF D!Open, D!Return
  <2>2. D!Seen' = D!Seen
    BY <2>1 DEF D!Seen, D!Pieces
  <2> QED
    BY <2>1, <2>2 DEF D!BuffersInv, D!Nothing
<1>3. CASE D!Partition
  <2>1. at = "part" /\ dmg' = dmg /\ tmp' = tmp /\ otmp' = otmp /\ i' = i
    BY <1>3 DEF D!Partition
  <2>2. D!Seen \subseteq D!Seen'
    BY <2>1 DEF D!Seen, D!Pieces
  <2> QED
    BY <2>1, <2>2 DEF D!BuffersInv, D!Nothing
<1>4. CASE D!LeaveTable
  <2>1. at = "block" /\ dmg' = dmg /\ tmp' = tmp /\ otmp' = otmp
        /\ (at' = "close" \/ (at' = "part" /\ i' = i + 1))
    BY <1>4 DEF D!LeaveTable
  <2>2. i < Len(dmg.parts)
    BY <2>1 DEF D!TypeOK
  <2>3. CASE at' = "part"
    <3>1. D!Seen' = D!Pieces(i + 1)
      BY <2>1, <2>3 DEF D!Seen, D!Pieces
    <3>2. D!Seen \subseteq D!Seen'
      BY <2>1, <2>2, <3>1, MorePieces DEF D!Seen
    <3> QED
      BY <2>1, <3>2 DEF D!BuffersInv, D!Nothing
  <2>4. CASE at' = "close"
    BY <2>4 DEF D!BuffersInv
  <2> QED
    BY <2>1, <2>3, <2>4
<1>5. CASE D!RunWild \/ D!Close
  BY <1>5 DEF D!RunWild, D!Close, D!Return, D!BuffersInv
<1>6. CASE UNCHANGED D!vars
  BY <1>6 DEF D!vars, D!BuffersInv, D!Seen, D!Pieces, D!Table, D!Index, D!Nothing
<1> QED
  BY <1>1, <1>2, <1>3, <1>4, <1>5, <1>6 DEF D!Next, D!Ended

\* What a sector written for entry k may hold.
Allowed(d, k, failed) ==
  d = D!Own(k) \/ (k \in failed /\ d \in {"garbage"} \cup D!Earlier(k))

\* What is written for the entry at hand is allowed there.
LEMMA OriginsAllowed ==
  ASSUME D!IInv, D!Block, i = D!Wanted, NEW d \in Origins
  PROVE  Allowed(d, D!Index, misread')
<1>1. D!Table = D!WantedTable
  BY DEF D!Table, D!WantedTable
<1>2. Proper = D!Own(D!Index)
  BY <1>1 DEF Proper, D!Own
<1>3. CASE d = Proper
  BY <1>2, <1>3 DEF Allowed
<1>4. CASE d # Proper
  <2>1. D!Index \in misread' /\ (d = "garbage" \/ (tmp.kind # "none" /\ d = tmp.data))
    BY <1>4 DEF Origins
  <2>2. tmp.kind # "none" => tmp.data \in D!Earlier(D!Index)
    <3>1. {k \in 1..Len(D!Table) : k < D!Index} \subseteq 1..(D!Index - 1)
      BY AtHand
    <3> QED
      BY <1>1, <3>1, DataType DEF D!Earlier
  <2> QED
    BY <2>1, <2>2 DEF Allowed
<1> QED
  BY <1>3, <1>4

LEMMA StaleKept == ASSUME D!IInv, [D!Next]_D!vars PROVE D!StaleOnlyAfterFault'
<1> USE DEF D!IInv
<1>1. \A s \in 1..Len(image) : Allowed(image[s], from[s], misread)
  BY DEF D!StaleOnlyAfterFault, Allowed
<1>2. dmg' = dmg
  BY
    DEF D!Next, D!Open, D!Partition, D!LeaveTable, D!RunWild, D!Block, D!Close, D!Ended,
        D!vars
<1>3. SUFFICES \A s \in 1..Len(image') : Allowed(image'[s], from'[s], misread')
  <2>1. \A k : D!Own(k)' = D!Own(k) /\ D!Earlier(k)' = D!Earlier(k)
    BY <1>2 DEF D!Own, D!Earlier, D!WantedTable, D!Pieces
  <2> QED
    BY <1>3, <2>1 DEF D!StaleOnlyAfterFault, Allowed
<1>4. misread \subseteq misread'
  <2>1. CASE D!Block
    BY <2>1, BlockCases
  <2>2. CASE ~D!Block
    BY <2>2, OtherSteps
  <2> QED
    BY <2>1, <2>2
<1>5. \A s \in 1..Len(image) : Allowed(image[s], from[s], misread')
  BY <1>1, <1>4 DEF Allowed
<1>6. CASE image' = image /\ from' = from
  BY <1>5, <1>6
<1>7. CASE D!Block /\ WrittenOut
  <2> DEFINE n == D!Table[D!Index].size
             x == D!Index
  <2>1. PICK d \in Origins : image' = image \o D!Sectors(d, n)
    BY <1>7 DEF WrittenOut
  <2>2. i = D!Wanted /\ from' = from \o D!Sectors(x, n)
    BY <1>7 DEF WrittenOut
  <2>3. Allowed(d, x, misread')
    BY <1>7, <2>1, <2>2, OriginsAllowed
  <2>4. d \in Data /\ n \in Nat /\ x \in Nat
    BY <1>7, <2>1, AtHand, DataType
  <2>5. image \in Seq(Data) /\ from \in Seq(Nat) /\ Len(from) = Len(image) /\ Len(image) \in Nat
    BY DEF D!TypeOK
  <2> HIDE DEF n, x
  <2>6. /\ Len(image') = Len(image) + n
        /\ \A s \in 1..Len(image) : image'[s] = image[s]
        /\ \A s \in 1..n : image'[Len(image) + s] = d
    <3>1. /\ Len(image \o D!Sectors(d, n)) = Len(image) + n
          /\ \A s \in 1..Len(image) : (image \o D!Sectors(d, n))[s] = image[s]
          /\ \A s \in 1..n : (image \o D!Sectors(d, n))[Len(image) + s] = d
      BY <2>4, <2>5, ImageAdded
    <3> QED
      BY <2>1, <3>1
  <2>7. /\ \A s \in 1..Len(image) : from'[s] = from[s]
        /\ \A s \in 1..n : from'[Len(image) + s] = x
    <3>1. PICK h \in Seq(Nat), k \in Nat, m \in Nat : h = from /\ k = x /\ m = n
      BY <2>4, <2>5
    <3> HIDE DEF D!IInv
    <3>2. \A s \in 1..Len(h) : (h \o D!Sectors(k, m))[s] = h[s]
      BY HistoryAdded
    <3>3. \A s \in 1..m : (h \o D!Sectors(k, m))[Len(h) + s] = k
      BY HistoryAdded
    <3> QED
      BY <2>2, <2>5, <3>1, <3>2, <3>3
  <2>8. ASSUME NEW s \in 1..Len(image') PROVE Allowed(image'[s], from'[s], misread')
    <3>1. CASE s \in 1..Len(image)
      BY <1>5, <2>6, <2>7, <3>1
    <3>2. CASE s \notin 1..Len(image)
      <4>1. PICK m \in 1..n : s = Len(image) + m
        <5>1. s - Len(image) \in 1..n /\ s = Len(image) + (s - Len(image))
          BY <2>4, <2>5, <2>6, <3>2
        <5> QED
          BY <5>1
      <4> QED
        BY <2>3, <2>6, <2>7, <4>1
    <3> QED
      BY <3>1, <3>2
  <2> QED
    BY <2>8
<1>8. (image' = image /\ from' = from) \/ (D!Block /\ WrittenOut)
  BY OtherSteps, BlockCases DEF PassedOver, Stopped
<1> QED
  BY <1>6, <1>7, <1>8

\* The entries of a well-formed table.
LEMMA WellFormedEntries ==
  ASSUME NEW t \in Seq(D!Entries), D!WellFormed(t), NEW k \in 1..Len(t)
  PROVE  /\ k = Len(t) => t[k].type = "end"
         /\ k < Len(t) => /\ t[k].type \in {"zlib", "copy", "zero"}
                          /\ t[k].type = "zero" => t[k].data = "zero"
                          /\ t[k].type = "zlib" => t[k].good
                          /\ t[k + 1].out = t[k].out + t[k].size
<1>1. Len(t) \in Nat
  OBVIOUS
<1>2. k < Len(t) => k \in 1..(Len(t) - 1)
  BY <1>1
<1> QED
  BY <1>1, <1>2 DEF D!WellFormed

\* One more entry is written out, or it is empty.
LEMMA OneEntryMore ==
  ASSUME D!IInv, D!Block, i = D!Wanted, NEW n, n = D!Index, D!WrittenUpTo(n), n < Len(D!Table),
         D!Table[n + 1].out = D!Table[n].out + D!Table[n].size,
         \/ image' = image /\ D!Table[n].size = 0
         \/ image' = image \o D!Sectors(D!Table[n].data, D!Table[n].size)
  PROVE  D!WrittenUpTo(n + 1)'
<1>1. D!Table' = D!Table
  BY BlockCases DEF D!IInv, D!Table
<1>2. /\ n \in Nat /\ n >= 1 /\ D!Table \in Seq(D!Entries) /\ Len(D!Table) \in Nat
      /\ D!Table[n].data \in Data /\ D!Table[n].size \in Nat /\ D!Table[n].out \in Nat
  BY AtHand, EntryType
<1>3. image \in Seq(Data) /\ Len(image) \in Nat
  BY DEF D!IInv, D!TypeOK
<1>4. Len(image) = D!Table[n].out
  BY DEF D!WrittenUpTo
<1>5. /\ Len(image') = Len(image) + D!Table[n].size
      /\ \A s \in 1..Len(image) : image'[s] = image[s]
      /\ \A s \in 1..D!Table[n].size : image'[Len(image) + s] = D!Table[n].data
  <2>1. CASE image' = image /\ D!Table[n].size = 0
    BY <2>1, <1>3
  <2>2. CASE image' = image \o D!Sectors(D!Table[n].data, D!Table[n].size)
    <3> DEFINE d == D!Table[n].data
               m == D!Table[n].size
    <3>1. d \in Data /\ m \in Nat /\ image' = image \o D!Sectors(d, m)
      BY <1>2, <2>2
    <3> HIDE DEF d, m
    <3>2. /\ Len(image') = Len(image) + m
          /\ \A s \in 1..Len(image) : image'[s] = image[s]
          /\ \A s \in 1..m : image'[Len(image) + s] = d
      BY <1>3, <3>1, ImageAdded
    <3> QED
      BY <3>2 DEF d, m
  <2> QED
    BY <2>1, <2>2
<1>6. ASSUME NEW k \in 1..n
      PROVE  /\ D!Table[k].out + D!Table[k].size <= Len(image')
             /\ \A s \in 1..D!Table[k].size : image'[D!Table[k].out + s] = D!Table[k].data
  <2>1. k \in 1..Len(D!Table)
    BY <1>2
  <2>2. D!Table[k].out \in Nat /\ D!Table[k].size \in Nat
    BY <1>2, <2>1, EntryType
  <2>3. CASE k = n
    BY <2>3, <1>2, <1>4, <1>5
  <2>4. CASE k \in 1..(n - 1)
    <3>1. /\ D!Table[k].out + D!Table[k].size <= Len(image)
          /\ \A s \in 1..D!Table[k].size : image[D!Table[k].out + s] = D!Table[k].data
      BY <2>4 DEF D!WrittenUpTo
    <3>2. D!Table[k].out + D!Table[k].size <= Len(image')
      <4> DEFINE to == D!Table[k].out + D!Table[k].size
                 m  == D!Table[n].size
      <4>1. to \in Nat /\ m \in Nat /\ to <= Len(image) /\ Len(image') = Len(image) + m
        BY <1>2, <1>5, <2>2, <3>1
      <4> HIDE DEF to, m
      <4>2. to <= Len(image')
        BY <1>3, <4>1
      <4> QED
        BY <4>2 DEF to
    <3>3. ASSUME NEW s \in 1..D!Table[k].size
          PROVE  image'[D!Table[k].out + s] = D!Table[k].data
      <4>1. D!Table[k].out + s \in 1..Len(image)
        BY <1>3, <2>2, <3>1
      <4> QED
        BY <1>5, <3>1, <4>1
    <3> QED
      BY <3>2, <3>3
  <2>5. k = n \/ k \in 1..(n - 1)
    BY <1>2
  <2> QED
    BY <2>3, <2>4, <2>5
<1>7. Len(image') = D!Table[n + 1].out
  BY <1>4, <1>5
<1>8. (n + 1) - 1 = n
  BY <1>2
<1> QED
  BY <1>1, <1>6, <1>7, <1>8 DEF D!WrittenUpTo

LEMMA TableStep == ASSUME D!IInv, D!Block PROVE D!TableInv'
<1> USE DEF D!IInv
<1>1. /\ at = "block" /\ dmg' = dmg /\ i' = i /\ type' = D!Table[D!Index].type
      /\ imageFaults \in Nat /\ imageFaults' \in Nat /\ imageFaults' >= imageFaults
      /\ PassedOver \/ Stopped \/ WrittenOut
  BY BlockCases DEF D!TypeOK
<1>2. D!Table' = D!Table
  BY <1>1 DEF D!Table
<1>3. CASE Stopped
  <2>1. at' = "ended" /\ (result' = "ok" => imageFaults' # 0 \/ DamagedAtHand)
    BY <1>1, <1>3 DEF Stopped
  <2>2. DamagedAtHand => ~D!WellFormed(D!Table)
    BY AtHand, WellFormedEntries DEF DamagedAtHand
  <2> QED
    BY <1>2, <2>1, <2>2 DEF D!TableInv, D!Sound
<1>4. CASE PassedOver \/ WrittenOut
  <2>1. at' = "block" /\ offset' = offset + D!EntryLen
    BY <1>1, <1>4 DEF PassedOver, WrittenOut, NextEntry
  <2> SUFFICES
        ASSUME D!Sound'
        PROVE  /\ D!Index' <= Len(D!Table) + 1
               /\ type' = IF D!Index' = 1 THEN "none" ELSE D!Table[D!Index' - 1].type
               /\ D!WrittenUpTo(IF D!Index <= Len(D!Table) THEN D!Index ELSE Len(D!Table))'
    BY <1>2, <2>1 DEF D!TableInv
  <2>2. D!Sound /\ imageFaults' = imageFaults /\ i = D!Wanted
    BY <1>1, <1>2 DEF D!Sound
  <2>3. D!Index \in 1..Len(D!Table) /\ D!Index \in Nat /\ Len(D!Table) \in Nat /\ D!Table \in Seq(D!Entries)
    BY AtHand
  <2>4. D!Index' = D!Index + 1
    <3>1. offset \in Nat
      BY DEF D!TypeOK
    <3> QED
      BY <2>1, <3>1 DEF D!Index, D!HeadLen, D!EntryLen
  <2>5. /\ D!Index' <= Len(D!Table) + 1
         /\ type' = IF D!Index' = 1 THEN "none" ELSE D!Table[D!Index' - 1].type
    BY <1>1, <2>3, <2>4
  <2>6. D!WrittenUpTo(D!Index) /\ D!WellFormed(D!Table)
    BY <1>1, <2>2, <2>3 DEF D!TableInv, D!Sound
  <2>7. CASE D!Index = Len(D!Table)
    <3>1. D!Table[D!Index].type = "end"
      BY <2>3, <2>6, <2>7, WellFormedEntries
    <3>2. image' = image
      BY <1>4, <3>1 DEF PassedOver, WrittenOut
    <3>3. D!WrittenUpTo(Len(D!Table))'
      BY <1>2, <2>6, <2>7, <3>2 DEF D!WrittenUpTo
    <3> QED
      BY <1>2, <2>3, <2>4, <2>5, <2>7, <3>3
  <2>8. CASE D!Index < Len(D!Table)
    <3>1. /\ D!Table[D!Index].type \in {"zlib", "copy", "zero"}
          /\ D!Table[D!Index].type = "zero" => D!Table[D!Index].data = "zero"
          /\ D!Table[D!Index + 1].out = D!Table[D!Index].out + D!Table[D!Index].size
      BY <2>3, <2>6, <2>8, WellFormedEntries
    <3>2. \/ image' = image /\ D!Table[D!Index].size = 0
          \/ image' = image \o D!Sectors(D!Table[D!Index].data, D!Table[D!Index].size)
      <4>1. CASE PassedOver
        BY <1>1, <2>2, <3>1, <4>1 DEF PassedOver
      <4>2. CASE WrittenOut
        <5>1. PICK d \in Origins : image' = image \o D!Sectors(d, D!Table[D!Index].size)
          BY <4>2 DEF WrittenOut
        <5>2. d = D!Table[D!Index].data
          BY <1>1, <2>2, <3>1, <5>1 DEF Origins, Proper
        <5> QED
          BY <5>1, <5>2
      <4> QED
        BY <1>4, <4>1, <4>2
    <3>3. PICK n : n = D!Index
      OBVIOUS
    <3>4. D!WrittenUpTo(n + 1)'
      BY <2>2, <2>6, <2>8, <3>1, <3>2, <3>3, OneEntryMore
    <3>5. D!Index' = n + 1 /\ D!Index' <= Len(D!Table)
      BY <2>3, <2>4, <2>8, <3>3
    <3>6. D!WrittenUpTo(IF D!Index <= Len(D!Table) THEN D!Index ELSE Len(D!Table))'
      BY <1>2, <3>4, <3>5 DEF D!WrittenUpTo
    <3> QED
      BY <2>5, <3>6
  <2> QED
    BY <2>3, <2>7, <2>8
<1> QED
  BY <1>1, <1>3, <1>4

LEMMA TableKept == ASSUME D!IInv, [D!Next]_D!vars PROVE D!TableInv'
<1> USE DEF D!IInv
<1>1. CASE D!Block
  BY <1>1, TableStep
<1>2. CASE ~D!Block
  <2>1. UNCHANGED <<dmg, tmp, otmp, image, imageFaults, from, misread>>
    BY <1>2, OtherSteps
  <2>2. CASE D!Open
    <3>1. at' \in {"part", "ended"} /\ (at' = "ended" /\ result' = "ok" => ~dmg'.found)
      <4>1. dmg.found \in BOOLEAN
        BY ImageType DEF D!TypeOK
      <4> QED
        BY <2>1, <2>2, <4>1 DEF D!Open, D!Return, D!TypeOK
    <3> QED
      BY <3>1 DEF D!TableInv
  <2>3. CASE D!Partition
    <3>1. /\ at = "part" /\ i' = i /\ offset' = D!HeadLen /\ type' = "none"
          /\ at' = IF i < Len(dmg.parts) THEN "block" ELSE "close"
      BY <2>3 DEF D!Partition
    <3> SUFFICES ASSUME D!Sound' PROVE D!TableInv'
      BY <3>1 DEF D!TableInv
    <3>2. i < Len(dmg.parts) /\ at' = "block" /\ D!WellFormed(D!Table) /\ D!Table' = D!Table
      BY <2>1, <3>1 DEF D!Sound, D!Table
    <3>3. Len(image) = 0 /\ Len(D!Table) > 0 /\ D!Table[1].out = 0
      BY <3>1, <3>2 DEF D!StageInv, D!WellFormed
    <3>4. Len(D!Table) \in Nat
      BY <3>2, TableType
    <3>5. D!Index' = 1
      BY <3>1 DEF D!Index, D!HeadLen, D!EntryLen
    <3>6. D!WrittenUpTo(1)'
      BY <2>1, <3>2, <3>3 DEF D!WrittenUpTo
    <3>7. D!Index' <= Len(D!Table') /\ D!Index' <= Len(D!Table') + 1
      BY <3>2, <3>3, <3>4, <3>5
    <3>8. D!WrittenUpTo(IF D!Index <= Len(D!Table) THEN D!Index ELSE Len(D!Table))'
      BY <3>5, <3>6, <3>7 DEF D!WrittenUpTo
    <3> QED
      BY <3>1, <3>2, <3>5, <3>7, <3>8 DEF D!TableInv
  <2>4. CASE D!LeaveTable
    <3>1. at = "block" /\ ~D!More
      BY <2>4 DEF D!LeaveTable
    <3>2. CASE i # D!Wanted
      BY <2>4, <3>2 DEF D!LeaveTable, D!TableInv
    <3>3. CASE i = D!Wanted
      <4>1. at' = "close" /\ i' = i
        BY <2>4, <3>3 DEF D!LeaveTable
      <4>2. D!Table' = D!Table
        BY <2>1, <4>1 DEF D!Table
      <4> SUFFICES ASSUME D!Sound' PROVE D!WrittenUpTo(Len(D!Table))'
        BY <4>1 DEF D!TableInv
      <4>3. D!Sound /\ i < Len(dmg.parts) /\ D!WellFormed(D!Table)
        BY <2>1, <4>1, <4>2 DEF D!Sound
      <4>4. D!Table \in Seq(D!Entries) /\ Len(D!Table) \in Nat /\ Len(D!Table) > 0
        BY <4>3, TableType DEF D!WellFormed
      <4>5. D!Index \in Nat /\ D!Index >= 1
        BY <3>1, AtAnEntry DEF D!StageInv
      <4>6. /\ D!Index <= Len(D!Table) + 1
            /\ type = IF D!Index = 1 THEN "none" ELSE D!Table[D!Index - 1].type
            /\ D!WrittenUpTo(IF D!Index <= Len(D!Table) THEN D!Index ELSE Len(D!Table))
        BY <3>1, <4>3 DEF D!TableInv
      <4>7. D!Index >= Len(D!Table)
        <5>1. CASE type # "end"
          <6>1. D!Table # <<>>
            BY <4>4
          <6> QED
            BY <3>1, <5>1, <6>1, LeftAtTheEnd DEF D!StageInv
        <5>2. CASE type = "end"
          <6>1. D!Index # 1 /\ D!Table[D!Index - 1].type = "end" /\ D!Index - 1 \in 1..Len(D!Table)
            BY <4>4, <4>5, <4>6, <5>2
          <6>2. ~(D!Index - 1 < Len(D!Table))
            BY <4>3, <4>4, <6>1, WellFormedEntries
          <6> QED
            BY <4>4, <4>5, <6>1, <6>2
        <5> QED
          BY <5>1, <5>2
      <4>8. (IF D!Index <= Len(D!Table) THEN D!Index ELSE Len(D!Table)) = Len(D!Table)
        BY <4>4, <4>5, <4>6, <4>7
      <4>9. D!WrittenUpTo(Len(D!Table))
        BY <4>6, <4>8
      <4> QED
        BY <2>1, <4>2, <4>9 DEF D!WrittenUpTo
    <3> QED
      BY <3>2, <3>3
  <2>5. CASE D!RunWild
    BY <2>5 DEF D!RunWild, D!TableInv
  <2>6. CASE D!Close
    <3>1. at = "close" /\ at' = "ended" /\ i' = i
      BY <2>6 DEF D!Close, D!Return
    <3>2. D!Table' = D!Table /\ (D!Sound' => D!Sound)
      BY <2>1, <3>1 DEF D!Table, D!Sound
    <3> QED
      BY <2>1, <3>1, <3>2 DEF D!TableInv, D!WrittenUpTo
  <2>7. CASE UNCHANGED D!vars
    <3>1. D!Table' = D!Table /\ (D!Sound' <=> D!Sound) /\ D!Index' = D!Index
      BY <2>7 DEF D!vars, D!Table, D!Sound, D!Index
    <3> QED
      BY <2>7, <3>1 DEF D!vars, D!TableInv, D!WrittenUpTo
  <2> QED
    BY <1>2, <2>2, <2>3, <2>4, <2>5, <2>6, <2>7 DEF D!Next, D!Ended
<1> QED
  BY <1>1, <1>2

LEMMA Kept == ASSUME D!IInv, [D!Next]_D!vars PROVE D!IInv'
BY TypeKept, InsideKept, StageKept, BuffersKept, TableKept, StaleKept DEF D!IInv

LEMMA InPlaceHolds == ASSUME D!IInv PROVE D!InPlace /\ D!WholeImage
<1> USE DEF D!IInv
<1>1. D!InPlace
  <2> SUFFICES ASSUME at = "block", D!Sound, D!Index <= Len(D!Table)
               PROVE  D!WrittenUpTo(D!Index)
    BY DEF D!InPlace, D!WrittenUpTo
  <2> QED
    BY DEF D!TableInv
<1>2. D!WholeImage
  BY DEF D!TableInv, D!WholeImage, D!WrittenUpTo
<1> QED
  BY <1>1, <1>2

LEMMA ZeroHolds == ASSUME D!IInv PROVE D!ZeroMeansWhole
<1> SUFFICES ASSUME at = "ended", result = "ok", dmg.found, Len(dmg.parts) > D!Wanted, ~(imageFaults > 0),
                    ~D!Damaged(D!Wanted + 1), D!WellFormed(D!WantedTable)
             PROVE  Len(image) = D!WantedTable[Len(D!WantedTable)].out
  <2>1. Len(dmg.parts) \in Nat
    BY ImageType DEF D!IInv, D!TypeOK
  <2> QED
    BY <2>1 DEF D!ZeroMeansWhole, D!Wanted
<1>1. imageFaults = 0 /\ i \in Nat /\ Len(dmg.parts) \in Nat
  BY ImageType DEF D!IInv, D!TypeOK
<1>2. i <= D!Wanted /\ (i = D!Wanted \/ Len(dmg.parts) <= i \/ D!Damaged(i + 1))
  BY <1>1 DEF D!IInv, D!StageInv
<1>3. D!Damaged(i + 1) => D!Damaged(D!Wanted + 1)
  <2>1. 1..(i + 1) \subseteq 1..(D!Wanted + 1)
    BY <1>1, <1>2 DEF D!Wanted
  <2> QED
    BY <2>1 DEF D!Damaged
<1>4. i = D!Wanted
  BY <1>1, <1>2, <1>3 DEF D!Wanted
<1>5. D!Table = D!WantedTable
  BY <1>4 DEF D!Table, D!WantedTable
<1>6. D!Sound
  BY <1>1, <1>4, <1>5 DEF D!Sound
<1> QED
  BY <1>5, <1>6 DEF D!IInv, D!TableInv, D!WrittenUpTo

-----------------------------------------------------------------------------
(***************************************************************************)
(* Both together.                                                          *)
(***************************************************************************)
LEMMA ConvStep ==
  ASSUME ConvInv, [ConversionNext]_<<vars, decrypted, dmg2img>>
  PROVE  ConvInv'
<1>1. ASSUME ~dmg.found, [Next]_vars, UNCHANGED <<decrypted, dmg2img>> PROVE ConvInv'
  <2>1. IInv' /\ GapInv'
    BY <1>1, Preserved, GapPreserved DEF ConvInv
  <2>2. HandedOver'
    BY <1>1 DEF ConvInv, HandedOver, dmg2img
  <2> QED
    BY <2>1, <2>2 DEF ConvInv
<1>2. CASE UNCHANGED <<vars, decrypted, dmg2img>>
  <2>1. IInv' /\ GapInv'
    BY <1>2, Preserved, GapPreserved DEF ConvInv
  <2>2. HandedOver'
    BY <1>2 DEF ConvInv, HandedOver, dmg2img, vars
  <2> QED
    BY <2>1, <2>2 DEF ConvInv
<1> QED
  BY <1>1, <1>2, HandOverKeeps, ConvertingKeeps DEF ConversionNext, Decrypting

\* What dmg2img finds at its start follows from what vfdecrypt left.
THEOREM ChainInductive == ConversionSpec => []ConvInv
<1>1. ConversionInit => ConvInv
  <2> SUFFICES ASSUME ConversionInit PROVE ConvInv
    OBVIOUS
  <2>1. IInv /\ GapInv
    BY Initially, GapInitially DEF ConversionInit
  <2>2. HandedOver
    BY DEF ConversionInit, D!Init, HandedOver
  <2> QED
    BY <2>1, <2>2 DEF ConvInv
<1> QED
  BY <1>1, ConvStep, PTL DEF ConversionSpec

\* What vfdecrypt does not notice, dmg2img does: for images of any size.
THEOREM TrailerCatches == ConversionSpec => []CaughtByTrailer
<1>1. ConvInv => CaughtByTrailer
  BY DEF ConvInv, HandedOver, CaughtByTrailer
<1> QED
  BY <1>1, ChainInductive, PTL

\* dmg2img has its invariant, and has not begun before there is a file for it.
ImageInv == D!IInv /\ (~dmg.found => D!Init)

LEMMA ImageStep ==
  ASSUME ConvInv, ImageInv, [ConversionNext]_<<vars, decrypted, dmg2img>>
  PROVE  ImageInv'
<1> USE DEF ImageInv
<1>1. ASSUME UNCHANGED dmg2img PROVE ImageInv'
  <2>1. D!vars' = D!vars
    BY <1>1 DEF dmg2img, D!vars, D!history
  <2>2. D!IInv'
    BY <2>1, Kept
  <2>3. D!Init => D!Init'
    BY <2>1 DEF D!vars, D!history, D!Init
  <2>4. dmg' = dmg
    BY <1>1 DEF dmg2img
  <2> QED
    BY <2>2, <2>3, <2>4
<1>2. CASE HandOver
  <2>1. D!Init
    BY <1>2 DEF HandOver, ConvInv, HandedOver
  <2>2. PICK c \in BOOLEAN, p \in Partitions :
          dmg' = [found |-> TRUE, creatable |-> c, trailer |-> Finds(decrypted').trailer,
                  plist |-> Finds(decrypted').plist, parts |-> p]
    BY <1>2 DEF HandOver
  <2>3. decrypted' = [ends |-> Ends, whole |-> outPos = in.size, right |-> Right]
    BY <1>2 DEF HandOver
  <2>4. Finds(decrypted').trailer \in BOOLEAN /\ Finds(decrypted').plist \in BOOLEAN
    <3>1. Ends \in BOOLEAN
      BY DEF Ends
    <3>2. Finds(decrypted').trailer = Ends /\ Finds(decrypted').plist = (Ends /\ outPos = in.size)
      BY <2>3 DEF Finds
    <3> QED
      BY <3>1, <3>2
  <2>5. dmg' \in DiskImages
    BY <2>2, <2>4 DEF DiskImages
  <2>6. UNCHANGED <<at, i, offset, type, tmp, otmp, image, result, imageFaults, from, misread>>
    BY <1>2 DEF HandOver
  <2>7. D!Init'
    BY <2>1, <2>5, <2>6 DEF D!Init
  <2>8. D!Init' => D!IInv'
    BY ImageStart, PTL
  <2> QED
    BY <2>7, <2>8
<1>3. CASE Converting
  <2>1. dmg.found /\ D!Next
    BY <1>3 DEF Converting
  <2>2. D!IInv'
    BY <2>1, Kept
  <2>3. dmg' = dmg
    BY <2>1
      DEF D!Next, D!Open, D!Partition, D!LeaveTable, D!RunWild, D!Block, D!Close, D!Ended,
          D!vars
  <2> QED
    BY <2>1, <2>2, <2>3
<1> QED
  BY <1>1, <1>2, <1>3 DEF ConversionNext, Decrypting

\* The inductive invariant of dmg2img: where it stands in the partitions and in the
\* table, what is written, and where the data in the buffers comes from.
THEOREM ImageInductive == ConversionSpec => []ImageInv
<1>1. ConversionInit => ImageInv
  BY ImageStart DEF ConversionInit, ImageInv
<1> QED
  BY <1>1, ImageStep, ChainInductive, PTL DEF ConversionSpec

\* Whatever partitions came before it, a well-formed table of any length is written out
\* whole, each block at the place that its entry names.
THEOREM ImageIsRight == ConversionSpec => []ImageRight
<1>1. ImageInv => ImageRight
  BY InPlaceHolds DEF ImageInv, ImageRight
<1> QED
  BY <1>1, ImageInductive, PTL

\* Every sector holds the data of the block it was written for, unless the read of that
\* block failed: and then data of a block before it.  For tables of any length.
THEOREM StaleExplained == ConversionSpec => []StaleOnlyAfterFault
<1>1. ImageInv => StaleOnlyAfterFault
  BY DEF ImageInv, D!IInv, StaleOnlyAfterFault
<1> QED
  BY <1>1, ImageInductive, PTL

\* Exit status 0 with something missing at the end is explained, for tables of any
\* length, by the input, a failing call or a damaged block up to the wanted partition;
\* and what lies behind a table is read only if it cannot hold an entry.
THEOREM ZeroExplained == ConversionSpec => []ZeroMeansWhole
<1>1. ImageInv => ZeroMeansWhole
  BY ZeroHolds DEF ImageInv, D!IInv, ZeroMeansWhole
<1> QED
  BY <1>1, ImageInductive, PTL
=============================================================================
