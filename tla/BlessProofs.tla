------------------------------ MODULE BlessProofs ------------------------------
(***************************************************************************)
(* Proofs about Bless, for any number of runs of the tool.                 *)
(***************************************************************************)
EXTENDS Bless, TLAPS

\* What each point of a run can count on.  k = 1 until a field is written; while
\* field k is next, the volume is unmounted and every field before the buffered
\* one is this run's; when the volume is mounted again only the last may not be.
FieldsInv ==
  /\ pc \in {"check", "unmount", "open"} => k = 1 /\ lost = FALSE
  /\ pc \in {"open", "fields", "close", "mount"} => mount = "no"
  /\ pc \in {"fields", "close"} => lost = FALSE /\ \A f \in Fields : f < k - 1 => hdr[f] = run
  /\ pc = "close" => k = 5
  /\ pc = "mount" => \A f \in Fields : hdr[f] = run \/ (f = 4 /\ lost)

\* A step keeps every value in its set, and what a point of a run can count on is
\* there when the run gets to it.
LEMMA FieldsStep ==
  ASSUME TypeOK, FieldsInv, [Next]_vars
  PROVE  TypeOK' /\ FieldsInv'
<1> USE BlessAssumption DEF TypeOK, FieldsInv, Fields, Goes, Exits
<1>1. CASE Start
  <2>1. run' \in 0..MaxRuns /\ 0..run \subseteq 0..run'
    BY <1>1 DEF Start
  <2>2. hdr' \in [Fields -> 0..run']
    BY <1>1, <2>1 DEF Start
  <2>3. lost' \in BOOLEAN
    BY <1>1 DEF Start
  <2>4. TypeOK'
    BY <1>1, <2>1, <2>2, <2>3 DEF Start
  <2>5. FieldsInv'
    BY <1>1 DEF Start
  <2>6. QED
    BY <2>4, <2>5
<1>2. CASE Check
  BY <1>2 DEF Check
<1>3. CASE Unmount
  BY <1>3 DEF Unmount
<1>4. CASE Open
  BY <1>4 DEF Open
<1>5. CASE Field
  <2>1. TypeOK'
    BY <1>5 DEF Field, Flushed
  <2>2. \A f \in Fields : f < k' - 1 => hdr'[f] = run
    BY <1>5 DEF Field, Flushed
  <2>3. QED
    BY <1>5, <2>1, <2>2 DEF Field
<1>6. CASE FieldFails
  BY <1>6 DEF FieldFails, Flushed
<1>7. CASE Close
  <2>1. \A f \in Fields : hdr'[f] = run \/ (f = 4 /\ lost')
    BY <1>7 DEF Close, Flushed
  <2>2. hdr' \in [Fields -> 0..run]
    BY <1>7 DEF Close, Flushed
  <2>3. QED
    BY <1>7, <2>1, <2>2 DEF Close
<1>8. CASE Mount
  BY <1>8 DEF Mount
<1>9. CASE Crash
  BY <1>9 DEF Crash
<1>10. CASE UNCHANGED vars
  BY <1>10 DEF vars
<1>11. QED
  BY <1>1, <1>2, <1>3, <1>4, <1>5, <1>6, <1>7, <1>8, <1>9, <1>10 DEF Next, Finished

LEMMA FieldsInvariant == Spec => [](TypeOK /\ FieldsInv)
<1>1. Init => TypeOK /\ FieldsInv
  <2>1. Init => hdr \in [Fields -> 0..run]
    BY DEF Init, Fields
  <2>2. Init => lost \in BOOLEAN
    BY DEF Init
  <2>3. Init => TypeOK
    BY <2>1, <2>2, BlessAssumption DEF Init, TypeOK, Fields
  <2>4. Init => FieldsInv
    BY DEF Init, FieldsInv
  <2>5. QED
    BY <2>3, <2>4
<1>2. TypeOK /\ FieldsInv /\ [Next]_vars => (TypeOK /\ FieldsInv)'
  BY FieldsStep
<1>3. QED
  BY <1>1, <1>2, PTL DEF Spec

\* Every value stays in its set: no run writes a field that does not exist, nor
\* an inode that no run has had.
THEOREM TypeCorrect == Spec => []TypeOK
BY FieldsInvariant, PTL

-----------------------------------------------------------------------------
\* The order of the fields, backup after header and second after first, survives
\* every failure, restart and further run of the tool.
THEOREM FieldsInOrder == Spec => []InOrder
<1>1. Init => InOrder
  BY DEF Init, InOrder, Fields
<1>2. TypeOK /\ FieldsInv /\ InOrder /\ [Next]_vars => InOrder'
  <2> SUFFICES ASSUME TypeOK, FieldsInv, InOrder, [Next]_vars PROVE InOrder'
    OBVIOUS
  <2> USE DEF TypeOK, FieldsInv, InOrder, Fields, Goes
  <2>1. ASSUME pc \in {"fields", "close"}, hdr' = Flushed PROVE InOrder'
    <3>1. CASE k = 1
      BY <2>1, <3>1 DEF Flushed
    <3>2. CASE k # 1
      <4>1. hdr' = [hdr EXCEPT ![k - 1] = run] /\ k - 1 \in Fields
        BY <2>1, <3>2 DEF Flushed
      <4>2. ASSUME NEW f \in Fields, NEW g \in Fields, f < g PROVE hdr'[f] >= hdr'[g]
        <5>1. CASE f < k - 1
          \* f is this run's already, and no field is of a later run.
          BY <2>1, <4>1, <4>2, <5>1
        <5>2. CASE f = k - 1
          BY <4>1, <4>2, <5>2
        <5>3. CASE f > k - 1
          BY <4>1, <4>2, <5>3
        <5>4. QED
          BY <4>1, <5>1, <5>2, <5>3
      <4>3. QED
        BY <4>2
    <3>3. QED
      BY <3>1, <3>2
  <2>2. CASE Field
    BY <2>1, <2>2 DEF Field
  <2>3. CASE FieldFails \/ Close
    BY <2>1, <2>3 DEF FieldFails, Close, Exits
  <2>4. CASE UNCHANGED hdr
    BY <2>4
  <2>5. QED
    BY <2>2, <2>3, <2>4
       DEF Next, Start, Check, Unmount, Open, Mount, Crash, Finished, vars
<1>3. QED
  BY <1>1, <1>2, FieldsInvariant, PTL DEF Spec

\* No step writes to the header while a file system is mounted on the device.
THEOREM NeverUnderAMount == Spec => WrittenUnmounted
<1>1. TypeOK /\ FieldsInv /\ [Next]_vars
        => [hdr' # hdr => mount = "no" /\ mount' = "no"]_vars
  <2> SUFFICES ASSUME TypeOK, FieldsInv, [Next]_vars, hdr' # hdr
               PROVE  mount = "no" /\ mount' = "no"
    OBVIOUS
  <2>1. Field \/ FieldFails \/ Close
    BY DEF Next, Start, Check, Unmount, Open, Mount, Crash, Finished, vars
  <2>2. QED
    BY <2>1 DEF FieldsInv, Field, FieldFails, Close, Goes, Exits
<1>2. QED
  BY <1>1, FieldsInvariant, PTL DEF Spec, WrittenUnmounted

\* A run that reports success leaves all the fields its own, the last one excepted
\* when fclose could not write it, and the volume mounted as it was.
THEOREM SuccessIsTold == Spec => SuccessIsComplete
<1>1. TypeOK /\ FieldsInv /\ [Next]_vars
        => [pc = "mount" /\ pc' = "idle" /\ status' = 0 /\ mount' # "no" =>
              /\ mount' = mode
              /\ \A f \in Fields : hdr[f] = run \/ (f = 4 /\ lost)]_vars
  <2> SUFFICES ASSUME TypeOK, FieldsInv, [Next]_vars,
                      pc = "mount", pc' = "idle", status' = 0, mount' # "no"
               PROVE  /\ mount' = mode
                      /\ \A f \in Fields : hdr[f] = run \/ (f = 4 /\ lost)
    OBVIOUS
  <2>1. Mount \/ Crash
    BY DEF Next, Start, Check, Unmount, Open, Field, FieldFails, Close, Finished,
           vars, Goes, Exits
  <2>2. QED
    BY <2>1 DEF FieldsInv, Mount, Crash, Goes, Exits
<1>2. QED
  BY <1>1, FieldsInvariant, PTL DEF Spec, SuccessIsComplete

===============================================================================
