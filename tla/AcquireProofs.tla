---------------------------- MODULE AcquireProofs ----------------------------
(***************************************************************************)
(* Proofs about Acquire, for any number of failing children and reboots.   *)
(***************************************************************************)
EXTENDS Acquire, TLAPS

\* Every value stays in its set, whatever fails and however often.
THEOREM TypeCorrect == Spec => []TypeOK
<1>1. Init => TypeOK
  BY BoundsAssumption DEF Init, TypeOK, Artifacts, Contents, Stages
<1>2. TypeOK /\ [Next]_vars => TypeOK'
  <2> SUFFICES ASSUME TypeOK, [Next]_vars PROVE TypeOK'
    OBVIOUS
  <2> USE DEF TypeOK, Artifacts, Contents, Stages, Between, device
  <2>1. CASE (\E statted \in BOOLEAN : Launch(statted)) \/ (\E goOn \in BOOLEAN : Question(goOn))
    BY <2>1 DEF Launch, Question
  <2>2. CASE AdoptMedia
    BY <2>2 DEF AdoptMedia
  <2>3. CASE Check
    BY <2>3 DEF Check
  <2>4. CASE Gate
    BY <2>4 DEF Gate
  <2>5. CASE DropX
    BY <2>5 DEF DropX
  <2>6. CASE DropDecrypted
    BY <2>6 DEF DropDecrypted
  <2>7. CASE Verify
    BY <2>7 DEF Verify
  <2>8. ASSUME NEW s \in Stages, Child(s) PROVE TypeOK'
    <3> USE DEF Output, After
    <3>1. CASE ChildOpens(s)
      BY <3>1 DEF ChildOpens
    <3>2. CASE ChildSucceeds(s)
      BY <3>2 DEF ChildSucceeds
    <3>3. CASE ChildStumbles(s)
      BY <3>3 DEF ChildStumbles
    <3>4. CASE ChildFails(s)
      BY <3>4, BoundsAssumption DEF ChildFails
    <3>5. QED
      BY <2>8, <3>1, <3>2, <3>3, <3>4 DEF Child
  <2>9. CASE Reboot
    BY <2>9, BoundsAssumption DEF Reboot
  <2>10. CASE UNCHANGED vars
    BY <2>10 DEF vars
  <2>11. QED
    BY <2>1, <2>2, <2>3, <2>4, <2>5, <2>6, <2>7, <2>8, <2>9, <2>10
       DEF Next, WorkerStep, HandedOver
<1>3. QED
  BY <1>1, <1>2, PTL DEF Spec

-----------------------------------------------------------------------------
\* The inductive step of CompletenessInv, one action at a time.
LEMMA CompletenessStep ==
  ASSUME TypeOK, TypeOK', CompletenessInv, [Next]_vars
  PROVE  CompletenessInv'
<1> USE DEF TypeOK, Artifacts, Contents, Stages, Between, Exists,
            CompletenessInv, PartialOnlyInProgress, ReadyHasImage
<1>1. CASE (\E statted \in BOOLEAN : Launch(statted)) \/ (\E goOn \in BOOLEAN : Question(goOn))
  BY <1>1 DEF Launch, Question
<1>2. CASE AdoptMedia
  BY <1>2 DEF AdoptMedia
<1>3. CASE Check
  BY <1>3 DEF Check, ZipUsable
<1>4. CASE Gate
  BY <1>4 DEF Gate
<1>5. CASE DropX
  BY <1>5 DEF DropX
<1>6. CASE DropDecrypted
  BY <1>6 DEF DropDecrypted
<1>7. CASE Verify
  BY <1>7 DEF Verify
<1>8. ASSUME NEW s \in Stages, Child(s) PROVE CompletenessInv'
  <2> USE DEF Output, After, Source
  <2>1. CASE ChildOpens(s)
    BY <2>1 DEF ChildOpens
  <2>2. CASE ChildSucceeds(s)
    BY <2>2 DEF ChildSucceeds
  <2>3. CASE ChildStumbles(s)
    BY <2>3 DEF ChildStumbles
  <2>4. CASE ChildFails(s)
    BY <2>4 DEF ChildFails
  <2>5. QED
    BY <1>8, <2>1, <2>2, <2>3, <2>4 DEF Child
<1>9. CASE Reboot
  BY <1>9 DEF Reboot, Output
<1>10. CASE UNCHANGED vars
  BY <1>10 DEF vars
<1>11. QED
  BY <1>1, <1>2, <1>3, <1>4, <1>5, <1>6, <1>7, <1>8, <1>9, <1>10
     DEF Next, WorkerStep, HandedOver

\* Without a fault that no check detects, a file cut short is being written.
THEOREM Completeness == Spec => []CompletenessInv
<1>1. Init => CompletenessInv
  BY DEF Init, CompletenessInv, PartialOnlyInProgress, ReadyHasImage, Artifacts
<1>2. QED
  BY <1>1, CompletenessStep, TypeCorrect, PTL DEF Spec

\* The image the new system is built from is complete unless a child was struck.
THEOREM ReadyImageIsComplete == Spec => []ReadyImageComplete
<1>1. TypeOK /\ CompletenessInv => ReadyImageComplete
  BY DEF TypeOK, Artifacts, Contents, Exists, CompletenessInv,
         PartialOnlyInProgress, ReadyHasImage, ReadyImageComplete
<1>2. QED
  BY <1>1, TypeCorrect, Completeness, PTL

-----------------------------------------------------------------------------
\* Without such a fault no step drops the most advanced result of a launch.
THEOREM WorkIsKept == Spec => WorkKept
<1> DEFINE Kept == pc # "adopt" /\ harm' = {} => Rank(file') >= Rank(file)
<1>1. ASSUME TypeOK, CompletenessInv, [Next]_vars PROVE [Kept]_vars
  <2> SUFFICES ASSUME pc # "adopt", harm' = {} PROVE Rank(file') >= Rank(file)
    OBVIOUS
  <2> USE <1>1 DEF TypeOK, Artifacts, Contents, Stages, Exists, Rank,
              CompletenessInv, PartialOnlyInProgress
  <2>1. ASSUME UNCHANGED file PROVE Rank(file') >= Rank(file)
    BY <2>1
  <2>2. CASE \/ (\E statted \in BOOLEAN : Launch(statted)) \/ (\E goOn \in BOOLEAN : Question(goOn))
            \/ Check \/ Verify \/ Reboot \/ UNCHANGED vars
    BY <2>1, <2>2 DEF Launch, Question, Check, Verify, Reboot, vars
  <2>3. CASE AdoptMedia
    BY <2>3 DEF AdoptMedia
  <2>4. CASE Gate
    BY <2>4 DEF Gate
  <2>5. CASE DropX
    BY <2>5 DEF DropX
  <2>6. CASE DropDecrypted
    BY <2>6 DEF DropDecrypted
  <2>7. ASSUME NEW s \in Stages, Child(s) PROVE Rank(file') >= Rank(file)
    <3>1. CASE ChildOpens(s)
      BY <3>1 DEF ChildOpens, Output
    <3>2. CASE ChildSucceeds(s)
      BY <3>2 DEF ChildSucceeds, Output
    <3>3. CASE ChildStumbles(s) \/ ChildFails(s)
      BY <2>1, <3>3 DEF ChildStumbles, ChildFails
    <3>4. QED
      BY <2>7, <3>1, <3>2, <3>3 DEF Child
  <2>8. QED
    BY <2>2, <2>3, <2>4, <2>5, <2>6, <2>7 DEF Next, WorkerStep, HandedOver
<1>2. QED
  BY <1>1, TypeCorrect, Completeness, PTL DEF Spec, WorkKept

-----------------------------------------------------------------------------
\* The inductive step of OnlyTheStagesFiles: a stage that ends takes its input
\* away before the next one begins, and Check of a first boot never skips ahead.
LEMMA StagesFilesStep ==
  ASSUME TypeOK, OnlyTheStagesFiles, [Next]_vars
  PROVE  OnlyTheStagesFiles'
<1> USE DEF TypeOK, Artifacts, Contents, Stages, Between, Exists,
            OnlyTheStagesFiles, Leftovers, MayExist
<1>1. CASE (\E statted \in BOOLEAN : Launch(statted)) \/ (\E goOn \in BOOLEAN : Question(goOn))
  BY <1>1 DEF Launch, Question
<1>2. CASE AdoptMedia
  BY <1>2 DEF AdoptMedia
<1>3. CASE Check
  BY <1>3 DEF Check, ZipUsable
<1>4. CASE Gate
  BY <1>4 DEF Gate
<1>5. CASE DropX
  BY <1>5 DEF DropX
<1>6. CASE DropDecrypted
  BY <1>6 DEF DropDecrypted
<1>7. CASE Verify
  BY <1>7 DEF Verify
<1>8. ASSUME NEW s \in Stages, Child(s) PROVE OnlyTheStagesFiles'
  <2> USE DEF Output, After
  <2>1. CASE ChildOpens(s)
    BY <2>1 DEF ChildOpens
  <2>2. CASE ChildSucceeds(s)
    BY <2>2 DEF ChildSucceeds
  <2>3. CASE ChildStumbles(s)
    BY <2>3 DEF ChildStumbles
  <2>4. CASE ChildFails(s)
    BY <2>4 DEF ChildFails
  <2>5. QED
    BY <1>8, <2>1, <2>2, <2>3, <2>4 DEF Child
<1>9. CASE Reboot
  BY <1>9, BoundsAssumption DEF Reboot
<1>10. CASE UNCHANGED vars
  BY <1>10 DEF vars
<1>11. QED
  BY <1>1, <1>2, <1>3, <1>4, <1>5, <1>6, <1>7, <1>8, <1>9, <1>10
     DEF Next, WorkerStep, HandedOver

\* An upgrade without a reboot hands over a /private/var that holds the image and
\* nothing else of its own, however many children failed on the way.
THEOREM DiskIsClean == Spec => []CleanDisk
<1>1. Init => OnlyTheStagesFiles
  BY DEF Init, OnlyTheStagesFiles, Leftovers, MayExist, Exists, Artifacts
<1>2. CompletenessInv /\ OnlyTheStagesFiles => CleanDisk
  BY DEF CompletenessInv, ReadyHasImage, OnlyTheStagesFiles, Leftovers, MayExist,
         Exists, Artifacts, CleanDisk
<1>3. QED
  BY <1>1, <1>2, StagesFilesStep, TypeCorrect, Completeness, PTL DEF Spec

=============================================================================
