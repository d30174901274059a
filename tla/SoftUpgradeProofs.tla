--------------------------- MODULE SoftUpgradeProofs ---------------------------
(***************************************************************************)
(* What the run of SoftUpgrade checks for three runs of the script and     *)
(* three faults, for any number of both.                                   *)
(***************************************************************************)
EXTENDS SoftUpgrade, TLAPS

\* While no tool has failed silently in this run, what the next tool reads is whole,
\* and so is what a tool has written that returned 0.
ChainInv ==
  silent = {} =>
    /\ pc = "ditto" => file["zip"] = "full"
    /\ pc = "vfdecrypt" => file["dmg"] = "full"
    /\ pc = "dmg2img" => file["decr"] = "full"
    /\ rc = "ok" => file[Output[pc]] = "full"
    /\ pc \in Works => file["dd"] = "full"

\* From the test for its presence on there is an image; the partition is the old one
\* until cp begins, and the device stops for good only when it has begun.
PartitionInv ==
  /\ pc \in Works \ {"present"} => file["dd"] # "absent"
  /\ raw = "partial" => pc \in {"flashing", "dead"}
  /\ pc = "flashing" => raw = "partial"
  /\ raw = "full" <=> pc = "upgraded"
  /\ pc = "dead" => raw = "partial"

IInv == TypeOK /\ ChainInv /\ PartitionInv /\ CustomisesItsOwn

-----------------------------------------------------------------------------
THEOREM Initially == Init => IInv
BY SoftAssumption DEF Init, IInv, TypeOK, ChainInv, PartitionInv, CustomisesItsOwn,
                      Artifacts, Contents, Tools, Works

LEMMA StartKeeps == ASSUME IInv, Start PROVE IInv'
<1> USE DEF IInv, Start
<1>1. TypeOK'
  BY SoftAssumption DEF TypeOK, Tools, Works, Exits, Contents
<1> QED
  BY <1>1 DEF TypeOK, ChainInv, PartitionInv, CustomisesItsOwn, Tools, Works, Exits

\* Whatever a tool reads, its output holds something and its status is one of two.
LEMMA OutcomeType ==
  ASSUME file \in [Artifacts -> Contents], NEW t \in Tools, NEW o \in Outcomes(t)
  PROVE  o[1] \in Contents /\ o[2] \in {"ok", "bad"}
<1>1. {"zip", "dmg", "decr"} \subseteq Artifacts
  BY DEF Artifacts
<1>2. CASE t \in {"wget", "ditto"}
  <2>1. o \in Honest(Source(t))
    BY <1>2 DEF Outcomes
  <2> QED
    BY <2>1 DEF Honest, Contents
<1>3. CASE t = "vfdecrypt"
  <2>1. o \in Vfdecrypt(file["dmg"])
    BY <1>3 DEF Outcomes, Source
  <2>2. file["dmg"] \in {"absent", "partial", "full"}
    BY <1>1 DEF Contents
  <2>3. o \in {<<"full", "ok">>, <<"partial", "ok">>, <<"absent", "bad">>, <<"partial", "bad">>}
    BY <2>1, <2>2 DEF Vfdecrypt
  <2> QED
    BY <2>3 DEF Contents
<1>4. CASE t = "dmg2img"
  <2>1. o \in Dmg2img(file["decr"])
    BY <1>4 DEF Outcomes, Source
  <2>2. file["decr"] \in {"absent", "partial", "full"}
    BY <1>1 DEF Contents
  <2>3. o \in {<<"full", "ok">>, <<"partial", "ok">>, <<"partial", "bad">>, <<"absent", "ok">>}
    BY <2>1, <2>2 DEF Dmg2img
  <2> QED
    BY <2>3 DEF Contents
<1> QED
  BY <1>2, <1>3, <1>4 DEF Tools

LEMMA RunKeeps == ASSUME IInv, NEW t \in Tools, Run(t) PROVE IInv'
<1> USE DEF IInv
<1>1. PICK o \in Outcomes(t) :
        /\ file' = [file EXCEPT ![Output[t]] = o[1]]
        /\ rc' = o[2]
        /\ IF Source(t) = "full" /\ o[1] # "full"
           THEN /\ failures < MaxFailures /\ failures' = failures + 1
                /\ silent' = IF o[2] = "ok" THEN silent \cup {t} ELSE silent
           ELSE UNCHANGED <<failures, silent>>
  BY DEF Run
<1>2. pc = t /\ rc = "none" /\ UNCHANGED <<pc, free, attached, raw, runs>>
  BY DEF Run
<1>3. o[1] \in Contents /\ o[2] \in {"ok", "bad"}
  BY OutcomeType DEF TypeOK
<1>4. Output[t] \in Artifacts /\ file \in [Artifacts -> Contents]
  BY DEF Output, Artifacts, Tools, TypeOK
<1>5. TypeOK'
  <2>1. file' \in [Artifacts -> Contents]
    BY <1>1, <1>3, <1>4
  <2>2. failures' \in 0..MaxFailures /\ silent' \subseteq Tools
    BY <1>1, SoftAssumption DEF TypeOK
  <2>3. rc' \in {"none", "ok", "bad"} /\ pc' \in Tools
    BY <1>1, <1>2, <1>3
  <2> QED
    BY <1>2, <2>1, <2>2, <2>3 DEF TypeOK
<1>6. ChainInv'
  <2> SUFFICES ASSUME silent' = {} PROVE ChainInv'
    BY DEF ChainInv
  <2>1. silent = {}
    BY <1>1
  <2>2. Source(t) = "full"
    BY <1>2, <2>1 DEF ChainInv, Source, Tools
  <2>3. o[2] = "ok" => o[1] = "full"
    BY <1>1, <2>2
  <2>4. rc' = "ok" => file'[Output[t]] = "full"
    BY <1>1, <1>4, <2>3
  <2>5. t = "ditto" => file'["zip"] = "full"
    BY <1>1, <1>2, <1>4, <2>1 DEF ChainInv, Output, Tools, Artifacts
  <2>6. t = "vfdecrypt" => file'["dmg"] = "full"
    BY <1>1, <1>2, <1>4, <2>1 DEF ChainInv, Output, Tools, Artifacts
  <2>7. t = "dmg2img" => file'["decr"] = "full"
    BY <1>1, <1>2, <1>4, <2>1 DEF ChainInv, Output, Tools, Artifacts
  <2> QED
    BY <1>2, <2>4, <2>5, <2>6, <2>7 DEF ChainInv, Tools, Works
<1>7. PartitionInv' /\ CustomisesItsOwn'
  BY <1>2 DEF PartitionInv, CustomisesItsOwn, Tools, Works
<1> QED
  BY <1>5, <1>6, <1>7

LEMMA JudgeKeeps == ASSUME IInv, NEW t \in Tools, Judge(t) PROVE IInv'
<1> USE DEF IInv
<1>1. /\ pc = t /\ rc # "none" /\ rc' = "none"
      /\ UNCHANGED <<free, attached, raw, runs, failures, silent>>
      /\ IF rc = "ok" THEN pc' = After[t] /\ file' = Without(Used(t))
         ELSE pc' = "aborted" /\ file' = Without(Spoilt(t))
  BY DEF Judge, counts
<1>2. file' \in [Artifacts -> Contents]
  BY <1>1 DEF TypeOK, Without, Contents
<1>3. pc' \in {"aborted", "ditto", "vfdecrypt", "dmg2img", "present"}
  BY <1>1 DEF After, Tools
<1>4. TypeOK'
  BY <1>1, <1>2, <1>3 DEF TypeOK, Tools, Works, Exits
<1>5. ChainInv'
  <2> SUFFICES ASSUME silent = {}, rc = "ok" PROVE ChainInv'
    BY <1>1, <1>3 DEF ChainInv, TypeOK, Works
  <2>1. file[Output[t]] = "full"
    BY <1>1 DEF ChainInv
  <2>2. Output[t] \in Artifacts /\ Output[t] \notin Used(t)
    BY DEF Output, Used, Tools, Artifacts
  <2>3. file'[Output[t]] = "full"
    BY <1>1, <2>1, <2>2 DEF Without
  <2> QED
    BY <1>1, <2>3 DEF ChainInv, After, Output, Tools, Works
<1>6. PartitionInv' /\ CustomisesItsOwn'
  BY <1>1, <1>3 DEF PartitionInv, CustomisesItsOwn, Works, Tools
<1> QED
  BY <1>4, <1>5, <1>6

\* The space, and the commands after the tools, each of which leaves the files alone.
LEMMA WorkKeeps ==
  ASSUME IInv, \/ Space \/ Present \/ Remount \/ Attach \/ MountImage \/ Customise
               \/ Flash \/ FlashEnds
  PROVE  IInv'
<1> USE DEF IInv, Goes, Steady, Fault, counts
<1>1. UNCHANGED <<rc, file, free, runs, silent>>
  BY DEF Space, Present, Remount, Attach, MountImage, Customise, Flash, FlashEnds
<1>2. failures' \in 0..MaxFailures
  BY SoftAssumption DEF TypeOK, Space, Present, Remount, Attach, Attached, MountImage, Customise, Flash, FlashEnds
<1>3. rc = "none" /\ pc \notin Tools
  BY DEF TypeOK, Space, Present, Remount, Attach, Attached, MountImage, Customise, Flash, FlashEnds, Tools
<1>4. CASE Space
  BY <1>1, <1>2, <1>3, <1>4 DEF Space, TypeOK, ChainInv, PartitionInv, CustomisesItsOwn, Works, Tools, Exits
<1>5. CASE Present
  BY <1>1, <1>2, <1>3, <1>5 DEF Present, TypeOK, ChainInv, PartitionInv, CustomisesItsOwn, Works, Tools, Exits
<1>6. CASE Remount
  BY <1>1, <1>2, <1>3, <1>6 DEF Remount, TypeOK, ChainInv, PartitionInv, CustomisesItsOwn, Works, Tools, Exits
<1>7. CASE Attach
  BY <1>1, <1>2, <1>3, <1>7 DEF Attach, Attached, TypeOK, ChainInv, PartitionInv, CustomisesItsOwn, Works, Tools, Exits
<1>8. CASE MountImage
  BY <1>1, <1>2, <1>3, <1>8 DEF MountImage, TypeOK, ChainInv, PartitionInv, CustomisesItsOwn, Works, Tools, Exits
<1>9. CASE Customise
  BY <1>1, <1>2, <1>3, <1>9, SoftAssumption DEF Customise, TypeOK, ChainInv, PartitionInv, CustomisesItsOwn, Works, Tools, Exits
<1>10. CASE Flash
  BY <1>1, <1>2, <1>3, <1>10 DEF Flash, TypeOK, ChainInv, PartitionInv, CustomisesItsOwn, Works, Tools, Exits
<1>11. CASE FlashEnds
  <2>1. pc = "flashing" /\ pc' \in {"upgraded", "dead"} /\ attached' = attached
    BY <1>11 DEF FlashEnds
  <2>2. file["dd"] \in {"partial", "full"}
    BY <2>1 DEF PartitionInv, TypeOK, Works, Contents, Artifacts
  <2>3. raw' \in {"partial", "full"} /\ (raw' = "full" <=> pc' = "upgraded")
    BY <1>11, <2>1, <2>2 DEF FlashEnds, PartitionInv
  <2> QED
    BY <1>1, <1>2, <1>3, <2>1, <2>3 DEF TypeOK, ChainInv, PartitionInv, CustomisesItsOwn, Works, Tools, Exits
<1> QED
  BY <1>4, <1>5, <1>6, <1>7, <1>8, <1>9, <1>10, <1>11

LEMMA CutKeeps == ASSUME IInv, PowerCut PROVE IInv'
<1> USE DEF IInv, PowerCut, Fault
<1>1. TypeOK'
  BY SoftAssumption DEF TypeOK, Tools
<1> QED
  BY <1>1 DEF TypeOK, ChainInv, PartitionInv, CustomisesItsOwn, Tools, Works

\* The inductive invariant: what the chain of tools hands on is whole unless one of
\* them failed silently, and the partition changes only at the end of the script.
THEOREM Preserved == IInv /\ [Next]_vars => IInv'
<1> SUFFICES ASSUME IInv, [Next]_vars PROVE IInv'
  OBVIOUS
<1>1. CASE Start
  BY <1>1, StartKeeps
<1>2. CASE Script
  BY <1>2, RunKeeps, JudgeKeeps, WorkKeeps DEF Script
<1>3. CASE PowerCut
  BY <1>3, CutKeeps
<1>4. CASE UNCHANGED vars
  BY <1>4 DEF vars, counts, IInv, TypeOK, ChainInv, PartitionInv, CustomisesItsOwn
<1> QED
  BY <1>1, <1>2, <1>3, <1>4 DEF Next, Ended

THEOREM Inductive == Spec => []IInv
BY Initially, Preserved, PTL DEF Spec

\* Type correctness.
THEOREM TypeCorrect == Spec => []TypeOK
<1>1. IInv => TypeOK
  BY DEF IInv
<1> QED
  BY <1>1, Inductive, PTL

\* However often the script is started, and whatever each start left behind: an image
\* that is not whole gets to the partition only after a tool failed and returned 0.
THEOREM WholeUnlessSilent == Spec => []FlashedIsWhole
<1>1. IInv => FlashedIsWhole
  BY DEF IInv, ChainInv, FlashedIsWhole, Works
<1> QED
  BY <1>1, Inductive, PTL

\* What is mounted and customised is always this run's image.
THEOREM OwnImage == Spec => []CustomisesItsOwn
<1>1. IInv => CustomisesItsOwn
  BY DEF IInv
<1> QED
  BY <1>1, Inductive, PTL

\* Only three steps touch the partition or decide over the device.
LEMMA OthersLeaveThePartition ==
  ASSUME IInv, [Next]_vars, ~Flash, ~FlashEnds, ~PowerCut
  PROVE  /\ (raw' = raw /\ pc' \notin {"upgraded", "dead"}) \/ UNCHANGED <<raw, pc>>
         /\ failures' = failures \/ failures' > failures
<1> USE DEF IInv, TypeOK, Steady, Goes, Fault, counts
<1>1. CASE Start
  BY <1>1 DEF Start
<1>2. CASE \E t \in Tools : Run(t)
  BY <1>2, SoftAssumption DEF Run, Tools
<1>3. CASE \E t \in Tools : Judge(t)
  <2>1. pc' \in {"ditto", "vfdecrypt", "dmg2img", "present", "aborted"}
    BY <1>3 DEF Judge, After, Tools
  <2> QED
    BY <1>3, <2>1 DEF Judge
<1>4. CASE Space \/ Present \/ Remount \/ Attach \/ MountImage \/ Customise
  BY <1>4, SoftAssumption DEF Space, Present, Remount, Attach, Attached, MountImage, Customise
<1>5. CASE UNCHANGED vars
  BY <1>5 DEF vars
<1> QED
  BY <1>1, <1>2, <1>3, <1>4, <1>5 DEF Next, Script, Ended

\* However often it is started and whatever fails, the script does what the upgrade
\* promises, step by step, under the mapping.
THEOREM PromiseKept == Spec => KeepsPromise
<1>1. Init => Promise!Init
  BY DEF Init, Promise!Init
<1>2. IInv /\ [Next]_vars => [Promise!Next]_Promise!vars
  <2> SUFFICES ASSUME IInv, [Next]_vars
               PROVE  [Promise!Next]_Promise!vars
    OBVIOUS
  <2> USE DEF IInv
  <2>1. CASE silent # {} \/ silent' # {}
    <3>1. raw' = "old" => raw = "old"
      <4>1. CASE Flash
        BY <4>1 DEF Flash
      <4>2. CASE FlashEnds
        BY <4>2 DEF FlashEnds, Goes, PartitionInv, TypeOK, Contents, Artifacts
      <4>3. CASE PowerCut
        BY <4>3 DEF PowerCut
      <4> QED
        BY <4>1, <4>2, <4>3, OthersLeaveThePartition
    <3> QED
      BY <2>1, <3>1 DEF Promise!Next, Promise!Anything
  <2>2. CASE silent = {} /\ silent' = {}
    <3>1. CASE Flash
      <4>1. raw' = "partial" /\ pc = "flash" /\ pc' = "flashing" /\ failures' = failures
        BY <3>1 DEF Flash, Goes
      <4> QED
        BY <2>2, <4>1 DEF Promise!Next, Promise!Write
    <3>2. CASE FlashEnds
      <4>1. pc = "flashing" /\ raw = "partial" /\ file["dd"] = "full"
        BY <2>2, <3>2 DEF FlashEnds, Goes, PartitionInv, ChainInv, Works
      <4>2. CASE pc' = "upgraded" /\ raw' = "full" /\ failures' = failures
        BY <2>2, <4>1, <4>2 DEF Promise!Next, Promise!Finish
      <4>3. CASE pc' = "dead" /\ raw' = raw /\ failures' = failures + 1
        <5>1. failures' > failures
          BY <4>3, SoftAssumption DEF TypeOK
        <5> QED
          BY <2>2, <4>1, <4>3, <5>1 DEF Promise!Next, Promise!Mishap
      <4> QED
        BY <3>2, <4>1, <4>2, <4>3 DEF FlashEnds, Goes, Fault
    <3>3. CASE PowerCut
      <4>1. failures' > failures /\ raw' = raw /\ raw \in {"old", "partial"}
        BY <3>3, SoftAssumption DEF PowerCut, Fault, TypeOK, PartitionInv
      <4>2. pc \notin {"upgraded", "dead"}
            /\ pc' = (IF raw = "partial" THEN "dead" ELSE "idle")
        BY <3>3 DEF PowerCut
      <4> QED
        BY <2>2, <4>1, <4>2 DEF Promise!Next, Promise!Mishap
    <3>4. CASE ~Flash /\ ~FlashEnds /\ ~PowerCut
      <4>1. raw' = raw
        BY <3>4, OthersLeaveThePartition
      <4>2. pc \notin {"upgraded", "dead"} \/ UNCHANGED pc
        BY <3>4 DEF Next, Script, Start, Space, Run, Judge, Present, Remount, Attach,
                    Attached, MountImage, Customise, Goes, Ended, vars, Tools, Exits
      <4>3. pc' \notin {"upgraded", "dead"} \/ UNCHANGED pc
        BY <3>4, OthersLeaveThePartition
      <4>4. failures' = failures \/ failures' > failures
        BY <3>4, OthersLeaveThePartition
      <4>5. CASE failures' = failures
        BY <2>2, <4>1, <4>2, <4>3, <4>5 DEF Promise!vars
      <4>6. CASE failures' > failures
        BY <2>2, <4>1, <4>2, <4>3, <4>6 DEF Promise!Next, Promise!Mishap
      <4> QED
        BY <4>4, <4>5, <4>6
    <3> QED
      BY <3>1, <3>2, <3>3, <3>4
  <2> QED
    BY <2>1, <2>2
<1> QED
  BY <1>1, <1>2, Inductive, PTL DEF Spec, KeepsPromise, Promise!Safe
-----------------------------------------------------------------------------
(***************************************************************************)
(* The space.  Each command of the chain has removed what the command      *)
(* after next would not read, so at most two of the files are there.       *)
(***************************************************************************)
Held(p) == CASE p \in {"space", "aborted"} -> {}
             [] p = "wget"                 -> {"zip"}
             [] p = "ditto"                -> {"zip", "dmg"}
             [] p = "vfdecrypt"            -> {"dmg", "decr"}
             [] p = "dmg2img"              -> {"decr", "dd"}
             [] p \in Works                -> {"dd"}
             [] OTHER                      -> Artifacts

SpaceInv ==
  /\ {a \in Artifacts : file[a] # "absent"} \subseteq Held(pc)
  /\ pc \in Tools \cup Works => free > MinMB

LEMMA SpaceStep == ASSUME IInv, SpaceInv, [Next]_vars PROVE SpaceInv'
<1> USE DEF SpaceInv, Held, Artifacts, Tools, Works
<1>0. file \in [Artifacts -> Contents]
  BY DEF IInv, TypeOK
<1>1. CASE Start
  BY <1>1 DEF Start
<1>2. ASSUME NEW t \in Tools, Run(t) PROVE SpaceInv'
  <2>1. pc = t /\ pc' = pc /\ free' = free
    BY <1>2 DEF Run
  <2>2. PICK c : file' = [file EXCEPT ![Output[t]] = c]
    BY <1>2 DEF Run
  <2>3. Output[t] \in Held(t)
    BY DEF Output
  <2> QED
    BY <1>0, <2>1, <2>2, <2>3
<1>3. ASSUME NEW t \in Tools, Judge(t) PROVE SpaceInv'
  <2>1. pc = t /\ free' = free /\ file' = Without(IF rc = "ok" THEN Used(t) ELSE Spoilt(t))
        /\ pc' = IF rc = "ok" THEN After[t] ELSE "aborted"
    BY <1>3 DEF Judge
  <2>2. CASE rc = "ok"
    BY <1>0, <2>1, <2>2 DEF Without, Used, After
  <2>3. CASE rc # "ok"
    BY <1>0, <2>1, <2>3 DEF Without, Spoilt
  <2> QED
    BY <2>2, <2>3
<1>4. CASE Space
  BY <1>4, SoftAssumption DEF Space, IInv, TypeOK, MinMB
<1>5. CASE Present \/ Remount \/ Attach \/ MountImage \/ Customise \/ Flash \/ FlashEnds
  <2>1. file' = file /\ free' = free
    BY <1>5 DEF Present, Remount, Attach, MountImage, Customise, Flash, FlashEnds, Steady
  <2>2. pc \in Works /\ pc' \in Works \cup {"missing", "noRemount", "noAttach", "noMount", "upgraded", "dead"}
    BY <1>5 DEF Present, Remount, Attach, Attached, MountImage, Customise, Flash, FlashEnds, Goes
  <2> QED
    BY <2>1, <2>2
<1>6. CASE PowerCut
  BY <1>6 DEF PowerCut
<1>7. CASE UNCHANGED vars
  BY <1>7 DEF vars
<1> QED
  BY <1>1, <1>2, <1>3, <1>4, <1>5, <1>6, <1>7 DEF Next, Script, Ended

\* The 425 MB asked for hold what is there at every command, and a run that a failing
\* tool ended holds nothing, however many runs went before it and however they ended.
THEOREM SpaceIsEnough == Spec => []SpaceSuffices
<1>1. Init => SpaceInv
  BY DEF Init, SpaceInv, Held, Artifacts, Tools, Works
<1>2. IInv /\ SpaceInv => SpaceSuffices
  <2> SUFFICES ASSUME IInv, SpaceInv PROVE SpaceSuffices
    OBVIOUS
  <2> USE DEF SpaceInv, Held, Artifacts, Tools, Works
  <2>1. free \in Nat
    BY SoftAssumption DEF IInv, TypeOK
  <2>2. /\ Taken("zip") \in {0, 166} /\ Taken("dmg") \in {0, 165}
        /\ Taken("decr") \in {0, 126} /\ Taken("dd") \in {0, 280}
    BY DEF Taken, Size
  <2>3. ASSUME NEW a \in Artifacts, a \notin Held(pc) PROVE Taken(a) = 0
    BY <2>3 DEF Taken
  <2>4. ASSUME pc \in Tools \cup Works PROVE Usage <= 406
    BY <2>2, <2>3, <2>4 DEF Usage
  <2>5. ASSUME pc = "aborted" PROVE Usage = 0
    BY <2>3, <2>5 DEF Usage
  <2>6. Usage \in Nat
    BY <2>2 DEF Usage
  <2> QED
    BY <2>1, <2>4, <2>5, <2>6 DEF SpaceSuffices, MinMB
<1>3. QED
  BY <1>1, <1>2, SpaceStep, Inductive, PTL DEF Spec
=============================================================================
