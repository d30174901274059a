---------------------------- MODULE ImageBuildProofs ----------------------------
(***************************************************************************)
(* What the run of ImageBuild checks for one failure, two restarts and two *)
(* kills, for any number of each: an argument about where in the list of   *)
(* commands what has become true.  In the second part, about the one of    *)
(* these commands that is a program of its own, globscript.sh.  In the     *)
(* third, about migrate.sh and the lines of jb113.sh that do the same.     *)
(***************************************************************************)
EXTENDS ImageBuild, DeviceScripts, SequenceTheorems, TLAPS

\* The commands of the list.
Commands ==
  {Cmd("remount", "ro", ""), Cmd("copyRoot", "", ""), Cmd("remount", "rw", ""),
   Cmd("attach", "vn1", "disk0s1.dd"), Cmd("mount", "vn1", "/mnt2"),
   Cmd("attach", "vn0", "112.dd"), Cmd("fsck", "vn0", ""), Cmd("mount", "vn0", "/mnt"),
   Cmd("nuke", "/mnt", ""), Cmd("ditto", "/mnt2", "/mnt"), Cmd("jailbreak", "/mnt", ""),
   Cmd("umount", "/mnt", ""), Cmd("detach", "vn0", ""), Cmd("bless", "/mnt", ""),
   Cmd("umount", "/mnt2", ""), Cmd("detach", "vn1", "")}

\* The types, with the list's length and the image's fields written out.
Types ==
  /\ pc \in 0..23
  /\ root \in {"rw", "ro"}
  /\ vn \in [Vns -> {"none", "112.dd", "disk0s1.dd"}]
  /\ mounted \in [Points -> Vns \cup {"none"}]
  /\ image \in Image
  /\ polluted \in BOOLEAN /\ failed \in BOOLEAN
  /\ failures \in 0..MaxFailures /\ reboots \in 0..MaxReboots /\ kills \in 0..MaxKills

\* What is attached and mounted where, whatever has failed or been cut off.
KernelInv ==
  /\ vn["vn0"] \in {"none", "112.dd"} /\ vn["vn1"] \in {"none", "disk0s1.dd"}
  /\ mounted["/mnt"] \in {"none", "vn0"} /\ mounted["/mnt2"] \in {"none", "vn1"}
  /\ mounted["/mnt"] = "vn0" => vn["vn0"] = "112.dd"
  /\ mounted["/mnt2"] = "vn1" => vn["vn1"] = "disk0s1.dd"
  /\ failures = 0 => ~failed

\* The devices before the command at pc, if no command of this launch has failed.
DevicesInv ==
  pc >= 1 /\ ~failed =>
    /\ pc >= 4 => root = "rw"
    /\ pc \in 5..22 => vn["vn1"] = "disk0s1.dd"
    /\ pc \in 6..21 => mounted["/mnt2"] = "vn1"
    /\ pc >= 22 => mounted["/mnt2"] = "none"
    /\ pc = 23 => vn["vn1"] = "none"
    /\ pc \in 7..14 \/ pc \in 16..20 => vn["vn0"] = "112.dd"
    /\ pc = 15 \/ pc >= 21 => vn["vn0"] = "none"
    /\ pc \in 9..12 \/ pc \in 17..18 => mounted["/mnt"] = "vn0"
    /\ pc \in 13..16 \/ pc >= 19 => mounted["/mnt"] = "none"

\* What 112.dd holds after ditto, and after the customising.
Filled     == [Nothing EXCEPT !["sys"] = "all"]
Jailbroken == [Nothing EXCEPT !["sys"] = "all", !["jb"] = "all"]

\* And the image.
ImageInv ==
  pc >= 1 /\ ~failed =>
    /\ pc >= 3 => image.size = "right"
    /\ pc = 8 => image.clean \/ mounted["/mnt"] = "vn0"
    /\ pc \in 13..16 \/ pc >= 19 => image.clean
    /\ pc = 10 => image.has = Nothing
    /\ pc = 11 => image.has = Filled
    /\ pc >= 12 => image.has = Jailbroken
    /\ pc >= 18 => image.blessed

IInv == Types /\ KernelInv /\ DevicesInv /\ ImageInv /\ RootUntouched

-----------------------------------------------------------------------------
\* The list, command by command.
LEMMA TheScript ==
  /\ Len(Script) = 22
  /\ Script[1]  = Cmd("remount", "ro", "")     /\ Script[2]  = Cmd("copyRoot", "", "")
  /\ Script[3]  = Cmd("remount", "rw", "")     /\ Script[4]  = Cmd("attach", "vn1", "disk0s1.dd")
  /\ Script[5]  = Cmd("mount", "vn1", "/mnt2") /\ Script[6]  = Cmd("attach", "vn0", "112.dd")
  /\ Script[7]  = Cmd("fsck", "vn0", "")       /\ Script[8]  = Cmd("mount", "vn0", "/mnt")
  /\ Script[9]  = Cmd("nuke", "/mnt", "")      /\ Script[10] = Cmd("ditto", "/mnt2", "/mnt")
  /\ Script[11] = Cmd("jailbreak", "/mnt", "") /\ Script[12] = Cmd("umount", "/mnt", "")
  /\ Script[13] = Cmd("fsck", "vn0", "")       /\ Script[14] = Cmd("detach", "vn0", "")
  /\ Script[15] = Cmd("attach", "vn0", "112.dd") /\ Script[16] = Cmd("mount", "vn0", "/mnt")
  /\ Script[17] = Cmd("bless", "/mnt", "")     /\ Script[18] = Cmd("umount", "/mnt", "")
  /\ Script[19] = Cmd("fsck", "vn0", "")       /\ Script[20] = Cmd("detach", "vn0", "")
  /\ Script[21] = Cmd("umount", "/mnt2", "")   /\ Script[22] = Cmd("detach", "vn1", "")
<1>1. OpenDisks \in Seq(Commands) /\ Len(OpenDisks) = 8
  BY DEF OpenDisks, Commands
<1>2. Fill \in Seq(Commands) /\ Len(Fill) = 3
  BY DEF Fill, Commands
<1>3. CloseImage \in Seq(Commands) /\ Len(CloseImage) = 3
  BY DEF CloseImage, Commands
<1>4. BlessImage \in Seq(Commands) /\ Len(BlessImage) = 3
  BY DEF BlessImage, Commands
<1>5. CloseBase \in Seq(Commands) /\ Len(CloseBase) = 2
  BY DEF CloseBase, Commands
<1> HIDE DEF Commands
<1>6. LET n2 == Len(OpenDisks) + Len(Fill)
          n3 == n2 + Len(CloseImage)
          n4 == n3 + Len(BlessImage)
          n5 == n4 + Len(CloseImage)
      IN /\ Len(Script) = n5 + Len(CloseBase)
         /\ \A k \in 1..Len(OpenDisks)  : Script[k] = OpenDisks[k]
         /\ \A k \in 1..Len(Fill)       : Script[Len(OpenDisks) + k] = Fill[k]
         /\ \A k \in 1..Len(CloseImage) : Script[n2 + k] = CloseImage[k]
         /\ \A k \in 1..Len(BlessImage) : Script[n3 + k] = BlessImage[k]
         /\ \A k \in 1..Len(CloseImage) : Script[n4 + k] = CloseImage[k]
         /\ \A k \in 1..Len(CloseBase)  : Script[n5 + k] = CloseBase[k]
  <2>1. /\ OpenDisks \in Seq(Commands) /\ Fill \in Seq(Commands) /\ CloseImage \in Seq(Commands)
        /\ BlessImage \in Seq(Commands) /\ CloseBase \in Seq(Commands)
    BY <1>1, <1>2, <1>3, <1>4, <1>5
  <2> QED
    BY <2>1 DEF Script
<1>7. /\ Len(Script) = 22
      /\ \A k \in 1..8 : Script[k] = OpenDisks[k]
      /\ \A k \in 1..3 : /\ Script[8 + k] = Fill[k] /\ Script[11 + k] = CloseImage[k]
                         /\ Script[14 + k] = BlessImage[k] /\ Script[17 + k] = CloseImage[k]
      /\ \A k \in 1..2 : Script[20 + k] = CloseBase[k]
  <2> DEFINE a == 8
             b == 3
             c == 2
  <2>1. /\ Len(OpenDisks) = a /\ Len(Fill) = b /\ Len(CloseImage) = b /\ Len(BlessImage) = b
        /\ Len(CloseBase) = c
    BY <1>1, <1>2, <1>3, <1>4, <1>5
  <2> HIDE DEF a, b, c
  <2>2. /\ Len(Script) = a + b + b + b + b + c
        /\ \A k \in 1..a : Script[k] = OpenDisks[k]
        /\ \A k \in 1..b : Script[a + k] = Fill[k]
        /\ \A k \in 1..b : Script[a + b + k] = CloseImage[k]
        /\ \A k \in 1..b : Script[a + b + b + k] = BlessImage[k]
        /\ \A k \in 1..b : Script[a + b + b + b + k] = CloseImage[k]
        /\ \A k \in 1..c : Script[a + b + b + b + b + k] = CloseBase[k]
    BY <1>6, <2>1
  <2> QED
    BY <2>2 DEF a, b, c
<1>8. /\ Script[1] = OpenDisks[1] /\ Script[2] = OpenDisks[2] /\ Script[3] = OpenDisks[3]
      /\ Script[4] = OpenDisks[4] /\ Script[5] = OpenDisks[5] /\ Script[6] = OpenDisks[6]
      /\ Script[7] = OpenDisks[7] /\ Script[8] = OpenDisks[8]
      /\ Script[9] = Fill[1] /\ Script[10] = Fill[2] /\ Script[11] = Fill[3]
      /\ Script[12] = CloseImage[1] /\ Script[13] = CloseImage[2] /\ Script[14] = CloseImage[3]
      /\ Script[15] = BlessImage[1] /\ Script[16] = BlessImage[2] /\ Script[17] = BlessImage[3]
      /\ Script[18] = CloseImage[1] /\ Script[19] = CloseImage[2] /\ Script[20] = CloseImage[3]
      /\ Script[21] = CloseBase[1] /\ Script[22] = CloseBase[2]
  BY <1>7
<1> QED
  BY <1>7, <1>8 DEF OpenDisks, Fill, CloseImage, BlessImage, CloseBase

\* The list has no other places.
LEMMA Domain == DOMAIN Script = 1..22
<1>1. /\ OpenDisks \in Seq(Commands) /\ Fill \in Seq(Commands) /\ CloseImage \in Seq(Commands)
      /\ BlessImage \in Seq(Commands) /\ CloseBase \in Seq(Commands)
  BY DEF OpenDisks, Fill, CloseImage, BlessImage, CloseBase, Commands
<1>2. Script \in Seq(Commands)
  BY <1>1 DEF Script
<1>3. DOMAIN Script = 1..Len(Script)
  BY <1>2
<1> QED
  BY <1>3, TheScript

\* Where each command stands in the list, and with what.
LEMMA Places ==
  /\ Script[1].cmd = "remount" /\ Script[1].a = "ro"
  /\ Script[2].cmd = "copyRoot"
  /\ Script[3].cmd = "remount" /\ Script[3].a = "rw"
  /\ Script[4].cmd = "attach" /\ Script[4].a = "vn1" /\ Script[4].b = "disk0s1.dd"
  /\ Script[5].cmd = "mount" /\ Script[5].a = "vn1" /\ Script[5].b = "/mnt2"
  /\ Script[6].cmd = "attach" /\ Script[6].a = "vn0" /\ Script[6].b = "112.dd"
  /\ Script[7].cmd = "fsck" /\ Script[7].a = "vn0"
  /\ Script[8].cmd = "mount" /\ Script[8].a = "vn0" /\ Script[8].b = "/mnt"
  /\ Script[9].cmd = "nuke" /\ Script[9].a = "/mnt"
  /\ Script[10].cmd = "ditto" /\ Script[10].a = "/mnt2" /\ Script[10].b = "/mnt"
  /\ Script[11].cmd = "jailbreak" /\ Script[11].a = "/mnt"
  /\ Script[12].cmd = "umount" /\ Script[12].a = "/mnt"
  /\ Script[13].cmd = "fsck" /\ Script[13].a = "vn0"
  /\ Script[14].cmd = "detach" /\ Script[14].a = "vn0"
  /\ Script[15].cmd = "attach" /\ Script[15].a = "vn0" /\ Script[15].b = "112.dd"
  /\ Script[16].cmd = "mount" /\ Script[16].a = "vn0" /\ Script[16].b = "/mnt"
  /\ Script[17].cmd = "bless" /\ Script[17].a = "/mnt"
  /\ Script[18].cmd = "umount" /\ Script[18].a = "/mnt"
  /\ Script[19].cmd = "fsck" /\ Script[19].a = "vn0"
  /\ Script[20].cmd = "detach" /\ Script[20].a = "vn0"
  /\ Script[21].cmd = "umount" /\ Script[21].a = "/mnt2"
  /\ Script[22].cmd = "detach" /\ Script[22].a = "vn1"
<1>1. ASSUME NEW k, NEW c, NEW a, NEW b, Script[k] = Cmd(c, a, b)
      PROVE  Script[k].cmd = c /\ Script[k].a = a /\ Script[k].b = b
  <2> PICK x : x = Script[k]
    OBVIOUS
  <2>1. x = Cmd(c, a, b)
    BY <1>1
  <2>2. x.cmd = c /\ x.a = a /\ x.b = b
    BY <2>1 DEF Cmd
  <2> QED
    BY <2>2
<1>2. \A k, c, a, b : Script[k] = Cmd(c, a, b) => Script[k].cmd = c
  BY <1>1
<1>3. \A k, c, a, b : Script[k] = Cmd(c, a, b) => Script[k].a = a
  BY <1>1
<1>4. \A k, c, a, b : Script[k] = Cmd(c, a, b) => Script[k].b = b
  BY <1>1
<1>s1. Script[1] = Cmd("remount", "ro", "")
  BY TheScript
<1>s2. Script[2] = Cmd("copyRoot", "", "")
  BY TheScript
<1>s3. Script[3] = Cmd("remount", "rw", "")
  BY TheScript
<1>s4. Script[4] = Cmd("attach", "vn1", "disk0s1.dd")
  BY TheScript
<1>s5. Script[5] = Cmd("mount", "vn1", "/mnt2")
  BY TheScript
<1>s6. Script[6] = Cmd("attach", "vn0", "112.dd")
  BY TheScript
<1>s7. Script[7] = Cmd("fsck", "vn0", "")
  BY TheScript
<1>s8. Script[8] = Cmd("mount", "vn0", "/mnt")
  BY TheScript
<1>s9. Script[9] = Cmd("nuke", "/mnt", "")
  BY TheScript
<1>s10. Script[10] = Cmd("ditto", "/mnt2", "/mnt")
  BY TheScript
<1>s11. Script[11] = Cmd("jailbreak", "/mnt", "")
  BY TheScript
<1>s12. Script[12] = Cmd("umount", "/mnt", "")
  BY TheScript
<1>s13. Script[13] = Cmd("fsck", "vn0", "")
  BY TheScript
<1>s14. Script[14] = Cmd("detach", "vn0", "")
  BY TheScript
<1>s15. Script[15] = Cmd("attach", "vn0", "112.dd")
  BY TheScript
<1>s16. Script[16] = Cmd("mount", "vn0", "/mnt")
  BY TheScript
<1>s17. Script[17] = Cmd("bless", "/mnt", "")
  BY TheScript
<1>s18. Script[18] = Cmd("umount", "/mnt", "")
  BY TheScript
<1>s19. Script[19] = Cmd("fsck", "vn0", "")
  BY TheScript
<1>s20. Script[20] = Cmd("detach", "vn0", "")
  BY TheScript
<1>s21. Script[21] = Cmd("umount", "/mnt2", "")
  BY TheScript
<1>s22. Script[22] = Cmd("detach", "vn1", "")
  BY TheScript
<1>5. Script[1].cmd = "remount"
  BY <1>2, <1>s1, Zenon
<1>6. Script[1].a = "ro"
  BY <1>3, <1>s1, Zenon
<1>7. Script[2].cmd = "copyRoot"
  BY <1>2, <1>s2, Zenon
<1>8. Script[3].cmd = "remount"
  BY <1>2, <1>s3, Zenon
<1>9. Script[3].a = "rw"
  BY <1>3, <1>s3, Zenon
<1>10. Script[4].cmd = "attach"
  BY <1>2, <1>s4, Zenon
<1>11. Script[4].a = "vn1"
  BY <1>3, <1>s4, Zenon
<1>12. Script[4].b = "disk0s1.dd"
  BY <1>4, <1>s4, Zenon
<1>13. Script[5].cmd = "mount"
  BY <1>2, <1>s5, Zenon
<1>14. Script[5].a = "vn1"
  BY <1>3, <1>s5, Zenon
<1>15. Script[5].b = "/mnt2"
  BY <1>4, <1>s5, Zenon
<1>16. Script[6].cmd = "attach"
  BY <1>2, <1>s6, Zenon
<1>17. Script[6].a = "vn0"
  BY <1>3, <1>s6, Zenon
<1>18. Script[6].b = "112.dd"
  BY <1>4, <1>s6, Zenon
<1>19. Script[7].cmd = "fsck"
  BY <1>2, <1>s7, Zenon
<1>20. Script[7].a = "vn0"
  BY <1>3, <1>s7, Zenon
<1>21. Script[8].cmd = "mount"
  BY <1>2, <1>s8, Zenon
<1>22. Script[8].a = "vn0"
  BY <1>3, <1>s8, Zenon
<1>23. Script[8].b = "/mnt"
  BY <1>4, <1>s8, Zenon
<1>24. Script[9].cmd = "nuke"
  BY <1>2, <1>s9, Zenon
<1>25. Script[9].a = "/mnt"
  BY <1>3, <1>s9, Zenon
<1>26. Script[10].cmd = "ditto"
  BY <1>2, <1>s10, Zenon
<1>27. Script[10].a = "/mnt2"
  BY <1>3, <1>s10, Zenon
<1>28. Script[10].b = "/mnt"
  BY <1>4, <1>s10, Zenon
<1>29. Script[11].cmd = "jailbreak"
  BY <1>2, <1>s11, Zenon
<1>30. Script[11].a = "/mnt"
  BY <1>3, <1>s11, Zenon
<1>31. Script[12].cmd = "umount"
  BY <1>2, <1>s12, Zenon
<1>32. Script[12].a = "/mnt"
  BY <1>3, <1>s12, Zenon
<1>33. Script[13].cmd = "fsck"
  BY <1>2, <1>s13, Zenon
<1>34. Script[13].a = "vn0"
  BY <1>3, <1>s13, Zenon
<1>35. Script[14].cmd = "detach"
  BY <1>2, <1>s14, Zenon
<1>36. Script[14].a = "vn0"
  BY <1>3, <1>s14, Zenon
<1>37. Script[15].cmd = "attach"
  BY <1>2, <1>s15, Zenon
<1>38. Script[15].a = "vn0"
  BY <1>3, <1>s15, Zenon
<1>39. Script[15].b = "112.dd"
  BY <1>4, <1>s15, Zenon
<1>40. Script[16].cmd = "mount"
  BY <1>2, <1>s16, Zenon
<1>41. Script[16].a = "vn0"
  BY <1>3, <1>s16, Zenon
<1>42. Script[16].b = "/mnt"
  BY <1>4, <1>s16, Zenon
<1>43. Script[17].cmd = "bless"
  BY <1>2, <1>s17, Zenon
<1>44. Script[17].a = "/mnt"
  BY <1>3, <1>s17, Zenon
<1>45. Script[18].cmd = "umount"
  BY <1>2, <1>s18, Zenon
<1>46. Script[18].a = "/mnt"
  BY <1>3, <1>s18, Zenon
<1>47. Script[19].cmd = "fsck"
  BY <1>2, <1>s19, Zenon
<1>48. Script[19].a = "vn0"
  BY <1>3, <1>s19, Zenon
<1>49. Script[20].cmd = "detach"
  BY <1>2, <1>s20, Zenon
<1>50. Script[20].a = "vn0"
  BY <1>3, <1>s20, Zenon
<1>51. Script[21].cmd = "umount"
  BY <1>2, <1>s21, Zenon
<1>52. Script[21].a = "/mnt2"
  BY <1>3, <1>s21, Zenon
<1>53. Script[22].cmd = "detach"
  BY <1>2, <1>s22, Zenon
<1>54. Script[22].a = "vn1"
  BY <1>3, <1>s22, Zenon
<1> QED
  BY <1>5, <1>6, <1>7, <1>8, <1>9, <1>10, <1>11, <1>12, <1>13, <1>14, <1>15, <1>16, <1>17,
    <1>18, <1>19, <1>20, <1>21, <1>22, <1>23, <1>24, <1>25, <1>26, <1>27, <1>28, <1>29,
    <1>30, <1>31, <1>32, <1>33, <1>34, <1>35, <1>36, <1>37, <1>38, <1>39, <1>40, <1>41,
    <1>42, <1>43, <1>44, <1>45, <1>46, <1>47, <1>48, <1>49, <1>50, <1>51, <1>52, <1>53,
    <1>54

\* So that the command's name says where in the list it stands.
LEMMA Where ==
  ASSUME NEW k \in DOMAIN Script
  PROVE  /\ k \in 1..22
         /\ Script[k].cmd = "remount" =>
              \/ (k = 1 /\ Script[k].a = "ro")
              \/ (k = 3 /\ Script[k].a = "rw")
         /\ Script[k].cmd = "copyRoot" => k = 2
         /\ Script[k].cmd = "attach" =>
              \/ (k = 4 /\ Script[k].a = "vn1" /\ Script[k].b = "disk0s1.dd")
              \/ (k \in {6, 15} /\ Script[k].a = "vn0" /\ Script[k].b = "112.dd")
         /\ Script[k].cmd = "mount" =>
              \/ (k = 5 /\ Script[k].a = "vn1" /\ Script[k].b = "/mnt2")
              \/ (k \in {8, 16} /\ Script[k].a = "vn0" /\ Script[k].b = "/mnt")
         /\ Script[k].cmd = "fsck" => k \in {7, 13, 19} /\ Script[k].a = "vn0"
         /\ Script[k].cmd = "nuke" => k = 9
         /\ Script[k].cmd = "ditto" => k = 10
         /\ Script[k].cmd = "jailbreak" => k = 11
         /\ Script[k].cmd = "bless" => k = 17
         /\ Script[k].cmd = "umount" =>
              \/ (k \in {12, 18} /\ Script[k].a = "/mnt")
              \/ (k = 21 /\ Script[k].a = "/mnt2")
         /\ Script[k].cmd = "detach" =>
              \/ (k \in {14, 20} /\ Script[k].a = "vn0")
              \/ (k = 22 /\ Script[k].a = "vn1")
<1>1. DOMAIN Script = 1..22
  BY Domain
<1>2. k \in 1..22
  BY <1>1
<1>3. \/ k = 1 \/ k = 2 \/ k = 3 \/ k = 4 \/ k = 5 \/ k = 6 \/ k = 7 \/ k = 8 \/ k = 9
      \/ k = 10 \/ k = 11 \/ k = 12 \/ k = 13 \/ k = 14 \/ k = 15 \/ k = 16 \/ k = 17
      \/ k = 18 \/ k = 19 \/ k = 20 \/ k = 21 \/ k = 22
  BY <1>2
<1> QED
  BY <1>2, <1>3, Places

-----------------------------------------------------------------------------
\* Done is pc = 23.
LEMMA Length == Len(Script) + 1 = 23
<1>1. Len(Script) = 22
  BY TheScript, Zenon
<1>2. \A n : n = 22 => n + 1 = 23
  OBVIOUS
<1> QED
  BY <1>1, <1>2, Zenon

\* The types as they are written above are those of the module.
LEMMA TypesSuffice == Types /\ KernelInv => TypeOK
<1> SUFFICES ASSUME Types, KernelInv PROVE TypeOK
  OBVIOUS
<1>1. \A p \in Points : mounted[p] # "none" => vn[mounted[p]] # "none"
  BY DEF Types, KernelInv, Points, Vns
<1> QED
  BY <1>1, Length DEF Types, TypeOK

\* What every command leaves alone.
LEMMA StepTaken ==
  ASSUME NEW c, Step(c)
  PROVE  /\ pc \in 1..22 /\ pc' = pc + 1
         /\ failed' = failed /\ failures' = failures /\ reboots' = reboots /\ kills' = kills
BY Domain DEF Step, counts

\* The commands, each where it stands.
LEMMA RemountKeeps ==
  ASSUME IInv, Remount
  PROVE  IInv'
<1>1. (pc = 1 /\ A = "ro") \/ (pc = 3 /\ A = "rw")
  BY Where DEF Remount, Step, A
<1>2. /\ pc' = pc + 1 /\ failed' = failed /\ failures' = failures /\ reboots' = reboots
      /\ kills' = kills
      /\ root' = A /\ vn' = vn /\ mounted' = mounted /\ image' = image /\ polluted' = polluted
  BY StepTaken DEF Remount
<1>3. Types /\ KernelInv /\ DevicesInv /\ ImageInv /\ RootUntouched
  BY DEF IInv
<1> QED
  <2>1. Types' /\ KernelInv' /\ RootUntouched'
    BY <1>1, <1>2, <1>3 DEF Types, KernelInv, RootUntouched
  <2>2. DevicesInv'
    BY <1>1, <1>2, <1>3 DEF DevicesInv
  <2>3. ImageInv'
    BY <1>1, <1>2, <1>3 DEF ImageInv
  <2> QED
    BY <2>1, <2>2, <2>3 DEF IInv

LEMMA AttachKeeps ==
  ASSUME IInv, Attach
  PROVE  IInv'
<1>1. \/ (pc = 4 /\ A = "vn1" /\ B = "disk0s1.dd")
      \/ (pc \in {6, 15} /\ A = "vn0" /\ B = "112.dd")
  BY Where DEF Attach, Step, A, B
<1>2. /\ pc' = pc + 1 /\ failed' = failed /\ failures' = failures /\ reboots' = reboots
      /\ kills' = kills
      /\ vn' = IF vn[A] = "none" /\ (B = "112.dd" => image.size # "absent")
               THEN [vn EXCEPT ![A] = B] ELSE vn
      /\ root' = root /\ mounted' = mounted /\ image' = image /\ polluted' = polluted
  BY StepTaken DEF Attach
<1>3. Types /\ KernelInv /\ DevicesInv /\ ImageInv /\ RootUntouched
  BY DEF IInv
<1> QED
  <2>1. Types' /\ KernelInv' /\ RootUntouched'
    BY <1>1, <1>2, <1>3 DEF Types, KernelInv, RootUntouched, Vns
  <2>2. DevicesInv'
    BY <1>1, <1>2, <1>3 DEF DevicesInv, ImageInv, Types, KernelInv, Vns
  <2>3. ImageInv'
    BY <1>1, <1>2, <1>3 DEF ImageInv
  <2> QED
    BY <2>1, <2>2, <2>3 DEF IInv

LEMMA CopyRootKeeps ==
  ASSUME IInv, CopyRoot
  PROVE  IInv'
<1>1. pc = 2
  BY Where DEF CopyRoot, Step
<1>2. /\ pc' = pc + 1 /\ failed' = failed /\ failures' = failures /\ reboots' = reboots
      /\ kills' = kills
      /\ image' = IF image.size = "right" THEN image ELSE Copied
      /\ root' = root /\ vn' = vn /\ mounted' = mounted /\ polluted' = polluted
  BY StepTaken DEF CopyRoot, devices
<1>3. Types /\ KernelInv /\ DevicesInv /\ ImageInv /\ RootUntouched
  BY DEF IInv
<1>4. Types' /\ KernelInv' /\ RootUntouched'
  BY <1>1, <1>2, <1>3
    DEF Types, KernelInv, RootUntouched, Copied, Image, Nothing, Layers, Amount
<1>5. DevicesInv'
  BY <1>1, <1>2, <1>3 DEF DevicesInv
<1>6. ImageInv'
  BY <1>1, <1>2, <1>3 DEF ImageInv, Copied
<1> QED
  BY <1>4, <1>5, <1>6 DEF IInv

LEMMA DetachKeeps ==
  ASSUME IInv, Detach
  PROVE  IInv'
<1>1. (pc \in {14, 20} /\ A = "vn0") \/ (pc = 22 /\ A = "vn1")
  BY Where DEF Detach, Step, A
<1>2. /\ pc' = pc + 1 /\ failed' = failed /\ failures' = failures /\ reboots' = reboots
      /\ kills' = kills
      /\ vn' = IF IsMounted(A) THEN vn ELSE [vn EXCEPT ![A] = "none"]
      /\ root' = root /\ mounted' = mounted /\ image' = image /\ polluted' = polluted
  BY StepTaken DEF Detach
<1>3. Types /\ KernelInv /\ DevicesInv /\ ImageInv /\ RootUntouched
  BY DEF IInv
<1>4. Types' /\ KernelInv' /\ RootUntouched'
  BY <1>1, <1>2, <1>3 DEF Types, KernelInv, RootUntouched, Vns, Points, IsMounted
<1>5. DevicesInv'
  BY <1>1, <1>2, <1>3 DEF DevicesInv, Types, KernelInv, Vns, Points, IsMounted
<1>6. ImageInv'
  BY <1>1, <1>2, <1>3 DEF ImageInv
<1> QED
  BY <1>4, <1>5, <1>6 DEF IInv

\* j is the image i but for the state of its file system.
SameButClean(i, j) ==
  j \in Image /\ j.size = i.size /\ j.has = i.has /\ j.blessed = i.blessed

LEMMA CleanOnly ==
  ASSUME NEW i \in Image, NEW b \in BOOLEAN, NEW j, j = [i EXCEPT !.clean = b]
  PROVE  SameButClean(i, j) /\ j.clean = b
BY DEF Image, SameButClean

LEMMA FsckKeeps ==
  ASSUME IInv, Fsck
  PROVE  IInv'
<1>1. pc \in {7, 13, 19} /\ A = "vn0"
  BY Where DEF Fsck, Step, A
<1>2. /\ pc' = pc + 1 /\ failed' = failed /\ failures' = failures /\ reboots' = reboots
      /\ kills' = kills
      /\ image' = [image EXCEPT !.clean = image.clean \/ (~IsMounted(A) /\ vn[A] = "112.dd"
                                                        /\ image.size = "right")]
      /\ root' = root /\ vn' = vn /\ mounted' = mounted /\ polluted' = polluted
  BY StepTaken DEF Fsck, devices
<1>3. Types /\ KernelInv /\ DevicesInv /\ ImageInv /\ RootUntouched
  BY DEF IInv
<1> DEFINE b == image.clean \/ (~IsMounted(A) /\ vn[A] = "112.dd" /\ image.size = "right")
<1>4. image \in Image /\ b \in BOOLEAN
  BY <1>3 DEF Types, Image
<1>5. image' = [image EXCEPT !.clean = b]
  BY <1>2
<1> HIDE DEF b
<1>6. SameButClean(image, image') /\ image'.clean = b
  BY <1>4, <1>5, CleanOnly
<1>7. /\ SameButClean(image, image')
      /\ image'.clean <=>
           image.clean \/ (~IsMounted(A) /\ vn[A] = "112.dd" /\ image.size = "right")
  BY <1>6 DEF b
<1>8. Types' /\ KernelInv' /\ RootUntouched'
  BY <1>1, <1>2, <1>3, <1>7 DEF Types, KernelInv, RootUntouched, SameButClean
<1>9. DevicesInv'
  BY <1>1, <1>2, <1>3, <1>7 DEF DevicesInv
<1>10. ImageInv'
  BY <1>1, <1>2, <1>3, <1>7
    DEF ImageInv, SameButClean, DevicesInv, KernelInv, IsMounted, Points
<1> QED
  BY <1>8, <1>9, <1>10 DEF IInv

LEMMA UmountKeeps ==
  ASSUME IInv, Umount
  PROVE  IInv'
<1>1. (pc \in {12, 18} /\ A = "/mnt") \/ (pc = 21 /\ A = "/mnt2")
  BY Where DEF Umount, Step, A
<1>2. /\ pc' = pc + 1 /\ failed' = failed /\ failures' = failures /\ reboots' = reboots
      /\ kills' = kills
      /\ mounted' = [mounted EXCEPT ![A] = "none"]
      /\ image' = [image EXCEPT !.clean = image.clean \/ (A = "/mnt" /\ mounted[A] # "none")]
      /\ root' = root /\ vn' = vn /\ polluted' = polluted
  BY StepTaken DEF Umount
<1>3. Types /\ KernelInv /\ DevicesInv /\ ImageInv /\ RootUntouched
  BY DEF IInv
<1> DEFINE b == image.clean \/ (A = "/mnt" /\ mounted[A] # "none")
<1>4. image \in Image /\ b \in BOOLEAN
  BY <1>3 DEF Types, Image
<1>5. image' = [image EXCEPT !.clean = b]
  BY <1>2
<1> HIDE DEF b
<1>6. SameButClean(image, image') /\ image'.clean = b
  BY <1>4, <1>5, CleanOnly
<1>7. /\ SameButClean(image, image')
      /\ image'.clean <=> image.clean \/ (A = "/mnt" /\ mounted[A] # "none")
  BY <1>6 DEF b
<1>8. Types' /\ KernelInv' /\ RootUntouched'
  BY <1>1, <1>2, <1>3, <1>7 DEF Types, KernelInv, RootUntouched, Points, SameButClean
<1>9. DevicesInv'
  BY <1>1, <1>2, <1>3, <1>7 DEF DevicesInv, Types, KernelInv, Points
<1>10. ImageInv'
  BY <1>1, <1>2, <1>3, <1>7 DEF ImageInv, DevicesInv, Types, KernelInv, SameButClean, Points
<1> QED
  BY <1>8, <1>9, <1>10 DEF IInv

\* What mount accepts.
LEMMA MountableDisks ==
  ASSUME Types, KernelInv
  PROVE  /\ Mountable("vn1") <=> vn["vn1"] = "disk0s1.dd"
         /\ Mountable("vn0") <=> vn["vn0"] = "112.dd" /\ image.size = "right" /\ image.clean
<1>1. image.clean \in BOOLEAN
  BY DEF Types, Image
<1>2. vn["vn0"] = "none" \/ vn["vn0"] = "112.dd"
  BY DEF KernelInv
<1>3. vn["vn1"] = "none" \/ vn["vn1"] = "disk0s1.dd"
  BY DEF KernelInv
<1>4. Mountable("vn1") <=> vn["vn1"] = "disk0s1.dd"
  BY <1>3 DEF Mountable
<1>5. CASE vn["vn0"] = "none"
  BY <1>4, <1>5 DEF Mountable
<1>6. CASE vn["vn0"] = "112.dd"
  <2>1. Mountable("vn0") = (image.size = "right" /\ image.clean)
    BY <1>6 DEF Mountable
  <2> QED
    BY <2>1, <1>1, <1>4, <1>6
<1> QED
  BY <1>2, <1>5, <1>6

LEMMA MountKeeps ==
  ASSUME IInv, Mount
  PROVE  IInv'
<1>1. \/ (pc = 5 /\ A = "vn1" /\ B = "/mnt2")
      \/ (pc \in {8, 16} /\ A = "vn0" /\ B = "/mnt")
  BY Where DEF Mount, Step, A, B
<1>2. /\ pc' = pc + 1 /\ failed' = failed /\ failures' = failures /\ reboots' = reboots
      /\ kills' = kills
      /\ root' = root /\ vn' = vn /\ polluted' = polluted
  BY StepTaken DEF Mount
<1>3. Types /\ KernelInv /\ DevicesInv /\ ImageInv /\ RootUntouched
  BY DEF IInv
<1> DEFINE mounts == Mountable(A) /\ ~IsMounted(A) /\ mounted[B] = "none"
<1>4. ASSUME mounts
      PROVE  /\ mounted' = [mounted EXCEPT ![B] = A]
             /\ SameButClean(image, image') /\ (image'.clean <=> image.clean /\ vn[A] # "112.dd")
  <2> DEFINE b == image.clean /\ vn[A] # "112.dd"
  <2>1. image \in Image /\ b \in BOOLEAN
    BY <1>3 DEF Types, Image
  <2>2. mounted' = [mounted EXCEPT ![B] = A] /\ image' = [image EXCEPT !.clean = b]
    BY <1>4 DEF Mount
  <2> HIDE DEF b
  <2>3. SameButClean(image, image') /\ image'.clean = b
    BY <2>1, <2>2, CleanOnly
  <2> QED
    BY <2>2, <2>3 DEF b
<1>5. ASSUME ~mounts
      PROVE  mounted' = mounted /\ image' = image
  BY <1>5 DEF Mount
<1>6. mounts => vn[A] = IF A = "vn1" THEN "disk0s1.dd" ELSE "112.dd"
  BY <1>1, <1>3, MountableDisks
<1>7. IsMounted(A) => mounted[B] = A
  BY <1>1, <1>3 DEF KernelInv, IsMounted, Points
<1>8. ~mounts /\ ~failed => mounted[B] = A
  <2>1. CASE pc = 5
    BY <1>1, <1>3, <1>7, <2>1, MountableDisks DEF DevicesInv, KernelInv
  <2>2. CASE pc \in {8, 16}
    BY <1>1, <1>3, <1>7, <2>2, MountableDisks DEF DevicesInv, ImageInv, KernelInv
  <2> QED
    BY <1>1, <2>1, <2>2
<1> HIDE DEF mounts
<1>9. CASE mounts
  <2>1. Types' /\ KernelInv' /\ RootUntouched'
    BY <1>1, <1>2, <1>3, <1>4, <1>6, <1>9 DEF Types, KernelInv, RootUntouched, Points, Vns,
      SameButClean
  <2>2. DevicesInv'
    BY <1>1, <1>2, <1>3, <1>4, <1>9 DEF Types, DevicesInv, Points
  <2>3. ImageInv'
    BY <1>1, <1>2, <1>3, <1>4, <1>9 DEF ImageInv, SameButClean
  <2> QED
    BY <2>1, <2>2, <2>3 DEF IInv
<1>10. CASE ~mounts
  <2>1. Types' /\ KernelInv' /\ RootUntouched'
    BY <1>1, <1>2, <1>3, <1>5, <1>10 DEF Types, KernelInv, RootUntouched
  <2>2. DevicesInv'
    BY <1>1, <1>2, <1>3, <1>5, <1>8, <1>10 DEF DevicesInv
  <2>3. ImageInv'
    BY <1>1, <1>2, <1>3, <1>5, <1>10 DEF ImageInv
  <2> QED
    BY <2>1, <2>2, <2>3 DEF IInv
<1> QED
  BY <1>9, <1>10

\* What a command that changes the files of the image leaves alone in 112.dd, and
\* what it has done if it did all of its work on what it was meant for.
LEMMA Outcomes ==
  ASSUME image \in Image, NEW how \in {"all", "some"}, Script[pc].cmd \in Writers
  PROVE  /\ Outcome(how) \in Image
         /\ Outcome(how).size = image.size /\ Outcome(how).clean = image.clean
         /\ Script[pc].cmd = "nuke" => Outcome("all").has = Nothing
         /\ Script[pc].cmd = "ditto" /\ mounted["/mnt2"] = "vn1" /\ image.has = Nothing
              => Outcome("all").has = Filled
         /\ Script[pc].cmd = "jailbreak" /\ image.has = Filled
              => Outcome("all").has = Jailbroken
         /\ Script[pc].cmd = "bless" =>
              Outcome("all").has = image.has
                /\ (image.has = Jailbroken => Outcome("all").blessed)
<1>1. image.has \in [Layers -> Amount]
  BY DEF Image
<1>2. CASE Script[pc].cmd = "nuke"
  <2>1. /\ Nothing \in [Layers -> Amount]
        /\ [l \in Layers |-> Less(image.has[l])] \in [Layers -> Amount]
    BY <1>1 DEF Nothing, Less, Amount
  <2>2. Outcome(how) = [image EXCEPT !.has = IF how = "all" THEN Nothing
                                             ELSE [l \in Layers |-> Less(image.has[l])],
                                     !.blessed = FALSE]
    BY <1>2 DEF Outcome
  <2>3. Outcome("all") = [image EXCEPT !.has = Nothing, !.blessed = FALSE]
    BY <1>2 DEF Outcome
  <2> QED
    BY <1>2, <2>1, <2>2, <2>3 DEF Image
<1>3. CASE Script[pc].cmd = "ditto"
  <2>1. \A h : Outcome(h) =
          [image EXCEPT !.has["sys"] = IF mounted["/mnt2"] = "none" THEN @ ELSE h]
    BY <1>3 DEF Outcome
  <2> QED
    BY <1>1, <1>3, <2>1 DEF Image, Layers, Amount, Nothing, Filled
<1>4. CASE Script[pc].cmd = "jailbreak"
  <2>1. \A h : Outcome(h) =
          [image EXCEPT !.has["jb"] = IF image.has["sys"] = "all" THEN h ELSE "some"]
    BY <1>4 DEF Outcome
  <2> QED
    BY <1>1, <1>4, <2>1 DEF Image, Layers, Amount, Nothing, Filled, Jailbroken
<1>5. CASE Script[pc].cmd = "bless"
  <2> DEFINE b(h) == h = "all" /\ image.has["sys"] = "all"
  <2>1. \A h : Outcome(h) = [image EXCEPT !.blessed = b(h)]
    BY <1>5 DEF Outcome
  <2>2. \A h : b(h) \in BOOLEAN
    OBVIOUS
  <2>3. image.has = Jailbroken => b("all") = TRUE
    BY DEF Jailbroken, Nothing, Layers
  <2> HIDE DEF b
  <2> QED
    BY <1>5, <2>1, <2>2, <2>3 DEF Image
<1> QED
  BY <1>2, <1>3, <1>4, <1>5 DEF Writers

\* / gets files that are not meant for it only after a failure.
LEMMA WorksHarmless ==
  ASSUME IInv, pc \in DOMAIN Script, Script[pc].cmd \in Writers,
         NEW how \in {"all", "some"}, Works(how)
  PROVE  /\ image' \in Image /\ image'.size = image.size /\ image'.clean = image.clean
         /\ polluted' \in BOOLEAN /\ (polluted' => polluted \/ failures > 0)
         /\ ~failed => image' = Outcome(how)
<1>1. pc \in {9, 10, 11, 17}
  BY Where DEF Writers
<1>2. Types /\ KernelInv /\ DevicesInv
  BY DEF IInv
<1>3. ~failed => mounted["/mnt"] = "vn0"
  BY <1>1, <1>2 DEF DevicesInv
<1>4. failed => failures > 0
  BY <1>2 DEF Types, KernelInv
<1>5. image \in Image /\ polluted \in BOOLEAN
  BY <1>2 DEF Types
<1>6. CASE mounted["/mnt"] = "vn0"
  <2>1. image' = Outcome(how) /\ polluted' = polluted
    BY <1>6 DEF Works
  <2> QED
    BY <1>5, <2>1, Outcomes
<1>7. CASE mounted["/mnt"] # "vn0"
  <2>1. image' = image /\ polluted' = (polluted \/ Script[pc].cmd \in {"ditto", "jailbreak"})
    BY <1>7 DEF Works
  <2>2. polluted' \in BOOLEAN
    BY <2>1
  <2> QED
    BY <1>3, <1>4, <1>5, <1>7, <2>1, <2>2
<1> QED
  BY <1>6, <1>7

LEMMA WriteKeeps ==
  ASSUME IInv, Write
  PROVE  IInv'
<1>1. /\ pc \in DOMAIN Script /\ Script[pc].cmd \in Writers
      /\ pc' = pc + 1 /\ failed' = failed /\ failures' = failures /\ reboots' = reboots
      /\ kills' = kills
      /\ root' = root /\ vn' = vn /\ mounted' = mounted
  <2>1. PICK c \in Writers : Step(c)
    BY DEF Write
  <2>2. root' = root /\ vn' = vn /\ mounted' = mounted
    BY DEF Write, devices
  <2>3. pc \in DOMAIN Script /\ Script[pc].cmd = c
    BY <2>1 DEF Step
  <2> QED
    BY <2>1, <2>2, <2>3, StepTaken
<1>2. Works("all")
  BY DEF Write
<1>3. Types /\ KernelInv /\ DevicesInv /\ ImageInv /\ RootUntouched
  BY DEF IInv
<1>4. /\ image' \in Image /\ image'.size = image.size /\ image'.clean = image.clean
      /\ polluted' \in BOOLEAN /\ (polluted' => polluted \/ failures > 0)
      /\ ~failed => image' = Outcome("all")
  BY <1>1, <1>2, WorksHarmless
<1>5. \/ (pc = 9 /\ Script[pc].cmd = "nuke") \/ (pc = 10 /\ Script[pc].cmd = "ditto")
      \/ (pc = 11 /\ Script[pc].cmd = "jailbreak") \/ (pc = 17 /\ Script[pc].cmd = "bless")
  BY <1>1, Where DEF Writers
<1>6. Types' /\ KernelInv' /\ RootUntouched'
  BY <1>1, <1>3, <1>4, <1>5 DEF Types, KernelInv, RootUntouched
<1>7. DevicesInv'
  BY <1>1, <1>3, <1>5 DEF DevicesInv
<1>8. ~failed => /\ pc = 9 => image'.has = Nothing
                 /\ pc = 10 => image'.has = Filled
                 /\ pc \in {11, 17} => image'.has = Jailbroken
                 /\ pc = 17 => image'.blessed
  <2>1. image \in Image
    BY <1>3 DEF Types
  <2>2. ~failed => /\ pc = 10 => image.has = Nothing /\ mounted["/mnt2"] = "vn1"
                   /\ pc = 11 => image.has = Filled
                   /\ pc = 17 => image.has = Jailbroken
    BY <1>3 DEF ImageInv, DevicesInv
  <2> QED
    BY <1>1, <1>4, <1>5, <2>1, <2>2, Outcomes
<1>9. ImageInv'
  BY <1>1, <1>3, <1>4, <1>5, <1>8 DEF ImageInv
<1> QED
  BY <1>6, <1>7, <1>9 DEF IInv

-----------------------------------------------------------------------------
\* What goes wrong.
LEMMA HalfDoneHarmless ==
  ASSUME IInv, pc \in DOMAIN Script, HalfDone
  PROVE  /\ image' \in Image
         /\ polluted' \in BOOLEAN /\ (polluted' => polluted \/ failures > 0)
<1>1. image \in Image /\ polluted \in BOOLEAN
  BY DEF IInv, Types
<1>2. CASE Script[pc].cmd \in Writers
  <2>1. Works("some") \/ (image' = image /\ polluted' = polluted)
    BY <1>2 DEF HalfDone, Writers
  <2> QED
    BY <1>1, <1>2, <2>1, WorksHarmless
<1>3. CASE Script[pc].cmd = "copyRoot"
  <2>1. /\ image' = IF image.size = "right" THEN image
                    ELSE [Copied EXCEPT !.size = "short", !.clean = FALSE]
        /\ polluted' = polluted
    BY <1>3 DEF HalfDone, Writers
  <2>2. Copied \in Image
    BY DEF Copied, Image, Nothing, Layers, Amount
  <2> QED
    BY <1>1, <2>1, <2>2 DEF Image
<1>4. CASE Script[pc].cmd \notin Writers /\ Script[pc].cmd # "copyRoot"
  BY <1>1, <1>4 DEF HalfDone
<1> QED
  BY <1>2, <1>3, <1>4

LEMMA FailKeeps ==
  ASSUME IInv, Fail
  PROVE  IInv'
<1>1. Types /\ KernelInv /\ RootUntouched
  BY DEF IInv
<1>2. /\ image' \in Image
      /\ polluted' \in BOOLEAN
  BY HalfDoneHarmless DEF Fail
<1>3. pc \in 1..22
  BY Domain DEF Fail
<1>4. /\ failures < MaxFailures /\ failures' = failures + 1 /\ failed' = TRUE /\ pc' = pc + 1
      /\ root' = root /\ vn' = vn /\ reboots' = reboots /\ kills' = kills
      /\ mounted' = mounted \/ mounted' = [mounted EXCEPT !["/mnt"] = "none"]
  BY DEF Fail
<1>5. Types' /\ KernelInv' /\ RootUntouched'
  BY <1>1, <1>2, <1>3, <1>4, BuildAssumption DEF Types, KernelInv, RootUntouched, Points
<1> QED
  BY <1>4, <1>5 DEF IInv, DevicesInv, ImageInv

LEMMA RebootKeeps ==
  ASSUME IInv, Reboot
  PROVE  IInv'
<1>1. Types /\ KernelInv /\ RootUntouched
  BY DEF IInv
<1>2. /\ image' \in Image
      /\ polluted' \in BOOLEAN /\ (polluted' => polluted \/ failures > 0)
  BY HalfDoneHarmless DEF Reboot
<1>3. /\ reboots < MaxReboots /\ reboots' = reboots + 1 /\ pc' = 0 /\ root' = "rw"
      /\ failed' = failed /\ failures' = failures /\ kills' = kills
      /\ vn' = [v \in Vns |-> "none"] /\ mounted' = [p \in Points |-> "none"]
  BY DEF Reboot
<1>4. Types' /\ KernelInv' /\ RootUntouched'
  BY <1>1, <1>2, <1>3, BuildAssumption DEF Types, KernelInv, RootUntouched, Points, Vns
<1> QED
  BY <1>3, <1>4 DEF IInv, DevicesInv, ImageInv

LEMMA KillKeeps ==
  ASSUME IInv, Kill
  PROVE  IInv'
<1>1. Types' /\ KernelInv' /\ RootUntouched'
  BY BuildAssumption DEF IInv, Kill, Types, KernelInv, RootUntouched, devices
<1> QED
  BY <1>1 DEF IInv, Kill, DevicesInv, ImageInv

LEMMA LaunchKeeps ==
  ASSUME IInv, Launch
  PROVE  IInv'
<1>1. Types /\ KernelInv /\ RootUntouched
  BY DEF IInv
<1>2. /\ pc' = 1 /\ failed' = FALSE /\ root' = root /\ vn' = vn /\ mounted' = mounted
      /\ image' = image /\ polluted' = polluted
      /\ failures' = failures /\ reboots' = reboots /\ kills' = kills
  BY DEF Launch, devices, counts
<1>3. Types'
  <2>1. pc' \in 0..23
    BY <1>2
  <2>2. failed' \in BOOLEAN
    BY DEF Launch
  <2> QED
    BY <1>1, <1>2, <2>1, <2>2 DEF Types
<1>4. KernelInv' /\ RootUntouched'
  BY <1>1, <1>2 DEF KernelInv, RootUntouched
<1> QED
  BY <1>2, <1>3, <1>4 DEF IInv, DevicesInv, ImageInv

-----------------------------------------------------------------------------
LEMMA Initially == Init => IInv
<1> SUFFICES ASSUME Init PROVE IInv
  OBVIOUS
<1>1. image \in Image
  BY DEF Init, Image, Nothing, Layers, Amount
<1>2. /\ vn \in [Vns -> {"none", "112.dd", "disk0s1.dd"}]
      /\ mounted \in [Points -> Vns \cup {"none"}]
      /\ vn["vn0"] = "none" /\ vn["vn1"] = "none"
      /\ mounted["/mnt"] = "none" /\ mounted["/mnt2"] = "none"
  BY DEF Init, NoDevices, Vns, Points
<1>3. failed = FALSE /\ polluted = FALSE /\ failed \in BOOLEAN /\ polluted \in BOOLEAN
  BY DEF Init
<1>4. /\ pc \in 0..23 /\ root = "rw"
      /\ failures \in 0..MaxFailures /\ reboots \in 0..MaxReboots /\ kills \in 0..MaxKills
  BY BuildAssumption DEF Init, NoDevices
<1>5. Types
  BY <1>1, <1>2, <1>3, <1>4 DEF Types
<1>6. KernelInv /\ RootUntouched
  BY <1>2, <1>3 DEF KernelInv, RootUntouched
<1> QED
  BY <1>5, <1>6 DEF Init, IInv, DevicesInv, ImageInv

LEMMA Preserved == IInv /\ [Next]_vars => IInv'
<1> SUFFICES ASSUME IInv, [Next]_vars PROVE IInv'
  OBVIOUS
<1>1. CASE Command
  BY <1>1, RemountKeeps, CopyRootKeeps, AttachKeeps, DetachKeeps, MountKeeps, UmountKeeps,
    FsckKeeps, WriteKeeps DEF Command
<1>2. CASE Launch \/ Fail \/ Reboot \/ Kill
  BY <1>2, LaunchKeeps, FailKeeps, RebootKeeps, KillKeeps
<1>3. CASE UNCHANGED vars
  BY <1>3
    DEF vars, devices, counts, IInv, Types, KernelInv, DevicesInv, ImageInv, RootUntouched
<1> QED
  BY <1>1, <1>2, <1>3 DEF Next, HandedOver

LEMMA Inductive == Spec => []IInv
BY Initially, Preserved, PTL DEF Spec

\* Every variable keeps its type, and what is mounted is attached.
THEOREM TypeCorrect == Spec => []TypeOK
<1>1. IInv => TypeOK
  BY TypesSuffice DEF IInv
<1> QED
  BY <1>1, Inductive, PTL

\* The image handed over by a launch without a failing command is the finished one,
\* whatever any number of failures, restarts and kills of earlier launches left behind.
THEOREM FinishedInTheEnd == Spec => []ImageRight
<1>1. IInv => ImageRight
  <2> SUFFICES ASSUME IInv, Done, ~failed PROVE Finished(image)
    BY DEF ImageRight
  <2>1. pc = 23
    BY Length DEF Done
  <2> QED
    BY <2>1 DEF IInv, ImageInv, Finished, Jailbroken
<1> QED
  BY <1>1, Inductive, PTL

\* Nothing meant for the image is written to the running system unless a command failed.
THEOREM NothingWrittenToRoot == Spec => []RootUntouched
<1>1. IInv => RootUntouched
  BY DEF IInv
<1> QED
  BY <1>1, Inductive, PTL

\* And nothing is left attached or mounted at the end of such a launch.
THEOREM NothingLeftAttached == Spec => []DevicesQuiet
<1>1. IInv => DevicesQuiet
  <2> SUFFICES ASSUME IInv PROVE TypeOK /\ (Done /\ ~failed => NoDevices)
    BY DEF DevicesQuiet
  <2>1. TypeOK
    BY TypesSuffice DEF IInv
  <2>2. ASSUME Done, ~failed PROVE NoDevices
    <3>1. pc = 23
      BY <2>2, Length DEF Done
    <3> QED
      BY <2>2, <3>1 DEF IInv, Types, DevicesInv, NoDevices, Vns, Points
  <2> QED
    BY <2>1, <2>2
<1> QED
  BY <1>1, Inductive, PTL

-----------------------------------------------------------------------------
(***************************************************************************)
(* One of the commands that customise the image is globscript.sh, a        *)
(* program of its own: what the run of DeviceScripts checks about it for   *)
(* three directories and three runs, for any list of directories, any      *)
(* files, and any number of runs and failing cp's.                         *)
(***************************************************************************)

\* The run is at a directory.
AtWork == at \in {"save", "add", "back", "clear"}

\* The first directory of a run that found something in xtmp.
Littered == dirty /\ d = 1

\* The directory at hand, until the tools are added to it, and those ahead are as the
\* new system has them.
Ahead ==
  AtWork => \A k \in 1..Len(Dirs) :
              k > d \/ (k = d /\ at \in {"save", "add"})
                => folders[Dirs[k]] = G!Untouched[Dirs[k]]

\* What lies in xtmp: nothing before the files are saved, then those and nothing else,
\* unless there was something in it from the beginning.
Stash ==
  /\ at = "save" /\ ~Littered => \A n \in Names : xtmp[n] = G!None
  /\ at \in {"add", "back", "clear"} /\ ~Littered =>
       \A n \in Names :
         xtmp[n] = G!None \/ (n \in New[Dirs[d]] /\ xtmp[n] = <<Dirs[d], "new">>)
  /\ at \in {"add", "back", "clear"} /\ ~cpFailed =>
       \A n \in New[Dirs[d]] : xtmp[n] = <<Dirs[d], "new">>

\* The directory at hand after the tools have been added, and after the files are back.
Merged ==
  /\ at = "back" /\ ~cpFailed =>
       \A n \in Old[Dirs[d]] : folders[Dirs[d]][n] = <<Dirs[d], "old">>
  /\ at = "clear" /\ ~cpFailed =>
       /\ \A n \in New[Dirs[d]] : folders[Dirs[d]][n] = <<Dirs[d], "new">>
       /\ ~Littered =>
            \A n \in Old[Dirs[d]] \ New[Dirs[d]] : folders[Dirs[d]][n] = <<Dirs[d], "old">>

\* The inductive invariant.
GlobInv ==
  /\ G!TypeOK /\ Ahead /\ Stash /\ Merged
  /\ G!OwnFilesWin /\ G!ToolsAdded /\ G!StraysInFirstOnly

-----------------------------------------------------------------------------
\* What a folder holds under each name.
FilesOf == [Names -> G!Contents]

\* The directories, and what a name can stand for.
LEMMA GlobFacts ==
  /\ \A k \in 1..Len(Dirs) : Dirs[k] \in G!DirSet
  /\ \A dir \in G!DirSet :
       <<dir, "new">> \in G!Contents /\ <<dir, "old">> \in G!Contents
  /\ G!None \in G!Contents
  /\ \A dir :
       <<dir, "new">> # G!None /\ <<dir, "old">> # G!None /\ <<dir, "new">> # <<dir, "old">>
  /\ Len(Dirs) \in Nat /\ Len(Dirs) > 0
BY ScriptsAssumption DEF G!GlobAssumption, G!DirSet, G!Contents, G!None

\* A folder of a system is a folder.
LEMMA FilesGive ==
  ASSUME NEW names, NEW dir \in G!DirSet, NEW system \in {"new", "old"}
  PROVE  /\ G!Files(names, dir, system) \in FilesOf
         /\ \A n \in Names : G!Files(names, dir, system)[n] =
              IF n \in names THEN <<dir, system>> ELSE G!None
BY DEF G!Files, FilesOf, G!Contents

\* So are those of the new system, each with its own files.
LEMMA UntouchedGives ==
  /\ G!Untouched \in [G!DirSet -> FilesOf]
  /\ \A dir \in G!DirSet : \A n \in Names :
       G!Untouched[dir][n] = IF n \in New[dir] THEN <<dir, "new">> ELSE G!None
<1>1. ASSUME NEW dir \in G!DirSet
      PROVE  /\ G!Files(New[dir], dir, "new") \in FilesOf
             /\ \A n \in Names : G!Files(New[dir], dir, "new")[n] =
                  IF n \in New[dir] THEN <<dir, "new">> ELSE G!None
  BY FilesGive DEF G!Files
<1> QED
  BY <1>1 DEF G!Untouched

\* In which nothing is out of its place.
LEMMA NoStrays ==
  ASSUME NEW k \in 1..Len(Dirs), NEW n \in Names
  PROVE  G!Untouched[Dirs[k]][n] = G!None \/ G!Untouched[Dirs[k]][n][1] = Dirs[k]
<1>1. <<Dirs[k], "new">>[1] = Dirs[k]
  OBVIOUS
<1> QED
  BY <1>1, UntouchedGives, GlobFacts

\* Only the directory at hand changes: no directory comes twice in the list.
LEMMA AtGives ==
  ASSUME G!TypeOK, NEW files \in FilesOf, G!ImageAt(Dirs[d], files)
  PROVE  /\ folders' \in [G!DirSet -> FilesOf]
         /\ \A k \in 1..Len(Dirs) : folders'[Dirs[k]] =
              IF k = d THEN files ELSE folders[Dirs[k]]
<1>1. \A k \in 1..Len(Dirs) : Dirs[k] = Dirs[d] => k = d
  BY ScriptsAssumption DEF G!GlobAssumption, G!TypeOK
<1>2. d \in 1..Len(Dirs) /\ Dirs[d] \in G!DirSet
  BY GlobFacts DEF G!TypeOK
<1>3. folders \in [G!DirSet -> FilesOf]
  BY DEF G!TypeOK, FilesOf
<1> QED
  BY <1>1, <1>2, <1>3, GlobFacts DEF G!ImageAt

\* What a cp leaves of two folders: at every name the file of one of them, and if no
\* cp has failed, all of the first and what is left of the second.
LEMMA CpGives ==
  ASSUME G!TypeOK,
         NEW from \in FilesOf, NEW to \in FilesOf, NEW result, G!Cp(from, to, result)
  PROVE  /\ result \in FilesOf
         /\ faults' \in 0..MaxFaults /\ cpFailed' \in BOOLEAN
         /\ \A n \in Names : result[n] = to[n] \/ (from[n] # G!None /\ result[n] = from[n])
         /\ ~cpFailed' => /\ ~cpFailed
                        /\ \A n \in Names : result[n] =
                             IF from[n] # G!None THEN from[n] ELSE to[n]
<1>1. ASSUME NEW some PROVE /\ G!Copied(from, to, some) \in FilesOf
                            /\ \A n \in Names : G!Copied(from, to, some)[n] =
                                 IF n \in some /\ from[n] # G!None THEN from[n] ELSE to[n]
  BY DEF G!Copied, FilesOf
<1>2. MaxFaults \in Nat
  BY ScriptsAssumption DEF G!GlobAssumption
<1>3. CASE result = G!Copied(from, to, Names) /\ UNCHANGED <<faults, cpFailed>>
  <2>1. faults' \in 0..MaxFaults /\ cpFailed' \in BOOLEAN /\ (~cpFailed' => ~cpFailed)
    BY <1>3 DEF G!TypeOK
  <2> QED
    BY <1>1, <1>3, <2>1
<1>4. CASE /\ faults < MaxFaults /\ faults' = faults + 1 /\ cpFailed' = TRUE
           /\ \E some \in SUBSET Names \ {Names} : result = G!Copied(from, to, some)
  <2>1. faults' \in 0..MaxFaults /\ cpFailed' \in BOOLEAN
    BY <1>2, <1>4 DEF G!TypeOK
  <2>2. PICK some \in SUBSET Names \ {Names} : result = G!Copied(from, to, some)
    BY <1>4
  <2> QED
    BY <1>1, <1>4, <2>1, <2>2
<1> QED
  BY <1>3, <1>4 DEF G!Cp

\* The image before the first run.
LEMMA GlobInitially ==
  ASSUME G!Init
  PROVE  GlobInv
<1>1. G!TypeOK
  <2>1. folders \in [G!DirSet -> [Names -> G!Contents]]
    BY UntouchedGives DEF G!Init, FilesOf
  <2>2. xtmp \in [Names -> G!Contents]
    BY GlobFacts DEF G!Init
  <2>3. runs \in 0..MaxRuns /\ faults \in 0..MaxFaults
    BY ScriptsAssumption DEF G!Init, G!GlobAssumption
  <2>4. d \in 1..Len(Dirs)
    BY GlobFacts DEF G!Init
  <2> QED
    BY <2>1, <2>2, <2>3, <2>4 DEF G!TypeOK, G!Init
<1>3. G!StraysInFirstOnly
  BY NoStrays DEF G!StraysInFirstOnly, G!Init
<1> QED
  BY <1>1, <1>3
    DEF GlobInv, Ahead, AtWork, Stash, Merged, G!OwnFilesWin, G!ToolsAdded, G!Finished,
        G!Init

\* A run starts with the image as the new system has it.
LEMMA StartKeepsGlob ==
  ASSUME GlobInv, G!Start
  PROVE  GlobInv'
<1> USE DEF G!Start
<1>1. G!TypeOK'
  <2>1. folders' \in [G!DirSet -> [Names -> G!Contents]]
    BY UntouchedGives DEF FilesOf
  <2>2. xtmp' \in [Names -> G!Contents] /\ faults' \in 0..MaxFaults
    BY DEF GlobInv, G!TypeOK
  <2>3. runs' \in 0..MaxRuns
    BY ScriptsAssumption DEF GlobInv, G!TypeOK, G!GlobAssumption
  <2>4. d' \in 1..Len(Dirs)
    BY GlobFacts
  <2>5. dirty' \in BOOLEAN
    OBVIOUS
  <2> QED
    BY <2>1, <2>2, <2>3, <2>4, <2>5 DEF G!TypeOK
<1>3. G!StraysInFirstOnly'
  BY NoStrays DEF G!StraysInFirstOnly
<1>4. Ahead'
  BY DEF Ahead, G!Untouched, G!DirSet, G!Files
<1>5. Stash' /\ Merged'
  BY DEF Stash, Merged, Littered
<1>6. G!OwnFilesWin' /\ G!ToolsAdded'
  BY DEF G!OwnFilesWin, G!ToolsAdded, G!Finished
<1> QED
  BY <1>1, <1>3, <1>4, <1>5, <1>6 DEF GlobInv

\* The files saved are those of the new system.
LEMMA SaveKeepsGlob ==
  ASSUME GlobInv, G!Save
  PROVE  GlobInv'
<1> DEFINE dir == Dirs[d]
<1>1. /\ at = "save" /\ at' = "add" /\ G!Cp(G!Here, xtmp, xtmp')
      /\ d' = d /\ folders' = folders /\ runs' = runs /\ dirty' = dirty
  BY DEF G!Save
<1>2. G!TypeOK /\ d \in 1..Len(Dirs) /\ dir \in G!DirSet /\ New[dir] \subseteq Names
  BY GlobFacts, ScriptsAssumption DEF GlobInv, G!TypeOK, G!GlobAssumption
<1>3. G!Here \in FilesOf /\ xtmp \in FilesOf
  BY <1>2 DEF G!TypeOK, G!Here, FilesOf
<1>4. \A n \in Names : G!Here[n] = IF n \in New[dir] THEN <<dir, "new">> ELSE G!None
  BY <1>1, <1>2, UntouchedGives DEF GlobInv, Ahead, AtWork, G!Here
<1> DEFINE from == G!Here
<1> HIDE DEF from
<1>5. /\ xtmp' \in FilesOf /\ faults' \in 0..MaxFaults /\ cpFailed' \in BOOLEAN
      /\ \A n \in Names : xtmp'[n] = xtmp[n] \/ (G!Here[n] # G!None /\ xtmp'[n] = G!Here[n])
      /\ ~cpFailed' => /\ ~cpFailed
                     /\ \A n \in Names : xtmp'[n] =
                          IF G!Here[n] # G!None THEN G!Here[n] ELSE xtmp[n]
  BY <1>1, <1>2, <1>3, CpGives
<1>6. G!TypeOK'
  BY <1>1, <1>2, <1>5 DEF G!TypeOK, FilesOf
<1>7. Ahead'
  BY <1>1 DEF GlobInv, Ahead, AtWork
<1>8. Stash'
  <2>1. ASSUME ~Littered', NEW n \in Names
        PROVE  xtmp'[n] = G!None \/ (n \in New[dir] /\ xtmp'[n] = <<dir, "new">>)
    <3>1. xtmp[n] = G!None
      BY <1>1, <2>1 DEF GlobInv, Stash, Littered
    <3> QED
      BY <1>4, <1>5, <3>1
  <2>2. ASSUME ~cpFailed', NEW n \in New[dir] PROVE xtmp'[n] = <<dir, "new">>
    BY <1>2, <1>4, <1>5, <2>2, GlobFacts
  <2> QED
    BY <1>1, <2>1, <2>2 DEF Stash
<1>9. Merged'
  BY <1>1 DEF Merged
<1>10. G!OwnFilesWin' /\ G!ToolsAdded' /\ G!StraysInFirstOnly'
  BY <1>1, <1>5 DEF GlobInv, G!OwnFilesWin, G!ToolsAdded, G!StraysInFirstOnly, G!Finished
<1> QED
  BY <1>6, <1>7, <1>8, <1>9, <1>10 DEF GlobInv

\* The tools go over the files of the directory at hand, and over no other.
LEMMA AddKeepsGlob ==
  ASSUME GlobInv, G!Add
  PROVE  GlobInv'
<1> DEFINE dir == Dirs[d]
<1>1. PICK files \in [Names -> {G!None, <<dir, "old">>, <<dir, "new">>}] :
        G!Cp(G!Files(Old[dir], dir, "old"), G!Here, files) /\ G!ImageAt(dir, files)
  BY DEF G!Add
<1>2. at = "add" /\ at' = "back" /\ d' = d /\ xtmp' = xtmp /\ runs' = runs /\ dirty' = dirty
  BY DEF G!Add
<1>3. G!TypeOK /\ d \in 1..Len(Dirs) /\ dir \in G!DirSet /\ Old[dir] \subseteq Names
  BY GlobFacts, ScriptsAssumption DEF GlobInv, G!TypeOK, G!GlobAssumption
<1>4. G!Here \in FilesOf /\ G!Files(Old[dir], dir, "old") \in FilesOf
  BY <1>3, FilesGive DEF G!TypeOK, G!Here, FilesOf
<1>5. /\ files \in FilesOf /\ faults' \in 0..MaxFaults /\ cpFailed' \in BOOLEAN
      /\ \A n \in Names : files[n] = G!Here[n] \/ files[n] = <<dir, "old">>
      /\ ~cpFailed' => ~cpFailed /\ \A n \in Old[dir] : files[n] = <<dir, "old">>
  <2>1. \A n \in Names : G!Files(Old[dir], dir, "old")[n] =
          IF n \in Old[dir] THEN <<dir, "old">> ELSE G!None
    BY DEF G!Files
  <2> DEFINE from == G!Files(Old[dir], dir, "old")
  <2>2. /\ files \in FilesOf /\ faults' \in 0..MaxFaults /\ cpFailed' \in BOOLEAN
        /\ \A n \in Names : files[n] = G!Here[n] \/ (from[n] # G!None /\ files[n] = from[n])
        /\ ~cpFailed' => /\ ~cpFailed
                       /\ \A n \in Names : files[n] =
                            IF from[n] # G!None THEN from[n] ELSE G!Here[n]
    BY <1>1, <1>3, <1>4, CpGives
  <2> HIDE DEF from
  <2>3. \A n \in Names : from[n] = IF n \in Old[dir] THEN <<dir, "old">> ELSE G!None
    BY <2>1 DEF from
  <2> QED
    BY <1>3, <2>2, <2>3, GlobFacts
<1>6. /\ folders' \in [G!DirSet -> FilesOf]
      /\ \A k \in 1..Len(Dirs) : folders'[Dirs[k]] =
           IF k = d THEN files ELSE folders[Dirs[k]]
  BY <1>1, <1>3, <1>5, AtGives
<1>7. G!TypeOK'
  BY <1>2, <1>3, <1>5, <1>6 DEF G!TypeOK, FilesOf
<1>8. Ahead'
  BY <1>2, <1>3, <1>6 DEF GlobInv, Ahead, AtWork
<1>9. Stash'
  BY <1>2, <1>5 DEF GlobInv, Stash, Littered
<1>10. Merged'
  BY <1>2, <1>3, <1>5, <1>6 DEF Merged
<1>11. G!OwnFilesWin' /\ G!ToolsAdded'
  <2>1. ASSUME NEW k \in 1..Len(Dirs), G!Finished(k)'
        PROVE  G!Finished(k) /\ folders'[Dirs[k]] = folders[Dirs[k]]
    BY <1>2, <1>3, <1>6, <2>1 DEF G!Finished
  <2>2. ~cpFailed' => ~cpFailed
    BY <1>5
  <2>3. G!OwnFilesWin'
    BY <2>1, <2>2 DEF GlobInv, G!OwnFilesWin
  <2>4. G!ToolsAdded'
    BY <1>2, <2>1, <2>2 DEF GlobInv, G!ToolsAdded
  <2> QED
    BY <2>3, <2>4
<1>12. G!StraysInFirstOnly'
  <2>1. ASSUME NEW k \in 1..Len(Dirs), NEW n \in Names
        PROVE  \/ folders'[Dirs[k]][n] = folders[Dirs[k]][n]
               \/ folders'[Dirs[k]][n] = <<Dirs[k], "old">>
    BY <1>5, <1>6 DEF G!Here
  <2>2. ASSUME NEW k \in 1..Len(Dirs), NEW n \in Names,
               folders'[Dirs[k]][n] # G!None, folders'[Dirs[k]][n][1] # Dirs[k]
        PROVE  k = 1 /\ dirty
    <3>1. <<Dirs[k], "old">>[1] = Dirs[k]
      OBVIOUS
    <3>2. folders'[Dirs[k]][n] = folders[Dirs[k]][n]
      BY <2>1, <2>2, <3>1
    <3> QED
      BY <2>2, <3>2 DEF GlobInv, G!StraysInFirstOnly
  <2> QED
    BY <1>2, <2>2 DEF G!StraysInFirstOnly
<1> QED
  BY <1>7, <1>8, <1>9, <1>10, <1>11, <1>12 DEF GlobInv

\* What was saved goes over the tools.
LEMMA BackKeepsGlob ==
  ASSUME GlobInv, G!Back
  PROVE  GlobInv'
<1> DEFINE dir == Dirs[d]
<1>1. PICK files \in FilesOf : G!Cp(xtmp, G!Here, files) /\ G!ImageAt(dir, files)
  BY DEF G!Back, FilesOf
<1>2. at = "back" /\ at' = "clear" /\ d' = d /\ xtmp' = xtmp /\ runs' = runs /\ dirty' = dirty
  BY DEF G!Back
<1>3. /\ G!TypeOK /\ d \in 1..Len(Dirs) /\ dir \in G!DirSet
      /\ New[dir] \subseteq Names /\ Old[dir] \subseteq Names
  BY GlobFacts, ScriptsAssumption DEF GlobInv, G!TypeOK, G!GlobAssumption
<1>4. G!Here \in FilesOf /\ xtmp \in FilesOf
  BY <1>3 DEF G!TypeOK, G!Here, FilesOf
<1>5. /\ files \in FilesOf /\ faults' \in 0..MaxFaults /\ cpFailed' \in BOOLEAN
      /\ \A n \in Names : files[n] = G!Here[n] \/ (xtmp[n] # G!None /\ files[n] = xtmp[n])
      /\ ~cpFailed' => /\ ~cpFailed
                     /\ \A n \in Names : files[n] =
                          IF xtmp[n] # G!None THEN xtmp[n] ELSE G!Here[n]
  BY <1>1, <1>3, <1>4, CpGives
<1>6. /\ folders' \in [G!DirSet -> FilesOf]
      /\ \A k \in 1..Len(Dirs) : folders'[Dirs[k]] =
           IF k = d THEN files ELSE folders[Dirs[k]]
  BY <1>1, <1>3, AtGives
<1>7. G!TypeOK'
  BY <1>2, <1>3, <1>5, <1>6 DEF G!TypeOK, FilesOf
<1>8. Ahead'
  BY <1>2, <1>3, <1>6 DEF GlobInv, Ahead, AtWork
<1>9. Stash'
  BY <1>2, <1>5 DEF GlobInv, Stash, Littered
<1>10. ~Littered => \A n \in Names :
                      xtmp[n] = G!None \/ (n \in New[dir] /\ xtmp[n] = <<dir, "new">>)
  BY <1>2 DEF GlobInv, Stash
<1>11. Merged'
  <2>1. ASSUME ~cpFailed', NEW n \in New[dir] PROVE files[n] = <<dir, "new">>
    <3>1. xtmp[n] = <<dir, "new">>
      BY <1>2, <1>5, <2>1 DEF GlobInv, Stash
    <3> QED
      BY <1>3, <1>5, <2>1, <3>1, GlobFacts
  <2>2. ASSUME ~cpFailed', ~Littered, NEW n \in Old[dir] \ New[dir]
        PROVE  files[n] = <<dir, "old">>
    <3>1. xtmp[n] = G!None
      BY <1>3, <1>10, <2>2
    <3>2. G!Here[n] = <<dir, "old">>
      BY <1>2, <1>5, <2>2 DEF GlobInv, Merged, G!Here
    <3> QED
      BY <1>3, <1>5, <2>2, <3>1, <3>2
  <2>3. folders'[dir] = files /\ (Littered' <=> Littered)
    BY <1>2, <1>3, <1>6 DEF Littered
  <2> QED
    BY <1>2, <2>1, <2>2, <2>3 DEF Merged
<1>12. G!OwnFilesWin' /\ G!ToolsAdded'
  <2>1. ASSUME NEW k \in 1..Len(Dirs), G!Finished(k)'
        PROVE  G!Finished(k) /\ folders'[Dirs[k]] = folders[Dirs[k]]
    BY <1>2, <1>3, <1>6, <2>1 DEF G!Finished
  <2>2. ~cpFailed' => ~cpFailed
    BY <1>5
  <2>3. G!OwnFilesWin'
    BY <2>1, <2>2 DEF GlobInv, G!OwnFilesWin
  <2>4. G!ToolsAdded'
    BY <1>2, <2>1, <2>2 DEF GlobInv, G!ToolsAdded
  <2> QED
    BY <2>3, <2>4
<1>13. G!StraysInFirstOnly'
  <2>1. ASSUME NEW k \in 1..Len(Dirs), NEW n \in Names
        PROVE  \/ folders'[Dirs[k]][n] = folders[Dirs[k]][n]
               \/ folders'[Dirs[k]][n] = <<Dirs[k], "new">>
               \/ k = 1 /\ dirty
    BY <1>5, <1>6, <1>10 DEF G!Here, Littered
  <2>2. \A k \in 1..Len(Dirs) : <<Dirs[k], "new">>[1] = Dirs[k]
    OBVIOUS
  <2> QED
    BY <1>2, <2>1, <2>2 DEF GlobInv, G!StraysInFirstOnly
<1> QED
  BY <1>7, <1>8, <1>9, <1>11, <1>12, <1>13 DEF GlobInv

\* With nothing left in xtmp the next directory begins as the first did in a first run.
LEMMA ClearKeepsGlob ==
  ASSUME GlobInv, G!Clear
  PROVE  GlobInv'
<1>1. /\ at = "clear" /\ xtmp' = [n \in Names |-> G!None]
      /\ folders' = folders /\ runs' = runs /\ faults' = faults /\ dirty' = dirty
      /\ cpFailed' = cpFailed
      /\ \/ d < Len(Dirs) /\ d' = d + 1 /\ at' = "save"
         \/ ~(d < Len(Dirs)) /\ d' = d /\ at' = "done"
  BY DEF G!Clear
<1>2. G!TypeOK /\ d \in 1..Len(Dirs) /\ Len(Dirs) \in Nat
  BY GlobFacts DEF GlobInv, G!TypeOK
<1>3. G!TypeOK'
  <2>1. xtmp' \in [Names -> G!Contents]
    BY <1>1, GlobFacts
  <2>2. d' \in 1..Len(Dirs)
    BY <1>1, <1>2
  <2> QED
    BY <1>1, <1>2, <2>1, <2>2 DEF G!TypeOK
<1>4. Ahead'
  BY <1>1, <1>2 DEF GlobInv, Ahead, AtWork
<1>5. Stash' /\ Merged'
  BY <1>1 DEF Stash, Merged
<1>6. ASSUME NEW k \in 1..Len(Dirs), G!Finished(k)' PROVE G!Finished(k) \/ k = d
  BY <1>1, <1>2, <1>6 DEF G!Finished
<1>7. G!OwnFilesWin'
  BY <1>1, <1>6 DEF GlobInv, G!OwnFilesWin, Merged
<1>8. G!ToolsAdded'
  BY <1>1, <1>6 DEF GlobInv, G!ToolsAdded, Merged, Littered
<1>9. G!StraysInFirstOnly'
  BY <1>1 DEF GlobInv, G!StraysInFirstOnly
<1> QED
  BY <1>3, <1>4, <1>5, <1>7, <1>8, <1>9 DEF GlobInv

\* A run that is cut promises nothing.
LEMMA CutKeepsGlob ==
  ASSUME GlobInv, G!Cut \/ UNCHANGED G!vars
  PROVE  GlobInv'
<1>1. CASE G!Cut
  <2> USE <1>1 DEF G!Cut
  <2>1. G!TypeOK' /\ G!StraysInFirstOnly'
    BY DEF GlobInv, G!TypeOK, G!StraysInFirstOnly
  <2> QED
    BY <2>1
      DEF GlobInv, Ahead, AtWork, Stash, Merged, G!OwnFilesWin, G!ToolsAdded, G!Finished
<1>2. CASE UNCHANGED G!vars
  <2>1. /\ at' = at /\ d' = d /\ folders' = folders /\ xtmp' = xtmp /\ runs' = runs
        /\ faults' = faults /\ dirty' = dirty /\ cpFailed' = cpFailed
    BY <1>2 DEF G!vars
  <2> QED
    BY <2>1
      DEF GlobInv, G!TypeOK, Ahead, AtWork, Stash, Merged, Littered, G!OwnFilesWin,
          G!ToolsAdded, G!StraysInFirstOnly, G!Finished
<1> QED
  BY <1>1, <1>2

\* The new system's own files win over the tools that are added to its directories, all
\* of the tools are added, and what an earlier run left in xtmp gets into the first
\* directory only: globscript.sh, for any directories and files.
THEOREM OwnFilesStay == ScriptsSpec => []OwnFilesWin
<1> DEFINE Inv == about = "image" => GlobInv
<1>1. ScriptsInit => Inv
  BY GlobInitially DEF ScriptsInit
<1>2. Inv /\ [ScriptsNext]_scripts => Inv'
  <2> SUFFICES ASSUME about = "image", GlobInv, [ScriptsNext]_scripts PROVE GlobInv'
    BY DEF ScriptsNext, scripts
  <2>1. G!Next \/ UNCHANGED G!vars
    BY DEF ScriptsNext, scripts, glob, G!vars
  <2> QED
    BY <2>1, StartKeepsGlob, SaveKeepsGlob, AddKeepsGlob, BackKeepsGlob, ClearKeepsGlob,
       CutKeepsGlob DEF G!Next, G!Ended
<1>3. Inv => OwnFilesWin
  BY DEF GlobInv, OwnFilesWin
<1> QED
  BY <1>1, <1>2, <1>3, PTL DEF ScriptsSpec

-----------------------------------------------------------------------------
(***************************************************************************)
(* The other program of DeviceScripts, migrate.sh and the same lines of    *)
(* jb113.sh: what its run checks for a few trees and three runs, for any   *)
(* device's tree and any number of runs and restarts.  First what paths    *)
(* and the three commands are like, on any tree.                           *)
(***************************************************************************)
\* The constants of the script are this module's, and so is what is assumed of them.
LEMMA MigrationAssumed == M!MigrationAssumption
BY ScriptsAssumption

\* Where a file may be, and two such places neither of which is in the other.
Path == Seq(FileNames)
Apart(p, q) == ~M!IsPrefix(p, q) /\ ~M!IsPrefix(q, p)

\* mv of p to q can lose nothing: if q is there, p is at most an empty directory.
Free(p, q) ==
  q \in DOMAIN fs => \A x \in DOMAIN fs : M!IsPrefix(p, x) => x = p /\ fs[x] = "dir"

\* From the tree t to the tree u: data not below p stays, data below p goes to below q,
\* nothing is left below p, what is below neither p nor q is as it was.
Stays(t, u, p) ==
  \A x \in DOMAIN t : t[x] # "dir" /\ ~M!IsPrefix(p, x) => x \in DOMAIN u /\ u[x] = t[x]

Goes(t, u, p, q) ==
  \A x \in DOMAIN t : t[x] # "dir" /\ M!IsPrefix(p, x) =>
    M!Renamed(p, q, x) \in DOMAIN u /\ u[M!Renamed(p, q, x)] = t[x]

Bare(t, p) == \A x \in DOMAIN t : ~M!IsPrefix(p, x)

\* The old Library is at most an empty directory.
Emptied(t) == \A x \in DOMAIN t : M!IsPrefix(M!OldLibrary, x) => x = M!OldLibrary

Same(t, u, p, q) ==
  \A x \in Path : ~M!IsPrefix(p, x) /\ ~M!IsPrefix(q, x) =>
    (x \in DOMAIN u <=> x \in DOMAIN t) /\ (x \in DOMAIN t => u[x] = t[x])

\* The places of the moves out of the home of root, and the directories there are above.
From(i) == M!Moves[i].from
To(i) == M!Moves[i].to
Outs == 2..6
Zone == <<"db", "timezone">>
OldInstaller == <<"root", "Library", "Installer">>
KnownDirs == {<<"root">>, M!OldLibrary, <<"db">>, Zone, <<"mobile">>, <<"preferences">>}

\* Where a move out, and the move of the Library, put what was at p.
Out(i, p) == M!Renamed(From(i), To(i), p)
Lib(p) == M!Renamed(M!OldLibrary, M!NewLibrary, p)

\* A path is at or below another one: it begins with the other one's names.
LEMMA PrefixAt ==
  ASSUME NEW p \in Path, NEW q \in Path
  PROVE  M!IsPrefix(p, q) <=> Len(p) <= Len(q) /\ \A i \in 1..Len(p) : p[i] = q[i]
<1>0. Len(p) \in Nat /\ Len(q) \in Nat
  BY LenProperties DEF Path
<1>1. SubSeq(p, 1, Len(p)) = p
  BY SubSeqFull DEF Path
<1>2. ASSUME Len(p) <= Len(q)
      PROVE  SubSeq(q, 1, Len(p)) = p <=> \A i \in 1..Len(p) : p[i] = q[i]
  <2>1. \A i \in 1..Len(p) : q[i] \in FileNames
    BY <1>0, <1>2, ElementOfSeq DEF Path
  <2>2. /\ SubSeq(q, 1, Len(p)) \in Seq(FileNames)
        /\ Len(SubSeq(q, 1, Len(p))) = IF 1 <= Len(p) THEN Len(p) - 1 + 1 ELSE 0
        /\ \A i \in 1..(Len(p) - 1 + 1) : SubSeq(q, 1, Len(p))[i] = q[1 + i - 1]
    BY <2>1, <1>0, SubSeqProperties
  <2>3. \A i \in 1..Len(p) : SubSeq(q, 1, Len(p))[i] = q[i]
    BY <2>2, <1>0
  <2>4. Len(SubSeq(q, 1, Len(p))) = Len(p)
    BY <2>2, <1>0
  <2>5. ASSUME \A i \in 1..Len(p) : p[i] = q[i]
        PROVE  SubSeq(q, 1, Len(p)) = p
    BY <2>2, <2>3, <2>4, <2>5, SeqEqual DEF Path
  <2> QED BY <2>3, <2>5
<1> QED BY <1>0, <1>1, <1>2 DEF M!IsPrefix

\* A path is at itself.
LEMMA PrefixSelf == ASSUME NEW p \in Path PROVE M!IsPrefix(p, p)
BY PrefixAt, LenProperties DEF Path

\* What is below a place below another one is below that one.
LEMMA PrefixTrans ==
  ASSUME NEW p \in Path, NEW q \in Path, NEW r \in Path, M!IsPrefix(p, q), M!IsPrefix(q, r)
  PROVE  M!IsPrefix(p, r)
<1>0. Len(p) \in Nat /\ Len(q) \in Nat /\ Len(r) \in Nat
  BY LenProperties DEF Path
<1> QED BY <1>0, PrefixAt

\* Two paths that another goes through are not apart.
LEMMA ThroughBoth ==
  ASSUME NEW p \in Path, NEW q \in Path, NEW r \in Path, M!IsPrefix(p, r), M!IsPrefix(q, r)
  PROVE  ~Apart(p, q)
<1>0. Len(p) \in Nat /\ Len(q) \in Nat /\ Len(r) \in Nat
  BY LenProperties DEF Path
<1> QED BY <1>0, PrefixAt DEF Apart

\* A renamed path, name by name; renaming it back gives the path it was.
LEMMA RenamedAt ==
  ASSUME NEW p \in Path, NEW e \in Path, NEW q \in Path, M!IsPrefix(p, q)
  PROVE  /\ M!Renamed(p, e, q) \in Path
         /\ Len(M!Renamed(p, e, q)) = Len(e) + Len(q) - Len(p)
         /\ \A i \in 1..Len(e) : M!Renamed(p, e, q)[i] = e[i]
         /\ \A i \in (Len(p) + 1)..Len(q) : M!Renamed(p, e, q)[Len(e) - Len(p) + i] = q[i]
         /\ M!IsPrefix(e, M!Renamed(p, e, q))
         /\ M!Renamed(e, p, M!Renamed(p, e, q)) = q
<1> DEFINE t == SubSeq(q, Len(p) + 1, Len(q))
           r == e \o t
           u == SubSeq(r, Len(e) + 1, Len(r))
<1>0. Len(p) \in Nat /\ Len(q) \in Nat /\ Len(e) \in Nat /\ Len(p) <= Len(q)
  BY LenProperties, PrefixAt DEF Path
<1>1. \A i \in (Len(p) + 1)..Len(q) : q[i] \in FileNames
  BY <1>0, ElementOfSeq DEF Path
<1>14. Len(p) + 1 \in Int /\ Len(q) \in Int
  BY <1>0
<1>2. /\ t \in Seq(FileNames)
      /\ Len(t) = IF Len(p) + 1 <= Len(q) THEN Len(q) - (Len(p) + 1) + 1 ELSE 0
      /\ \A i \in 1..(Len(q) - (Len(p) + 1) + 1) : t[i] = q[Len(p) + 1 + i - 1]
  BY <1>0, <1>1, <1>14, SubSeqProperties
<1>3. Len(t) = Len(q) - Len(p) /\ \A i \in 1..Len(t) : t[i] = q[Len(p) + i]
  BY <1>0, <1>2
<1> HIDE DEF t
<1>4. /\ r \in Seq(FileNames) /\ Len(r) = Len(e) + Len(t)
      /\ \A i \in 1..Len(e) + Len(t) : r[i] = IF i <= Len(e) THEN e[i] ELSE t[i - Len(e)]
  BY <1>2, ConcatProperties DEF Path
<1> HIDE DEF r
<1>5. \A i \in 1..Len(e) : r[i] = e[i]
  BY <1>4, <1>3, <1>0
<1>6. \A i \in 1..Len(t) : r[Len(e) + i] = t[i]
  <2> SUFFICES ASSUME NEW i \in 1..Len(t) PROVE r[Len(e) + i] = t[i]
    OBVIOUS
  <2>1. /\ Len(e) + i \in 1..Len(e) + Len(t) /\ ~(Len(e) + i <= Len(e))
        /\ (Len(e) + i) - Len(e) = i
    BY <1>0, <1>3
  <2> QED BY <2>1, <1>4
<1>7. \A i \in (Len(p) + 1)..Len(q) : r[Len(e) - Len(p) + i] = q[i]
  <2> SUFFICES ASSUME NEW i \in (Len(p) + 1)..Len(q) PROVE r[Len(e) - Len(p) + i] = q[i]
    OBVIOUS
  <2> DEFINE k == i - Len(p)
  <2>1. k \in 1..Len(t) /\ Len(e) + k = Len(e) - Len(p) + i /\ Len(p) + k = i
    BY <1>0, <1>3
  <2> HIDE DEF k
  <2> QED BY <2>1, <1>6, <1>3
<1>8. M!IsPrefix(e, r)
  BY <1>4, <1>5, <1>0, <1>3, PrefixAt DEF Path
<1>9. u = t
  <2>0. Len(e) + 1 \in Int /\ Len(r) \in Int
    BY <1>0, <1>3, <1>4
  <2>1. \A i \in (Len(e) + 1)..Len(r) : r[i] \in FileNames
    BY <1>4, <1>0, <1>3, ElementOfSeq
  <2>2. /\ u \in Seq(FileNames)
        /\ Len(u) = IF Len(e) + 1 <= Len(r) THEN Len(r) - (Len(e) + 1) + 1 ELSE 0
        /\ \A i \in 1..(Len(r) - (Len(e) + 1) + 1) : u[i] = r[Len(e) + 1 + i - 1]
    BY <2>1, <2>0, SubSeqProperties
  <2> HIDE DEF u
  <2>3. Len(u) = Len(t) /\ \A i \in 1..Len(t) : u[i] = r[Len(e) + i]
    BY <2>2, <1>0, <1>3, <1>4
  <2> QED BY <2>2, <2>3, <1>6, <1>2, SeqEqual
<1>10. p \o t = q
  <2>1. /\ p \o t \in Seq(FileNames) /\ Len(p \o t) = Len(p) + Len(t)
        /\ \A i \in 1..Len(p) + Len(t) :
             (p \o t)[i] = IF i <= Len(p) THEN p[i] ELSE t[i - Len(p)]
    BY <1>2, ConcatProperties DEF Path
  <2>2. \A i \in 1..Len(p) : p[i] = q[i]
    BY PrefixAt
  <2>3. ASSUME NEW i \in 1..Len(q) PROVE (p \o t)[i] = q[i]
    <3>1. CASE i <= Len(p)
      BY <2>1, <2>2, <3>1, <1>0, <1>3
    <3>2. CASE ~(i <= Len(p))
      <4>1. /\ i - Len(p) \in 1..Len(t) /\ Len(p) + (i - Len(p)) = i
            /\ i \in 1..Len(p) + Len(t)
        BY <3>2, <1>0, <1>3
      <4> QED BY <4>1, <3>2, <2>1, <1>3
    <3> QED BY <3>1, <3>2
  <2>4. Len(p \o t) = Len(q)
    BY <2>1, <1>3, <1>0
  <2> QED BY <2>1, <2>3, <2>4, SeqEqual DEF Path
<1>11. M!Renamed(p, e, q) = r
  BY DEF M!Renamed, r, t
<1>12. M!Renamed(e, p, r) = p \o u
  BY DEF M!Renamed
<1>13. Len(r) = Len(e) + Len(q) - Len(p)
  BY <1>4, <1>3, <1>0
<1> QED BY <1>4, <1>5, <1>7, <1>8, <1>9, <1>10, <1>11, <1>12, <1>13 DEF Path

\* The first names of a path.
LEMMA CutAt ==
  ASSUME NEW q \in Path, NEW k \in 0..Len(q)
  PROVE  /\ SubSeq(q, 1, k) \in Path /\ Len(SubSeq(q, 1, k)) = k
         /\ \A i \in 1..k : SubSeq(q, 1, k)[i] = q[i]
         /\ M!IsPrefix(SubSeq(q, 1, k), q)
<1>0. Len(q) \in Nat /\ k \in Nat /\ k <= Len(q)
  BY LenProperties DEF Path
<1>1. \A i \in 1..k : q[i] \in FileNames
  BY <1>0, ElementOfSeq DEF Path
<1>2. /\ SubSeq(q, 1, k) \in Seq(FileNames)
      /\ Len(SubSeq(q, 1, k)) = IF 1 <= k THEN k - 1 + 1 ELSE 0
      /\ \A i \in 1..(k - 1 + 1) : SubSeq(q, 1, k)[i] = q[1 + i - 1]
  BY <1>0, <1>1, SubSeqProperties
<1>3. Len(SubSeq(q, 1, k)) = k /\ \A i \in 1..k : SubSeq(q, 1, k)[i] = q[i]
  BY <1>0, <1>2
<1> QED BY <1>0, <1>2, <1>3, PrefixAt DEF Path

\* A path above another one is that one's first names.
LEMMA PrefixIsCut ==
  ASSUME NEW p \in Path, NEW q \in Path, M!IsPrefix(p, q)
  PROVE  Len(p) \in 0..Len(q) /\ p = SubSeq(q, 1, Len(p)) /\ (Len(p) = Len(q) => p = q)
<1>0. Len(p) \in Nat /\ Len(q) \in Nat
  BY LenProperties DEF Path
<1>1. SubSeq(p, 1, Len(p)) = p /\ SubSeq(q, 1, Len(q)) = q
  BY SubSeqFull DEF Path
<1>2. Len(p) <= Len(q) /\ SubSeq(p, 1, Len(p)) = SubSeq(q, 1, Len(p))
  BY DEF M!IsPrefix
<1>3. Len(p) \in 0..Len(q)
  BY <1>0, <1>2
<1>4. p = SubSeq(q, 1, Len(p))
  BY <1>1, <1>2, Zenon
<1>5. ASSUME Len(p) = Len(q) PROVE p = q
  BY <1>1, <1>4, <1>5, Zenon
<1> QED BY <1>3, <1>4, <1>5

\* What a path of the tree goes through is there, and is a directory.
LEMMA TreeUp ==
  ASSUME NEW t, M!IsTree(t), NEW q \in DOMAIN t, NEW p \in Path, M!IsPrefix(p, q)
  PROVE  p \in DOMAIN t /\ (p # q => t[p] = "dir")
<1>1. q \in Path
  BY DEF M!IsTree, Path
<1>2. Len(p) \in 0..Len(q) /\ p = SubSeq(q, 1, Len(p)) /\ (Len(p) = Len(q) => p = q)
  BY <1>1, PrefixIsCut
<1>3. Len(q) \in Nat
  BY <1>1, LenProperties DEF Path
<1>4. CASE Len(p) = Len(q)
  BY <1>2, <1>4
<1>5. CASE Len(p) # Len(q)
  <2>1. Len(p) \in 0..(Len(q) - 1)
    BY <1>2, <1>3, <1>5
  <2> QED BY <2>1, <1>2 DEF M!IsTree
<1> QED BY <1>4, <1>5

\* What the moving of p to e leaves: what is below neither, and at e what was at p.
LEMMA MovedIs ==
  ASSUME NEW p \in Path, NEW e \in Path, M!IsTree(fs), NEW u, u = M!Moved(p, e)
  PROVE  /\ DOMAIN u \subseteq Path
         /\ \A x \in DOMAIN fs :
              ~M!IsPrefix(p, x) /\ ~M!IsPrefix(e, x) => x \in DOMAIN u /\ u[x] = fs[x]
         /\ \A x \in DOMAIN fs : M!IsPrefix(p, x) =>
              M!Renamed(p, e, x) \in DOMAIN u /\ u[M!Renamed(p, e, x)] = fs[x]
         /\ \A x \in DOMAIN u :
              \/ x \in DOMAIN fs /\ ~M!IsPrefix(p, x) /\ ~M!IsPrefix(e, x) /\ u[x] = fs[x]
              \/ /\ M!IsPrefix(e, x) /\ M!Renamed(e, p, x) \in DOMAIN fs
                 /\ M!IsPrefix(p, M!Renamed(e, p, x)) /\ u[x] = fs[M!Renamed(e, p, x)]
<1> DEFINE came == {M!Renamed(p, e, q) : q \in M!Below(p)}
           stay == {q \in DOMAIN fs : ~M!IsPrefix(p, q) /\ ~M!IsPrefix(e, q)}
<1>1. DOMAIN fs \subseteq Path
  BY DEF M!IsTree, Path
<1>2. u = [r \in came \cup stay |-> IF r \in came THEN fs[M!Renamed(e, p, r)] ELSE fs[r]]
  BY DEF M!Moved
<1>3. \A x \in DOMAIN fs : M!IsPrefix(p, x) => x \in M!Below(p)
  BY DEF M!Below
<1>4. \A x \in M!Below(p) : x \in DOMAIN fs /\ M!IsPrefix(p, x)
  BY DEF M!Below
<1>5. \A x \in M!Below(p) :
        /\ M!Renamed(p, e, x) \in Path /\ M!IsPrefix(e, M!Renamed(p, e, x))
                          /\ M!Renamed(e, p, M!Renamed(p, e, x)) = x
  BY <1>1, <1>4, RenamedAt
<1>6. \A y \in came : /\ y \in Path /\ M!IsPrefix(e, y) /\ M!Renamed(e, p, y) \in M!Below(p)
  BY <1>5
<1> HIDE DEF came
<1>7. \A x \in stay :
        x \in DOMAIN fs /\ ~M!IsPrefix(p, x) /\ ~M!IsPrefix(e, x) /\ x \notin came
  BY <1>6
<1>8. DOMAIN u = came \cup stay
  BY <1>2
<1>9. \A x \in came : u[x] = fs[M!Renamed(e, p, x)]
  BY <1>2
<1>10. \A x \in stay : u[x] = fs[x]
  BY <1>2, <1>7
<1>11. \A x \in M!Below(p) : M!Renamed(p, e, x) \in came
  BY DEF came
<1>a. DOMAIN u \subseteq Path
  BY <1>1, <1>6, <1>7, <1>8
<1>b. \A x \in DOMAIN fs :
        ~M!IsPrefix(p, x) /\ ~M!IsPrefix(e, x) => x \in DOMAIN u /\ u[x] = fs[x]
  BY <1>8, <1>10
<1>c. \A x \in DOMAIN fs : M!IsPrefix(p, x) =>
              M!Renamed(p, e, x) \in DOMAIN u /\ u[M!Renamed(p, e, x)] = fs[x]
  BY <1>3, <1>5, <1>8, <1>9, <1>11
<1>e. \A x \in DOMAIN u :
              \/ x \in DOMAIN fs /\ ~M!IsPrefix(p, x) /\ ~M!IsPrefix(e, x) /\ u[x] = fs[x]
              \/ /\ M!IsPrefix(e, x) /\ M!Renamed(e, p, x) \in DOMAIN fs
                 /\ M!IsPrefix(p, M!Renamed(e, p, x)) /\ u[x] = fs[M!Renamed(e, p, x)]
  BY <1>4, <1>6, <1>7, <1>8, <1>9, <1>10
<1> QED BY <1>a, <1>b, <1>c, <1>e

\* Cutting a renamed path below e cuts the path it was.
LEMMA CutRenamed ==
  ASSUME NEW p \in Path, NEW e \in Path, NEW x \in Path, M!IsPrefix(e, x),
         NEW k \in Len(e)..Len(x)
  PROVE  /\ k - Len(e) + Len(p) \in 0..Len(M!Renamed(e, p, x))
         /\ M!IsPrefix(e, SubSeq(x, 1, k))
         /\ M!Renamed(e, p, SubSeq(x, 1, k)) =
              SubSeq(M!Renamed(e, p, x), 1, k - Len(e) + Len(p))
<1> DEFINE y == M!Renamed(e, p, x)
           c == SubSeq(x, 1, k)
           z == M!Renamed(e, p, c)
           m == k - Len(e) + Len(p)
<1>0. Len(p) \in Nat /\ Len(e) \in Nat /\ Len(x) \in Nat /\ k \in 0..Len(x) /\ Len(e) <= k
  BY LenProperties DEF Path
<1>1. c \in Path /\ Len(c) = k /\ \A i \in 1..k : c[i] = x[i]
  BY <1>0, CutAt
<1> HIDE DEF c
<1>2. M!IsPrefix(e, c)
  <2>1. \A i \in 1..Len(e) : e[i] = x[i]
    BY PrefixAt
  <2> QED BY <2>1, <1>0, <1>1, PrefixAt
<1>3. /\ z \in Path /\ Len(z) = Len(p) + Len(c) - Len(e)
      /\ \A i \in 1..Len(p) : z[i] = p[i]
      /\ \A i \in (Len(e) + 1)..Len(c) : z[Len(p) - Len(e) + i] = c[i]
  BY <1>1, <1>2, RenamedAt
<1>4. /\ y \in Path /\ Len(y) = Len(p) + Len(x) - Len(e)
      /\ \A i \in 1..Len(p) : y[i] = p[i]
      /\ \A i \in (Len(e) + 1)..Len(x) : y[Len(p) - Len(e) + i] = x[i]
  BY RenamedAt
<1> HIDE DEF y, z
<1>5. m \in 0..Len(y) /\ Len(z) = m
  BY <1>0, <1>1, <1>3, <1>4
<1>6. /\ SubSeq(y, 1, m) \in Path /\ Len(SubSeq(y, 1, m)) = m
      /\ \A i \in 1..m : SubSeq(y, 1, m)[i] = y[i]
  BY <1>4, <1>5, CutAt
<1>7. ASSUME NEW i \in 1..m PROVE z[i] = y[i]
  <2>1. CASE i <= Len(p)
    BY <2>1, <1>3, <1>4, <1>0
  <2>2. CASE ~(i <= Len(p))
    <3> DEFINE j == i - Len(p) + Len(e)
    <3>1. /\ j \in (Len(e) + 1)..Len(c) /\ j \in (Len(e) + 1)..Len(x) /\ j \in 1..k
          /\ Len(p) - Len(e) + j = i
      BY <2>2, <1>0, <1>1
    <3> HIDE DEF j
    <3> QED BY <3>1, <1>1, <1>3, <1>4
  <2> QED BY <2>1, <2>2
<1>8. z = SubSeq(y, 1, m)
  BY <1>3, <1>5, <1>6, <1>7, SeqEqual DEF Path
<1> QED BY <1>2, <1>5, <1>8 DEF c, y, z

\* A tree stays one when a subtree of it moves.
LEMMA MovedTree ==
  ASSUME NEW p \in Path, NEW e \in Path, e # <<>>, M!IsTree(fs), M!CanMove(p, e)
  PROVE  M!IsTree(M!Moved(p, e))
<1> DEFINE u == M!Moved(p, e)
<1>1. /\ DOMAIN u \subseteq Path
      /\ \A x \in DOMAIN fs :
           ~M!IsPrefix(p, x) /\ ~M!IsPrefix(e, x) => x \in DOMAIN u /\ u[x] = fs[x]
      /\ \A x \in DOMAIN fs : M!IsPrefix(p, x) =>
              M!Renamed(p, e, x) \in DOMAIN u /\ u[M!Renamed(p, e, x)] = fs[x]
      /\ \A x \in DOMAIN u :
              \/ x \in DOMAIN fs /\ ~M!IsPrefix(p, x) /\ ~M!IsPrefix(e, x) /\ u[x] = fs[x]
              \/ /\ M!IsPrefix(e, x) /\ M!Renamed(e, p, x) \in DOMAIN fs
                 /\ M!IsPrefix(p, M!Renamed(e, p, x)) /\ u[x] = fs[M!Renamed(e, p, x)]
  BY MovedIs
<1> HIDE DEF u
<1>2. \A x \in DOMAIN fs : x \in Path
  BY DEF M!IsTree, Path
<1>3. /\ SubSeq(e, 1, Len(e) - 1) \in DOMAIN fs
      /\ fs[SubSeq(e, 1, Len(e) - 1)] = "dir" /\ ~M!IsPrefix(p, e)
  BY DEF M!CanMove, M!IsDir, M!Exists, M!Front
<1>4. Len(e) \in Nat \ {0}
  BY EmptySeq DEF Path
<1> SUFFICES ASSUME NEW x \in DOMAIN u, NEW k \in 0..(Len(x) - 1)
             PROVE  SubSeq(x, 1, k) \in DOMAIN u /\ u[SubSeq(x, 1, k)] = "dir"
  BY <1>1 DEF M!IsTree, Path, u
<1> DEFINE c == SubSeq(x, 1, k)
<1>5. x \in Path /\ Len(x) \in Nat /\ k \in 0..Len(x)
  BY <1>1, LenProperties DEF Path
<1>6. c \in Path /\ Len(c) = k /\ M!IsPrefix(c, x) /\ \A i \in 1..k : c[i] = x[i]
  BY <1>5, CutAt
<1>7. CASE x \in DOMAIN fs /\ ~M!IsPrefix(p, x) /\ ~M!IsPrefix(e, x) /\ u[x] = fs[x]
  <2>1. c \in DOMAIN fs /\ fs[c] = "dir"
    BY <1>7 DEF M!IsTree
  <2>2. ~M!IsPrefix(p, c) /\ ~M!IsPrefix(e, c)
    BY <1>5, <1>6, <1>7, PrefixTrans
  <2> QED BY <2>1, <2>2, <1>1
<1>8. CASE /\ M!IsPrefix(e, x) /\ M!Renamed(e, p, x) \in DOMAIN fs
           /\ M!IsPrefix(p, M!Renamed(e, p, x)) /\ u[x] = fs[M!Renamed(e, p, x)]
  <2> DEFINE y == M!Renamed(e, p, x)
  <2>1. CASE Len(e) <= k
    <3>1. k \in Len(e)..Len(x)
      BY <2>1, <1>4, <1>5
    <3> DEFINE m == k - Len(e) + Len(p)
    <3>2. m \in 0..Len(y) /\ M!IsPrefix(e, c) /\ M!Renamed(e, p, c) = SubSeq(y, 1, m)
      BY <3>1, <1>5, <1>8, CutRenamed
    <3>3. Len(y) = Len(p) + Len(x) - Len(e) /\ Len(p) \in Nat
      BY <1>5, <1>8, RenamedAt, LenProperties DEF Path
    <3>4. m \in 0..(Len(y) - 1)
      BY <3>2, <3>3, <1>4, <1>5
    <3> HIDE DEF m, y
    <3>5. SubSeq(y, 1, m) \in DOMAIN fs /\ fs[SubSeq(y, 1, m)] = "dir"
      BY <3>4, <1>8 DEF M!IsTree, y
    <3>6. M!IsPrefix(p, M!Renamed(e, p, c)) /\ M!Renamed(p, e, M!Renamed(e, p, c)) = c
      BY <3>2, <1>6, RenamedAt
    <3> QED BY <3>2, <3>5, <3>6, <1>1
  <2>2. CASE ~(Len(e) <= k)
    <3>1. k \in 0..(Len(e) - 1) /\ k \in 0..Len(e) /\ Len(e) - 1 \in 0..Len(e)
      BY <2>2, <1>4, <1>5
    <3>2. \A i \in 1..Len(e) : x[i] = e[i]
      BY <1>5, <1>8, PrefixAt
    <3>3. SubSeq(e, 1, k) \in Path /\ Len(SubSeq(e, 1, k)) = k
          /\ (\A i \in 1..k : SubSeq(e, 1, k)[i] = e[i]) /\ M!IsPrefix(SubSeq(e, 1, k), e)
      BY <3>1, CutAt
    <3>4. c = SubSeq(e, 1, k)
      <4>1. \A i \in 1..k : c[i] = SubSeq(e, 1, k)[i]
        BY <3>1, <3>2, <3>3, <1>6, <1>4
      <4> HIDE DEF c
      <4> QED BY <4>1, <3>3, <1>6, SeqEqual DEF Path
    <3> DEFINE f == SubSeq(e, 1, Len(e) - 1)
    <3>5. f \in Path /\ Len(f) = Len(e) - 1 /\ (\A i \in 1..(Len(e) - 1) : f[i] = e[i])
            /\ M!IsPrefix(f, e)
      BY <3>1, CutAt
    <3> HIDE DEF c
    <3>6. c \in DOMAIN fs /\ fs[c] = "dir"
      <4>2. f \in DOMAIN fs /\ fs[f] = "dir"
        BY <1>3
      <4> HIDE DEF f
      <4>3. \A i \in 1..Len(c) : c[i] = f[i]
        BY <3>1, <3>3, <3>4, <3>5, <1>4, <1>6
      <4>1. M!IsPrefix(c, f)
        <5>1. Len(c) <= Len(f)
          BY <3>1, <3>5, <1>4, <1>6
        <5>2. c \in Path /\ f \in Path
          BY <1>6, <3>5
        <5> QED BY <4>3, <5>1, <5>2, PrefixAt
      <4> QED BY <4>1, <4>2, <1>6, TreeUp
    <3>7. ~M!IsPrefix(p, c)
      BY <3>3, <3>4, <1>3, PrefixTrans
    <3>8. ~M!IsPrefix(e, c)
      BY <1>6, <2>2, PrefixAt
    <3> QED BY <3>6, <3>7, <3>8, <1>1 DEF c
  <2> QED BY <2>1, <2>2
<1> QED BY <1>1, <1>7, <1>8

\* mv to a free place takes everything along or does nothing, and does it if it can; all
\* else stays.
LEMMA MvGives ==
  ASSUME NEW p \in Path, NEW q \in Path, p # <<>>, q # <<>>, Apart(p, q),
         M!IsTree(fs), Free(p, q), NEW u, u = M!MvEffect(p, q)
  PROVE  /\ M!IsTree(u) /\ Stays(fs, u, p) /\ Same(fs, u, p, q)
         /\ u = fs \/ (~Bare(fs, p) /\ Bare(u, p) /\ Goes(fs, u, p, q))
         /\ M!Exists(p) /\ ~M!Exists(q) /\ M!IsDir(M!Front(q))
              => Bare(u, p) /\ Goes(fs, u, p, q)
<1> DEFINE e == M!Target(p, q)
<1>1. e \in Path /\ e # <<>> /\ M!IsPrefix(q, e) /\ (q \notin DOMAIN fs => e = q)
  <2>1. CASE M!IsDir(q)
    <3>1. Len(p) \in Nat \ {0}
      BY EmptySeq DEF Path
    <3>2. M!Last(p) \in FileNames
      BY <3>1, ElementOfSeq DEF M!Last, Path
    <3>3. /\ e \in Path /\ e # <<>> /\ Len(e) = Len(q) + 1
               /\ \A i \in 1..Len(q) : e[i] = q[i]
      BY <2>1, <3>2, AppendProperties DEF M!Target, Path
    <3>4. Len(q) \in Nat
      BY LenProperties DEF Path
    <3> HIDE DEF e
    <3> QED BY <3>3, <3>4, <2>1, PrefixAt DEF M!IsDir, M!Exists
  <2>2. CASE ~M!IsDir(q)
    BY <2>2, PrefixSelf DEF M!Target
  <2> QED BY <2>1, <2>2
<1>2. u = IF M!CanMove(p, e) THEN M!Moved(p, e) ELSE fs
  BY DEF M!MvEffect
<1>3. \A x \in DOMAIN fs : x \in Path
  BY DEF M!IsTree, Path
<1>4. CASE ~M!CanMove(p, e)
  <2>1. u = fs
    BY <1>2, <1>4
  <2>2. ASSUME M!Exists(p), ~M!Exists(q), M!IsDir(M!Front(q)) PROVE FALSE
    <3>1. e = q
      BY <1>1, <2>2 DEF M!Exists
    <3> QED BY <3>1, <2>2, <1>4 DEF M!CanMove, Apart
  <2> QED BY <2>1, <2>2 DEF Stays, Same
<1>5. CASE M!CanMove(p, e)
  <2> HIDE DEF e
  <2>1. u = M!Moved(p, e)
    BY <1>2, <1>5
  <2>2. /\ DOMAIN u \subseteq Path
        /\ \A x \in DOMAIN fs :
             ~M!IsPrefix(p, x) /\ ~M!IsPrefix(e, x) => x \in DOMAIN u /\ u[x] = fs[x]
        /\ \A x \in DOMAIN fs : M!IsPrefix(p, x) =>
              M!Renamed(p, e, x) \in DOMAIN u /\ u[M!Renamed(p, e, x)] = fs[x]
        /\ \A x \in DOMAIN u :
              \/ x \in DOMAIN fs /\ ~M!IsPrefix(p, x) /\ ~M!IsPrefix(e, x) /\ u[x] = fs[x]
              \/ /\ M!IsPrefix(e, x) /\ M!Renamed(e, p, x) \in DOMAIN fs
                 /\ M!IsPrefix(p, M!Renamed(e, p, x)) /\ u[x] = fs[M!Renamed(e, p, x)]
    BY <2>1, <1>1, MovedIs
  <2>3. p \in DOMAIN fs /\ ~M!IsPrefix(p, e)
    BY <1>5 DEF M!CanMove, M!Exists
  <2>4. Apart(p, e)
    BY <2>3, <1>1, PrefixTrans DEF Apart
  <2>5. \A x \in DOMAIN fs : M!IsPrefix(e, x) => fs[x] = "dir"
    <3> SUFFICES ASSUME NEW x \in DOMAIN fs, M!IsPrefix(e, x) PROVE fs[x] = "dir"
      OBVIOUS
    <3>1. e \in DOMAIN fs
      BY <1>1, TreeUp
    <3>2. q \in DOMAIN fs
      BY <3>1, <1>1
    <3>3. fs[p] = "dir"
      BY <3>2, <2>3, PrefixSelf DEF Free
    <3>4. M!Below(e) = {e} /\ fs[e] = "dir"
      BY <3>1, <3>3, <1>5 DEF M!CanMove, M!Exists, M!IsDir
    <3>5. x \in M!Below(e)
      BY DEF M!Below
    <3> QED BY <3>4, <3>5
  <2>6. Stays(fs, u, p)
    BY <2>2, <2>5 DEF Stays
  <2>7. Goes(fs, u, p, q)
    <3> SUFFICES ASSUME NEW x \in DOMAIN fs, fs[x] # "dir", M!IsPrefix(p, x)
                 PROVE  M!Renamed(p, q, x) \in DOMAIN u /\ u[M!Renamed(p, q, x)] = fs[x]
      BY DEF Goes
    <3>1. e = q
      BY <1>1 DEF Free
    <3> QED BY <3>1, <2>2
  <2>8. Same(fs, u, p, q)
    <3> SUFFICES ASSUME NEW x \in Path, ~M!IsPrefix(p, x), ~M!IsPrefix(q, x)
                 PROVE  /\ (x \in DOMAIN u <=> x \in DOMAIN fs)
                        /\ (x \in DOMAIN fs => u[x] = fs[x])
      BY DEF Same
    <3>1. ~M!IsPrefix(e, x)
      BY <1>1, PrefixTrans
    <3> QED BY <3>1, <2>2
  <2>9. Bare(u, p)
    <3> SUFFICES ASSUME NEW x \in DOMAIN u, M!IsPrefix(p, x) PROVE FALSE
      BY DEF Bare
    <3>1. M!IsPrefix(e, x) /\ x \in Path
      BY <2>2
    <3> QED BY <3>1, <2>4, <1>1, ThroughBoth
  <2>10. ~Bare(fs, p)
    BY <2>3, PrefixSelf DEF Bare
  <2>11. M!IsTree(u)
    BY <2>1, <1>1, <1>5, MovedTree
  <2> QED BY <2>6, <2>7, <2>8, <2>9, <2>10, <2>11
<1> QED BY <1>4, <1>5

\* Moved to a free name, below it is what was below the old one.
LEMMA MvFrom ==
  ASSUME NEW p \in Path, NEW q \in Path, M!IsTree(fs), ~M!Exists(q), NEW u,
         u = M!MvEffect(p, q)
  PROVE  \A x \in DOMAIN u : \/ x \in DOMAIN fs
                             \/ /\ M!IsPrefix(q, x) /\ M!Renamed(q, p, x) \in DOMAIN fs
                                /\ M!IsPrefix(p, M!Renamed(q, p, x)) /\ M!Exists(p)
<1>1. u = IF M!CanMove(p, q) THEN M!Moved(p, q) ELSE fs
  BY DEF M!MvEffect, M!Target, M!IsDir
<1>2. CASE M!CanMove(p, q)
  BY <1>1, <1>2, MovedIs DEF M!CanMove
<1> QED BY <1>1, <1>2

\* rm -rf: nothing is left of that place, all else stays.
LEMMA RmGives ==
  ASSUME NEW p \in Path, M!IsTree(fs), NEW u, u = M!Without(fs, p)
  PROVE  /\ M!IsTree(u) /\ Stays(fs, u, p) /\ Bare(u, p) /\ Same(fs, u, p, p)
<1>1. /\ DOMAIN u = {r \in DOMAIN fs : ~M!IsPrefix(p, r)}
      /\ \A x \in DOMAIN u : u[x] = fs[x]
  BY DEF M!Without
<1>2. \A x \in DOMAIN fs : x \in Path
  BY DEF M!IsTree, Path
<1>3. M!IsTree(u)
  <2> SUFFICES ASSUME NEW x \in DOMAIN u, NEW k \in 0..(Len(x) - 1)
               PROVE  SubSeq(x, 1, k) \in DOMAIN u /\ u[SubSeq(x, 1, k)] = "dir"
    BY <1>1, <1>2 DEF M!IsTree, Path
  <2>1. x \in DOMAIN fs /\ x \in Path /\ k \in 0..Len(x)
    BY <1>1, <1>2, LenProperties DEF Path
  <2>2. SubSeq(x, 1, k) \in DOMAIN fs /\ fs[SubSeq(x, 1, k)] = "dir"
    BY <2>1 DEF M!IsTree
  <2>3. SubSeq(x, 1, k) \in Path /\ M!IsPrefix(SubSeq(x, 1, k), x)
    BY <2>1, CutAt
  <2>4. ~M!IsPrefix(p, SubSeq(x, 1, k))
    BY <2>1, <2>3, <1>1, PrefixTrans
  <2> QED BY <2>2, <2>4, <1>1
<1> QED BY <1>1, <1>2, <1>3 DEF Stays, Bare, Same

\* Making a directory whose parent is one: the tree gets that directory.
LEMMA WithDir ==
  ASSUME NEW p \in Path, p # <<>>, NEW t, M!IsTree(t), M!Front(p) \in DOMAIN t,
         t[M!Front(p)] = "dir",
         NEW u, DOMAIN u = DOMAIN t \cup {p}, \A x \in DOMAIN t : u[x] = t[x]
  PROVE  M!IsTree(u)
<1>1. Len(p) \in Nat \ {0}
  BY EmptySeq DEF Path
<1>2. /\ M!Front(p) = SubSeq(p, 1, Len(p) - 1) /\ M!Front(p) \in Path
      /\ Len(M!Front(p)) = Len(p) - 1
  BY <1>1, Len(p) - 1 \in 0..Len(p), CutAt DEF M!Front
<1>3. ASSUME NEW k \in 0..(Len(p) - 1)
      PROVE  SubSeq(p, 1, k) \in DOMAIN u /\ u[SubSeq(p, 1, k)] = "dir"
  <2>1. k \in 0..Len(p) /\ Len(p) - 1 \in 0..Len(p)
    BY <1>1
  <2>2. /\ SubSeq(p, 1, k) \in Path /\ Len(SubSeq(p, 1, k)) = k
        /\ \A i \in 1..k : SubSeq(p, 1, k)[i] = p[i]
    BY <2>1, CutAt
  <2>3. \A i \in 1..(Len(p) - 1) : M!Front(p)[i] = p[i]
    BY <2>1, CutAt, <1>2
  <2>4. M!IsPrefix(SubSeq(p, 1, k), M!Front(p))
    <3> DEFINE c == SubSeq(p, 1, k)
               f == M!Front(p)
    <3>1. c \in Path /\ Len(c) = k /\ (\A i \in 1..k : c[i] = p[i])
      BY <2>2
    <3>2. f \in Path /\ Len(f) = Len(p) - 1 /\ (\A i \in 1..(Len(p) - 1) : f[i] = p[i])
      BY <1>2, <2>3
    <3> HIDE DEF c, f
    <3>3. Len(c) <= Len(f) /\ \A i \in 1..Len(c) : c[i] = f[i]
      BY <3>1, <3>2, <1>1
    <3>4. M!IsPrefix(c, f)
      BY <3>1, <3>2, <3>3, PrefixAt
    <3> QED BY <3>4 DEF c, f
  <2>5. SubSeq(p, 1, k) \in DOMAIN t /\ t[SubSeq(p, 1, k)] = "dir"
    BY <2>2, <2>4, TreeUp
  <2> QED BY <2>5
<1>4. ASSUME NEW x \in DOMAIN t, NEW k \in 0..(Len(x) - 1)
      PROVE  SubSeq(x, 1, k) \in DOMAIN u /\ u[SubSeq(x, 1, k)] = "dir"
  BY DEF M!IsTree
<1>5. DOMAIN u \subseteq Seq(FileNames)
  BY DEF M!IsTree, Path
<1> QED BY <1>3, <1>4, <1>5 DEF M!IsTree

\* mkdir: one directory more, or nothing.
LEMMA MkdirGives ==
  ASSUME NEW p \in Path, p # <<>>, M!IsTree(fs), NEW u, u = M!MkdirEffect(p)
  PROVE  /\ M!IsTree(u) /\ DOMAIN fs \subseteq DOMAIN u
         /\ \A x \in DOMAIN fs : u[x] = fs[x]
         /\ \A x \in DOMAIN u \ DOMAIN fs : x = p /\ u[x] = "dir"
         /\ M!IsDir(M!Front(p)) => p \in DOMAIN u
<1>1. CASE M!Exists(p) \/ ~M!IsDir(M!Front(p))
  <2>1. u = fs
    BY <1>1 DEF M!MkdirEffect
  <2> QED BY <2>1, <1>1 DEF M!Exists
<1>2. CASE ~(M!Exists(p) \/ ~M!IsDir(M!Front(p)))
  <2>1. u = [q \in DOMAIN fs \cup {p} |-> IF q = p THEN "dir" ELSE fs[q]]
    BY <1>2 DEF M!MkdirEffect
  <2>2. /\ DOMAIN u = DOMAIN fs \cup {p} /\ u[p] = "dir" /\ p \notin DOMAIN fs
        /\ \A x \in DOMAIN fs : u[x] = fs[x]
    BY <2>1, <1>2 DEF M!Exists
  <2>3. M!IsTree(u)
    BY <2>2, <1>2, WithDir DEF M!IsDir, M!Exists
  <2> QED BY <2>2, <2>3
<1> QED BY <1>1, <1>2

\* The directory that a path is in.
LEMMA FrontIs ==
  ASSUME NEW p \in Path, NEW f \in Path, Len(p) = Len(f) + 1,
         \A i \in 1..Len(f) : p[i] = f[i]
  PROVE  M!Front(p) = f
<1>0. Len(f) \in 0..Len(p) /\ Len(p) - 1 = Len(f)
  BY LenProperties DEF Path
<1>1. /\ SubSeq(p, 1, Len(f)) \in Path /\ Len(SubSeq(p, 1, Len(f))) = Len(f)
      /\ \A i \in 1..Len(f) : SubSeq(p, 1, Len(f))[i] = f[i]
  BY <1>0, CutAt
<1>2. SubSeq(p, 1, Len(f)) = f
  BY <1>1, SeqEqual DEF Path
<1> QED BY <1>0, <1>2 DEF M!Front

\* Paths that differ in one name are apart.
LEMMA Differ ==
  ASSUME NEW p \in Path, NEW q \in Path, NEW k \in 1..Len(p), k \in 1..Len(q), p[k] # q[k]
  PROVE  Apart(p, q)
<1>0. Len(p) \in Nat /\ Len(q) \in Nat
  BY LenProperties DEF Path
<1> QED BY <1>0, PrefixAt DEF Apart

-----------------------------------------------------------------------------
(***************************************************************************)
(* The places of the script, and that they are apart from each other:      *)
(* no command disturbs what another one has moved.                         *)
(***************************************************************************)
\* The commands that both scripts have, one by one.
LEMMA MovesAre ==
  /\ Len(M!Moves) = 10
  /\ M!Moves[1] = M!Mkdir(Zone)
  /\ M!Moves[2] = M!Mv(<<"db", "localtime">>, <<"db", "timezone", "localtime">>)
  /\ M!Moves[3] = M!Mv(<<"root", "Library", "Keychains">>, <<"Keychains">>)
  /\ M!Moves[4] = M!Mv(<<"root", "Library", "Preferences", "SystemConfiguration">>,
                   <<"preferences", "SystemConfiguration">>)
  /\ M!Moves[5] = M!Mv(<<"root", "Library", "Preferences", "csidata">>,
                        <<"preferences", "csidata">>)
  /\ M!Moves[6] = M!Mv(<<"root", "Media">>, <<"mobile", "Media">>)
  /\ M!Moves[7] = M!Rm(M!NewLibrary) /\ M!Moves[8] = M!Mv(M!OldLibrary, M!NewLibrary)
  /\ M!Moves[9] = M!Mkdir(M!OldLibrary) /\ M!Moves[10] = M!Lockdown
BY DEF M!Moves, M!Outwards, Zone

\* The application's script has one command more than the shell's.
LEMMA ScriptIs ==
  ASSUME NEW s \in {"app", "shell"}
  PROVE  /\ Len(M!Script(s)) = IF s = "app" THEN 11 ELSE 10
         /\ \A i \in 1..10 : M!Script(s)[i] = M!Moves[i]
         /\ s = "app" => M!Script(s)[11] = M!Rm(M!Installer)
BY DEF M!Moves, M!Outwards, M!Script

\* Where the moves out of the home of root go.
LEMMA FromTo ==
  /\ From(2) = <<"db", "localtime">> /\ To(2) = <<"db", "timezone", "localtime">>
  /\ From(3) = <<"root", "Library", "Keychains">> /\ To(3) = <<"Keychains">>
  /\ From(4) = <<"root", "Library", "Preferences", "SystemConfiguration">>
  /\ To(4) = <<"preferences", "SystemConfiguration">>
  /\ From(5) = <<"root", "Library", "Preferences", "csidata">>
  /\ To(5) = <<"preferences", "csidata">>
  /\ From(6) = <<"root", "Media">> /\ To(6) = <<"mobile", "Media">>
BY MovesAre DEF From, To, M!Mv

\* The places of the script, name by name.
LEMMA Elements ==
  /\ Len(From(2)) = 2 /\ From(2)[1] = "db" /\ From(2)[2] = "localtime"
  /\ Len(To(2)) = 3 /\ To(2)[1] = "db" /\ To(2)[2] = "timezone" /\ To(2)[3] = "localtime"
  /\ Len(From(3)) = 3 /\ From(3)[1] = "root" /\ From(3)[2] = "Library"
  /\ From(3)[3] = "Keychains"
  /\ Len(To(3)) = 1 /\ To(3)[1] = "Keychains"
  /\ Len(From(4)) = 4 /\ From(4)[1] = "root" /\ From(4)[2] = "Library"
  /\ From(4)[3] = "Preferences" /\ From(4)[4] = "SystemConfiguration"
  /\ Len(To(4)) = 2 /\ To(4)[1] = "preferences" /\ To(4)[2] = "SystemConfiguration"
  /\ Len(From(5)) = 4 /\ From(5)[1] = "root" /\ From(5)[2] = "Library"
  /\ From(5)[3] = "Preferences" /\ From(5)[4] = "csidata"
  /\ Len(To(5)) = 2 /\ To(5)[1] = "preferences" /\ To(5)[2] = "csidata"
  /\ Len(From(6)) = 2 /\ From(6)[1] = "root" /\ From(6)[2] = "Media"
  /\ Len(To(6)) = 2 /\ To(6)[1] = "mobile" /\ To(6)[2] = "Media"
  /\ Len(M!OldLibrary) = 2 /\ M!OldLibrary[1] = "root" /\ M!OldLibrary[2] = "Library"
  /\ Len(M!NewLibrary) = 2 /\ M!NewLibrary[1] = "mobile" /\ M!NewLibrary[2] = "Library"
  /\ Len(M!Lockdown.from) = 3 /\ M!Lockdown.from[1] = "mobile"
  /\ M!Lockdown.from[2] = "Library" /\ M!Lockdown.from[3] = "Lockdown"
  /\ Len(M!Lockdown.to) = 3 /\ M!Lockdown.to[1] = "root" /\ M!Lockdown.to[2] = "Library"
  /\ M!Lockdown.to[3] = "Lockdown"
  /\ Len(M!Installer) = 3 /\ M!Installer[1] = "mobile" /\ M!Installer[2] = "Library"
  /\ M!Installer[3] = "Installer"
  /\ Len(OldInstaller) = 3 /\ OldInstaller[1] = "root" /\ OldInstaller[2] = "Library"
  /\ OldInstaller[3] = "Installer"
<1>1. Len(From(2)) = 2 /\ From(2)[1] = "db" /\ From(2)[2] = "localtime"
  BY FromTo
<1>2. Len(To(2)) = 3 /\ To(2)[1] = "db" /\ To(2)[2] = "timezone" /\ To(2)[3] = "localtime"
  BY FromTo
<1>3. /\ Len(From(3)) = 3 /\ From(3)[1] = "root" /\ From(3)[2] = "Library"
      /\ From(3)[3] = "Keychains"
  BY FromTo
<1>4. Len(To(3)) = 1 /\ To(3)[1] = "Keychains"
  BY FromTo
<1>5. /\ Len(From(4)) = 4 /\ From(4)[1] = "root" /\ From(4)[2] = "Library"
      /\ From(4)[3] = "Preferences" /\ From(4)[4] = "SystemConfiguration"
  BY FromTo
<1>6. Len(To(4)) = 2 /\ To(4)[1] = "preferences" /\ To(4)[2] = "SystemConfiguration"
  BY FromTo
<1>7. /\ Len(From(5)) = 4 /\ From(5)[1] = "root" /\ From(5)[2] = "Library"
      /\ From(5)[3] = "Preferences" /\ From(5)[4] = "csidata"
  BY FromTo
<1>8. Len(To(5)) = 2 /\ To(5)[1] = "preferences" /\ To(5)[2] = "csidata"
  BY FromTo
<1>9. Len(From(6)) = 2 /\ From(6)[1] = "root" /\ From(6)[2] = "Media"
  BY FromTo
<1>10. Len(To(6)) = 2 /\ To(6)[1] = "mobile" /\ To(6)[2] = "Media"
  BY FromTo
<1>11. Len(M!OldLibrary) = 2 /\ M!OldLibrary[1] = "root" /\ M!OldLibrary[2] = "Library"
  BY  DEF M!OldLibrary
<1>12. Len(M!NewLibrary) = 2 /\ M!NewLibrary[1] = "mobile" /\ M!NewLibrary[2] = "Library"
  BY  DEF M!NewLibrary
<1>13. /\ Len(M!Lockdown.from) = 3 /\ M!Lockdown.from[1] = "mobile"
       /\ M!Lockdown.from[2] = "Library" /\ M!Lockdown.from[3] = "Lockdown"
  BY  DEF M!Lockdown, M!Mv
<1>14. /\ Len(M!Lockdown.to) = 3 /\ M!Lockdown.to[1] = "root"
       /\ M!Lockdown.to[2] = "Library" /\ M!Lockdown.to[3] = "Lockdown"
  BY  DEF M!Lockdown, M!Mv
<1>15. /\ Len(M!Installer) = 3 /\ M!Installer[1] = "mobile" /\ M!Installer[2] = "Library"
       /\ M!Installer[3] = "Installer"
  BY  DEF M!Installer
<1>16. /\ Len(OldInstaller) = 3 /\ OldInstaller[1] = "root" /\ OldInstaller[2] = "Library"
       /\ OldInstaller[3] = "Installer"
  BY  DEF OldInstaller
<1> QED
  BY <1>1, <1>2, <1>3, <1>4, <1>5, <1>6, <1>7, <1>8, <1>9, <1>10, <1>11, <1>12, <1>13,
     <1>14, <1>15, <1>16

\* The names that these places are made of are names of files.
LEMMA NamesAre ==
  /\ {"db", "timezone", "localtime", "root", "mobile"} \subseteq FileNames
  /\ {"Library", "Media", "Keychains", "Preferences", "preferences"} \subseteq FileNames
  /\ {"SystemConfiguration", "csidata", "Lockdown", "Installer"} \subseteq FileNames
<1>1. {"db", "timezone", "localtime", "root", "mobile", "Library", "Media", "Keychains",
      "Preferences", "preferences", "SystemConfiguration", "csidata", "Lockdown",
      "Installer"} \subseteq FileNames
  BY MigrationAssumed DEF M!MigrationAssumption
<1>2. {"db", "timezone", "localtime", "root", "mobile"} \subseteq FileNames
  BY <1>1
<1>3. {"Library", "Media", "Keychains", "Preferences", "preferences"} \subseteq FileNames
  BY <1>1
<1>4. {"SystemConfiguration", "csidata", "Lockdown", "Installer"} \subseteq FileNames
  BY <1>1
<1> QED BY <1>2, <1>3, <1>4

\* The places of the script are paths, and none is the root.
LEMMA PathsAre ==
  /\ \A i \in Outs : From(i) \in Path /\ To(i) \in Path /\ From(i) # <<>> /\ To(i) # <<>>
  /\ M!OldLibrary \in Path /\ M!NewLibrary \in Path /\ M!Lockdown.from \in Path
  /\ M!Lockdown.to \in Path
  /\ M!Installer \in Path /\ OldInstaller \in Path
  /\ M!OldLibrary # <<>> /\ M!NewLibrary # <<>> /\ M!Lockdown.from # <<>>
  /\ M!Lockdown.to # <<>>
  /\ KnownDirs \subseteq Path /\ \A x \in KnownDirs : x # <<>>
<1>1. From(2) \in Path /\ To(2) \in Path /\ From(2) # <<>> /\ To(2) # <<>>
  <2>1. <<"db", "localtime">> \in Path /\ <<"db", "localtime">> # <<>>
    BY NamesAre DEF Path
  <2>2. /\ <<"db", "timezone", "localtime">> \in Path
        /\ <<"db", "timezone", "localtime">> # <<>>
    BY NamesAre DEF Path
  <2> QED BY <2>1, <2>2, FromTo, Zenon
<1>2. From(3) \in Path /\ To(3) \in Path /\ From(3) # <<>> /\ To(3) # <<>>
  <2>1. /\ <<"root", "Library", "Keychains">> \in Path
        /\ <<"root", "Library", "Keychains">> # <<>>
    BY NamesAre DEF Path
  <2>2. <<"Keychains">> \in Path /\ <<"Keychains">> # <<>>
    BY NamesAre DEF Path
  <2> QED BY <2>1, <2>2, FromTo, Zenon
<1>3. From(4) \in Path /\ To(4) \in Path /\ From(4) # <<>> /\ To(4) # <<>>
  <2>1. /\ <<"root", "Library", "Preferences", "SystemConfiguration">> \in Path
        /\ <<"root", "Library", "Preferences", "SystemConfiguration">> # <<>>
    BY NamesAre DEF Path
  <2>2. /\ <<"preferences", "SystemConfiguration">> \in Path
        /\ <<"preferences", "SystemConfiguration">> # <<>>
    BY NamesAre DEF Path
  <2> QED BY <2>1, <2>2, FromTo, Zenon
<1>4. From(5) \in Path /\ To(5) \in Path /\ From(5) # <<>> /\ To(5) # <<>>
  <2>1. /\ <<"root", "Library", "Preferences", "csidata">> \in Path
        /\ <<"root", "Library", "Preferences", "csidata">> # <<>>
    BY NamesAre DEF Path
  <2>2. <<"preferences", "csidata">> \in Path /\ <<"preferences", "csidata">> # <<>>
    BY NamesAre DEF Path
  <2> QED BY <2>1, <2>2, FromTo, Zenon
<1>5. From(6) \in Path /\ To(6) \in Path /\ From(6) # <<>> /\ To(6) # <<>>
  <2>1. <<"root", "Media">> \in Path /\ <<"root", "Media">> # <<>>
    BY NamesAre DEF Path
  <2>2. <<"mobile", "Media">> \in Path /\ <<"mobile", "Media">> # <<>>
    BY NamesAre DEF Path
  <2> QED BY <2>1, <2>2, FromTo, Zenon
<1>6. \A i \in Outs : From(i) \in Path /\ To(i) \in Path /\ From(i) # <<>> /\ To(i) # <<>>
  <2> SUFFICES ASSUME NEW i \in Outs
               PROVE  From(i) \in Path /\ To(i) \in Path /\ From(i) # <<>> /\ To(i) # <<>>
    OBVIOUS
  <2>1. i = 2 \/ i = 3 \/ i = 4 \/ i = 5 \/ i = 6
    BY DEF Outs
  <2> QED BY <2>1, <1>1, <1>2, <1>3, <1>4, <1>5, Zenon
<1>7. /\ M!OldLibrary \in Path /\ M!NewLibrary \in Path /\ M!OldLibrary # <<>>
      /\ M!NewLibrary # <<>>
  BY NamesAre DEF M!OldLibrary, M!NewLibrary, Path
<1>8. /\ M!Lockdown.from \in Path /\ M!Lockdown.to \in Path /\ M!Lockdown.from # <<>>
      /\ M!Lockdown.to # <<>>
  BY NamesAre DEF M!Lockdown, M!Mv, Path
<1>9. M!Installer \in Path /\ OldInstaller \in Path
  BY NamesAre DEF M!Installer, OldInstaller, Path
<1>10. KnownDirs \subseteq Path
  <2>1. Zone \in Path /\ <<"root">> \in Path /\ <<"db">> \in Path
    BY NamesAre DEF Zone, Path
  <2>2. <<"mobile">> \in Path /\ <<"preferences">> \in Path
    BY NamesAre DEF Path
  <2> QED BY <2>1, <2>2, <1>7 DEF KnownDirs
<1>11. \A x \in KnownDirs : x # <<>>
  BY DEF KnownDirs, Zone, M!OldLibrary
<1> QED BY <1>6, <1>7, <1>8, <1>9, <1>10, <1>11

\* The same for the first four names, which is what the places of the script have.
LEMMA Differs ==
  ASSUME NEW p \in Path, NEW q \in Path,
         \/ 1 <= Len(p) /\ 1 <= Len(q) /\ p[1] # q[1]
         \/ 2 <= Len(p) /\ 2 <= Len(q) /\ p[2] # q[2]
         \/ 3 <= Len(p) /\ 3 <= Len(q) /\ p[3] # q[3]
         \/ 4 <= Len(p) /\ 4 <= Len(q) /\ p[4] # q[4]
  PROVE  Apart(p, q)
<1>0. Len(p) \in Nat /\ Len(q) \in Nat
  BY LenProperties DEF Path
<1> QED BY <1>0, Differ

\* Below a place of two names: a path that begins with them.
LEMMA Begins ==
  ASSUME NEW p \in Path, NEW q \in Path, Len(p) = 2, 2 <= Len(q), p[1] = q[1], p[2] = q[2]
  PROVE  M!IsPrefix(p, q)
<1>1. \A i \in 1..Len(p) : p[i] = q[i]
  OBVIOUS
<1> QED BY <1>1, PrefixAt

\* A place is not below a longer one.
LEMMA Longer ==
  ASSUME NEW p \in Path, NEW q \in Path, Len(q) < Len(p)
  PROVE  ~M!IsPrefix(p, q)
<1>0. Len(p) \in Nat /\ Len(q) \in Nat
  BY LenProperties DEF Path
<1> QED BY <1>0, PrefixAt

\* What is not above a directory the script knows, seen from its names.
LEMMA NotAboveDirs ==
  ASSUME NEW p \in Path,
         \/ 3 <= Len(p)
         \/ Len(p) = 2 /\ (p[1] # "root" \/ p[2] # "Library")
              /\ (p[1] # "db" \/ p[2] # "timezone")
         \/ Len(p) = 1 /\ p[1] \notin {"root", "db", "mobile", "preferences"},
         NEW x \in KnownDirs
  PROVE  ~M!IsPrefix(p, x)
<1>1. \/ Len(x) = 1 /\ x[1] \in {"root", "db", "mobile", "preferences"}
      \/ Len(x) = 2 /\ x[1] = "db" /\ x[2] = "timezone"
      \/ Len(x) = 2 /\ x[1] = "root" /\ x[2] = "Library"
  BY DEF KnownDirs, Zone, M!OldLibrary
<1>2. x \in Path /\ Len(p) \in Nat
  BY PathsAre, LenProperties DEF Path
<1>3. M!IsPrefix(p, x) => Len(p) <= Len(x) /\ \A i \in 1..Len(p) : p[i] = x[i]
  BY <1>2, PrefixAt
<1> QED BY <1>1, <1>2, <1>3

\* The numbers of the moves out of the home of root.
LEMMA OutsAre == \A i \in Outs : i = 2 \/ i = 3 \/ i = 4 \/ i = 5 \/ i = 6
BY DEF Outs

\* The places of these moves are apart from each other.
LEMMA ApartFromTo ==
  \A i, j \in Outs : /\ Apart(From(i), To(j))
                     /\ i # j => Apart(From(i), From(j)) /\ Apart(To(i), To(j))
<1>1. ASSUME NEW i \in Outs, NEW j \in Outs PROVE Apart(From(i), To(j))
  BY OutsAre, Elements, PathsAre, Differs
<1>2. ASSUME NEW i \in Outs, NEW j \in Outs, i # j PROVE Apart(From(i), From(j))
  <2>1. CASE i = 2 \/ i = 6
    BY <1>2, <2>1, OutsAre, Elements, PathsAre, Differs
  <2>2. CASE i = 3
    BY <1>2, <2>2, OutsAre, Elements, PathsAre, Differs
  <2>3. CASE i = 4
    BY <1>2, <2>3, OutsAre, Elements, PathsAre, Differs
  <2>4. CASE i = 5
    BY <1>2, <2>4, OutsAre, Elements, PathsAre, Differs
  <2> QED BY <2>1, <2>2, <2>3, <2>4, OutsAre
<1>3. ASSUME NEW i \in Outs, NEW j \in Outs, i # j PROVE Apart(To(i), To(j))
  BY <1>3, OutsAre, Elements, PathsAre, Differs
<1> QED BY <1>1, <1>2, <1>3

\* Where the moves' places are, one to the other.
ApartOf(i) ==
  /\ Apart(From(i), M!NewLibrary) /\ Apart(To(i), M!NewLibrary)
  /\ Apart(To(i), M!OldLibrary)
  /\ Apart(From(i), M!Lockdown.from) /\ Apart(To(i), M!Lockdown.from)
  /\ Apart(From(i), M!Lockdown.to) /\ Apart(To(i), M!Lockdown.to)
  /\ Apart(From(i), M!Installer) /\ Apart(To(i), M!Installer)
  /\ Apart(From(i), OldInstaller)
  /\ M!Last(From(i)) = M!Last(To(i))
  /\ \A x \in KnownDirs : ~M!IsPrefix(From(i), x) /\ ~M!IsPrefix(To(i), x)

\* And so they are from the libraries, Lockdown, Installer and the directories above them.
LEMMA ApartOthers == \A i \in Outs : ApartOf(i)
<1> SUFFICES ASSUME NEW i \in Outs PROVE ApartOf(i)
  OBVIOUS
<1>1. /\ Apart(From(i), M!NewLibrary) /\ Apart(To(i), M!NewLibrary)
      /\ Apart(To(i), M!OldLibrary)
  BY OutsAre, Elements, PathsAre, Differs
<1>2. Apart(From(i), M!Lockdown.from)
  <2>1. CASE i = 2 \/ i = 3
    BY <2>1, Elements, PathsAre, Differs
  <2>2. CASE i = 4 \/ i = 5
    BY <2>2, Elements, PathsAre, Differs
  <2>3. CASE i = 6
    BY <2>3, Elements, PathsAre, Differs
  <2> QED BY <2>1, <2>2, <2>3, OutsAre
<1>3. Apart(To(i), M!Lockdown.from)
  BY OutsAre, Elements, PathsAre, Differs
<1>4. Apart(From(i), M!Lockdown.to)
  BY OutsAre, Elements, PathsAre, Differs
<1>5. Apart(To(i), M!Lockdown.to)
  BY OutsAre, Elements, PathsAre, Differs
<1>6. /\ Apart(From(i), M!Installer) /\ Apart(To(i), M!Installer)
      /\ Apart(From(i), OldInstaller)
  BY OutsAre, Elements, PathsAre, Differs
<1>7. M!Last(From(i)) = M!Last(To(i))
  <2>1. M!Last(From(2)) = M!Last(To(2)) /\ M!Last(From(3)) = M!Last(To(3))
    BY Elements DEF M!Last
  <2>2. M!Last(From(4)) = M!Last(To(4)) /\ M!Last(From(5)) = M!Last(To(5))
    BY Elements DEF M!Last
  <2>3. M!Last(From(6)) = M!Last(To(6))
    BY Elements DEF M!Last
  <2> QED BY <2>1, <2>2, <2>3, OutsAre
<1>8. ASSUME NEW x \in KnownDirs PROVE ~M!IsPrefix(From(i), x) /\ ~M!IsPrefix(To(i), x)
  BY OutsAre, Elements, PathsAre, NotAboveDirs
<1> QED BY <1>1, <1>2, <1>4, <1>5, <1>8, <1>6, <1>7, <1>3 DEF ApartOf

\* Where the two libraries, the two Lockdowns and Installer are, one to the other.
LEMMA LibrariesApart ==
  /\ Apart(M!OldLibrary, M!NewLibrary) /\ Apart(M!Lockdown.from, M!Lockdown.to)
  /\ Apart(M!Lockdown.from, M!Installer) /\ Apart(M!Lockdown.to, OldInstaller)
  /\ M!IsPrefix(M!OldLibrary, M!Lockdown.to) /\ M!IsPrefix(M!NewLibrary, M!Lockdown.from)
  /\ M!IsPrefix(M!NewLibrary, M!Installer) /\ M!IsPrefix(M!OldLibrary, OldInstaller)
  /\ M!Last(M!OldLibrary) = M!Last(M!NewLibrary)
  /\ M!Last(M!Lockdown.from) = M!Last(M!Lockdown.to)
  /\ \A x \in KnownDirs :
       ~M!IsPrefix(M!NewLibrary, x) /\ (M!IsPrefix(M!OldLibrary, x) => x = M!OldLibrary)
  /\ \A x \in KnownDirs : ~M!IsPrefix(M!Lockdown.from, x) /\ ~M!IsPrefix(M!Lockdown.to, x)
       /\ ~M!IsPrefix(M!Installer, x)
<1>0. /\ M!Lockdown.from = <<"mobile", "Library", "Lockdown">>
      /\ M!Lockdown.to = <<"root", "Library", "Lockdown">>
  BY DEF M!Lockdown, M!Mv
<1>a. ASSUME NEW x \in KnownDirs
      PROVE  \/ Len(x) = 1 /\ (x[1] = "root" \/ x[1] = "db" \/ x[1] = "mobile"
                  \/ x[1] = "preferences")
             \/ Len(x) = 2 /\ x[1] = "db" /\ x[2] = "timezone"
             \/ x = M!OldLibrary
  BY DEF KnownDirs, Zone
<1>1. Apart(M!OldLibrary, M!NewLibrary) /\ Apart(M!Lockdown.from, M!Lockdown.to)
  BY Elements, PathsAre, Differs
<1>2. Apart(M!Lockdown.from, M!Installer) /\ Apart(M!Lockdown.to, OldInstaller)
  BY Elements, PathsAre, Differs
<1>3. M!IsPrefix(M!OldLibrary, M!Lockdown.to) /\ M!IsPrefix(M!NewLibrary, M!Lockdown.from)
  <2>1. M!IsPrefix(M!OldLibrary, M!Lockdown.to)
    BY Elements, PathsAre, Begins
  <2>2. M!IsPrefix(M!NewLibrary, M!Lockdown.from)
    BY Elements, PathsAre, Begins
  <2> QED BY <2>1, <2>2
<1>4. M!IsPrefix(M!NewLibrary, M!Installer) /\ M!IsPrefix(M!OldLibrary, OldInstaller)
  BY Elements, PathsAre, Begins
<1>5. /\ M!Last(M!OldLibrary) = M!Last(M!NewLibrary)
      /\ M!Last(M!Lockdown.from) = M!Last(M!Lockdown.to)
  BY Elements DEF M!Last
<1>6. ASSUME NEW x \in KnownDirs
      PROVE  ~M!IsPrefix(M!NewLibrary, x)
               /\ (M!IsPrefix(M!OldLibrary, x) => x = M!OldLibrary)
  BY <1>a, Elements, PathsAre, Differs, Longer DEF Apart
<1>7. ASSUME NEW x \in KnownDirs
      PROVE  /\ ~M!IsPrefix(M!Lockdown.from, x) /\ ~M!IsPrefix(M!Lockdown.to, x)
             /\ ~M!IsPrefix(M!Installer, x)
  BY Elements, PathsAre, NotAboveDirs
<1> QED BY <1>1, <1>2, <1>3, <1>4, <1>5, <1>6, <1>7

\* Of what a restart makes anew, nothing is below where a move goes.
LEMMA FreshFacts ==
  /\ M!Fresh \subseteq Path
  /\ \A i \in Outs : \A x \in M!Fresh :
       ~M!IsPrefix(To(i), x) /\ (M!IsPrefix(From(i), x) => x = From(i))
  /\ \A x \in M!Fresh : M!IsPrefix(M!OldLibrary, x) => x \in {M!OldLibrary, From(3)}
<1>1. M!Fresh = {M!OldLibrary, From(3), From(6)}
  BY FromTo DEF M!Fresh, M!OldLibrary
<1>2. M!Fresh \subseteq Path
  BY <1>1, PathsAre DEF Outs
<1>3. ASSUME NEW i \in Outs, NEW x \in M!Fresh
      PROVE  ~M!IsPrefix(To(i), x) /\ (M!IsPrefix(From(i), x) => x = From(i))
  <2>1. CASE x = M!OldLibrary
    BY <2>1, ApartOthers DEF ApartOf, KnownDirs
  <2>2. CASE x = From(3)
    <3>1. 3 \in Outs
      BY DEF Outs
    <3>2. Apart(From(3), To(i))
      BY <3>1, ApartFromTo
    <3>3. i # 3 => Apart(From(i), From(3))
      BY <3>1, ApartFromTo
    <3> QED BY <2>2, <3>2, <3>3 DEF Apart
  <2>3. CASE x = From(6)
    <3>1. 6 \in Outs
      BY DEF Outs
    <3>2. Apart(From(6), To(i))
      BY <3>1, ApartFromTo
    <3>3. i # 6 => Apart(From(i), From(6))
      BY <3>1, ApartFromTo
    <3> QED BY <2>3, <3>2, <3>3 DEF Apart
  <2> QED BY <1>1, <2>1, <2>2, <2>3
<1>4. ~M!IsPrefix(M!OldLibrary, From(6))
  BY Elements, PathsAre, Differs DEF Outs, Apart
<1> QED BY <1>1, <1>2, <1>3, <1>4

\* The directory of a path of one, two or three names.
LEMMA FrontOf ==
  /\ \A a \in FileNames : M!Front(<<a>>) = <<>>
  /\ \A a, b \in FileNames : M!Front(<<a, b>>) = <<a>>
  /\ \A a, b, c \in FileNames : M!Front(<<a, b, c>>) = <<a, b>>
<1>1. ASSUME NEW a \in FileNames PROVE M!Front(<<a>>) = <<>>
  <2> DEFINE p == <<a>>
  <2>1. p \in Path /\ Len(p) = 1 /\ <<>> \in Path /\ Len(<<>>) = 0
    BY DEF Path
  <2> HIDE DEF p
  <2>2. <<>> \in Path /\ Len(p) = Len(<<>>) + 1 /\ \A i \in 1..Len(<<>>) : p[i] = <<>>[i]
    BY <2>1
  <2>3. M!Front(p) = <<>>
    BY <2>1, <2>2, FrontIs, Zenon
  <2> QED BY <2>3 DEF p
<1>2. ASSUME NEW a \in FileNames, NEW b \in FileNames PROVE M!Front(<<a, b>>) = <<a>>
  <2> DEFINE p == <<a, b>>
             f == <<a>>
  <2>1. p \in Path /\ Len(p) = 2 /\ f \in Path /\ Len(f) = 1 /\ p[1] = f[1]
    BY DEF Path
  <2> HIDE DEF p, f
  <2>2. \A i \in 1..Len(f) : p[i] = f[i]
    BY <2>1
  <2>4. Len(p) = Len(f) + 1
    BY <2>1
  <2>3. M!Front(p) = f
    BY <2>1, <2>2, <2>4, FrontIs, Zenon
  <2> QED BY <2>3 DEF p, f
<1>3. ASSUME NEW a \in FileNames, NEW b \in FileNames, NEW c \in FileNames
      PROVE  M!Front(<<a, b, c>>) = <<a, b>>
  <2> DEFINE p == <<a, b, c>>
             f == <<a, b>>
  <2>1. p \in Path /\ Len(p) = 3 /\ f \in Path /\ Len(f) = 2 /\ p[1] = f[1] /\ p[2] = f[2]
    BY DEF Path
  <2> HIDE DEF p, f
  <2>2. \A i \in 1..Len(f) : p[i] = f[i]
    BY <2>1
  <2>4. Len(p) = Len(f) + 1
    BY <2>1
  <2>3. M!Front(p) = f
    BY <2>1, <2>2, <2>4, FrontIs, Zenon
  <2> QED BY <2>3 DEF p, f
<1> QED BY <1>1, <1>2, <1>3

\* The directories that the places of the script are in.
LEMMA Fronts ==
  /\ M!Front(Zone) = <<"db">> /\ M!Front(M!OldLibrary) = <<"root">>
  /\ M!Front(From(6)) = <<"root">>
  /\ M!Front(From(3)) = M!OldLibrary
  /\ M!Front(To(2)) = Zone /\ M!Front(To(3)) = <<>> /\ M!Front(To(6)) = <<"mobile">>
  /\ M!Front(To(4)) = <<"preferences">> /\ M!Front(To(5)) = <<"preferences">>
  /\ M!Front(M!Lockdown.to) = M!OldLibrary
<1>1. M!Front(Zone) = <<"db">> /\ M!Front(M!OldLibrary) = <<"root">>
  BY NamesAre, FrontOf DEF Zone, M!OldLibrary
<1>2. M!Front(From(6)) = <<"root">> /\ M!Front(From(3)) = M!OldLibrary
  <2>1. M!Front(<<"root", "Media">>) = <<"root">>
    BY NamesAre, FrontOf
  <2>2. M!Front(<<"root", "Library", "Keychains">>) = <<"root", "Library">>
    BY NamesAre, FrontOf
  <2>3. From(6) = <<"root", "Media">> /\ From(3) = <<"root", "Library", "Keychains">>
    BY FromTo
  <2> QED BY <2>1, <2>2, <2>3, Zenon DEF M!OldLibrary
<1>3. M!Front(To(2)) = Zone /\ M!Front(To(3)) = <<>>
  <2>1. M!Front(<<"db", "timezone", "localtime">>) = <<"db", "timezone">>
    BY NamesAre, FrontOf
  <2>2. M!Front(<<"Keychains">>) = <<>>
    BY NamesAre, FrontOf
  <2>3. To(2) = <<"db", "timezone", "localtime">> /\ To(3) = <<"Keychains">>
    BY FromTo
  <2> QED BY <2>1, <2>2, <2>3, Zenon DEF Zone
<1>4. M!Front(To(6)) = <<"mobile">>
  <2>1. M!Front(<<"mobile", "Media">>) = <<"mobile">>
    BY NamesAre, FrontOf
  <2>2. To(6) = <<"mobile", "Media">>
    BY FromTo
  <2> QED BY <2>1, <2>2, Zenon
<1>5. M!Front(To(4)) = <<"preferences">> /\ M!Front(To(5)) = <<"preferences">>
  <2>1. M!Front(<<"preferences", "SystemConfiguration">>) = <<"preferences">>
    BY NamesAre, FrontOf
  <2>2. M!Front(<<"preferences", "csidata">>) = <<"preferences">>
    BY NamesAre, FrontOf
  <2>3. /\ To(4) = <<"preferences", "SystemConfiguration">>
        /\ To(5) = <<"preferences", "csidata">>
    BY FromTo
  <2> QED BY <2>1, <2>2, <2>3, Zenon
<1>6. M!Front(M!Lockdown.to) = M!OldLibrary
  <2>1. M!Front(<<"root", "Library", "Lockdown">>) = <<"root", "Library">>
    BY NamesAre, FrontOf
  <2>2. M!Lockdown.to = <<"root", "Library", "Lockdown">>
    BY DEF M!Lockdown, M!Mv
  <2> QED BY <2>1, <2>2, Zenon DEF M!OldLibrary
<1> QED BY <1>1, <1>2, <1>3, <1>4, <1>5, <1>6

\* No name twice in a row.
Straight(p) == ~\E k \in 1..(Len(p) - 1) : p[k] = p[k + 1]

\* The places of the script are straight.
LEMMA StraightPlaces ==
  /\ \A i \in Outs : Straight(To(i))
  /\ Straight(M!NewLibrary) /\ Straight(M!Lockdown.to) /\ Straight(Zone)
  /\ Straight(M!OldLibrary)
<1>1. ASSUME NEW p, NEW n \in 0..2, Len(p) = n + 1, 1 <= n => p[1] # p[2],
             2 <= n => p[2] # p[3]
      PROVE  Straight(p)
  BY <1>1 DEF Straight
<1>2. Straight(To(2)) /\ Straight(To(3))
  BY <1>1, Elements
<1>3. Straight(To(4)) /\ Straight(To(5)) /\ Straight(To(6))
  BY <1>1, Elements
<1>4. Straight(M!NewLibrary) /\ Straight(M!Lockdown.to) /\ Straight(M!OldLibrary)
  BY <1>1, Elements
<1>5. Len(Zone) = 2 /\ Zone[1] = "db" /\ Zone[2] = "timezone"
  BY DEF Zone
<1>6. Straight(Zone)
  BY <1>1, <1>5
<1>7. \A i \in Outs : i = 2 \/ i = 3 \/ i = 4 \/ i = 5 \/ i = 6
  BY DEF Outs
<1> QED BY <1>2, <1>3, <1>4, <1>6, <1>7

\* Moving to a straight place with the same last name puts no name twice in a row.
LEMMA StraightMove ==
  ASSUME NEW p \in Path, NEW q \in Path, p # <<>>, q # <<>>, M!Last(p) = M!Last(q),
         Straight(q),
         NEW x \in Path, M!IsPrefix(q, x), Straight(M!Renamed(q, p, x))
  PROVE  Straight(x)
<1> DEFINE y == M!Renamed(q, p, x)
<1>1. /\ y \in Path /\ Len(y) = Len(p) + Len(x) - Len(q)
      /\ \A i \in 1..Len(p) : y[i] = p[i]
      /\ \A i \in (Len(q) + 1)..Len(x) : y[Len(p) - Len(q) + i] = x[i]
  BY RenamedAt
<1>2. Straight(y)
  OBVIOUS
<1> HIDE DEF y
<1>3. Len(p) \in Nat \ {0} /\ Len(q) \in Nat \ {0} /\ Len(x) \in Nat
  BY EmptySeq, LenProperties DEF Path
<1>4. Len(q) <= Len(x) /\ \A i \in 1..Len(q) : q[i] = x[i]
  BY PrefixAt
<1> SUFFICES ASSUME NEW k \in 1..(Len(x) - 1), x[k] = x[k + 1] PROVE FALSE
  BY DEF Straight
<1>5. CASE k < Len(q)
  <2>1. k \in 1..(Len(q) - 1) /\ k \in 1..Len(q) /\ k + 1 \in 1..Len(q)
    BY <1>5, <1>3
  <2> QED BY <2>1, <1>4 DEF Straight
<1>6. CASE k = Len(q)
  <2>1. /\ Len(p) \in 1..(Len(y) - 1) /\ Len(p) \in 1..Len(p)
        /\ k + 1 \in (Len(q) + 1)..Len(x) /\ Len(p) - Len(q) + (k + 1) = Len(p) + 1
        /\ k \in 1..Len(q)
    BY <1>1, <1>3, <1>6
  <2>2. y[Len(p)] = p[Len(p)] /\ y[Len(p) + 1] = x[k + 1] /\ x[k] = q[Len(q)]
    BY <2>1, <1>1, <1>4, <1>6
  <2> QED BY <2>1, <2>2, <1>2 DEF Straight, M!Last
<1>7. CASE k > Len(q)
  <2> DEFINE j == Len(p) - Len(q) + k
  <2>1. /\ j \in 1..(Len(y) - 1) /\ k \in (Len(q) + 1)..Len(x)
        /\ k + 1 \in (Len(q) + 1)..Len(x)
        /\ Len(p) - Len(q) + (k + 1) = j + 1
    BY <1>1, <1>3, <1>7
  <2>2. y[j] = x[k] /\ y[j + 1] = x[k + 1]
    BY <2>1, <1>1
  <2> QED BY <2>1, <2>2, <1>2 DEF Straight
<1> QED BY <1>3, <1>5, <1>6, <1>7

\* Below a place of three names: a path that begins with them.
LEMMA BeginsThree ==
  ASSUME NEW p \in Path, NEW q \in Path, Len(p) = 3
  PROVE  M!IsPrefix(p, q) <=> 3 <= Len(q) /\ p[1] = q[1] /\ p[2] = q[2] /\ p[3] = q[3]
<1>1. (\A i \in 1..Len(p) : p[i] = q[i]) <=> p[1] = q[1] /\ p[2] = q[2] /\ p[3] = q[3]
  OBVIOUS
<1> QED BY <1>1, PrefixAt

\* Of a path below the old Library: where Lockdown and Installer are in it.
LEMMA LibraryParts ==
  ASSUME NEW p \in Path, M!IsPrefix(M!OldLibrary, p)
  PROVE  /\ Lib(p) \in Path /\ M!IsPrefix(M!NewLibrary, Lib(p))
         /\ M!IsPrefix(M!Lockdown.from, Lib(p)) <=> M!IsPrefix(M!Lockdown.to, p)
         /\ M!IsPrefix(M!Lockdown.to, p)
              => M!Renamed(M!Lockdown.from, M!Lockdown.to, Lib(p)) = p
         /\ M!IsPrefix(M!Installer, Lib(p)) <=> M!IsPrefix(OldInstaller, p)
<1>0. /\ Len(p) \in Nat /\ Len(M!OldLibrary) = 2 /\ Len(M!NewLibrary) = 2
      /\ Len(M!Lockdown.from) = 3 /\ Len(M!Lockdown.to) = 3 /\ Len(M!Installer) = 3
      /\ Len(OldInstaller) = 3
  BY Elements, LenProperties DEF Path
<1>1. /\ Lib(p) \in Path /\ Len(Lib(p)) = Len(p) /\ M!IsPrefix(M!NewLibrary, Lib(p))
      /\ Lib(p)[1] = M!NewLibrary[1] /\ Lib(p)[2] = M!NewLibrary[2]
      /\ \A i \in 3..Len(p) : Lib(p)[i] = p[i]
  <2> DEFINE y == M!Renamed(M!OldLibrary, M!NewLibrary, p)
  <2>0. M!OldLibrary \in Path /\ M!NewLibrary \in Path
    BY PathsAre
  <2>1. /\ y \in Path /\ Len(y) = Len(M!NewLibrary) + Len(p) - Len(M!OldLibrary)
        /\ M!IsPrefix(M!NewLibrary, y)
        /\ \A i \in 1..Len(M!NewLibrary) : y[i] = M!NewLibrary[i]
        /\ \A i \in (Len(M!OldLibrary) + 1)..Len(p) :
             y[Len(M!NewLibrary) - Len(M!OldLibrary) + i] = p[i]
    BY <2>0, RenamedAt
  <2> HIDE DEF y
  <2>2. \A i \in 3..Len(p) : y[i] = p[i]
    BY <2>1, <1>0
  <2>3. Len(y) = Len(p) /\ \A i \in 1..2 : y[i] = M!NewLibrary[i]
    BY <2>1, <1>0
  <2> QED BY <2>1, <2>2, <2>3 DEF y, Lib
<1>2. 2 <= Len(p) /\ p[1] = M!OldLibrary[1] /\ p[2] = M!OldLibrary[2]
  <2>1. M!OldLibrary \in Path
    BY PathsAre
  <2>2. /\ Len(M!OldLibrary) <= Len(p)
        /\ \A i \in 1..Len(M!OldLibrary) : M!OldLibrary[i] = p[i]
    BY <2>1, PrefixAt
  <2> QED BY <2>2, <1>0
<1>3. M!IsPrefix(M!Lockdown.to, p) <=> 3 <= Len(p) /\ p[3] = "Lockdown"
  <2>0. M!Lockdown.to \in Path
    BY PathsAre
  <2>1. M!IsPrefix(M!Lockdown.to, p) <=>
          3 <= Len(p) /\ M!Lockdown.to[1] = p[1] /\ M!Lockdown.to[2] = p[2]
            /\ M!Lockdown.to[3] = p[3]
    BY <1>0, <1>1, <2>0, BeginsThree
  <2> QED BY <2>1, <1>2, <1>0, Elements
<1>4. M!IsPrefix(M!Lockdown.from, Lib(p)) <=> 3 <= Len(p) /\ p[3] = "Lockdown"
  <2>0. M!Lockdown.from \in Path
    BY PathsAre
  <2>1. M!IsPrefix(M!Lockdown.from, Lib(p)) <=>
          3 <= Len(Lib(p)) /\ M!Lockdown.from[1] = Lib(p)[1]
            /\ M!Lockdown.from[2] = Lib(p)[2] /\ M!Lockdown.from[3] = Lib(p)[3]
    BY <1>0, <1>1, <2>0, BeginsThree
  <2> QED BY <2>1, <1>1, <1>0, Elements
<1>5. M!IsPrefix(OldInstaller, p) <=> 3 <= Len(p) /\ p[3] = "Installer"
  <2>0. OldInstaller \in Path
    BY PathsAre
  <2>1. M!IsPrefix(OldInstaller, p) <=>
          3 <= Len(p) /\ OldInstaller[1] = p[1] /\ OldInstaller[2] = p[2]
            /\ OldInstaller[3] = p[3]
    BY <1>0, <1>1, <2>0, BeginsThree
  <2> QED BY <2>1, <1>2, <1>0, Elements
<1>6. M!IsPrefix(M!Installer, Lib(p)) <=> 3 <= Len(p) /\ p[3] = "Installer"
  <2>0. M!Installer \in Path
    BY PathsAre
  <2>1. M!IsPrefix(M!Installer, Lib(p)) <=>
          3 <= Len(Lib(p)) /\ M!Installer[1] = Lib(p)[1] /\ M!Installer[2] = Lib(p)[2]
            /\ M!Installer[3] = Lib(p)[3]
    BY <1>0, <1>1, <2>0, BeginsThree
  <2> QED BY <2>1, <1>1, <1>0, Elements
<1>7. ASSUME M!IsPrefix(M!Lockdown.to, p)
      PROVE  M!Renamed(M!Lockdown.from, M!Lockdown.to, Lib(p)) = p
  <2> DEFINE y == Lib(p)
             z == M!Renamed(M!Lockdown.from, M!Lockdown.to, y)
             f == M!Lockdown.from
             t == M!Lockdown.to
  <2>1. M!IsPrefix(f, y) /\ f \in Path /\ t \in Path /\ y \in Path
    BY <1>1, <1>3, <1>4, <1>7, PathsAre
  <2> HIDE DEF y, f, t, z
  <2>2. /\ M!Renamed(f, t, y) \in Path /\ Len(M!Renamed(f, t, y)) = Len(t) + Len(y) - Len(f)
        /\ \A i \in 1..Len(t) : M!Renamed(f, t, y)[i] = t[i]
        /\ \A i \in (Len(f) + 1)..Len(y) : M!Renamed(f, t, y)[Len(t) - Len(f) + i] = y[i]
    BY <2>1, RenamedAt, ZenonT(60)
  <2>7. z = M!Renamed(f, t, y)
    BY DEF f, t, z
  <2>8. Len(f) = 3 /\ Len(t) = 3 /\ Len(y) = Len(p) /\ \A i \in 3..Len(p) : y[i] = p[i]
    BY <1>0, <1>1 DEF f, t, y
  <2>3. Len(z) = Len(p) /\ \A i \in 4..Len(p) : z[i] = y[i]
    BY <2>2, <2>7, <2>8, <1>0
  <2>4. \A i \in 1..3 : z[i] = p[i]
    <3>1. \A i \in 1..3 : z[i] = t[i]
      BY <2>2, <2>7, <2>8
    <3>2. \A i \in 1..Len(t) : t[i] = p[i]
      BY <2>1, <1>7, PrefixAt DEF t
    <3> QED BY <3>1, <3>2, <2>8
  <2>5. \A i \in 1..Len(z) : z[i] = p[i]
    BY <2>3, <2>4, <2>8, <1>0
  <2>6. z = p
    BY <2>2, <2>3, <2>5, <2>7, SeqEqual DEF Path
  <2> QED BY <2>6 DEF z, y
<1> QED BY <1>1, <1>3, <1>4, <1>5, <1>6, <1>7

-----------------------------------------------------------------------------

-----------------------------------------------------------------------------
(***************************************************************************)
(* The invariant.                                                          *)
(***************************************************************************)
\* The data of the first tree.
Datum == {p \in DOMAIN first : first[p] # "dir"}
Is(x, p) == M!Holds(x, first[p])
Outward(p) == \E i \in Outs : M!IsPrefix(From(i), p)
Outed(p) == \E i \in Outs : M!IsPrefix(From(i), p) /\ Is(Out(i, p), p)

\* A run that is the first has moved nothing before the Library's turn.
Book ==
  /\ runs = 0 => at = 0 /\ past = {}
  /\ runs <= 1 /\ at \in 1..8 => "moved" \notin past

\* A move finds its new place free or there are, from an earlier run, only empty
\* directories in its old one: so that mv puts nothing into what it had moved before.
Frees ==
  /\ \A i \in Outs : Free(From(i), To(i))
  /\ "recreated" \notin past => \A i \in Outs : ~M!Exists(To(i)) \/ ~M!Exists(From(i))
  /\ at = 8 => Bare(fs, M!NewLibrary)
  /\ at \in {9, 10} => Bare(fs, M!NewLibrary) \/ Emptied(fs)
  /\ at = 10 => M!Exists(M!OldLibrary)

\* What the script takes for a directory is one; the ones it moves into stay.
Directories ==
  /\ \A x \in KnownDirs : M!Exists(x) => fs[x] = "dir"
  /\ M!Exists(<<"root">>)
  /\ M!Ready(first)
       => M!Exists(<<"db">>) /\ M!Exists(<<"mobile">>) /\ M!Exists(<<"preferences">>)
  /\ M!Ready(first) /\ at >= 2 => M!Exists(Zone)

\* What no command moves is where it was.
Untaken == \A p \in Datum :
  ~Outward(p) /\ ~M!IsPrefix(M!OldLibrary, p) /\ ~M!IsPrefix(M!NewLibrary, p) => Is(p, p)

\* What has somewhere to go is there from its move on.
Going == M!Ready(first) => \A p \in Datum : \A i \in Outs :
  M!IsPrefix(From(i), p) => Is(Out(i, p), p) \/ (Is(p, p) /\ "moved" \notin past /\ at <= i)

\* Lockdown is at home but for two commands of a run, when it is in the moved Library.
LockdownKept == "between" \notin past => \A p \in Datum :
  M!IsPrefix(M!Lockdown.to, p) => Is(p, p) \/ (at \in {9, 10} /\ Is(Lib(p), p))

\* Until the Library is moved, everything is at home or has gone out; only what was in
\* 1.1.3's Library is removed.
BeforeMove == "moved" \notin past => \A p \in Datum :
  ~M!IsPrefix(M!NewLibrary, p) => Is(p, p) \/ Outed(p)

\* And when the first run has moved it, everything of the Library is in 1.1.3's.
OneRun == runs <= 1 /\ "moved" \in past => \A p \in Datum :
  M!IsPrefix(M!NewLibrary, p) \/ (script = "app" /\ M!IsPrefix(OldInstaller, p))
  \/ Outed(p)
  \/ (M!IsPrefix(M!OldLibrary, p) /\ Is(Lib(p), p))
  \/ ((~M!IsPrefix(M!OldLibrary, p) \/ M!IsPrefix(M!Lockdown.to, p)) /\ Is(p, p))

\* The inductive invariant of the script.
MigInv ==
  /\ M!TypeOK /\ Book /\ Frees /\ Directories /\ M!NothingNested
  /\ Untaken /\ Going /\ LockdownKept /\ BeforeMove /\ OneRun

\* The data that the next command takes from where it is.
Takes(x) ==
  \/ at \in Outs /\ M!IsPrefix(From(at), x)
  \/ at = 7 /\ M!IsPrefix(M!NewLibrary, x)
  \/ at = 8 /\ M!IsPrefix(M!OldLibrary, x)
  \/ at = 10 /\ M!IsPrefix(M!Lockdown.from, x)
  \/ at = 11 /\ M!IsPrefix(M!Installer, x)

-----------------------------------------------------------------------------
(***************************************************************************)
(* What each command does.                                                 *)
(***************************************************************************)
\* The next command is one of those above.
LEMMA CommandIs ==
  ASSUME M!TypeOK, at # 0
  PROVE  /\ at \in 1..11 /\ Len(M!Script(script)) = (IF script = "app" THEN 11 ELSE 10)
         /\ at \in 1..10 => M!Command = M!Moves[at]
         /\ at = 11 => script = "app" /\ M!Command = M!Rm(M!Installer)
<1>1. script \in {"app", "shell"}
  BY MigrationAssumed DEF M!TypeOK, M!MigrationAssumption
<1>2. /\ Len(M!Script(script)) = IF script = "app" THEN 11 ELSE 10
      /\ \A i \in 1..10 : M!Script(script)[i] = M!Moves[i]
      /\ script = "app" => M!Script(script)[11] = M!Rm(M!Installer)
  BY <1>1, ScriptIs
<1>3. at \in 1..11 /\ (at = 11 => script = "app")
  BY <1>2, <1>1 DEF M!TypeOK
<1> QED BY <1>2, <1>3 DEF M!Command

\* What the next command makes of the tree.
LEMMA EffectIs ==
  ASSUME M!TypeOK, M!Step
  PROVE  /\ at = 1 => fs' = M!MkdirEffect(Zone)
         /\ at \in Outs => fs' = M!MvEffect(From(at), To(at))
         /\ at = 7 => fs' = M!Without(fs, M!NewLibrary)
         /\ at = 8 => fs' = M!MvEffect(M!OldLibrary, M!NewLibrary)
         /\ at = 9 => fs' = M!MkdirEffect(M!OldLibrary)
         /\ at = 10 => fs' = M!MvEffect(M!Lockdown.from, M!Lockdown.to)
         /\ at = 11 => fs' = M!Without(fs, M!Installer)
<1>0. /\ at # 0 /\ fs' = M!Effect(M!Command)
      /\ at \in 1..10 => M!Command = M!Moves[at]
      /\ at = 11 => M!Command = M!Rm(M!Installer)
  BY CommandIs DEF M!Step
<1>1. \A p, q : M!Effect(M!Mv(p, q)) = M!MvEffect(p, q)
  BY DEF M!Effect, M!Mv
<1>2. \A p : M!Effect(M!Rm(p)) = M!Without(fs, p)
  BY DEF M!Effect, M!Rm
<1>3. \A p : M!Effect(M!Mkdir(p)) = M!MkdirEffect(p)
  BY DEF M!Effect, M!Mkdir
<1>4. \A p, q : M!Mv(p, q).from = p /\ M!Mv(p, q).to = q
  BY DEF M!Mv
<1>5. CASE at = 1
  BY <1>5, <1>0, <1>3, MovesAre DEF Outs
<1>6. CASE at \in Outs
  <2>1. M!Command = M!Moves[at]
    BY <1>6, <1>0 DEF Outs
  <2>2. \E p, q : M!Moves[at] = M!Mv(p, q)
    BY <1>6, OutsAre, MovesAre
  <2>3. M!Command = M!Mv(From(at), To(at))
    BY <2>1, <2>2, <1>4 DEF From, To
  <2>4. fs' = M!MvEffect(From(at), To(at))
    BY <2>3, <1>0, <1>1
  <2> QED BY <2>4, <1>6 DEF Outs
<1>7. CASE at = 7
  BY <1>7, <1>0, <1>2, MovesAre DEF Outs
<1>8. CASE at = 8
  BY <1>8, <1>0, <1>1, MovesAre DEF Outs
<1>9. CASE at = 9
  BY <1>9, <1>0, <1>3, MovesAre DEF Outs
<1>10. CASE at = 10
  <2>1. M!Lockdown = M!Mv(M!Lockdown.from, M!Lockdown.to)
    BY DEF M!Lockdown, M!Mv
  <2> QED BY <2>1, <1>10, <1>0, <1>1, MovesAre DEF Outs
<1>11. CASE at = 11
  BY <1>11, <1>0, <1>2 DEF Outs
<1>12. at \in 1..11
  BY <1>0, CommandIs
<1> QED BY <1>5, <1>6, <1>7, <1>8, <1>9, <1>10, <1>11, <1>12 DEF Outs

\* What each command does to the tree.
LEMMA OutStep ==
  ASSUME M!TypeOK, Frees, M!Step, at \in Outs
  PROVE  /\ M!IsTree(fs') /\ Stays(fs, fs', From(at)) /\ Same(fs, fs', From(at), To(at))
         /\ \/ fs' = fs
            \/ ~Bare(fs, From(at)) /\ Bare(fs', From(at)) /\ Goes(fs, fs', From(at), To(at))
         /\ M!Exists(From(at)) /\ ~M!Exists(To(at)) /\ M!IsDir(M!Front(To(at))) =>
              Bare(fs', From(at)) /\ Goes(fs, fs', From(at), To(at))
<1>1. /\ From(at) \in Path /\ To(at) \in Path /\ From(at) # <<>> /\ To(at) # <<>>
      /\ Apart(From(at), To(at)) /\ Free(From(at), To(at)) /\ M!IsTree(fs)
  BY PathsAre, ApartFromTo DEF Frees, M!TypeOK
<1>2. fs' = M!MvEffect(From(at), To(at))
  BY EffectIs
<1> DEFINE u == fs'
<1>3. u = M!MvEffect(From(at), To(at))
  BY <1>2
<1> HIDE DEF u
<1>4. /\ M!IsTree(u) /\ Stays(fs, u, From(at)) /\ Same(fs, u, From(at), To(at))
      /\ u = fs \/ (~Bare(fs, From(at)) /\ Bare(u, From(at))
           /\ Goes(fs, u, From(at), To(at)))
      /\ M!Exists(From(at)) /\ ~M!Exists(To(at)) /\ M!IsDir(M!Front(To(at))) =>
           Bare(u, From(at)) /\ Goes(fs, u, From(at), To(at))
  BY <1>1, <1>3, MvGives
<1> QED BY <1>4 DEF u

\* The Library goes where rm -rf has just made room.
LEMMA LibraryStep ==
  ASSUME M!TypeOK, Frees, M!Step, at = 8
  PROVE  /\ M!IsTree(fs') /\ Stays(fs, fs', M!OldLibrary)
         /\ Same(fs, fs', M!OldLibrary, M!NewLibrary)
         /\ ~M!Exists(M!NewLibrary)
         /\ \/ fs' = fs
            \/ ~Bare(fs, M!OldLibrary) /\ Bare(fs', M!OldLibrary)
                 /\ Goes(fs, fs', M!OldLibrary, M!NewLibrary)
<1>1. /\ M!OldLibrary \in Path /\ M!NewLibrary \in Path /\ M!OldLibrary # <<>>
      /\ M!NewLibrary # <<>>
      /\ Apart(M!OldLibrary, M!NewLibrary) /\ M!IsTree(fs)
  BY PathsAre, LibrariesApart DEF M!TypeOK
<1>2. M!NewLibrary \notin DOMAIN fs
  BY <1>1, PrefixSelf DEF Frees, Bare
<1>3. Free(M!OldLibrary, M!NewLibrary)
  BY <1>2 DEF Free
<1>4. fs' = M!MvEffect(M!OldLibrary, M!NewLibrary)
  BY EffectIs
<1> DEFINE u == fs'
<1>5. u = M!MvEffect(M!OldLibrary, M!NewLibrary)
  BY <1>4
<1> HIDE DEF u
<1>6. /\ M!IsTree(u) /\ Stays(fs, u, M!OldLibrary)
      /\ Same(fs, u, M!OldLibrary, M!NewLibrary)
      /\ u = fs \/ (~Bare(fs, M!OldLibrary) /\ Bare(u, M!OldLibrary)
           /\ Goes(fs, u, M!OldLibrary, M!NewLibrary))
  BY <1>1, <1>3, <1>5, MvGives
<1> QED BY <1>2, <1>6 DEF u, M!Exists

\* Lockdown comes back to the Library made anew, or had not gone.
LEMMA LockdownStep ==
  ASSUME M!TypeOK, Frees, Directories, M!Step, at = 10
  PROVE  /\ M!IsTree(fs') /\ Stays(fs, fs', M!Lockdown.from)
         /\ Same(fs, fs', M!Lockdown.from, M!Lockdown.to)
         /\ ~M!Exists(M!Lockdown.from) \/ ~M!Exists(M!Lockdown.to)
         /\ \/ fs' = fs
            \/ ~Bare(fs, M!Lockdown.from) /\ Bare(fs', M!Lockdown.from)
               /\ Goes(fs, fs', M!Lockdown.from, M!Lockdown.to)
         /\ M!Exists(M!Lockdown.from) => Goes(fs, fs', M!Lockdown.from, M!Lockdown.to)
<1>1. /\ M!Lockdown.from \in Path /\ M!Lockdown.to \in Path /\ M!Lockdown.from # <<>>
      /\ M!Lockdown.to # <<>>
      /\ Apart(M!Lockdown.from, M!Lockdown.to) /\ M!IsTree(fs) /\ M!OldLibrary \in Path
      /\ M!NewLibrary \in Path
      /\ M!IsPrefix(M!OldLibrary, M!Lockdown.to)
      /\ M!IsPrefix(M!NewLibrary, M!Lockdown.from)
  BY PathsAre, LibrariesApart DEF M!TypeOK
<1>2. ASSUME Bare(fs, M!NewLibrary)
      PROVE  /\ Free(M!Lockdown.from, M!Lockdown.to)
             /\ (~M!Exists(M!Lockdown.from) \/ ~M!Exists(M!Lockdown.to))
  <2>1. \A x \in DOMAIN fs : ~M!IsPrefix(M!Lockdown.from, x)
    BY <1>1, <1>2, PrefixTrans DEF Bare, M!IsTree, Path
  <2> QED BY <2>1, <1>1, PrefixSelf DEF Free, M!Exists
<1>3. ASSUME Emptied(fs)
      PROVE  /\ Free(M!Lockdown.from, M!Lockdown.to)
             /\ (~M!Exists(M!Lockdown.from) \/ ~M!Exists(M!Lockdown.to))
  <2>1. M!Lockdown.to # M!OldLibrary
    BY Elements
  <2>2. M!Lockdown.to \notin DOMAIN fs
    BY <1>1, <1>3, <2>1 DEF Emptied
  <2> QED BY <2>2 DEF Free, M!Exists
<1>4. /\ Free(M!Lockdown.from, M!Lockdown.to)
      /\ (~M!Exists(M!Lockdown.from) \/ ~M!Exists(M!Lockdown.to))
  <2>1. Bare(fs, M!NewLibrary) \/ Emptied(fs)
    BY DEF Frees
  <2> QED BY <1>2, <1>3, <2>1
<1>5. fs' = M!MvEffect(M!Lockdown.from, M!Lockdown.to)
  BY EffectIs
<1> DEFINE u == fs'
<1>6. u = M!MvEffect(M!Lockdown.from, M!Lockdown.to)
  BY <1>5
<1> HIDE DEF u
<1>7. /\ M!IsTree(u) /\ Stays(fs, u, M!Lockdown.from)
      /\ Same(fs, u, M!Lockdown.from, M!Lockdown.to)
      /\ \/ u = fs
         \/ ~Bare(fs, M!Lockdown.from) /\ Bare(u, M!Lockdown.from)
              /\ Goes(fs, u, M!Lockdown.from, M!Lockdown.to)
      /\ (/\ M!Exists(M!Lockdown.from) /\ ~M!Exists(M!Lockdown.to)
          /\ M!IsDir(M!Front(M!Lockdown.to))) => Goes(fs, u, M!Lockdown.from, M!Lockdown.to)
  BY <1>1, <1>4, <1>6, MvGives
<1>8. M!IsDir(M!Front(M!Lockdown.to))
  BY Fronts DEF Frees, Directories, KnownDirs, M!IsDir
<1> QED BY <1>4, <1>7, <1>8 DEF u

\* What rm -rf removes, of the two places it is called for.
LEMMA RmStep ==
  ASSUME M!TypeOK, M!Step, NEW p,
         (at = 7 /\ p = M!NewLibrary) \/ (at = 11 /\ p = M!Installer)
  PROVE  M!IsTree(fs') /\ Stays(fs, fs', p) /\ Bare(fs', p) /\ Same(fs, fs', p, p)
<1>1. p \in Path /\ M!IsTree(fs)
  BY PathsAre DEF M!TypeOK
<1> DEFINE u == fs'
<1>2. u = M!Without(fs, p)
  BY EffectIs
<1> HIDE DEF u
<1>3. M!IsTree(u) /\ Stays(fs, u, p) /\ Bare(u, p) /\ Same(fs, u, p, p)
  BY <1>1, <1>2, RmGives
<1> QED BY <1>3 DEF u

\* What mkdir makes, of the two directories it is called for.
LEMMA MkdirStep ==
  ASSUME M!TypeOK, M!Step, NEW p, (at = 1 /\ p = Zone) \/ (at = 9 /\ p = M!OldLibrary)
  PROVE  /\ M!IsTree(fs') /\ DOMAIN fs \subseteq DOMAIN fs'
         /\ \A x \in DOMAIN fs : fs'[x] = fs[x]
         /\ \A x \in DOMAIN fs' \ DOMAIN fs : x = p /\ fs'[x] = "dir"
         /\ M!IsDir(M!Front(p)) => p \in DOMAIN fs'
<1>1. p \in Path /\ p # <<>> /\ M!IsTree(fs)
  BY PathsAre DEF M!TypeOK, KnownDirs
<1> DEFINE u == fs'
<1>2. u = M!MkdirEffect(p)
  BY EffectIs
<1> HIDE DEF u
<1>3. /\ M!IsTree(u) /\ DOMAIN fs \subseteq DOMAIN u
      /\ \A x \in DOMAIN fs : u[x] = fs[x]
      /\ \A x \in DOMAIN u \ DOMAIN fs : x = p /\ u[x] = "dir"
      /\ M!IsDir(M!Front(p)) => p \in DOMAIN u
  BY <1>1, <1>2, MkdirGives
<1> QED BY <1>3 DEF u

\* What the next command may change.
Touches(x) ==
  \/ at = 1 /\ x = Zone
  \/ at \in Outs /\ (M!IsPrefix(From(at), x) \/ M!IsPrefix(To(at), x))
  \/ at = 7 /\ M!IsPrefix(M!NewLibrary, x)
  \/ at = 8 /\ (M!IsPrefix(M!OldLibrary, x) \/ M!IsPrefix(M!NewLibrary, x))
  \/ at = 9 /\ x = M!OldLibrary
  \/ at = 10 /\ (M!IsPrefix(M!Lockdown.from, x) \/ M!IsPrefix(M!Lockdown.to, x))
  \/ at = 11 /\ M!IsPrefix(M!Installer, x)

\* The tree stays a tree.
LEMMA StepTree ==
  ASSUME M!TypeOK, Frees, Directories, M!Step
  PROVE  M!IsTree(fs') /\ DOMAIN fs \subseteq Path /\ DOMAIN fs' \subseteq Path
<1>1. at \in 1..11
  BY CommandIs DEF M!Step
<1>2. M!IsTree(fs')
  <2>1. CASE at = 1 \/ at = 9
    BY <2>1, MkdirStep, Zenon
  <2>2. CASE at \in Outs
    BY <2>2, OutStep
  <2>3. CASE at = 7 \/ at = 11
    BY <2>3, RmStep, Zenon
  <2>4. CASE at = 8
    BY <2>4, LibraryStep
  <2>5. CASE at = 10
    BY <2>5, LockdownStep
  <2> QED BY <2>1, <2>2, <2>3, <2>4, <2>5, <1>1 DEF Outs
<1> QED BY <1>2 DEF M!TypeOK, M!IsTree, Path

\* A file that the next command does not take is kept.
LEMMA StepKept ==
  ASSUME M!TypeOK, Frees, Directories, M!Step,
         NEW x \in DOMAIN fs, fs[x] # "dir", ~Takes(x)
  PROVE  x \in DOMAIN fs' /\ fs'[x] = fs[x]
<1>1. at \in 1..11
  BY CommandIs DEF M!Step
<1>2. CASE at = 1 \/ at = 9
  BY <1>2, MkdirStep, Zenon
<1>3. CASE at \in Outs
  BY <1>3, OutStep DEF Takes, Stays
<1>4. CASE at = 7
  <2>1. Stays(fs, fs', M!NewLibrary)
    BY <1>4, RmStep, Zenon
  <2> QED BY <2>1, <1>4 DEF Takes, Stays
<1>5. CASE at = 8
  BY <1>5, LibraryStep DEF Takes, Stays
<1>6. CASE at = 10
  BY <1>6, LockdownStep DEF Takes, Stays
<1>7. CASE at = 11
  <2>1. Stays(fs, fs', M!Installer)
    BY <1>7, RmStep, Zenon
  <2> QED BY <2>1, <1>7 DEF Takes, Stays
<1> QED BY <1>1, <1>2, <1>3, <1>4, <1>5, <1>6, <1>7 DEF Outs

\* Where the next command changes nothing, all is as it was.
LEMMA StepSame ==
  ASSUME M!TypeOK, Frees, Directories, M!Step, NEW x \in Path, ~Touches(x)
  PROVE  (x \in DOMAIN fs' <=> x \in DOMAIN fs) /\ (x \in DOMAIN fs => fs'[x] = fs[x])
<1>1. at \in 1..11
  BY CommandIs DEF M!Step
<1>2. CASE at = 1
  <2>1. /\ DOMAIN fs \subseteq DOMAIN fs' /\ \A y \in DOMAIN fs : fs'[y] = fs[y]
        /\ \A y \in DOMAIN fs' \ DOMAIN fs : y = Zone
    BY <1>2, MkdirStep, Zenon
  <2> QED BY <1>2, <2>1 DEF Touches
<1>3. CASE at = 9
  <2>1. /\ DOMAIN fs \subseteq DOMAIN fs' /\ \A y \in DOMAIN fs : fs'[y] = fs[y]
        /\ \A y \in DOMAIN fs' \ DOMAIN fs : y = M!OldLibrary
    BY <1>3, MkdirStep, Zenon
  <2> QED BY <1>3, <2>1 DEF Touches
<1>4. CASE at \in Outs
  <2>1. /\ Same(fs, fs', From(at), To(at)) /\ ~M!IsPrefix(From(at), x)
        /\ ~M!IsPrefix(To(at), x)
    BY <1>4, OutStep DEF Touches
  <2> QED BY <2>1 DEF Same
<1>5. CASE at = 7
  <2>1. Same(fs, fs', M!NewLibrary, M!NewLibrary) /\ ~M!IsPrefix(M!NewLibrary, x)
    BY <1>5, RmStep, Zenon DEF Touches
  <2> QED BY <2>1 DEF Same
<1>6. CASE at = 8
  <2>1. /\ Same(fs, fs', M!OldLibrary, M!NewLibrary) /\ ~M!IsPrefix(M!OldLibrary, x)
        /\ ~M!IsPrefix(M!NewLibrary, x)
    BY <1>6, LibraryStep DEF Touches
  <2> QED BY <2>1 DEF Same
<1>7. CASE at = 10
  <2>1. /\ Same(fs, fs', M!Lockdown.from, M!Lockdown.to) /\ ~M!IsPrefix(M!Lockdown.from, x)
        /\ ~M!IsPrefix(M!Lockdown.to, x)
    BY <1>7, LockdownStep DEF Touches
  <2> QED BY <2>1 DEF Same
<1>8. CASE at = 11
  <2>1. Same(fs, fs', M!Installer, M!Installer) /\ ~M!IsPrefix(M!Installer, x)
    BY <1>8, RmStep, Zenon DEF Touches
  <2> QED BY <2>1 DEF Same
<1> QED BY <1>1, <1>2, <1>3, <1>4, <1>5, <1>6, <1>7, <1>8 DEF Outs

\* A path is below one of two places that are apart.
LEMMA OnlyOne ==
  ASSUME NEW p \in Path, NEW q \in Path, Apart(p, q), NEW x \in Path, M!IsPrefix(p, x)
  PROVE  ~M!IsPrefix(q, x)
BY ThroughBoth

\* Where a move out goes, only that move changes anything.
LEMMA TouchesTo ==
  ASSUME NEW i \in Outs, NEW x \in Path, M!IsPrefix(To(i), x), Touches(x)
  PROVE  at = i
<1>1. /\ To(i) \in Path /\ M!NewLibrary \in Path /\ M!OldLibrary \in Path
      /\ M!Installer \in Path
      /\ M!Lockdown.from \in Path /\ M!Lockdown.to \in Path
      /\ \A j \in Outs : From(j) \in Path /\ To(j) \in Path
  BY PathsAre
<1>2. ApartOf(i)
  BY ApartOthers
<1>3. /\ ~M!IsPrefix(M!NewLibrary, x) /\ ~M!IsPrefix(M!OldLibrary, x)
      /\ ~M!IsPrefix(M!Installer, x)
      /\ ~M!IsPrefix(M!Lockdown.from, x) /\ ~M!IsPrefix(M!Lockdown.to, x)
  BY <1>1, <1>2, OnlyOne DEF ApartOf
<1>4. x \notin KnownDirs
  BY <1>2 DEF ApartOf
<1>5. \A j \in Outs : M!IsPrefix(From(j), x) => FALSE
  BY <1>1, ApartFromTo, ThroughBoth
<1>6. \A j \in Outs : j # i => ~M!IsPrefix(To(j), x)
  BY <1>1, ApartFromTo, ThroughBoth
<1> QED BY <1>3, <1>4, <1>5, <1>6 DEF Touches, KnownDirs

\* Where it comes from, that move does and the Library's.
LEMMA TouchesFrom ==
  ASSUME NEW i \in Outs, NEW x \in Path, M!IsPrefix(From(i), x), Touches(x)
  PROVE  at = i \/ at = 8
<1>1. /\ From(i) \in Path /\ M!NewLibrary \in Path /\ M!OldLibrary \in Path
      /\ M!Installer \in Path
      /\ M!Lockdown.from \in Path /\ M!Lockdown.to \in Path
      /\ \A j \in Outs : From(j) \in Path /\ To(j) \in Path
  BY PathsAre
<1>2. ApartOf(i)
  BY ApartOthers
<1>3. /\ ~M!IsPrefix(M!NewLibrary, x) /\ ~M!IsPrefix(M!Installer, x)
      /\ ~M!IsPrefix(M!Lockdown.from, x) /\ ~M!IsPrefix(M!Lockdown.to, x)
  BY <1>1, <1>2, OnlyOne DEF ApartOf
<1>4. x \notin KnownDirs
  BY <1>2 DEF ApartOf
<1>5. \A j \in Outs : M!IsPrefix(To(j), x) => FALSE
  BY <1>1, ApartFromTo, ThroughBoth
<1>6. \A j \in Outs : j # i => ~M!IsPrefix(From(j), x)
  BY <1>1, ApartFromTo, ThroughBoth
<1> QED BY <1>3, <1>4, <1>5, <1>6 DEF Touches, KnownDirs

\* The directories are touched by mkdir, and the Library by its move.
LEMMA TouchesDirs ==
  ASSUME NEW x \in KnownDirs, Touches(x)
  PROVE  (at = 1 /\ x = Zone) \/ (at \in {8, 9} /\ x = M!OldLibrary)
<1>1. \A i \in Outs : ~M!IsPrefix(From(i), x) /\ ~M!IsPrefix(To(i), x)
  BY ApartOthers DEF ApartOf
<1> QED BY <1>1, LibrariesApart DEF Touches

\* Below a place that a command moves away nothing comes up.
LEMMA FromShrinks ==
  ASSUME M!TypeOK, Frees, Directories, M!Step,
         NEW i \in Outs, at # i, NEW x \in DOMAIN fs', M!IsPrefix(From(i), x)
  PROVE  x \in DOMAIN fs /\ fs'[x] = fs[x]
<1>1. x \in Path
  BY StepTree
<1>2. CASE ~Touches(x)
  BY <1>1, <1>2, StepSame
<1>3. CASE at = 8
  <2>1. fs' = fs \/ Bare(fs', M!OldLibrary)
    BY <1>3, LibraryStep
  <2>2. ~M!IsPrefix(M!NewLibrary, x)
    BY <1>1, PathsAre, ApartOthers, OnlyOne DEF ApartOf
  <2>3. CASE ~M!IsPrefix(M!OldLibrary, x)
    BY <2>2, <2>3, <1>1, <1>3, LibraryStep DEF Same
  <2> QED BY <2>1, <2>3 DEF Bare
<1> QED BY <1>1, <1>2, <1>3, TouchesFrom

\* Only the eighth command moves the Library.
LEMMA OnlyEight == ASSUME M!TypeOK, at # 0
                   PROVE  M!Command = M!Mv(M!OldLibrary, M!NewLibrary) <=> at = 8
<1>1. \A p, q : /\ M!Mv(p, q).to = q /\ M!Mv(p, q).op = "mv"
                /\ M!Rm(p).op = "rm" /\ M!Mkdir(p).op = "mkdir"
  BY DEF M!Mv, M!Rm, M!Mkdir
<1>2. /\ at \in 1..11 /\ (at \in 1..10 => M!Command = M!Moves[at])
      /\ (at = 11 => M!Command = M!Rm(M!Installer))
  BY CommandIs
<1>3. CASE at \in Outs
  <2>1. /\ M!Command = M!Moves[at] /\ To(at) \in Path /\ Apart(To(at), M!NewLibrary)
        /\ M!NewLibrary \in Path
    BY <1>2, <1>3, PathsAre, ApartOthers DEF Outs, ApartOf
  <2>2. M!Moves[at].to # M!NewLibrary
    BY <2>1, PrefixSelf DEF To, Apart
  <2> QED BY <2>1, <2>2, <1>1, <1>3 DEF Outs
<1>4. CASE at = 10
  <2>1. M!Command = M!Lockdown /\ M!Lockdown.to # M!NewLibrary
    BY <1>2, <1>4, MovesAre, Elements
  <2> QED BY <2>1, <1>1, <1>4
<1>5. CASE at \in {1, 7, 9, 11}
  <2>1. M!Command.op # "mv"
    BY <1>1, <1>2, <1>5, MovesAre
  <2> QED BY <2>1, <1>1, <1>5
<1>6. CASE at = 8
  BY <1>2, <1>6, MovesAre
<1> QED BY <1>2, <1>3, <1>4, <1>5, <1>6 DEF Outs

-----------------------------------------------------------------------------
(***************************************************************************)
(* A command keeps the invariant, part by part.                            *)
(***************************************************************************)
\* What a step does to the rest of the state.
LEMMA StepRest ==
  ASSUME M!TypeOK, M!Step
  PROVE  /\ at \in 1..11 /\ at' \in 0..11 /\ (at \in 1..9 => at' = at + 1)
         /\ (at' # 0 => at' = at + 1)
         /\ first' = first /\ runs' = runs /\ script' = script
         /\ past' = (IF at = 8 /\ fs' # fs THEN past \cup {"moved"} ELSE past)
<1>1. at \in 1..11 /\ Len(M!Script(script)) \in {10, 11}
  BY CommandIs DEF M!Step
<1>2. at' = IF at = Len(M!Script(script)) THEN 0 ELSE at + 1
  BY DEF M!Step
<1>3. Len(M!Script(script)) = 10 \/ Len(M!Script(script)) = 11
  BY <1>1
<1>5. at <= Len(M!Script(script))
  BY <1>1 DEF M!TypeOK
<1>4. at' \in 0..11 /\ (at \in 1..9 => at' = at + 1) /\ (at' # 0 => at' = at + 1)
  <2>1. ASSUME NEW n \in 10..11, NEW a \in 1..11, a <= n, NEW b,
               b = IF a = n THEN 0 ELSE a + 1
        PROVE  b \in 0..11 /\ (a \in 1..9 => b = a + 1) /\ (b # 0 => b = a + 1)
    BY <2>1
  <2>2. Len(M!Script(script)) \in 10..11
    BY <1>3
  <2> QED BY <2>1, <2>2, <1>1, <1>2, <1>5, Zenon
<1> QED BY <1>1, <1>4, OnlyEight DEF M!Step

\* The types.
LEMMA StepTyped ==
  ASSUME M!TypeOK, Frees, Directories, M!Step
  PROVE  M!TypeOK'
<1>1. M!IsTree(fs')
  BY StepTree
<1>2. at' \in 0..Len(M!Script(script'))
  <2>1. at \in 0..Len(M!Script(script)) /\ Len(M!Script(script)) \in {10, 11}
    BY CommandIs DEF M!TypeOK, M!Step
  <2>2. ASSUME NEW n \in {10, 11}, NEW a \in 0..n, NEW b, b = IF a = n THEN 0 ELSE a + 1
        PROVE  b \in 0..n
    BY <2>2
  <2>3. at' = IF at = Len(M!Script(script)) THEN 0 ELSE at + 1
    BY DEF M!Step
  <2>4. script' = script
    BY DEF M!Step
  <2> QED BY <2>1, <2>2, <2>3, <2>4, Zenon
<1>3. script' = script /\ runs' = runs /\ first' = first
  BY DEF M!Step
<1>4. past' \subseteq {"moved", "between", "recreated"}
  BY StepRest DEF M!TypeOK
<1> QED BY <1>1, <1>2, <1>3, <1>4 DEF M!TypeOK

\* What the first run has moved.
LEMMA StepBook ==
  ASSUME M!TypeOK, Book, M!Step
  PROVE  Book'
<1>1. at \in 1..11
  BY StepRest
<1>2. runs' = runs /\ runs # 0
  BY <1>1, StepRest DEF Book
<1>3. ASSUME runs' <= 1, at' \in 1..8 PROVE "moved" \notin past'
  <2>1. at' = at + 1
    BY <1>3, StepRest
  <2>2. ASSUME NEW b \in 1..8, NEW a \in 1..11, b = a + 1 PROVE a \in 1..7
    BY <2>2
  <2>3. at \in 1..7
    BY <1>1, <1>3, <2>1, <2>2
  <2>4. past' = past
    BY <2>3, StepRest
  <2>5. at \in 1..8 /\ runs <= 1
    BY <2>3, <1>2, <1>3
  <2> QED BY <2>4, <2>5 DEF Book
<1> QED BY <1>2, <1>3 DEF Book

\* The first part of Frees: only the move itself fills its new place, and empties the
\* old one.
LEMMA StepFree ==
  ASSUME M!TypeOK, Frees, Directories, M!Step
  PROVE  (\A i \in Outs : Free(From(i), To(i)))'
<1> SUFFICES ASSUME NEW i \in Outs, To(i) \in DOMAIN fs',
                    NEW x \in DOMAIN fs', M!IsPrefix(From(i), x)
             PROVE  x = From(i) /\ fs'[x] = "dir"
  BY DEF Free, From, To
<1>0. To(i) \in Path
  BY PathsAre
<1>1. Free(From(i), To(i))
  BY DEF Frees
<1>2. CASE at = i
  <2>1. fs' = fs \/ Bare(fs', From(i))
    BY <1>2, OutStep
  <2> QED BY <2>1, <1>1 DEF Free, Bare
<1>3. CASE at # i
  <2>1. x \in DOMAIN fs /\ fs'[x] = fs[x]
    BY <1>3, FromShrinks
  <2>2. To(i) \in DOMAIN fs
    BY <1>0, <1>3, PrefixSelf, TouchesTo, StepSame
  <2> QED BY <2>1, <2>2, <1>1 DEF Free
<1> QED BY <1>2, <1>3

\* The second part: a move takes away the old place of what it puts in the new one.
LEMMA StepOneOfTwo ==
  ASSUME M!TypeOK, Frees, Directories, M!Step, "recreated" \notin past', NEW i \in Outs
  PROVE  ~(To(i) \in DOMAIN fs') \/ ~(From(i) \in DOMAIN fs')
<1>0. To(i) \in Path /\ From(i) \in Path
  BY PathsAre
<1>1. "recreated" \notin past
  BY StepRest
<1>2. ~M!Exists(To(i)) \/ ~M!Exists(From(i))
  BY <1>1 DEF Frees
<1>3. CASE at = i
  <2>1. fs' = fs \/ Bare(fs', From(i))
    BY <1>3, OutStep
  <2> QED BY <2>1, <1>0, <1>2, PrefixSelf DEF Bare, M!Exists
<1>4. CASE at # i
  <2>1. From(i) \in DOMAIN fs' => From(i) \in DOMAIN fs
    BY <1>0, <1>4, PrefixSelf, FromShrinks
  <2>2. To(i) \in DOMAIN fs' => To(i) \in DOMAIN fs
    BY <1>0, <1>4, PrefixSelf, TouchesTo, StepSame
  <2> QED BY <2>1, <2>2, <1>2 DEF M!Exists
<1> QED BY <1>3, <1>4

\* The places that are free.
LEMMA StepFrees ==
  ASSUME M!TypeOK, Frees, Directories, M!Step
  PROVE  Frees'
<1>1. (\A i \in Outs : Free(From(i), To(i)))'
  BY StepFree
<1>2. ("recreated" \notin past => \A i \in Outs : ~M!Exists(To(i)) \/ ~M!Exists(From(i)))'
  BY StepOneOfTwo DEF M!Exists, From, To
<1>3. ASSUME at' = 8 PROVE Bare(fs', M!NewLibrary)
  <2>1. at = 7
    BY <1>3, StepRest
  <2> QED BY <2>1, RmStep, Zenon
<1>4. ASSUME at' \in {9, 10}
      PROVE  Bare(fs', M!NewLibrary) \/ Emptied(fs')
  <2>1. at = 8 \/ at = 9
    BY <1>4, StepRest
  <2>2. CASE at = 8
    <3>1. Bare(fs, M!NewLibrary)
      BY <2>2 DEF Frees
    <3>2. fs' = fs \/ Bare(fs', M!OldLibrary)
      BY <2>2, LibraryStep
    <3> QED BY <3>1, <3>2 DEF Bare, Emptied
  <2>3. CASE at = 9
    <3>1. \A x \in DOMAIN fs' \ DOMAIN fs : x = M!OldLibrary
      BY <2>3, MkdirStep, Zenon
    <3>2. Bare(fs, M!NewLibrary) \/ Emptied(fs)
      BY <2>3 DEF Frees
    <3>3. ~M!IsPrefix(M!NewLibrary, M!OldLibrary)
      BY LibrariesApart DEF Apart
    <3> QED BY <3>1, <3>2, <3>3 DEF Bare, Emptied
  <2> QED BY <2>1, <2>2, <2>3
<1>5. ASSUME at' = 10 PROVE M!OldLibrary \in DOMAIN fs'
  <2>1. at = 9
    BY <1>5, StepRest
  <2>2. M!IsDir(M!Front(M!OldLibrary))
    BY Fronts DEF Directories, KnownDirs, M!IsDir
  <2> QED BY <2>1, <2>2, MkdirStep, Zenon
<1>6. (at = 8 => Bare(fs, M!NewLibrary))'
  BY <1>3 DEF Bare, M!NewLibrary
<1>7. (at \in {9, 10} => Bare(fs, M!NewLibrary) \/ Emptied(fs))'
  BY <1>4 DEF Bare, Emptied, M!NewLibrary, M!OldLibrary
<1>8. (at = 10 => M!Exists(M!OldLibrary))'
  BY <1>5 DEF M!Exists, M!OldLibrary
<1> QED BY <1>1, <1>2, <1>6, <1>7, <1>8 DEF Frees

\* The directories.
LEMMA StepDirectories ==
  ASSUME M!TypeOK, Frees, Directories, M!Step
  PROVE  Directories'
<1>0. KnownDirs \subseteq Path
  BY PathsAre
<1>1. \A x \in KnownDirs : ~((at = 1 /\ x = Zone) \/ (at \in {8, 9} /\ x = M!OldLibrary)) =>
        (x \in DOMAIN fs' <=> x \in DOMAIN fs) /\ (x \in DOMAIN fs => fs'[x] = fs[x])
  BY <1>0, TouchesDirs, StepSame
<1>2. ASSUME NEW x \in KnownDirs, x \in DOMAIN fs' PROVE fs'[x] = "dir"
  <2>0. x \in DOMAIN fs => fs[x] = "dir"
    BY DEF Directories, M!Exists
  <2>1. CASE at = 1 /\ x = Zone
    <3>1. /\ \A y \in DOMAIN fs : fs'[y] = fs[y]
          /\ \A y \in DOMAIN fs' \ DOMAIN fs : fs'[y] = "dir"
      BY <2>1, MkdirStep, Zenon
    <3> QED BY <3>1, <2>0, <1>2
  <2>2. CASE at = 9
    <3>1. /\ \A y \in DOMAIN fs : fs'[y] = fs[y]
          /\ \A y \in DOMAIN fs' \ DOMAIN fs : fs'[y] = "dir"
      BY <2>2, MkdirStep, Zenon
    <3> QED BY <3>1, <2>0, <1>2
  <2>3. CASE at = 8 /\ x = M!OldLibrary
    <3>1. fs' = fs \/ Bare(fs', M!OldLibrary)
      BY <2>3, LibraryStep
    <3>2. M!IsPrefix(M!OldLibrary, x)
      BY <2>3, PathsAre, PrefixSelf
    <3> QED BY <3>1, <3>2, <2>0, <1>2 DEF Bare
  <2> QED BY <1>1, <1>2, <2>0, <2>1, <2>2, <2>3
<1>3. /\ <<"root">> \in KnownDirs /\ <<"db">> \in KnownDirs /\ <<"mobile">> \in KnownDirs
      /\ <<"preferences">> \in KnownDirs
      /\ Zone \in KnownDirs /\ Zone # M!OldLibrary
      /\ \A x \in {<<"root">>, <<"db">>, <<"mobile">>, <<"preferences">>} :
           x # Zone /\ x # M!OldLibrary
  BY DEF KnownDirs, Zone, M!OldLibrary
<1>4. \A x \in {<<"root">>, <<"db">>, <<"mobile">>, <<"preferences">>} :
        x \in DOMAIN fs => x \in DOMAIN fs'
  BY <1>1, <1>3
<1>5. <<"root">> \in DOMAIN fs'
  BY <1>4 DEF Directories, M!Exists
<1>6. first' = first
  BY StepRest
<1>7. ASSUME M!Ready(first)
      PROVE  /\ <<"db">> \in DOMAIN fs' /\ <<"mobile">> \in DOMAIN fs'
             /\ <<"preferences">> \in DOMAIN fs'
  BY <1>4, <1>7 DEF Directories, M!Exists
<1>8. ASSUME M!Ready(first), at' >= 2 PROVE Zone \in DOMAIN fs'
  <2>1. CASE at = 1
    <3>1. M!IsDir(M!Front(Zone))
      BY <1>3, <1>8, Fronts DEF Directories, M!Exists, M!IsDir
    <3> QED BY <2>1, <3>1, MkdirStep, Zenon
  <2>2. CASE at # 1
    <3>1. at >= 2
      BY <2>2, StepRest
    <3>2. Zone \in DOMAIN fs
      BY <3>1, <1>8 DEF Directories, M!Exists
    <3> QED BY <3>2, <2>2, <1>1, <1>3
  <2> QED BY <2>1, <2>2
<1>9. (\A x \in KnownDirs : M!Exists(x) => fs[x] = "dir")'
  BY <1>2 DEF KnownDirs, Zone, M!OldLibrary, M!Exists
<1>10. (M!Exists(<<"root">>))'
  BY <1>5 DEF M!Exists
<1>11. (M!Ready(first)
         => M!Exists(<<"db">>) /\ M!Exists(<<"mobile">>) /\ M!Exists(<<"preferences">>))'
  BY <1>6, <1>7 DEF M!Exists, M!Ready, M!OldLibrary
<1>12. (M!Ready(first) /\ at >= 2 => M!Exists(Zone))'
  BY <1>6, <1>8 DEF M!Exists, Zone, M!Ready, M!OldLibrary
<1> QED BY <1>9, <1>10, <1>11, <1>12 DEF Directories

\* A move that puts a name twice in a row would move into its own, earlier, new place.
LEMMA StepNothingNested ==
  ASSUME M!TypeOK, Frees, Directories, M!NothingNested, M!Step
  PROVE  M!NothingNested'
<1> SUFFICES ASSUME ~M!Nested(first), "recreated" \notin past, NEW x \in DOMAIN fs'
             PROVE  Straight(x)
  <2>1. first' = first /\ ("recreated" \in past' <=> "recreated" \in past)
    BY StepRest
  <2> QED BY <2>1 DEF M!NothingNested, M!Nested, Straight
<1>1. \A y \in DOMAIN fs : Straight(y)
  BY DEF M!NothingNested, M!Nested, Straight
<1>2. at \in 1..11 /\ M!IsTree(fs) /\ x \in Path
  BY StepRest, StepTree DEF M!TypeOK
<1>3. CASE at = 1
  <2>1. \A y \in DOMAIN fs' \ DOMAIN fs : y = Zone
    BY <1>3, MkdirStep, Zenon
  <2> QED BY <2>1, <1>1, StraightPlaces
<1>4. CASE at = 9
  <2>1. \A y \in DOMAIN fs' \ DOMAIN fs : y = M!OldLibrary
    BY <1>4, MkdirStep, Zenon
  <2> QED BY <2>1, <1>1, StraightPlaces
<1>5. CASE at = 7
  <2>1. Bare(fs', M!NewLibrary) /\ Same(fs, fs', M!NewLibrary, M!NewLibrary)
    BY <1>5, RmStep, Zenon
  <2> QED BY <2>1, <1>1, <1>2 DEF Bare, Same
<1>6. CASE at = 11
  <2>1. Bare(fs', M!Installer) /\ Same(fs, fs', M!Installer, M!Installer)
    BY <1>6, RmStep, Zenon
  <2> QED BY <2>1, <1>1, <1>2 DEF Bare, Same
<1>7. ASSUME NEW p \in Path, NEW q \in Path, p # <<>>, q # <<>>, M!Last(p) = M!Last(q),
             Straight(q),
             fs' = M!MvEffect(p, q), fs' = fs \/ ~Bare(fs, p), ~M!Exists(p) \/ ~M!Exists(q)
      PROVE  Straight(x)
  <2>1. CASE fs' = fs
    BY <2>1, <1>1
  <2>2. CASE fs' # fs
    <3>1. PICK y \in DOMAIN fs : M!IsPrefix(p, y)
      BY <2>2, <1>7 DEF Bare
    <3>2. M!Exists(p)
      BY <3>1, <1>2, <1>7, TreeUp DEF M!Exists
    <3> DEFINE u == fs'
    <3>3. u = M!MvEffect(p, q)
      BY <1>7
    <3> HIDE DEF u
    <3>4. \A z \in DOMAIN u : \/ z \in DOMAIN fs
                              \/ M!IsPrefix(q, z) /\ M!Renamed(q, p, z) \in DOMAIN fs
      BY <3>2, <3>3, <1>2, <1>7, MvFrom
    <3>5. x \in DOMAIN fs \/ (M!IsPrefix(q, x) /\ M!Renamed(q, p, x) \in DOMAIN fs)
      BY <3>4 DEF u
    <3> QED BY <3>5, <1>1, <1>2, <1>7, StraightMove
  <2> QED BY <2>1, <2>2
<1>8. CASE at \in Outs
  <2>1. /\ From(at) \in Path /\ To(at) \in Path /\ From(at) # <<>> /\ To(at) # <<>>
        /\ M!Last(From(at)) = M!Last(To(at)) /\ Straight(To(at))
    BY <1>8, PathsAre, ApartOthers, StraightPlaces DEF ApartOf
  <2>2. fs' = M!MvEffect(From(at), To(at)) /\ (fs' = fs \/ ~Bare(fs, From(at)))
    BY <1>8, EffectIs, OutStep
  <2>3. ~M!Exists(From(at)) \/ ~M!Exists(To(at))
    BY <1>8 DEF Frees
  <2> QED BY <2>1, <2>2, <2>3, <1>7
<1>9. CASE at = 8
  <2>1. /\ fs' = M!MvEffect(M!OldLibrary, M!NewLibrary)
        /\ (fs' = fs \/ ~Bare(fs, M!OldLibrary)) /\ ~M!Exists(M!NewLibrary)
    BY <1>9, EffectIs, LibraryStep
  <2> QED BY <2>1, <1>7, PathsAre, LibrariesApart, StraightPlaces
<1>10. CASE at = 10
  <2>1. /\ fs' = M!MvEffect(M!Lockdown.from, M!Lockdown.to)
        /\ (fs' = fs \/ ~Bare(fs, M!Lockdown.from))
        /\ ~M!Exists(M!Lockdown.from) \/ ~M!Exists(M!Lockdown.to)
    BY <1>10, EffectIs, LockdownStep
  <2> QED BY <2>1, <1>7, PathsAre, LibrariesApart, StraightPlaces
<1> QED BY <1>2, <1>3, <1>4, <1>5, <1>6, <1>8, <1>9, <1>10 DEF Outs

\* A piece of data that the next command does not take stays where it is.
LEMMA IsKept ==
  ASSUME M!TypeOK, Frees, Directories, M!Step, NEW p \in Datum, NEW x, Is(x, p), ~Takes(x)
  PROVE  Is(x, p)'
<1>1. x \in DOMAIN fs /\ fs[x] = first[p] /\ fs[x] # "dir"
  BY DEF Is, M!Holds, M!Exists, Datum
<1>2. x \in DOMAIN fs' /\ fs'[x] = fs[x]
  BY <1>1, StepKept
<1>3. first' = first
  BY StepRest
<1> QED BY <1>1, <1>2, <1>3 DEF Is, M!Holds, M!Exists

\* A piece of data has a path.
LEMMA DatumPath == ASSUME M!TypeOK PROVE Datum \subseteq Path
<1>1. M!IsTree(first)
  BY MigrationAssumed DEF M!TypeOK, M!MigrationAssumption, M!IsDevice
<1> QED BY <1>1 DEF M!IsTree, Path, Datum

\* What has gone out is not taken by any command.
LEMMA OutNotTaken ==
  ASSUME NEW i \in Outs, NEW x \in Path, M!IsPrefix(To(i), x)
  PROVE  ~Takes(x)
<1>1. /\ To(i) \in Path /\ M!NewLibrary \in Path /\ M!OldLibrary \in Path
      /\ M!Installer \in Path
      /\ M!Lockdown.from \in Path /\ \A j \in Outs : From(j) \in Path
  BY PathsAre
<1>2. ApartOf(i)
  BY ApartOthers
<1>3. /\ ~M!IsPrefix(M!NewLibrary, x) /\ ~M!IsPrefix(M!OldLibrary, x)
      /\ ~M!IsPrefix(M!Installer, x)
      /\ ~M!IsPrefix(M!Lockdown.from, x)
  BY <1>1, <1>2, OnlyOne DEF ApartOf
<1>4. \A j \in Outs : M!IsPrefix(From(j), x) => FALSE
  BY <1>1, ApartFromTo, ThroughBoth
<1> QED BY <1>3, <1>4 DEF Takes

\* Where a piece of data goes out to.
LEMMA OutAt ==
  ASSUME NEW i \in Outs, NEW p \in Path, M!IsPrefix(From(i), p)
  PROVE  Out(i, p) \in Path /\ M!IsPrefix(To(i), Out(i, p)) /\ ~Takes(Out(i, p))
<1>1. From(i) \in Path /\ To(i) \in Path
  BY PathsAre
<1>2. Out(i, p) \in Path /\ M!IsPrefix(To(i), Out(i, p))
  BY <1>1, RenamedAt DEF Out
<1> QED BY <1>2, OutNotTaken

\* What has gone out stays out.
LEMMA OutedKept ==
  ASSUME M!TypeOK, Frees, Directories, M!Step, NEW p \in Datum, Outed(p)
  PROVE  Outed(p)'
<1>1. PICK i \in Outs : M!IsPrefix(From(i), p) /\ Is(Out(i, p), p)
  BY DEF Outed
<1>2. ~Takes(Out(i, p))
  BY <1>1, DatumPath, OutAt
<1>3. Is(Out(i, p), p)'
  <2> DEFINE x == Out(i, p)
  <2>1. Is(x, p) /\ ~Takes(x)
    BY <1>1, <1>2
  <2> HIDE DEF x
  <2>2. Is(x, p)'
    BY <2>1, IsKept
  <2> QED BY <2>2 DEF x, Out, From, To, Is
<1> QED BY <1>1, <1>3 DEF Outed, From

\* What no command moves.
LEMMA StepUntaken ==
  ASSUME M!TypeOK, Frees, Directories, Untaken, M!Step
  PROVE  Untaken'
<1>1. first' = first
  BY StepRest
<1>2. ASSUME NEW p \in Datum, ~Outward(p), ~M!IsPrefix(M!OldLibrary, p),
             ~M!IsPrefix(M!NewLibrary, p)
      PROVE  Is(p, p)'
  <2>1. p \in Path
    BY DatumPath
  <2>2. ~M!IsPrefix(M!Lockdown.from, p) /\ ~M!IsPrefix(M!Installer, p)
    BY <2>1, <1>2, LibrariesApart, PathsAre, PrefixTrans
  <2>3. ~Takes(p)
    BY <2>2, <1>2 DEF Takes, Outward
  <2>4. Is(p, p)
    BY <1>2 DEF Untaken
  <2> QED BY <2>3, <2>4, IsKept
<1>3. Datum' = Datum
  BY <1>1 DEF Datum
<1> QED BY <1>2, <1>3 DEF Untaken, Outward, From, M!OldLibrary, M!NewLibrary

\* What goes out.
LEMMA StepGoing ==
  ASSUME M!TypeOK, Frees, Directories, Going, M!Step
  PROVE  Going'
<1>1. first' = first /\ at \in 1..11
  BY StepRest
<1>2. ASSUME M!Ready(first), NEW p \in Datum, NEW i \in Outs, M!IsPrefix(From(i), p)
      PROVE  Is(Out(i, p), p)' \/ (Is(p, p)' /\ "moved" \notin past' /\ at' <= i)
  <2>0. p \in Path /\ From(i) \in Path /\ To(i) \in Path
    BY DatumPath, PathsAre
  <2>1. CASE Is(Out(i, p), p)
    <3> DEFINE x == Out(i, p)
    <3>1. Is(x, p) /\ ~Takes(x)
      BY <2>0, <2>1, <1>2, OutAt
    <3> HIDE DEF x
    <3>2. Is(x, p)'
      BY <3>1, IsKept
    <3> QED BY <3>2 DEF x, Out, From, To, Is
  <2>2. CASE Is(p, p) /\ "moved" \notin past /\ at = i
    <3>1. p \in DOMAIN fs /\ fs[p] = first[p] /\ fs[p] # "dir" /\ M!IsTree(fs)
      BY <2>2 DEF Is, M!Holds, M!Exists, Datum, M!TypeOK
    <3>2. M!Exists(From(i))
      BY <3>1, <2>0, <1>2, TreeUp DEF M!Exists
    <3>3. ~M!Exists(To(i))
      BY <3>1, <1>2 DEF Frees, Free, M!Exists
    <3>4. M!IsDir(M!Front(To(i)))
      <4>0. /\ \A x \in KnownDirs : M!Exists(x) => M!IsDir(x)
            /\ M!Exists(<<"db">>) /\ M!Exists(<<"mobile">>) /\ M!Exists(<<"preferences">>)
            /\ M!Exists(Zone) /\ M!Exists(<<"root">>)
        BY <2>2, <1>2 DEF Directories, M!IsDir, Outs
      <4>1. /\ <<"db">> \in KnownDirs /\ <<"mobile">> \in KnownDirs
            /\ <<"preferences">> \in KnownDirs /\ Zone \in KnownDirs
        BY DEF KnownDirs
      <4>2. M!IsDir(<<>>)
        <5>1. <<>> \in Path /\ <<"root">> \in Path /\ <<>> # <<"root">>
          BY NamesAre DEF Path
        <5>2. M!IsPrefix(<<>>, <<"root">>)
          BY <5>1, PrefixAt
        <5> QED BY <5>1, <5>2, <4>0, <3>1, TreeUp DEF M!Exists, M!IsDir
      <4> QED BY <4>0, <4>1, <4>2, OutsAre, Fronts
    <3>5. Goes(fs, fs', From(i), To(i))
      BY <3>2, <3>3, <3>4, <2>2, OutStep
    <3>6. Out(i, p) \in DOMAIN fs' /\ fs'[Out(i, p)] = first[p]
      BY <3>1, <3>5, <1>2 DEF Goes, Out
    <3> QED BY <3>6, <1>1 DEF Is, M!Holds, M!Exists, Out, From, To
  <2>3. CASE Is(p, p) /\ "moved" \notin past /\ at # i /\ at <= i
    <3>1. \A j \in Outs : j # i => ~M!IsPrefix(From(j), p)
      BY <2>0, <1>2, PathsAre, ApartFromTo, OnlyOne
    <3>2. at \in 1..5 /\ at + 1 <= i /\ at <= 9
      BY <2>3, <1>1 DEF Outs
    <3>3. ~Takes(p)
      BY <3>1, <3>2, <2>3 DEF Takes
    <3>4. Is(p, p)'
      BY <3>3, <2>3, IsKept
    <3>5. past' = past /\ at' = at + 1
      BY <3>2, StepRest
    <3> QED BY <3>2, <3>4, <3>5, <2>3
  <2> QED BY <2>1, <2>2, <2>3, <1>1, <1>2 DEF Going
<1>3. Datum' = Datum
  BY <1>1 DEF Datum
<1> QED BY <1>1, <1>2, <1>3 DEF Going, From, M!Ready, M!OldLibrary, Outs

\* A place of the Library's data in the new Library.
LEMMA LibAt ==
  ASSUME NEW p \in Path, M!IsPrefix(M!OldLibrary, p)
  PROVE  /\ Lib(p) \in Path /\ M!IsPrefix(M!NewLibrary, Lib(p))
         /\ \A i \in Outs : ~M!IsPrefix(From(i), Lib(p))
         /\ ~M!IsPrefix(M!OldLibrary, Lib(p))
<1>1. Lib(p) \in Path /\ M!IsPrefix(M!NewLibrary, Lib(p))
  BY LibraryParts
<1>2. \A i \in Outs : ~M!IsPrefix(From(i), Lib(p))
  BY <1>1, PathsAre, ApartOthers, ThroughBoth DEF ApartOf
<1>3. ~M!IsPrefix(M!OldLibrary, Lib(p))
  BY <1>1, PathsAre, LibrariesApart, ThroughBoth
<1> QED BY <1>1, <1>2, <1>3

\* The Library's data goes with the Library.
LEMMA GoesToLib ==
  ASSUME M!TypeOK, Frees, M!Step, at = 8, fs' # fs, NEW p \in Datum,
         M!IsPrefix(M!OldLibrary, p), Is(p, p)
  PROVE  Is(Lib(p), p)'
<1>1. Goes(fs, fs', M!OldLibrary, M!NewLibrary)
  BY LibraryStep
<1>2. p \in DOMAIN fs /\ fs[p] = first[p] /\ fs[p] # "dir"
  BY DEF Is, M!Holds, M!Exists, Datum
<1>3. Lib(p) \in DOMAIN fs' /\ fs'[Lib(p)] = first[p]
  BY <1>1, <1>2 DEF Goes, Lib
<1>4. first' = first
  BY StepRest
<1> QED BY <1>3, <1>4 DEF Is, M!Holds, M!Exists, Lib, M!OldLibrary, M!NewLibrary

\* Lockdown, that is in the moved Library, comes back to where it was.
LEMMA LockdownBack ==
  ASSUME M!TypeOK, Frees, Directories, M!Step, at = 10,
         NEW p \in Datum, M!IsPrefix(M!Lockdown.to, p), Is(Lib(p), p)
  PROVE  Is(p, p)'
<1>0. /\ p \in Path /\ M!Lockdown.to \in Path /\ M!Lockdown.from \in Path
      /\ M!OldLibrary \in Path
  BY DatumPath, PathsAre
<1>1. M!IsPrefix(M!OldLibrary, p)
  BY <1>0, LibrariesApart, PrefixTrans
<1>2. /\ Lib(p) \in Path /\ M!IsPrefix(M!Lockdown.from, Lib(p))
      /\ M!Renamed(M!Lockdown.from, M!Lockdown.to, Lib(p)) = p
  BY <1>0, <1>1, LibraryParts
<1>3. Lib(p) \in DOMAIN fs /\ fs[Lib(p)] = first[p] /\ fs[Lib(p)] # "dir" /\ M!IsTree(fs)
  BY DEF Is, M!Holds, M!Exists, Datum, M!TypeOK
<1>4. M!Exists(M!Lockdown.from)
  BY <1>0, <1>2, <1>3, TreeUp DEF M!Exists
<1>5. Goes(fs, fs', M!Lockdown.from, M!Lockdown.to)
  BY <1>4, LockdownStep
<1>6. p \in DOMAIN fs' /\ fs'[p] = first[p]
  <2> DEFINE x == Lib(p)
  <2>1. /\ x \in DOMAIN fs /\ fs[x] = first[p] /\ fs[x] # "dir"
        /\ M!IsPrefix(M!Lockdown.from, x)
        /\ M!Renamed(M!Lockdown.from, M!Lockdown.to, x) = p
    BY <1>2, <1>3
  <2> HIDE DEF x
  <2> QED BY <2>1, <1>5 DEF Goes
<1>7. first' = first
  BY StepRest
<1> QED BY <1>6, <1>7 DEF Is, M!Holds, M!Exists

\* In the new Library it stays till a command takes it.
LEMMA LibKept ==
  ASSUME M!TypeOK, Frees, Directories, M!Step, NEW p \in Datum, M!IsPrefix(M!OldLibrary, p),
         Is(Lib(p), p), ~Takes(Lib(p))
  PROVE  Is(Lib(p), p)'
<1> DEFINE x == Lib(p)
<1>1. Is(x, p) /\ ~Takes(x)
  OBVIOUS
<1> HIDE DEF x
<1>2. Is(x, p)'
  BY <1>1, IsKept
<1> QED BY <1>2 DEF x, Lib, M!OldLibrary, M!NewLibrary, Is

\* Lockdown.
LEMMA StepLockdownKept ==
  ASSUME M!TypeOK, Frees, Directories, LockdownKept, M!Step
  PROVE  LockdownKept'
<1>1. first' = first /\ at \in 1..11
  BY StepRest
<1>2. ASSUME "between" \notin past', NEW p \in Datum, M!IsPrefix(M!Lockdown.to, p)
      PROVE  Is(p, p)' \/ (at' \in {9, 10} /\ Is(Lib(p), p)')
  <2>0. p \in Path /\ \A i \in Outs : From(i) \in Path
    BY DatumPath, PathsAre
  <2>1. "between" \notin past
    BY <1>2, StepRest
  <2>2. M!IsPrefix(M!OldLibrary, p) /\ ~M!IsPrefix(M!NewLibrary, p)
    BY <2>0, <1>2, PathsAre, LibrariesApart, PrefixTrans, OnlyOne
  <2>3. ~M!IsPrefix(M!Lockdown.from, p) /\ ~M!IsPrefix(M!Installer, p)
    BY <2>0, <2>2, PathsAre, LibrariesApart, PrefixTrans
  <2>4. \A i \in Outs : ~M!IsPrefix(From(i), p)
    BY <2>0, <1>2, PathsAre, ApartOthers, ThroughBoth DEF ApartOf
  <2>5. CASE Is(p, p) /\ at # 8
    <3>1. ~Takes(p)
      BY <2>2, <2>3, <2>4, <2>5 DEF Takes
    <3> QED BY <3>1, <2>5, IsKept
  <2>6. CASE Is(p, p) /\ at = 8
    <3>1. CASE fs' = fs
      BY <3>1, <2>6, <1>1 DEF Is, M!Holds, M!Exists
    <3>2. CASE fs' # fs
      <4>1. at' = 9
        BY <2>6, StepRest
      <4> QED BY <4>1, <3>2, <2>2, <2>6, GoesToLib
    <3> QED BY <3>1, <3>2
  <2>7. CASE at = 9 /\ Is(Lib(p), p)
    <3>1. ~Takes(Lib(p)) /\ at' = 10
      BY <2>7, StepRest DEF Takes, Outs
    <3> QED BY <3>1, <2>2, <2>7, LibKept
  <2>8. CASE at = 10 /\ Is(Lib(p), p)
    BY <2>8, <1>2, LockdownBack
  <2> QED BY <2>1, <2>5, <2>6, <2>7, <2>8, <1>2 DEF LockdownKept
<1>3. Datum' = Datum
  BY <1>1 DEF Datum
<1> QED BY <1>2, <1>3 DEF LockdownKept, M!Lockdown, M!Mv

\* The data before the Library's move.
LEMMA StepBeforeMove ==
  ASSUME M!TypeOK, Frees, Directories, BeforeMove, M!Step
  PROVE  BeforeMove'
<1>1. first' = first /\ at \in 1..11
  BY StepRest
<1>2. ASSUME "moved" \notin past', NEW p \in Datum, ~M!IsPrefix(M!NewLibrary, p)
      PROVE  Is(p, p)' \/ Outed(p)'
  <2>0. p \in Path
    BY DatumPath
  <2>1. "moved" \notin past /\ (at = 8 => fs' = fs)
    BY <1>2, StepRest
  <2>2. ~M!IsPrefix(M!Lockdown.from, p) /\ ~M!IsPrefix(M!Installer, p)
    BY <2>0, <1>2, PathsAre, LibrariesApart, PrefixTrans
  <2>3. CASE Outed(p)
    BY <2>3, OutedKept
  <2>4. CASE Is(p, p) /\ ~Takes(p)
    BY <2>4, IsKept
  <2>5. CASE Is(p, p) /\ fs' = fs
    BY <2>5, <1>1 DEF Is, M!Holds, M!Exists
  <2>6. CASE Is(p, p) /\ at \in Outs /\ M!IsPrefix(From(at), p) /\ fs' # fs
    <3> DEFINE i == at
    <3>1. i \in Outs /\ M!IsPrefix(From(i), p) /\ Goes(fs, fs', From(i), To(i))
      BY <2>6, OutStep
    <3> HIDE DEF i
    <3>2. p \in DOMAIN fs /\ fs[p] = first[p] /\ fs[p] # "dir"
      BY <2>6 DEF Is, M!Holds, M!Exists, Datum
    <3>3. Out(i, p) \in DOMAIN fs' /\ fs'[Out(i, p)] = first[p]
      BY <3>1, <3>2 DEF Goes, Out
    <3>4. \E j \in Outs : M!IsPrefix(From(j), p) /\ Out(j, p) \in DOMAIN fs'
            /\ fs'[Out(j, p)] = first[p]
      BY <3>1, <3>3
    <3> QED BY <3>4, <1>1 DEF Outed, Is, M!Holds, M!Exists, Out, From, To
  <2>7. CASE Is(p, p) /\ Takes(p)
    BY <2>1, <2>2, <2>5, <2>6, <2>7, <1>2 DEF Takes
  <2> QED BY <2>1, <2>3, <2>4, <2>7, <1>2 DEF BeforeMove
<1>3. Datum' = Datum
  BY <1>1 DEF Datum
<1> QED BY <1>2, <1>3 DEF BeforeMove, M!NewLibrary

\* The data after that move, in the first run.
LEMMA StepOneRun ==
  ASSUME M!TypeOK, Book, Frees, Directories, BeforeMove, OneRun, M!Step
  PROVE  OneRun'
<1>1. first' = first /\ script' = script /\ runs' = runs /\ at \in 1..11
  BY StepRest
<1>2. ASSUME runs <= 1, "moved" \in past', NEW p \in Datum,
             ~M!IsPrefix(M!NewLibrary, p), ~(script = "app" /\ M!IsPrefix(OldInstaller, p))
      PROVE  \/ Outed(p)'
             \/ M!IsPrefix(M!OldLibrary, p) /\ Is(Lib(p), p)'
             \/ (~M!IsPrefix(M!OldLibrary, p) \/ M!IsPrefix(M!Lockdown.to, p)) /\ Is(p, p)'
  <2>0. p \in Path
    BY DatumPath
  <2>1. ~M!IsPrefix(M!Lockdown.from, p) /\ ~M!IsPrefix(M!Installer, p)
    BY <2>0, <1>2, PathsAre, LibrariesApart, PrefixTrans
  <2>2. CASE Outed(p)
    BY <2>2, OutedKept
  <2>3. CASE at \in 1..8
    <3>1. "moved" \notin past
      BY <2>3, <1>2 DEF Book
    <3>2. at = 8 /\ fs' # fs
      BY <3>1, <1>2, StepRest
    <3>3. Is(p, p) \/ Outed(p)
      BY <3>1, <1>2 DEF BeforeMove
    <3>4. CASE Is(p, p) /\ M!IsPrefix(M!OldLibrary, p)
      BY <3>2, <3>4, GoesToLib
    <3>5. CASE Is(p, p) /\ ~M!IsPrefix(M!OldLibrary, p)
      <4>1. ~Takes(p)
        BY <3>2, <3>5 DEF Takes, Outs
      <4> QED BY <4>1, <3>5, IsKept
    <3> QED BY <3>3, <3>4, <3>5, <2>2
  <2>4. CASE at \in 9..11
    <3>1. "moved" \in past
      BY <2>4, <1>2, StepRest
    <3>2. \/ Outed(p)
          \/ M!IsPrefix(M!OldLibrary, p) /\ Is(Lib(p), p)
          \/ (~M!IsPrefix(M!OldLibrary, p) \/ M!IsPrefix(M!Lockdown.to, p)) /\ Is(p, p)
      BY <3>1, <1>2 DEF OneRun
    <3>3. CASE (~M!IsPrefix(M!OldLibrary, p) \/ M!IsPrefix(M!Lockdown.to, p)) /\ Is(p, p)
      <4>1. ~Takes(p)
        BY <2>1, <2>4 DEF Takes, Outs
      <4> QED BY <4>1, <3>3, IsKept
    <3>4. CASE M!IsPrefix(M!OldLibrary, p) /\ Is(Lib(p), p)
      <4>1. CASE at = 10 /\ M!IsPrefix(M!Lockdown.to, p)
        BY <4>1, <3>4, LockdownBack
      <4>2. CASE ~(at = 10 /\ M!IsPrefix(M!Lockdown.to, p))
        <5>1. at = 11 => ~M!IsPrefix(OldInstaller, p)
          BY <1>2, CommandIs
        <5>2. ~Takes(Lib(p))
          BY <5>1, <4>2, <2>0, <2>4, <3>4, LibraryParts DEF Takes, Outs
        <5> QED BY <5>2, <3>4, LibKept
      <4> QED BY <4>1, <4>2
    <3> QED BY <3>2, <3>3, <3>4, <2>2
  <2> QED BY <2>3, <2>4, <1>1
<1>3. Datum' = Datum
  BY <1>1 DEF Datum
<1>4. ASSUME runs' <= 1, "moved" \in past', NEW p \in Datum
      PROVE  \/ M!IsPrefix(M!NewLibrary, p)
             \/ script' = "app" /\ M!IsPrefix(OldInstaller, p)
             \/ Outed(p)'
             \/ M!IsPrefix(M!OldLibrary, p) /\ Is(Lib(p), p)'
             \/ (~M!IsPrefix(M!OldLibrary, p) \/ M!IsPrefix(M!Lockdown.to, p)) /\ Is(p, p)'
  BY <1>1, <1>2, <1>4
<1> QED BY <1>3, <1>4 DEF OneRun, M!NewLibrary, M!OldLibrary, OldInstaller, M!Lockdown, M!Mv

\* So a command keeps the invariant.
LEMMA StepKeepsMig == ASSUME MigInv, M!Step PROVE MigInv'
BY StepTyped, StepBook, StepFrees, StepDirectories, StepNothingNested, StepUntaken,
     StepGoing,
   StepLockdownKept, StepBeforeMove, StepOneRun DEF MigInv

-----------------------------------------------------------------------------
(***************************************************************************)
(* A restart, the start of a run and the first state.                      *)
(***************************************************************************)
\* What a restart makes anew.
LEMMA FreshIs == M!Fresh = {M!OldLibrary, From(3), From(6)}
BY FromTo DEF M!Fresh, M!OldLibrary

\* The places of 1.1.3 are where the moves go.
LEMMA PlacesAre == M!Places = {<<From(i), To(i)>> : i \in Outs}
<1>1. M!Places = {<<From(2), To(2)>>, <<From(3), To(3)>>, <<From(4), To(4)>>, <<From(5),
      To(5)>>, <<From(6), To(6)>>}
  BY FromTo DEF M!Places
<1>2. 2 \in Outs /\ 3 \in Outs /\ 4 \in Outs /\ 5 \in Outs /\ 6 \in Outs
  BY DEF Outs
<1>3. M!Places \subseteq {<<From(i), To(i)>> : i \in Outs}
  BY <1>1, <1>2
<1>4. \A i \in Outs : <<From(i), To(i)>> \in M!Places
  BY <1>1, OutsAre
<1> QED BY <1>3, <1>4

\* Between the Library's move and Lockdown's.
LEMMA BetweenIs == ASSUME at \in {9, 10} PROVE M!Between
<1>1. /\ Len(M!Moves) = 10 /\ DOMAIN M!Moves = 1..10
      /\ M!Moves[8] = M!Mv(M!OldLibrary, M!NewLibrary)
  BY MovesAre
<1>2. 8 \in DOMAIN M!Moves /\ 10 \in DOMAIN M!Moves
  BY <1>1
<1>3. at # 0 /\ 8 < at /\ at <= 10
  OBVIOUS
<1> QED BY <1>1, <1>2, <1>3 DEF M!Between

\* The directories that a restart makes anew hang on ones that are there.
LEMMA FreshTree ==
  ASSUME M!IsTree(fs), Directories, NEW u,
         u = [q \in DOMAIN fs \cup M!Fresh |-> IF M!Exists(q) THEN fs[q] ELSE "dir"]
  PROVE  M!IsTree(u)
<1> DEFINE made(F) == [q \in DOMAIN fs \cup F |-> IF M!Exists(q) THEN fs[q] ELSE "dir"]
           a == made({M!OldLibrary})
           b == made({M!OldLibrary, From(3)})
<1>0. /\ M!OldLibrary \in Path /\ From(3) \in Path /\ From(6) \in Path
      /\ M!OldLibrary # <<>> /\ From(3) # <<>> /\ From(6) # <<>>
  BY PathsAre DEF Outs
<1>1. /\ <<"root">> \in DOMAIN fs /\ fs[<<"root">>] = "dir"
      /\ M!OldLibrary \in DOMAIN fs => fs[M!OldLibrary] = "dir"
  BY DEF Directories, KnownDirs, M!Exists
<1>2. M!IsTree(a)
  <2>1. DOMAIN a = DOMAIN fs \cup {M!OldLibrary} /\ \A x \in DOMAIN fs : a[x] = fs[x]
    BY DEF M!Exists
  <2> HIDE DEF a
  <2> QED BY <2>1, <1>0, <1>1, WithDir, Fronts
<1>3. M!IsTree(b)
  <2>1. DOMAIN b = DOMAIN a \cup {From(3)} /\ \A x \in DOMAIN a : b[x] = a[x]
    OBVIOUS
  <2>2. M!OldLibrary \in DOMAIN a /\ a[M!OldLibrary] = "dir"
    BY <1>1 DEF M!Exists
  <2> HIDE DEF a, b
  <2> QED BY <2>1, <2>2, <1>0, <1>2, WithDir, Fronts
<1>4. DOMAIN u = DOMAIN b \cup {From(6)} /\ \A x \in DOMAIN b : u[x] = b[x]
  BY FreshIs
<1>5. <<"root">> \in DOMAIN b /\ b[<<"root">>] = "dir"
  BY <1>1 DEF M!Exists
<1> HIDE DEF b
<1> QED BY <1>0, <1>3, <1>4, <1>5, WithDir, Fronts

\* A restart leaves the tree and adds directories, or nothing.
LEMMA RestartTree ==
  ASSUME M!TypeOK, Directories, M!Restart
  PROVE  /\ M!IsTree(fs') /\ DOMAIN fs \subseteq DOMAIN fs'
         /\ \A x \in DOMAIN fs : fs'[x] = fs[x]
         /\ \A x \in DOMAIN fs' \ DOMAIN fs : x \in M!Fresh /\ fs'[x] = "dir"
         /\ "recreated" \notin past' => fs' = fs
<1> DEFINE u == fs'
<1>1. CASE fs' = fs
  BY <1>1 DEF M!TypeOK
<1>2. CASE u = [q \in DOMAIN fs \cup M!Fresh |-> IF M!Exists(q) THEN fs[q] ELSE "dir"]
             /\ "recreated" \in past'
  <2> HIDE DEF u
  <2>1. M!IsTree(u)
    BY <1>2, FreshTree DEF M!TypeOK
  <2>2. /\ DOMAIN u = DOMAIN fs \cup M!Fresh
        /\ \A x \in DOMAIN u : u[x] = IF x \in DOMAIN fs THEN fs[x] ELSE "dir"
    BY <1>2 DEF M!Exists
  <2> QED BY <2>1, <2>2, <1>2 DEF u
<1> QED BY <1>1, <1>2 DEF M!Restart

\* What a restart notes.
LEMMA RestartRest ==
  ASSUME M!Restart
  PROVE  /\ runs > 0 /\ at' = 0 /\ script' = script /\ runs' = runs /\ first' = first
         /\ past' \subseteq past \cup {"recreated", "between"} /\ past \subseteq past'
         /\ at \in {9, 10} => "between" \in past'
<1>1. M!Between \/ at \notin {9, 10}
  BY BetweenIs
<1> QED BY <1>1 DEF M!Restart

\* So a restart keeps the invariant: what it adds are empty directories.
LEMMA RestartKeepsMig == ASSUME MigInv, M!Restart PROVE MigInv'
<1> USE DEF MigInv
<1>1. /\ M!IsTree(fs') /\ DOMAIN fs \subseteq DOMAIN fs'
      /\ \A x \in DOMAIN fs : fs'[x] = fs[x]
      /\ \A x \in DOMAIN fs' \ DOMAIN fs : x \in M!Fresh /\ fs'[x] = "dir"
      /\ "recreated" \notin past' => fs' = fs
  BY RestartTree
<1>2. /\ runs > 0 /\ at' = 0 /\ script' = script /\ runs' = runs /\ first' = first
      /\ past' \subseteq past \cup {"recreated", "between"} /\ past \subseteq past'
      /\ at \in {9, 10} => "between" \in past'
  BY RestartRest
<1>3. "moved" \in past' <=> "moved" \in past
  BY <1>2
<1>4. \A x, p : Is(x, p) => Is(x, p)'
  BY <1>1, <1>2 DEF Is, M!Holds, M!Exists
<1>5. Datum' = Datum
  BY <1>2 DEF Datum
<1>6. M!TypeOK'
  <2>1. at' \in 0..Len(M!Script(script'))
    <3>1. Len(M!Script(script)) \in {10, 11}
      BY ScriptIs, MigrationAssumed DEF M!TypeOK, M!MigrationAssumption
    <3> QED BY <3>1, <1>2
  <2> QED BY <2>1, <1>1, <1>2 DEF M!TypeOK
<1>7. Book'
  BY <1>2 DEF Book
<1>8. Frees'
  <2>1. \A i \in Outs : To(i) \in DOMAIN fs' => To(i) \in DOMAIN fs
    BY <1>1, FreshFacts, PathsAre, PrefixSelf
  <2>2. ASSUME NEW i \in Outs, To(i) \in DOMAIN fs', NEW x \in DOMAIN fs',
               M!IsPrefix(From(i), x)
        PROVE  x = From(i) /\ fs'[x] = "dir"
    <3>1. CASE x \in DOMAIN fs
      BY <3>1, <2>1, <2>2, <1>1 DEF Frees, Free
    <3>2. CASE x \notin DOMAIN fs
      BY <3>2, <2>2, <1>1, FreshFacts
    <3> QED BY <3>1, <3>2
  <2>3. (\A i \in Outs : Free(From(i), To(i)))'
    BY <2>2 DEF Free, From, To
  <2>4. ("recreated" \notin past => \A i \in Outs : ~M!Exists(To(i)) \/ ~M!Exists(From(i)))'
    <3>1. "recreated" \notin past' => "recreated" \notin past /\ fs' = fs
      BY <1>1, <1>2
    <3> QED BY <3>1 DEF Frees, M!Exists, From, To
  <2> QED BY <2>3, <2>4, <1>2 DEF Frees
<1>9. Directories'
  <2>1. (\A x \in KnownDirs : M!Exists(x) => fs[x] = "dir")'
    BY <1>1 DEF Directories, KnownDirs, Zone, M!OldLibrary, M!Exists
  <2> QED BY <2>1, <1>1, <1>2 DEF Directories, M!Exists, M!Ready, M!OldLibrary
<1>10. M!NothingNested'
  BY <1>1, <1>2 DEF M!NothingNested, M!Nested
<1>11. Untaken'
  BY <1>4, <1>5 DEF Untaken, Outward, From, M!OldLibrary, M!NewLibrary
<1>12. Going'
  <2>1. ASSUME M!Ready(first), NEW p \in Datum, NEW i \in Outs, M!IsPrefix(From(i), p)
        PROVE  Is(Out(i, p), p)' \/ (Is(p, p)' /\ "moved" \notin past' /\ at' <= i)
    <3>1. Is(Out(i, p), p) \/ (Is(p, p) /\ "moved" \notin past)
      BY <2>1 DEF Going
    <3>2. Is(Out(i, p), p) => Is(Out(i, p), p)'
      BY <1>1, <1>2 DEF Is, M!Holds, M!Exists, Out, From, To
    <3> QED BY <3>1, <3>2, <1>2, <1>3, <1>4 DEF Outs
  <2> QED BY <2>1, <1>2, <1>5 DEF Going, From, M!Ready, M!OldLibrary, Outs
<1>13. LockdownKept'
  BY <1>2, <1>4, <1>5 DEF LockdownKept, M!Lockdown, M!Mv
<1>14. \A p : Outed(p) => Outed(p)'
  BY <1>1, <1>2 DEF Outed, Is, M!Holds, M!Exists, Out, From, To
<1>15. BeforeMove'
  BY <1>3, <1>4, <1>5, <1>14 DEF BeforeMove, M!NewLibrary
<1>16. OneRun'
  <2>1. \A p : Is(Lib(p), p) => Is(Lib(p), p)'
    BY <1>1, <1>2 DEF Is, M!Holds, M!Exists, Lib, M!OldLibrary, M!NewLibrary
  <2> QED
    BY <2>1, <1>2, <1>3, <1>4, <1>5, <1>14
      DEF OneRun, M!NewLibrary, M!OldLibrary, OldInstaller, M!Lockdown, M!Mv
<1> QED BY <1>6, <1>7, <1>8, <1>9, <1>10, <1>11, <1>12, <1>13, <1>15, <1>16

\* And so does the start of a run, the first one or a later one.
LEMMA StartKeepsMig == ASSUME MigInv, M!Start PROVE MigInv'
<1> USE DEF MigInv
<1>1. /\ at = 0 /\ at' = 1 /\ runs' = runs + 1 /\ runs \in Nat /\ runs' \in 0..MaxRuns
      /\ fs' = fs /\ script' = script /\ first' = first /\ past' = past
  BY MigrationAssumed DEF M!Start, M!TypeOK, M!MigrationAssumption
<1>2. \A x, p : Is(x, p)' <=> Is(x, p)
  BY <1>1 DEF Is, M!Holds, M!Exists
<1>3. Datum' = Datum
  BY <1>1 DEF Datum
<1>4. M!TypeOK'
  <2>1. Len(M!Script(script)) \in {10, 11}
    BY ScriptIs, MigrationAssumed DEF M!TypeOK, M!MigrationAssumption
  <2>2. 1 \in 0..Len(M!Script(script))
    BY <2>1
  <2>3. at' \in 0..Len(M!Script(script'))
    BY <2>2, <1>1, Zenon
  <2> QED BY <2>3, <1>1 DEF M!TypeOK
<1>5. runs' # 0 /\ (runs' <= 1 => past' = {})
  BY <1>1 DEF Book
<1>6. Book'
  BY <1>1, <1>5 DEF Book
<1>7. Frees'
  BY <1>1 DEF Frees, Free, M!Exists, From, To
<1>8. Directories'
  BY <1>1 DEF Directories, KnownDirs, Zone, M!OldLibrary, M!Exists, M!Ready
<1>9. M!NothingNested' /\ Untaken'
  BY <1>1, <1>2, <1>3
    DEF M!NothingNested, M!Nested, Untaken, Outward, From, M!OldLibrary, M!NewLibrary
<1>10. Going'
  BY <1>1, <1>3 DEF Going, Is, M!Holds, M!Exists, Out, From, To, M!Ready, M!OldLibrary, Outs
<1>11. LockdownKept'
  BY <1>1, <1>2, <1>3 DEF LockdownKept, M!Lockdown, M!Mv
<1>12. BeforeMove'
  BY <1>1, <1>3 DEF BeforeMove, Outed, Is, M!Holds, M!Exists, Out, From, To, M!NewLibrary
<1>13. OneRun'
  BY <1>5 DEF OneRun
<1> QED BY <1>4, <1>6, <1>7, <1>8, <1>9, <1>10, <1>11, <1>12, <1>13

\* At first nothing has moved, and the device has nothing where 1.1.3 looks.
LEMMA MigInitially == ASSUME M!Init PROVE MigInv
<1>1. /\ first \in Trees /\ fs = first /\ at = 0 /\ runs = 0 /\ past = {} /\ M!IsDevice(fs)
      /\ script \in Scripts
  BY MigrationAssumed DEF M!Init, M!MigrationAssumption
<1>2. M!TypeOK
  <2>1. Len(M!Script(script)) \in {10, 11}
    BY <1>1, ScriptIs, MigrationAssumed DEF M!MigrationAssumption
  <2> QED BY <2>1, <1>1, MigrationAssumed DEF M!TypeOK, M!IsDevice, M!MigrationAssumption
<1>3. \A i \in Outs : ~M!Exists(To(i))
  <2>1. \A m \in M!Places : m[2] \notin DOMAIN fs
    BY <1>1 DEF M!IsDevice
  <2>2. \A i \in Outs : <<From(i), To(i)>> \in M!Places
    BY PlacesAre
  <2> QED BY <2>1, <2>2 DEF M!Exists
<1>4. Book /\ Frees
  BY <1>1, <1>3 DEF Book, Frees, Free, M!Exists
<1>5. Directories
  BY <1>1 DEF Directories, M!IsDevice, KnownDirs, Zone, M!Ready, M!Exists
<1>6. M!NothingNested
  BY <1>1 DEF M!NothingNested
<1>7. \A p \in Datum : Is(p, p)
  BY <1>1 DEF Datum, Is, M!Holds, M!Exists
<1>8. Untaken /\ Going /\ LockdownKept /\ BeforeMove /\ OneRun
  BY <1>1, <1>7 DEF Untaken, Going, LockdownKept, BeforeMove, OneRun, Outs
<1> QED BY <1>2, <1>4, <1>5, <1>6, <1>8 DEF MigInv

\* So the invariant is inductive.
LEMMA NextKeepsMig == ASSUME MigInv, [M!Next]_M!vars PROVE MigInv'
<1>1. CASE UNCHANGED M!vars
  BY <1>1
    DEF M!vars, MigInv, M!TypeOK, Book, Frees, Free, Bare, Emptied, M!Exists, Directories,
        M!NothingNested,
     Untaken, Going, LockdownKept, BeforeMove, OneRun, Datum, Outed, Is, M!Holds
<1> QED BY <1>1, StepKeepsMig, RestartKeepsMig, StartKeepsMig DEF M!Next, M!Ended

-----------------------------------------------------------------------------
(***************************************************************************)
(* What the invariant says of the data.                                    *)
(***************************************************************************)
\* Where 1.1.3 looks for a piece of data, by what its path begins with.
LEMMA HomeIs ==
  ASSUME NEW p \in Path
  PROVE  /\ \A i \in Outs : M!IsPrefix(From(i), p) => M!Home(p) = Out(i, p)
         /\ ~Outward(p)
              => M!Home(p) = IF M!IsPrefix(M!OldLibrary, p) /\ ~M!IsPrefix(M!Lockdown.to, p)
                                     THEN Lib(p) ELSE p
<1>1. \A m \in M!Places : \E i \in Outs :
        m = <<From(i), To(i)>> /\ m[1] = From(i) /\ m[2] = To(i)
  BY PlacesAre
<1>2. ASSUME NEW i \in Outs, M!IsPrefix(From(i), p) PROVE M!Home(p) = Out(i, p)
  <2> DEFINE m == CHOOSE m \in M!Places : M!IsPrefix(m[1], p)
  <2>1. <<From(i), To(i)>> \in M!Places
    BY PlacesAre
  <2>2. \E n \in M!Places : M!IsPrefix(n[1], p)
    BY <2>1, <1>2
  <2>3. m \in M!Places /\ M!IsPrefix(m[1], p)
    BY <2>2
  <2>4. M!Home(p) = M!Renamed(m[1], m[2], p)
    BY <2>2 DEF M!Home
  <2> HIDE DEF m
  <2>5. PICK j \in Outs : m[1] = From(j) /\ m[2] = To(j)
    BY <2>3, <1>1
  <2>6. j = i
    BY <2>3, <2>5, <1>2, PathsAre, ApartFromTo, ThroughBoth
  <2> QED BY <2>4, <2>5, <2>6 DEF Out
<1>3. ASSUME ~Outward(p)
      PROVE  M!Home(p) = IF M!IsPrefix(M!OldLibrary, p) /\ ~M!IsPrefix(M!Lockdown.to, p)
               THEN Lib(p) ELSE p
  <2>1. ~\E m \in M!Places : M!IsPrefix(m[1], p)
    BY <1>1, <1>3 DEF Outward
  <2> QED BY <2>1 DEF M!Home, Lib
<1> QED BY <1>2, <1>3

\* Installer's data goes with the Library to where the application removes it.
LEMMA InstallerHome ==
  ASSUME NEW p \in Path, M!IsPrefix(OldInstaller, p)
  PROVE  M!IsPrefix(M!Installer, M!Home(p))
<1>1. M!IsPrefix(M!OldLibrary, p)
  BY PathsAre, LibrariesApart, PrefixTrans
<1>2. ~M!IsPrefix(M!Lockdown.to, p)
  BY PathsAre, LibrariesApart, ThroughBoth
<1>3. ~Outward(p)
  BY PathsAre, ApartOthers, ThroughBoth DEF Outward, ApartOf
<1> QED BY <1>1, <1>2, <1>3, HomeIs, LibraryParts

\* A lost piece of data is at none of these places.
LEMMA LostIsNowhere ==
  ASSUME NEW p \in DOMAIN first, first[p] \in M!Lost
  PROVE  /\ p \in Datum /\ ~Outed(p) /\ ~Is(p, p) /\ ~Is(Lib(p), p)
         /\ \A i \in Outs : ~Is(Out(i, p), p)
<1>1. first[p] # "dir"
  BY DEF M!Lost, M!Data
<1>2. \A x \in DOMAIN fs : fs[x] # first[p]
  BY <1>1 DEF M!Lost, M!Data
<1>3. \A x : ~Is(x, p)
  BY <1>2 DEF Is, M!Holds, M!Exists
<1> QED BY <1>1, <1>3 DEF Datum, Outed

\* EverythingInItsPlace: a run nothing cuts is the first one at its end.
LEMMA InPlace == ASSUME MigInv PROVE M!EverythingInItsPlace
<1> SUFFICES ASSUME at = 0, runs = 1, past = {"moved"}, M!Ready(first), NEW p \in Datum,
                    ~M!IsPrefix(M!NewLibrary, p),
                    ~(script = "app" /\ M!IsPrefix(M!Installer, M!Home(p)))
             PROVE  Is(M!Home(p), p)
  BY DEF M!EverythingInItsPlace, Datum, Is
<1>0. p \in Path
  BY DatumPath DEF MigInv
<1>1. CASE Outward(p)
  <2>1. PICK i \in Outs : M!IsPrefix(From(i), p)
    BY <1>1 DEF Outward
  <2>2. Is(Out(i, p), p)
    BY <2>1 DEF MigInv, Going
  <2> QED BY <2>1, <2>2, <1>0, HomeIs
<1>2. CASE ~Outward(p)
  <2>1. ~Outed(p)
    BY <1>2 DEF Outed, Outward
  <2>2. ~(script = "app" /\ M!IsPrefix(OldInstaller, p))
    BY <1>0, InstallerHome
  <2>3. \/ M!IsPrefix(M!OldLibrary, p) /\ Is(Lib(p), p)
        \/ (~M!IsPrefix(M!OldLibrary, p) \/ M!IsPrefix(M!Lockdown.to, p)) /\ Is(p, p)
    BY <2>1, <2>2 DEF MigInv, OneRun
  <2>4. M!IsPrefix(M!Lockdown.to, p) => Is(p, p)
    BY DEF MigInv, LockdownKept
  <2> QED BY <2>3, <2>4, <1>0, <1>2, HomeIs
<1> QED BY <1>1, <1>2

\* LostOnlyByARerun: in the first run nothing is lost, the shell's or the application's.
LEMMA LostByRerun == ASSUME MigInv PROVE M!LostOnlyByARerun
<1> SUFFICES ASSUME NEW p \in DOMAIN first, first[p] \in M!Lost,
                    ~M!IsPrefix(M!NewLibrary, p)
             PROVE  \/ script = "app" /\ M!IsPrefix(M!Installer, M!Home(p))
                    \/ "moved" \in past /\ runs > 1
  BY DEF M!LostOnlyByARerun
<1>1. p \in Datum /\ ~Outed(p) /\ ~Is(p, p) /\ ~Is(Lib(p), p)
  BY LostIsNowhere
<1>2. p \in Path /\ runs \in Nat
  BY <1>1, DatumPath, MigrationAssumed DEF MigInv, M!TypeOK, M!MigrationAssumption
<1>3. "moved" \in past
  BY <1>1 DEF MigInv, BeforeMove
<1>4. CASE runs <= 1
  BY <1>1, <1>2, <1>3, <1>4, InstallerHome DEF MigInv, OneRun
<1> QED BY <1>2, <1>3, <1>4

\* OnlyTheLibraryIsLost: what goes out, and what is never moved, is there in any run.
LEMMA LibraryLost == ASSUME MigInv PROVE M!OnlyTheLibraryIsLost
<1> SUFFICES ASSUME NEW p \in DOMAIN first, M!Ready(first), first[p] \in M!Lost
             PROVE  IF M!IsPrefix(M!Lockdown.to, p) THEN "between" \in past
                      ELSE M!IsPrefix(M!NewLibrary, M!Home(p))
  BY DEF M!OnlyTheLibraryIsLost
<1>1. p \in Datum /\ ~Is(p, p) /\ ~Is(Lib(p), p) /\ \A i \in Outs : ~Is(Out(i, p), p)
  BY LostIsNowhere
<1>2. p \in Path
  BY <1>1, DatumPath DEF MigInv
<1>3. M!IsPrefix(M!Lockdown.to, p) => "between" \in past
  BY <1>1 DEF MigInv, LockdownKept
<1>4. ~Outward(p)
  BY <1>1 DEF Outward, MigInv, Going
<1>5. M!IsPrefix(M!OldLibrary, p) \/ M!IsPrefix(M!NewLibrary, p)
  BY <1>1, <1>4 DEF MigInv, Untaken
<1>6. ASSUME ~M!IsPrefix(M!Lockdown.to, p) PROVE M!IsPrefix(M!NewLibrary, M!Home(p))
  BY <1>2, <1>4, <1>5, <1>6, HomeIs, LibraryParts
<1> QED BY <1>3, <1>6

\* migrate.sh and jb113.sh: a run that nothing cuts puts the user's data where 1.1.3
\* looks for it; a run begun anew after a restart loses nothing but the Library, only if
\* one before it had moved the Library, and Lockdown only if one was cut before it had
\* moved that back; nothing is moved into what had been moved.
THEOREM DataStays == ScriptsSpec => []DataKept
<1> DEFINE Inv == about = "data" => MigInv
<1>1. ScriptsInit => Inv
  BY MigInitially DEF ScriptsInit
<1>2. Inv /\ [ScriptsNext]_scripts => Inv'
  <2> SUFFICES ASSUME about = "data", MigInv, [ScriptsNext]_scripts PROVE MigInv'
    BY DEF ScriptsNext, scripts
  <2>1. [M!Next]_M!vars
    BY DEF ScriptsNext, scripts, data, M!vars
  <2> QED BY <2>1, NextKeepsMig
<1>3. Inv => DataKept
  BY InPlace, LostByRerun, LibraryLost DEF MigInv, DataKept
<1> QED BY <1>1, <1>2, <1>3, PTL DEF ScriptsSpec

=============================================================================
