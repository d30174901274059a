------------------------------ MODULE SoftUpgrade ------------------------------
(***************************************************************************)
(* script-upgrade-113/jb113.sh: the same upgrade as Upgrade.app's, done by *)
(* a shell script in which, unlike there, nearly every exit status of the  *)
(* first half is looked at, and which starts from nothing every time.      *)
(* What the checks are worth depends on the exit statuses of vfdecrypt     *)
(* (vfdecrypt.c, main) and dmg2img (dmg2img.c, main), modelled here with   *)
(* them.                                                                   *)
(***************************************************************************)
EXTENDS Naturals

CONSTANTS
  FreeMB,       \* the amounts of free space a run may start with
  MaxRuns,      \* bound: how many times the script is started
  MaxFailures   \* bound: tools that fail on a good input, per behaviour

ASSUME SoftAssumption ==
  FreeMB \subseteq Nat /\ {MaxRuns, MaxFailures} \subseteq Nat

MinMB == 425

Artifacts == {"zip", "dmg", "decr", "dd"}
Contents  == {"absent", "partial", "full"}

\* The sizes, in MB, of the iPod's files (the larger ones).
Size == [a \in Artifacts |-> CASE a = "zip"  -> 166
                               [] a = "dmg"  -> 165
                               [] a = "decr" -> 126
                               [] a = "dd"   -> 280]

VARIABLES
  pc,        \* the next command of the script, or how it ended
  rc,        \* $? of the tool at pc, "none" before it has run
  file,      \* what each artifact in /private/var holds
  free,      \* free space measured in this run
  attached,  \* the run whose disk0s1.dd is attached to vn0, 0 for none
  raw,       \* what /dev/rdisk0s1 holds
  runs, failures,
  silent     \* history: the tools that failed on a good input in this run and
             \* returned 0 all the same

counts == <<runs, failures>>
vars == <<pc, rc, file, free, attached, raw, counts, silent>>

Tools == {"wget", "ditto", "vfdecrypt", "dmg2img"}
Works == {"present", "remount", "attach", "mountImage", "customise", "flash", "flashing"}
Exits == {"noSpace", "aborted", "missing", "noRemount", "noAttach", "noMount"}

Output == [t \in Tools |-> CASE t = "wget"      -> "zip"
                             [] t = "ditto"     -> "dmg"
                             [] t = "vfdecrypt" -> "decr"
                             [] t = "dmg2img"   -> "dd"]

Source(t) == CASE t = "wget"      -> "full"
               [] t = "ditto"     -> file["zip"]
               [] t = "vfdecrypt" -> file["dmg"]
               [] t = "dmg2img"   -> file["decr"]

After == [t \in Tools |-> CASE t = "wget"      -> "ditto"
                            [] t = "ditto"     -> "vfdecrypt"
                            [] t = "vfdecrypt" -> "dmg2img"
                            [] t = "dmg2img"   -> "present"]

TypeOK ==
  /\ pc \in {"idle", "space", "upgraded", "dead"} \cup Exits \cup Tools \cup Works
  /\ rc \in {"none", "ok", "bad"} /\ (rc # "none" => pc \in Tools)
  /\ file \in [Artifacts -> Contents]
  /\ free \in FreeMB \cup {0}
  /\ attached \in 0..MaxRuns
  /\ raw \in {"old", "partial", "full"}
  /\ runs \in 0..MaxRuns /\ failures \in 0..MaxFailures
  /\ silent \subseteq Tools

Init ==
  /\ pc = "idle" /\ rc = "none"
  /\ file = [a \in Artifacts |-> "absent"]
  /\ free = 0 /\ attached = 0 /\ raw = "old"
  /\ runs = 0 /\ failures = 0 /\ silent = {}

-----------------------------------------------------------------------------
(***************************************************************************)
(* What the tools leave behind and return.  Outcomes(t) are pairs of what  *)
(* the output holds and the exit status.                                   *)
(***************************************************************************)
\* wget and ditto report what goes wrong.
Honest(in) == IF in = "full" THEN {<<"full", "ok">>, <<"partial", "bad">>}
              ELSE {<<"partial", "bad">>, <<"absent", "bad">>}

\* vfdecrypt tests that it can open its files and the fread of a header; not that
\* a header was recognised, nor that the last chunk was whole, nor any fwrite.
Vfdecrypt(in) == CASE in = "full"    -> {<<"full", "ok">>, <<"partial", "ok">>,
                                         <<"absent", "bad">>}
                   [] in = "partial" -> {<<"partial", "ok">>, <<"partial", "bad">>}
                   [] in = "absent"  -> {<<"absent", "bad">>}

\* dmg2img returns 0 without an input and after a failed inflation, and does not
\* look at fwrite; it exits with -1 if the trailer or the property list is bad.
Dmg2img(in) == CASE in = "full"    -> {<<"full", "ok">>, <<"partial", "ok">>}
                 [] in = "partial" -> {<<"partial", "ok">>, <<"partial", "bad">>}
                 [] in = "absent"  -> {<<"absent", "ok">>}

Outcomes(t) == CASE t \in {"wget", "ditto"} -> Honest(Source(t))
                 [] t = "vfdecrypt"         -> Vfdecrypt(Source(t))
                 [] t = "dmg2img"           -> Dmg2img(Source(t))

-----------------------------------------------------------------------------
\* Lines 15-22: what an earlier run left is removed, the free space measured.
Start ==
  /\ pc \in {"idle"} \cup Exits /\ runs < MaxRuns
  /\ runs' = runs + 1
  /\ pc' = "space"
  /\ file' = [a \in Artifacts |-> "absent"]
  /\ free' \in FreeMB
  /\ silent' = {}
  /\ UNCHANGED <<rc, attached, raw, failures>>

\* Lines 45-51.
Space ==
  /\ pc = "space"
  /\ pc' = IF free <= MinMB THEN "noSpace" ELSE "wget"
  /\ UNCHANGED <<rc, file, free, attached, raw, counts, silent>>

Run(t) ==
  /\ pc = t /\ rc = "none"
  /\ \E o \in Outcomes(t) :
       /\ file' = [file EXCEPT ![Output[t]] = o[1]]
       /\ rc' = o[2]
       /\ IF Source(t) = "full" /\ o[1] # "full"
          THEN /\ failures < MaxFailures /\ failures' = failures + 1
               /\ silent' = IF o[2] = "ok" THEN silent \cup {t} ELSE silent
          ELSE UNCHANGED <<failures, silent>>
  /\ UNCHANGED <<pc, free, attached, raw, runs>>

Without(gone) == [a \in Artifacts |-> IF a \in gone THEN "absent" ELSE file[a]]

\* What the script removes after a tool that succeeded, and after one that failed.
Used(t) == CASE t = "wget"      -> {}
             [] t = "ditto"     -> {"zip"}
             [] t = "vfdecrypt" -> {"dmg"}
             [] t = "dmg2img"   -> {"decr"}

Spoilt(t) == CASE t = "wget"      -> {"zip"}
               [] t = "ditto"     -> {"zip", "dmg"}
               [] t = "vfdecrypt" -> {"decr", "dmg"}
               [] t = "dmg2img"   -> {"dd", "decr"}

\* Mutant of Judge: ditto's status is not looked at.
JudgeNotDitto(t) ==
  /\ pc = t /\ rc # "none"
  /\ rc' = "none"
  /\ IF rc = "ok" \/ t = "ditto"
     THEN pc' = After[t] /\ file' = Without(Used(t))
     ELSE pc' = "aborted" /\ file' = Without(Spoilt(t))
  /\ UNCHANGED <<free, attached, raw, counts, silent>>

\* Mutant of Judge: the used input stays.
JudgeKeepsInput(t) ==
  /\ pc = t /\ rc # "none"
  /\ rc' = "none"
  /\ IF rc = "ok"
     THEN pc' = After[t] /\ UNCHANGED file
     ELSE pc' = "aborted" /\ file' = Without(Spoilt(t))
  /\ UNCHANGED <<free, attached, raw, counts, silent>>

\* if [ $? -ne 0 ]; then rm ...; exit 1; fi; rm ...
Judge(t) ==
  /\ pc = t /\ rc # "none"
  /\ rc' = "none"
  /\ IF rc = "ok"
     THEN pc' = After[t] /\ file' = Without(Used(t))
     ELSE pc' = "aborted" /\ file' = Without(Spoilt(t))
  /\ UNCHANGED <<free, attached, raw, counts, silent>>

-----------------------------------------------------------------------------
(***************************************************************************)
(* Lines 121-224: from here on only three commands are looked at.          *)
(***************************************************************************)
Goes(here, there) == pc = here /\ pc' = there

Steady == UNCHANGED <<rc, file, free, runs, silent>>

Fault == failures < MaxFailures /\ failures' = failures + 1

Present ==
  /\ Goes("present", IF file["dd"] = "absent" THEN "missing" ELSE "remount")
  /\ Steady /\ UNCHANGED <<attached, raw, failures>>

Remount ==
  /\ \/ Goes("remount", "attach") /\ UNCHANGED failures
     \/ Goes("remount", "noRemount") /\ Fault
  /\ Steady /\ UNCHANGED <<attached, raw>>

Attached == IF attached # 0 THEN Goes("attach", "noAttach") /\ UNCHANGED failures
            ELSE \/ Goes("attach", "mountImage") /\ UNCHANGED failures
                 \/ Goes("attach", "noAttach") /\ Fault

\* Mutant of Attach: the exit status is not looked at.
AttachUnchecked ==
  /\ Goes("attach", "mountImage")
  /\ attached' = IF attached = 0 THEN runs ELSE attached
  /\ Steady /\ UNCHANGED <<raw, failures>>

\* A disk that an aborted run left attached is refused.
Attach ==
  /\ Attached
  /\ attached' = IF pc' = "mountImage" THEN runs ELSE attached
  /\ Steady /\ UNCHANGED raw

\* A truncated image may or may not be refused.
MountImage ==
  /\ \/ Goes("mountImage", "customise") /\ UNCHANGED failures
     \/ Goes("mountImage", "noMount")
        /\ IF file["dd"] = "full" THEN Fault ELSE UNCHANGED failures
  /\ Steady /\ UNCHANGED <<attached, raw>>

\* The image is changed in place, unmounted and detached; the user data migrated.
Customise ==
  /\ Goes("customise", "flash")
  /\ attached' = 0
  /\ Steady /\ UNCHANGED <<raw, failures>>

\* cp disk0s1.dd /dev/rdisk0s1 begins.
Flash ==
  /\ Goes("flash", "flashing")
  /\ raw' = "partial"
  /\ Steady /\ UNCHANGED <<attached, failures>>

\* It ends, its status is not looked at, and the device is restarted.
FlashEnds ==
  /\ \/ Goes("flashing", IF file["dd"] = "full" THEN "upgraded" ELSE "dead")
        /\ raw' = file["dd"] /\ UNCHANGED failures
     \/ Goes("flashing", "dead") /\ Fault /\ UNCHANGED raw
  /\ Steady /\ UNCHANGED attached

\* The battery runs out, the user restarts the device.
PowerCut ==
  /\ pc \notin {"idle", "upgraded", "dead"}
  /\ Fault
  /\ pc' = IF raw = "partial" THEN "dead" ELSE "idle"
  /\ rc' = "none" /\ attached' = 0
  /\ UNCHANGED <<file, free, raw, runs, silent>>

Ended ==
  /\ pc \in {"upgraded", "dead"} \/ (pc \in {"idle"} \cup Exits /\ runs = MaxRuns)
  /\ UNCHANGED vars

\* The script, once started.
Script ==
  \/ Space
  \/ \E t \in Tools : Run(t) \/ Judge(t)
  \/ Present \/ Remount \/ Attach \/ MountImage \/ Customise \/ Flash \/ FlashEnds

Next == Start \/ Script \/ PowerCut \/ Ended

Spec == Init /\ [][Next]_vars

-----------------------------------------------------------------------------
\* What is copied over the running system is a whole image, unless a tool of
\* this very run failed and returned 0 all the same: no file of an earlier run, and
\* no failure that a tool reported, gets as far as the partition.
FlashedIsWhole == pc \in {"flash", "flashing"} /\ file["dd"] # "full" => silent # {}

Taken(a) == IF file[a] = "absent" THEN 0 ELSE Size[a]

Usage == Taken("zip") + Taken("dmg") + Taken("decr") + Taken("dd")

\* The space that is asked for is enough for the files of every stage: each input
\* is removed before the stage after next writes its output.  And a run that a failing
\* tool ended has given all of it back.
SpaceSuffices ==
  /\ pc \in Tools \cup Works => Usage <= free
  /\ pc = "aborted" => Usage = 0

\* What is mounted and customised is this run's image.  A run that ended at "Could not
\* mount the image" (line 148) leaves vn0 attached to an image that the next run
\* removes and makes anew: customising what is attached would change the removed file,
\* and the new one would be flashed as it is.
CustomisesItsOwn == pc \in {"mountImage", "customise"} => attached = runs

-----------------------------------------------------------------------------
(***************************************************************************)
(* The upgrade this implements.                                            *)
(***************************************************************************)
Promise == INSTANCE Upgrade WITH
  part    <- CASE raw = "partial" -> "torn" [] raw = "full" -> "new" [] OTHER -> raw,
  power   <- CASE pc = "dead" -> pc [] pc = "upgraded" -> "up" [] OTHER -> "on",
  faults  <- failures,
  excused <- silent # {},
  stuck   <- FALSE

\* The script restarts the device by itself only with a whole image in place, unless
\* cp has just failed or a tool failed silently in this run.
KeepsPromise == Promise!Safe

-----------------------------------------------------------------------------
\* "ERROR: dmg2img can't convert file" (line 114) is what a run ends with if
\* dmg2img could not convert the file.
ConversionErrorsReported == pc \in Works => "dmg2img" \notin silent
=============================================================================
