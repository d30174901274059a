---------------------------- MODULE DeviceScripts ----------------------------
(***************************************************************************)
(* The two shell scripts that move files about on the device and are run   *)
(* again from their first line after a restart: globscript.sh (GlobScript) *)
(* on the image, migrate.sh (Migration) on the user's data.  They touch    *)
(* different trees; a behaviour is about one of them.                      *)
(***************************************************************************)
EXTENDS Naturals

CONSTANTS
  Dirs, Names, New, Old, MaxFaults,   \* of GlobScript
  FileNames, Trees, Scripts,          \* of Migration
  MaxRuns                             \* bound of both

VARIABLES
  about,                              \* "image" or "data"
  at, runs,
  d, folders, xtmp, faults, dirty, cpFailed,   \* of GlobScript
  fs, script, first, past                      \* of Migration

glob == <<d, folders, xtmp, faults, dirty, cpFailed>>
data == <<fs, script, first, past>>

G == INSTANCE GlobScript WITH pc <- at, image <- folders, failed <- cpFailed
M == INSTANCE Migration WITH pc <- at

ASSUME ScriptsAssumption == G!GlobAssumption /\ M!MigrationAssumption

NoGlob ==
  d = 0 /\ folders = <<>> /\ xtmp = <<>> /\ faults = 0 /\ dirty = FALSE /\ cpFailed = FALSE
NoData == fs = <<>> /\ script = "none" /\ first = <<>> /\ past = {}

ScriptsInit == \/ about = "image" /\ G!Init /\ NoData
               \/ about = "data"  /\ M!Init /\ NoGlob

ScriptsNext ==
  /\ UNCHANGED about
  /\ \/ about = "image" /\ G!Next /\ UNCHANGED data
     \/ about = "data"  /\ M!Next /\ UNCHANGED glob

scripts == <<about, at, runs, glob, data>>

ScriptsSpec == ScriptsInit /\ [][ScriptsNext]_scripts

-----------------------------------------------------------------------------
\* globscript.sh: the new system's own files survive the adding of the running
\* system's, all of which are added, also after a run that was cut and left files in
\* xtmp; what is not of the directory gets no further than the first one.
OwnFilesWin ==
  about = "image" => G!TypeOK /\ G!OwnFilesWin /\ G!ToolsAdded /\ G!StraysInFirstOnly

\* migrate.sh: one run puts every piece of the user's data where 1.1.3 looks for it; a
\* cut and another run lose only the Library, only after it had been moved, and nest
\* nothing in what had been moved.
DataKept ==
  about = "data" =>
    /\ M!TypeOK /\ M!EverythingInItsPlace /\ M!LostOnlyByARerun
    /\ M!OnlyTheLibraryIsLost /\ M!NothingNested
=============================================================================
