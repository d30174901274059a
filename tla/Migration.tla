------------------------------- MODULE Migration -------------------------------
(***************************************************************************)
(* migrate.sh, and the same moves in jb113.sh: the user's data goes from   *)
(* where 1.1.2 looks for it to where 1.1.3 does.  No command is checked,   *)
(* the device may restart between any two, and the script is then run      *)
(* again from its first line.                                              *)
(*                                                                         *)
(* fs maps each path that exists under /private/var to what it holds.      *)
(***************************************************************************)
EXTENDS Naturals, SequencesExt

CONSTANTS
  FileNames, \* what a file or a directory may be called
  Trees,     \* the file trees a first run may find
  Scripts,   \* "app" (migrate.sh), "shell" (jb113.sh)
  MaxRuns    \* bound

\* q, which is at or below p, with d in the place of p.
Renamed(p, d, q) == d \o SubSeq(q, Len(p) + 1, Len(q))

Installer == <<"mobile", "Library", "Installer">>
OldLibrary == <<"root", "Library">>
NewLibrary == <<"mobile", "Library">>

Mv(p, q) == [op |-> "mv", from |-> p, to |-> q]
Rm(p)    == [op |-> "rm", from |-> p, to |-> p]
Mkdir(p) == [op |-> "mkdir", from |-> p, to |-> p]

Lockdown == Mv(<<"mobile", "Library", "Lockdown">>, <<"root", "Library", "Lockdown">>)

Outwards == <<
  Mkdir(<<"db", "timezone">>),
  Mv(<<"db", "localtime">>, <<"db", "timezone", "localtime">>),
  Mv(<<"root", "Library", "Keychains">>, <<"Keychains">>),
  Mv(<<"root", "Library", "Preferences", "SystemConfiguration">>,
     <<"preferences", "SystemConfiguration">>),
  Mv(<<"root", "Library", "Preferences", "csidata">>, <<"preferences", "csidata">>),
  Mv(<<"root", "Media">>, <<"mobile", "Media">>)>>

\* Mutant of Moves: the unused Library is removed after the user's has come.
MovesRmLate ==
  Outwards \o <<Mv(OldLibrary, NewLibrary), Rm(NewLibrary), Mkdir(OldLibrary), Lockdown>>

Moves ==
  Outwards \o <<Rm(NewLibrary), Mv(OldLibrary, NewLibrary), Mkdir(OldLibrary), Lockdown>>

Script(s) == IF s = "app" THEN Append(Moves, Rm(Installer)) ELSE Moves

\* The contents of a tree are "dir" or the name of a piece of the user's data;
\* what a path goes through are directories.
IsTree(t) ==
  /\ DOMAIN t \subseteq Seq(FileNames)
  /\ \A p \in DOMAIN t : \A k \in 0..(Len(p) - 1) :
       SubSeq(p, 1, k) \in DOMAIN t /\ t[SubSeq(p, 1, k)] = "dir"

\* The places 1.1.3 has moved: from where to where.
Places == {
  <<<<"db", "localtime">>, <<"db", "timezone", "localtime">>>>,
  <<<<"root", "Library", "Keychains">>, <<"Keychains">>>>,
  <<<<"root", "Library", "Preferences", "SystemConfiguration">>,
    <<"preferences", "SystemConfiguration">>>>,
  <<<<"root", "Library", "Preferences", "csidata">>, <<"preferences", "csidata">>>>,
  <<<<"root", "Media">>, <<"mobile", "Media">>>>}

\* A device with 1.1.2 has a home of root and nothing yet in 1.1.3's places; what the
\* script takes for a directory is one, if it is there.
IsDevice(t) ==
  /\ IsTree(t)
  /\ <<"root">> \in DOMAIN t
  /\ \A m \in Places : m[2] \notin DOMAIN t
  /\ \A p \in {<<"root">>, OldLibrary, <<"db">>, <<"db", "timezone">>,
               <<"mobile">>, <<"preferences">>} : p \in DOMAIN t => t[p] = "dir"

MigrationAssumption ==
  /\ {"db", "timezone", "localtime", "root", "mobile", "Library", "Media", "Keychains",
      "Preferences", "preferences", "SystemConfiguration", "csidata", "Lockdown",
      "Installer"} \subseteq FileNames
  /\ \A t \in Trees : IsDevice(t)
  /\ Scripts \subseteq {"app", "shell"} /\ MaxRuns \in Nat

VARIABLES
  fs,
  script,
  pc,      \* the next command, 0 while no run is under way
  runs,    \* runs begun
  first,   \* the tree the first run found
  past     \* history: "moved": a run got past the move of the Library;
           \* "between": one was cut before Lockdown had been moved back;
           \* "recreated": 1.1.2 made new directories after a restart

vars == <<fs, script, pc, runs, first, past>>

Init ==
  /\ first \in Trees /\ fs = first
  /\ script \in Scripts
  /\ pc = 0 /\ runs = 0 /\ past = {}

-----------------------------------------------------------------------------
(***************************************************************************)
(* The commands.                                                           *)
(***************************************************************************)
Exists(p) == p \in DOMAIN fs
IsDir(p)  == Exists(p) /\ fs[p] = "dir"
Below(p)  == {q \in DOMAIN fs : IsPrefix(p, q)}

Without(t, p) == [q \in {r \in DOMAIN t : ~IsPrefix(p, r)} |-> t[q]]

\* Into an existing directory, or to the name itself.
Target(p, q) == IF IsDir(q) THEN Append(q, Last(p)) ELSE q

\* rename: a file replaces a file, a directory at most an empty directory.
CanMove(p, d) ==
  /\ Exists(p) /\ IsDir(Front(d)) /\ ~IsPrefix(p, d)
  /\ Exists(d) => IF fs[p] = "dir" THEN Below(d) = {d} /\ IsDir(d) ELSE ~IsDir(d)

Moved(p, d) ==
  LET came == {Renamed(p, d, q) : q \in Below(p)}
      stay == {q \in DOMAIN fs : ~IsPrefix(p, q) /\ ~IsPrefix(d, q)}
  IN  [r \in came \cup stay |-> IF r \in came THEN fs[Renamed(d, p, r)] ELSE fs[r]]

MvEffect(p, q) == IF CanMove(p, Target(p, q)) THEN Moved(p, Target(p, q)) ELSE fs

MkdirEffect(p) ==
  IF Exists(p) \/ ~IsDir(Front(p)) THEN fs
  ELSE [q \in DOMAIN fs \cup {p} |-> IF q = p THEN "dir" ELSE fs[q]]

Effect(c) == CASE c.op = "mv"    -> MvEffect(c.from, c.to)
               [] c.op = "rm"    -> Without(fs, c.from)
               [] c.op = "mkdir" -> MkdirEffect(c.from)

-----------------------------------------------------------------------------
Start ==
  /\ pc = 0 /\ runs < MaxRuns
  /\ runs' = runs + 1
  /\ pc' = 1
  /\ UNCHANGED <<fs, script, first, past>>

Command == Script(script)[pc]

Step ==
  /\ pc # 0
  /\ fs' = Effect(Command)
  /\ pc' = IF pc = Len(Script(script)) THEN 0 ELSE pc + 1
  /\ past' = IF Command = Mv(OldLibrary, NewLibrary) /\ fs' # fs
             THEN past \cup {"moved"} ELSE past
  /\ UNCHANGED <<script, runs, first>>

\* The restart cuts the run; 1.1.2 may make anew the directories it works with.
Fresh == {<<"root", "Library">>, <<"root", "Library", "Keychains">>, <<"root", "Media">>}

Between == pc # 0 /\ \E a, b \in DOMAIN Moves :
             /\ Moves[a] = Mv(OldLibrary, NewLibrary) /\ b = Len(Moves)
             /\ a < pc /\ pc <= b

Restart ==
  /\ runs > 0 /\ runs < MaxRuns
  /\ pc' = 0
  /\ \/ UNCHANGED fs /\ past' = past \cup (IF Between THEN {"between"} ELSE {})
     \/ /\ \E p \in Fresh : ~Exists(p)
        /\ fs' = [q \in DOMAIN fs \cup Fresh |-> IF Exists(q) THEN fs[q] ELSE "dir"]
        /\ past' = past \cup {"recreated"} \cup (IF Between THEN {"between"} ELSE {})
  /\ UNCHANGED <<script, runs, first>>

Ended == pc = 0 /\ runs = MaxRuns /\ UNCHANGED vars

Next == Start \/ Step \/ Restart \/ Ended

Spec == Init /\ [][Next]_vars

-----------------------------------------------------------------------------
\* What is there is still a tree: nothing hangs in the air.
TypeOK ==
  /\ IsTree(fs)
  /\ script \in Scripts /\ first \in Trees
  /\ pc \in 0..Len(Script(script)) /\ runs \in 0..MaxRuns
  /\ past \subseteq {"moved", "between", "recreated"}

Data(t) == {t[p] : p \in DOMAIN t} \ {"dir"}

Holds(p, d) == Exists(p) /\ fs[p] = d

\* Where 1.1.3 looks for what 1.1.2 had at p.
Home(p) ==
  IF \E m \in Places : IsPrefix(m[1], p)
  THEN LET m == CHOOSE m \in Places : IsPrefix(m[1], p) IN Renamed(m[1], m[2], p)
  ELSE IF IsPrefix(OldLibrary, p) /\ ~IsPrefix(Lockdown.to, p)
       THEN Renamed(OldLibrary, NewLibrary, p) ELSE p

Ready(t) == {<<"mobile">>, <<"preferences">>, <<"db">>, OldLibrary} \subseteq DOMAIN t

\* A first run that nothing cuts puts each piece of data where 1.1.3 looks for it,
\* and removes nothing but what lay in the Library of the unused account (and, in the
\* application, Installer's own data), if the directories it moves things into exist.
EverythingInItsPlace ==
  pc = 0 /\ runs = 1 /\ past = {"moved"} /\ Ready(first) =>
    \A p \in DOMAIN first :
      first[p] = "dir" \/ IsPrefix(NewLibrary, p)
      \/ (script = "app" /\ IsPrefix(Installer, Home(p))) \/ Holds(Home(p), first[p])

Lost == Data(first) \ Data(fs)

\* Whatever the cuts, a piece of data is lost only after a run got past the move of the
\* Library and another began: a restart up to that line does no harm.
LostOnlyByARerun ==
  \A p \in DOMAIN first :
    first[p] \in Lost => \/ IsPrefix(NewLibrary, p)
                         \/ script = "app" /\ IsPrefix(Installer, Home(p))
                         \/ "moved" \in past /\ runs > 1

\* Even then only the Library itself is lost.  Lockdown, which is moved out of it
\* again, is lost only if a run was cut between the two moves; what goes elsewhere
\* (media, keychains, network settings) never, if there is somewhere to move it.
OnlyTheLibraryIsLost ==
  \A p \in DOMAIN first :
    Ready(first) /\ first[p] \in Lost =>
      IF IsPrefix(Lockdown.to, p) THEN "between" \in past ELSE IsPrefix(NewLibrary, Home(p))

\* Nothing is moved into what an earlier run moved (mobile/Media/Media) unless the
\* system made the directory anew in between.
Nested(t) == \E p \in DOMAIN t : \E k \in 1..(Len(p) - 1) : p[k] = p[k + 1]

NothingNested == Nested(fs) => Nested(first) \/ "recreated" \in past
=============================================================================
