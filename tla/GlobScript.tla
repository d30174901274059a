------------------------------ MODULE GlobScript ------------------------------
(***************************************************************************)
(* globscript.sh: the tools of the running system are added to five        *)
(* directories of the new one.  cp overwrites, so the new system's own     *)
(* files are saved to /private/var/xtmp first and copied back afterwards.  *)
(* The image is rebuilt at every launch; xtmp is only ever emptied by the  *)
(* script itself.                                                          *)
(***************************************************************************)
EXTENDS Naturals, Sequences

CONSTANTS
  Dirs,       \* the directories, in order: bin, sbin, usr/libexec, ...
  Names,      \* file names
  New, Old,   \* the names in each directory of the new and the running system
  MaxRuns, MaxFaults   \* bounds

DirSet == {Dirs[k] : k \in 1..Len(Dirs)}

\* No directory is listed twice.
GlobAssumption ==
  /\ New \in [DirSet -> SUBSET Names] /\ Old \in [DirSet -> SUBSET Names]
  /\ {MaxRuns, MaxFaults} \subseteq Nat
  /\ Dirs \in Seq(DirSet) /\ Len(Dirs) > 0
  /\ \A j, k \in 1..Len(Dirs) : Dirs[j] = Dirs[k] => j = k

None == <<"none", "none">>
Contents == {None} \cup (DirSet \X {"new", "old"})

VARIABLES
  pc,      \* "idle", "save", "add", "back", "clear", "done"
  d,       \* the number of the directory at hand
  image,   \* for each directory and name of the image, where the file came from
  xtmp,    \* for each name in xtmp
  runs, faults,
  dirty,   \* history: xtmp was not empty when this run began
  failed   \* history: a cp of this run failed

vars == <<pc, d, image, xtmp, runs, faults, dirty, failed>>

Files(names, dir, system) == [n \in Names |-> IF n \in names THEN <<dir, system>> ELSE None]

Untouched == [dir \in DirSet |-> Files(New[dir], dir, "new")]

Init ==
  /\ pc = "idle" /\ d = 1
  /\ image = Untouched /\ xtmp = [n \in Names |-> None]
  /\ runs = 0 /\ faults = 0 /\ dirty = FALSE /\ failed = FALSE

\* mkdir xtmp, which may be there already.
Start ==
  /\ pc \in {"idle", "done"} /\ runs < MaxRuns
  /\ pc' = "save" /\ d' = 1
  /\ image' = Untouched
  /\ runs' = runs + 1
  /\ dirty' = (\E n \in Names : xtmp[n] # None)
  /\ failed' = FALSE
  /\ UNCHANGED <<xtmp, faults>>

\* cp from/* to: all of the files, or some of them.
Copied(from, to, some) == [n \in Names |-> IF n \in some /\ from[n] # None THEN from[n] ELSE to[n]]

Cp(from, to, result) ==
  \/ result = Copied(from, to, Names) /\ UNCHANGED <<faults, failed>>
  \/ /\ faults < MaxFaults /\ faults' = faults + 1 /\ failed' = TRUE
     /\ \E some \in SUBSET Names \ {Names} : result = Copied(from, to, some)

Here == image[Dirs[d]]

\* Mutant of Save: what is in xtmp already is kept (cp -n).
SaveKeeps ==
  /\ pc = "save" /\ pc' = "add"
  /\ xtmp' = Copied(xtmp, Here, Names) /\ UNCHANGED <<faults, failed>>
  /\ UNCHANGED <<d, image, runs, dirty>>

Save ==
  /\ pc = "save" /\ pc' = "add"
  /\ Cp(Here, xtmp, xtmp')
  /\ UNCHANGED <<d, image, runs, dirty>>

ImageAt(dir, files) == image' = [image EXCEPT ![dir] = files]

Add ==
  /\ pc = "add" /\ pc' = "back"
  /\ \E files \in [Names -> {None, <<Dirs[d], "old">>, <<Dirs[d], "new">>}] :
       /\ Cp(Files(Old[Dirs[d]], Dirs[d], "old"), Here, files)
       /\ ImageAt(Dirs[d], files)
  /\ UNCHANGED <<d, xtmp, runs, dirty>>

Back ==
  /\ pc = "back" /\ pc' = "clear"
  /\ \E files \in [Names -> Contents] :
       /\ Cp(xtmp, Here, files)
       /\ ImageAt(Dirs[d], files)
  /\ UNCHANGED <<d, xtmp, runs, dirty>>

Clear ==
  /\ pc = "clear"
  /\ xtmp' = [n \in Names |-> None]
  /\ IF d < Len(Dirs) THEN d' = d + 1 /\ pc' = "save" ELSE pc' = "done" /\ UNCHANGED d
  /\ UNCHANGED <<image, runs, faults, dirty, failed>>

\* The application or the device goes down: the files stay where they are.
Cut ==
  /\ pc \notin {"idle", "done"} /\ runs < MaxRuns
  /\ pc' = "idle"
  /\ UNCHANGED <<d, image, xtmp, runs, faults, dirty, failed>>

Ended == pc = "done" /\ runs = MaxRuns /\ UNCHANGED vars

Next == Start \/ Save \/ Add \/ Back \/ Clear \/ Cut \/ Ended

Spec == Init /\ [][Next]_vars

-----------------------------------------------------------------------------
TypeOK ==
  /\ pc \in {"idle", "save", "add", "back", "clear", "done"}
  /\ d \in 1..Len(Dirs)
  /\ image \in [DirSet -> [Names -> Contents]] /\ xtmp \in [Names -> Contents]
  /\ runs \in 0..MaxRuns /\ faults \in 0..MaxFaults
  /\ dirty \in BOOLEAN /\ failed \in BOOLEAN
  /\ pc = "done" => \A n \in Names : xtmp[n] = None

Finished(k) == pc = "done" \/ (pc # "idle" /\ k < d)

\* The new system's own files are what they were, whatever was in xtmp when the run
\* began, unless a cp of this run failed.
OwnFilesWin ==
  \A k \in 1..Len(Dirs) : \A n \in New[Dirs[k]] :
    Finished(k) /\ ~failed => image[Dirs[k]][n] = <<Dirs[k], "new">>

\* And all of the running system's files are there beside them.
ToolsAdded ==
  \A k \in 1..Len(Dirs) : \A n \in Old[Dirs[k]] \ New[Dirs[k]] :
    Finished(k) /\ ~failed /\ ~(dirty /\ k = 1)
      => image[Dirs[k]][n] = <<Dirs[k], "old">>

\* What a run that was cut left in xtmp gets into the first directory only: by the
\* second, xtmp has been emptied.
StraysInFirstOnly ==
  \A k \in 1..Len(Dirs) : \A n \in Names :
    image[Dirs[k]][n] # None /\ image[Dirs[k]][n][1] # Dirs[k] => k = 1 /\ dirty
=============================================================================
