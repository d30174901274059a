--------------------------- MODULE MCDeviceScripts ---------------------------
(***************************************************************************)
(* TLC instance of DeviceScripts, three runs of either script.             *)
(* globscript.sh: three directories and three names, each in the new       *)
(* system only, in the running one only, in both, or in another directory  *)
(* of the other; two failing cp.                                           *)
(* migrate.sh: a device's tree with one piece of data in each place the    *)
(* script is about, and the same without some directories.                 *)
(***************************************************************************)
EXTENDS DeviceScripts, SequencesExt

DirNames == {"bin", "sbin", "libexec"}
ThreeDirs == <<"bin", "sbin", "libexec">>
InNew == [x \in DirNames |-> CASE x = "bin" -> {"sh"} [] x = "sbin" -> {"sh", "ssh"}
                             [] x = "libexec" -> {"init"}]
InOld == [x \in DirNames |-> CASE x = "bin" -> {"sh", "ssh", "init"} [] x = "sbin" -> {"ssh", "init"}
                             [] x = "libexec" -> {"init", "sh"}]

UserData == {<<"db", "localtime">>, <<"root", "Media", "song">>,
             <<"root", "Library", "Keychains", "passwords">>,
             <<"root", "Library", "Preferences", "SystemConfiguration", "wifi">>,
             <<"root", "Library", "Preferences", "csidata">>,
             <<"root", "Library", "Lockdown", "pairing">>,
             <<"root", "Library", "Notes">>,
             <<"root", "Library", "Installer", "packages">>,
             <<"mobile", "Library", "default">>}

EmptyDirs == {<<"preferences">>}

Parents(p) == {SubSeq(p, 1, n) : n \in 0..(Len(p) - 1)}

Device == LET dirs == EmptyDirs \cup UNION {Parents(p) : p \in UserData} IN
          [p \in UserData \cup dirs |-> IF p \in UserData THEN Last(p) ELSE "dir"]

Without(t, p) == [q \in {r \in DOMAIN t : ~IsPrefix(p, r)} |-> t[q]]

MissingOne == {Without(Device, p) :
                 p \in {<<"mobile">>, <<"mobile", "Library">>, <<"preferences">>,
                        <<"root", "Media">>, <<"root", "Library", "Keychains">>,
                        <<"root", "Library">>}}

AllTrees == {Device} \cup MissingOne

\* Of the script's own names, "timezone" is in no first tree.
AllFileNames == {"timezone"} \cup UNION {Range(p) : p \in DOMAIN Device}
=============================================================================
