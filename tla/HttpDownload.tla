----------------------------- MODULE HttpDownload -----------------------------
(***************************************************************************)
(* utilities.c, download(): the HTTP client that was to fetch the 1.1.3    *)
(* image (wget does it in this version).  The answer of the server is a    *)
(* header and a body; a read returns any part of it that has come, and 0   *)
(* once the connection is closed, at its end or before it.                 *)
(***************************************************************************)
EXTENDS Integers

CONSTANTS
  Answers,    \* what a server may answer: see HttpAssumption
  Buffer,     \* sizeof(buff) - 1
  MaxFaults   \* bound: reads and writes that fail, connections that are cut

NoLength == -1000

HttpAssumption ==
  /\ Buffer \in Nat \ {0} /\ MaxFaults \in Nat
  /\ Answers \subseteq
       [head : Nat \ {0},     \* size of the header
        length : Int,         \* Content-Length, or NoLength
        said : Int,           \* the number behind that word at the body's beginning
        size : Nat,           \* size of the body
        stays : BOOLEAN]      \* the connection is left open after the body

VARIABLES
  answer,
  pc,        \* "resolve", "connect", "send", "open", "header", "done", and the two
             \* loops for the body: "sized", "unsized"
  got,       \* how much of the answer has been read
  len,       \* what the last read returned
  clen,      \* what is left of Content-Length, by the client's count
  carried,   \* the part of the body that came with the end of the header
  file,      \* "absent", "open", "kept" or "unlinked"
  written,   \* how much of the body is in it
  fds,       \* the descriptors that are open
  faults,
  cut,       \* history: the connection was closed early
  lost       \* history: a write failed

vars == <<answer, pc, got, len, clen, carried, file, written, fds, faults, cut, lost>>
progress == <<got, len, clen, carried, written, faults, cut, lost>>

Init ==
  /\ answer \in Answers
  /\ pc = "resolve" /\ got = 0 /\ len = 0 /\ clen = 0 /\ carried = 0
  /\ file = "absent" /\ written = 0 /\ fds = {}
  /\ faults = 0 /\ cut = FALSE /\ lost = FALSE

Total == answer.head + answer.size

Least(a, b) == IF a < b THEN a ELSE b

-----------------------------------------------------------------------------
\* gethostbyname, the port and socket may be refused.
Resolve ==
  /\ pc = "resolve"
  /\ \/ pc' = "connect" /\ fds' = {"src"}
     \/ pc' = "done" /\ UNCHANGED fds
  /\ UNCHANGED <<answer, file, progress>>

\* Whether connect succeeds is left open: line 232 copies the address from the wrong
\* place.
Connect ==
  /\ pc \in {"connect", "send"}
  /\ \/ pc' = (IF pc = "connect" THEN "send" ELSE "open") /\ UNCHANGED fds
     \/ pc' = "done" /\ fds' = fds \ {"src"}
  /\ UNCHANGED <<answer, file, progress>>

\* The file is created or emptied; if a directory has its name, one in it is.
Open ==
  /\ pc = "open"
  /\ \/ pc' = "header" /\ file' = "open" /\ fds' = fds \cup {"dst"}
     \/ pc' = "done" /\ fds' = fds \ {"src"} /\ UNCHANGED file
  /\ UNCHANGED <<answer, progress>>

\* read: some of what there is room for, 0 at the end or if the connection is cut,
\* -1 if it fails.  At the end of an answer that stays open it does not return.
Read(room) ==
  \/ /\ len' \in 1..Least(room, Total - got)
     /\ ~cut /\ UNCHANGED <<faults, cut>>
  \/ /\ len' = 0 /\ (cut \/ (got = Total /\ ~answer.stays))
     /\ UNCHANGED <<faults, cut>>
  \/ /\ len' = 0 /\ ~cut /\ got < Total /\ cut' = TRUE
     /\ faults < MaxFaults /\ faults' = faults + 1
  \/ /\ len' = -1
     /\ faults < MaxFaults /\ faults' = faults + 1 /\ UNCHANGED cut

Received == got' = got + (IF len' > 0 THEN len' ELSE 0)

\* strstr finds the word in the header or, if it is not there, behind it.
ContentLength == IF answer.length # NoLength THEN answer.length
                 ELSE IF got' > answer.head  THEN answer.said
                 ELSE 0

Unlinked == pc' = "done" /\ file' = "unlinked" /\ fds' = {}

\* write of n bytes of the body; whether it succeeds is not looked at.
Store(n) ==
  \/ written' = written + n /\ UNCHANGED lost
  \/ n > 0 /\ ~lost /\ faults < MaxFaults /\ lost' = TRUE /\ UNCHANGED written

\* A length that makes no sense ends it here too.
ToBody(left) ==
  /\ carried' = got' - answer.head
  /\ IF ContentLength < 0 THEN Unlinked /\ UNCHANGED clen
     ELSE /\ pc' = IF ContentLength > 0 THEN "sized" ELSE "unsized"
          /\ clen' = left
          /\ UNCHANGED <<file, fds>>

\* Mutant of HeaderEnds: what came with the header is dropped.
HeaderEndsDropped == ToBody(ContentLength) /\ UNCHANGED <<written, lost>>

\* The part of the body that is in the buffer already is written, but not counted off.
HeaderEnds == ToBody(ContentLength) /\ Store(carried')

\* The header is gathered in one buffer; if it does not fit, or the connection ends
\* before it does, the file is removed.
Header ==
  /\ pc = "header"
  /\ \/ /\ got < Buffer /\ Read(Buffer - got) /\ Received
        /\ \/ len' > 0 /\ got' >= answer.head /\ HeaderEnds
           \/ /\ len' > 0 /\ got' < answer.head
              /\ UNCHANGED <<pc, clen, carried, file, written, fds, lost>>
           \/ len' <= 0 /\ Unlinked /\ UNCHANGED <<clen, carried, written, lost>>
     \/ got >= Buffer /\ Unlinked /\ UNCHANGED progress
  /\ UNCHANGED answer

\* With a length until it is used up, without one until the end.
More == len > 0 /\ (pc = "sized" => clen > 0)

Body ==
  /\ pc \in {"sized", "unsized"} /\ More
  /\ Read(Buffer + 1) /\ Received
  /\ Store(got' - got)
  /\ clen' = IF pc = "sized" THEN clen - len' ELSE clen
  /\ UNCHANGED <<answer, pc, carried, file, fds>>

\* The file is kept, whether it is whole or not.
Finish ==
  /\ pc \in {"sized", "unsized"} /\ ~More
  /\ pc' = "done" /\ file' = "kept" /\ fds' = {}
  /\ UNCHANGED <<answer, progress>>

Hung == pc \in {"header", "sized", "unsized"} /\ answer.stays /\ got = Total

Ended == (pc = "done" \/ Hung) /\ UNCHANGED vars

Client == Resolve \/ Connect \/ Open \/ Header \/ Body \/ Finish

Next == Client \/ Ended

Spec == Init /\ [][Next]_vars /\ WF_vars(Client)
-----------------------------------------------------------------------------
TypeOK ==
  /\ answer \in Answers
  /\ pc \in {"resolve", "connect", "send", "open", "header", "sized", "unsized", "done"}
  /\ got \in 0..Total /\ len \in -1..(Buffer + 1) /\ clen \in Int
  /\ carried \in 0..answer.size
  /\ file \in {"absent", "open", "kept", "unlinked"}
  /\ written \in 0..answer.size
  /\ fds \subseteq {"src", "dst"}
  /\ faults \in 0..MaxFaults /\ cut \in BOOLEAN /\ lost \in BOOLEAN

\* What is in the file is what has come of the body, byte for byte, however the
\* answer was cut into reads and wherever the header ended in one: nothing of the
\* header, nothing twice, nothing left out.
FileIsBody ==
  file \in {"open", "kept"} /\ ~lost =>
    written = (IF got > answer.head /\ pc # "header" THEN got - answer.head ELSE 0)

\* A file that is kept although it is not whole: the connection was cut or a read
\* failed, a write failed, or the server said less than it had.  (The function returns
\* nothing: its caller cannot tell.)
ShortOnlyIfCut ==
  file = "kept" /\ written < answer.size =>
    \/ cut \/ lost \/ len = -1
    \/ answer.length \in 1..(answer.size - 1)
    \/ answer.length = NoLength /\ answer.said \in 1..(answer.size - 1)

\* A file is kept only if the header has come to its end, and one that is too long for
\* the buffer never does.
KeptOnlyWithHeader == file = "kept" => got >= answer.head /\ answer.head <= Buffer

\* Whichever return is taken, no descriptor is left open.
NothingLeftOpen == pc = "done" => fds = {}

\* The client asks the server to close the connection.  If it does, the download
\* ends.  If it does not, the download ends only if the body's length was given and
\* no part of the body came with the end of the header, because that part is not
\* counted off: otherwise the client waits for bytes that it has.
EndedOrWaits ==
  pc = "done" \/ (answer.stays /\ (carried > 0 \/ answer.length # answer.size))
=============================================================================
