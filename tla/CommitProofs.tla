----------------------------- MODULE CommitProofs -----------------------------
(***************************************************************************)
(* Proofs about Commit, for an image of any number of chunks and any       *)
(* number of restarts, kills and failing calls.                            *)
(***************************************************************************)
EXTENDS Commit, TLAPS

\* The steps of the worker before the job has been submitted, those after, and
\* those after the remount.
Preparing == {"freeze", "copyRoot", "thaw", "build", "submit"}
Arranging == {"clear", "refill", "migrate", "unlink", "rename", "remount"}
Watching  == {"connect", "recv"} \cup Ends

\* The mishaps that can put the image out of place, or / in the wrong mode.
Misplaced == harm \cap {"frozen", "overlap"} # {}
Exposed   == harm \cap {"writable", "overlap"} # {}

Copies == {"open", "copying"}

\* What the worker has done so far holds where it is now.
WorkerInv ==
  /\ worker \in {"submit", "clear", "refill", "migrate", "unlink", "rename"}
       => work = "final"
  /\ worker \in {"remount"} \cup Watching => dd = "final"
  /\ worker \in Preparing \cup {"clear", "refill", "migrate", "unlink"}
       => dd = "base" \/ "relaunched" \in harm
  /\ worker \in {"build", "submit"} \cup Arranging /\ root = "ro" => "frozen" \in harm
  /\ worker \in Watching => root = "ro" \/ "writable" \in harm
  /\ user = "empty" => "relaunched" \in harm

\* Who is connected to whom, and how far they are.
ChannelInv ==
  /\ daemon # "copying" => sent = 0
  /\ daemon = "copying" =>
       opened \in {"base", "final"} /\ (sent = Chunks => raw = opened \/ spoiled)
  /\ spoiled => daemon = "copying"
  /\ queue # "none" => daemon \in {"listening"} \cup Copies
  /\ peer # "none" => daemon \in Copies
  /\ queue = "live" => worker = "recv" /\ peer # "live"
  /\ peer = "live" => worker \in {"recv", "announced"}
  /\ peer = "live" /\ worker = "announced" => received >= Chunks
  /\ peer = "dead" \/ queue = "dead" => worker = "off" \/ "overlap" \in harm

\* What the job can count on although nothing keeps it in step with the worker:
\* it gets past the socket only once the image is in place and / is read-only.
JobInv ==
  /\ daemon # "none" /\ worker \in Preparing => "overlap" \in harm
  /\ worker \in Arranging /\ ~Misplaced =>
       queue = "none" /\ peer = "none" /\ daemon \notin Copies
  /\ (daemon # "none" /\ root = "ro") \/ queue # "none" \/ daemon \in Copies
       => dd = "final" \/ Misplaced
  /\ daemon = "copying" => opened = "final" \/ Misplaced
  /\ daemon \in Copies \/ queue # "none" => root = "ro" \/ Exposed

IInv == TypeOK /\ WorkerInv /\ ChannelInv /\ JobInv

-----------------------------------------------------------------------------
\* A mishap costs one of its kind and leaves the budgets numbers.
LEMMA SpendTypes ==
  ASSUME TypeOK, NEW m \in Mishaps, Spend(m)
  PROVE  budget' \in [Mishaps -> Nat]
BY DEF TypeOK, Spend

\* A remount that fails is one of the mishaps and costs one of the budget.
LEMMA RemountTypes ==
  ASSUME TypeOK, NEW mode \in {"rw", "ro"}, NEW h \in {"writable", "frozen"},
         RemountRoot(mode, h)
  PROVE  /\ root' \in {"rw", "ro"}
         /\ budget' \in [Mishaps -> Nat]
         /\ harm' \subseteq {"writable", "frozen", "relaunched", "overlap"}
<1>1. CASE root' = mode /\ UNCHANGED others
  BY <1>1 DEF TypeOK, others
<1>2. CASE Spend("fault") /\ harm' = harm \cup {h} /\ UNCHANGED root
  <2>1. "fault" \in Mishaps
    BY DEF Mishaps
  <2>2. budget' \in [Mishaps -> Nat]
    BY <1>2, <2>1, SpendTypes
  <2>3. QED
    BY <1>2, <2>2 DEF TypeOK
<1>3. QED
  BY <1>1, <1>2 DEF RemountRoot

\* What a death of the job leaves behind.
LEMMA DiesTypes ==
  ASSUME TypeOK, Dies
  PROVE  /\ worker' \in Workers /\ daemon' \in Daemons
         /\ opened' \in {"none", "base", "final"} /\ spoiled' \in BOOLEAN
         /\ peer' \in Ears /\ queue' \in Ears
         /\ sent' \in 0..Chunks /\ received' \in 0..sent'
<1>1. worker' \in Workers /\ daemon' \in Daemons
  BY DEF Dies, TypeOK, Workers, Ends, Daemons
<1>2. sent' \in 0..Chunks /\ received' \in 0..sent'
  BY CommitAssumption DEF Dies
<1>3. QED
  BY <1>1, <1>2 DEF Dies, Ears

\* Every step keeps all values in their sets.
LEMMA TypesKept ==
  ASSUME TypeOK, WorkerInv, ChannelInv, [Next]_vars
  PROVE  TypeOK'
<1> USE CommitAssumption DEF TypeOK, WorkerInv, ChannelInv, Workers, Ends, Daemons, Ears,
        At, disk, channel, copy, others, Preparing, Arranging, Watching, Copies
<1>0. Mishaps = {"reboot", "kill", "fault"}
  BY DEF Mishaps
<1>zero. 0 \in 0..Chunks /\ 0 \in 0..0
  BY CommitAssumption
<1>1. CASE Launch
  BY <1>1 DEF Launch
<1>2. CASE Freeze
  <2>1. RemountRoot("ro", "writable")
    BY <1>2 DEF Freeze
  <2>2. QED
    BY <1>2, <2>1, RemountTypes DEF Freeze
<1>3. CASE CopyRoot
  BY <1>3 DEF CopyRoot
<1>4. CASE Thaw
  <2>1. RemountRoot("rw", "frozen")
    BY <1>4 DEF Thaw
  <2>2. QED
    BY <1>4, <2>1, RemountTypes DEF Thaw
<1>5. CASE Build
  BY <1>5 DEF Build
<1>6. CASE Submit
  BY <1>6, <1>0, SpendTypes DEF Submit, AfterSubmit
<1>7. CASE Clear
  BY <1>7 DEF Clear
<1>8. CASE Refill
  BY <1>8 DEF Refill
<1>9. CASE Migrate
  BY <1>9 DEF Migrate
<1>10. CASE Unlink
  BY <1>10 DEF Unlink
<1>11. CASE Rename
  BY <1>11 DEF Rename
<1>12. CASE Remount
  <2>1. RemountRoot("ro", "writable")
    BY <1>12 DEF Remount
  <2>2. QED
    BY <1>12, <2>1, RemountTypes DEF Remount
<1>13. CASE Connect
  BY <1>13 DEF Connect, Listening
<1>14. CASE Receive
  BY <1>14 DEF Receive
<1>15. CASE Bind
  BY <1>15 DEF Bind
<1>16. CASE Listen
  BY <1>16 DEF Listen
<1>17. CASE Accept
  BY <1>17 DEF Accept
<1>18. CASE Open
  <2>1. budget' \in [Mishaps -> Nat]
    BY <1>18, <1>0, SpendTypes DEF Open
  <2>2. QED
    BY <1>18, <2>1, DiesTypes DEF Open
<1>19. CASE Write
  <2>1. budget' \in [Mishaps -> Nat]
    BY <1>19, <1>0, SpendTypes DEF Write
  <2>2. raw' \in {"old", "torn", "base", "final"}
    BY <1>19 DEF Write, Round
  <2>3. PICK b \in BOOLEAN : Round(b)
    BY <1>19 DEF Write
  <2>4. CASE peer = "dead"
    BY <1>19, <2>1, <2>2, <2>3, <2>4, DiesTypes DEF Write, Round
  <2>5. CASE peer # "dead"
    BY <1>19, <2>1, <2>2, <2>3, <2>5 DEF Write, Round
  <2>6. QED
    BY <2>4, <2>5
<1>20. CASE ReadFails
  <2>1. budget' \in [Mishaps -> Nat]
    BY <1>20, <1>0, SpendTypes DEF ReadFails
  <2>2. QED
    BY <1>20, <2>1 DEF ReadFails
<1>21. CASE ReadNothing
  BY <1>21, DiesTypes DEF ReadNothing
<1>22. CASE Finish
  BY <1>22, <1>zero DEF Finish, Boot
<1>23. CASE Kill
  <2>1. budget' \in [Mishaps -> Nat]
    BY <1>23, <1>0, SpendTypes DEF Kill
  <2>2. QED
    BY <1>23, <2>1 DEF Kill, Hear
<1>24. CASE Reboot
  <2>1. budget' \in [Mishaps -> Nat]
    BY <1>24, <1>0, SpendTypes DEF Reboot
  <2>2. QED
    BY <1>24, <1>zero, <2>1 DEF Reboot, Boot
<1>25. CASE UNCHANGED vars
  BY <1>25 DEF vars, disk, channel, copy, others
<1>26. QED
  BY <1>1, <1>2, <1>3, <1>4, <1>5, <1>6, <1>7, <1>8, <1>9, <1>10, <1>11, <1>12,
     <1>13, <1>14, <1>15, <1>16, <1>17, <1>18, <1>19, <1>20, <1>21, <1>22, <1>23, <1>24,
     <1>25
     DEF Next, WorkerStep, DaemonStep, Stopped

\* The worker finds what it left: nobody else moves the images.
LEMMA WorkerKept ==
  ASSUME TypeOK, WorkerInv, ChannelInv, [Next]_vars
  PROVE  WorkerInv'
<1> USE CommitAssumption DEF TypeOK, WorkerInv, ChannelInv, Ends, At, disk, channel, copy, others,
        Preparing, Arranging, Watching, Copies
<1>1. CASE Launch
  BY <1>1 DEF Launch
<1>2. CASE Freeze
  BY <1>2 DEF Freeze, RemountRoot, Spend
<1>3. CASE CopyRoot
  BY <1>3 DEF CopyRoot
<1>4. CASE Thaw
  BY <1>4 DEF Thaw, RemountRoot, Spend
<1>5. CASE Build
  BY <1>5 DEF Build
<1>6. CASE Submit
  BY <1>6 DEF Submit, AfterSubmit, Spend
<1>7. CASE Clear
  BY <1>7 DEF Clear
<1>8. CASE Refill
  BY <1>8 DEF Refill
<1>9. CASE Migrate
  BY <1>9 DEF Migrate
<1>10. CASE Unlink
  BY <1>10 DEF Unlink
<1>11. CASE Rename
  BY <1>11 DEF Rename
<1>12. CASE Remount
  BY <1>12 DEF Remount, RemountRoot, Spend
<1>13. CASE Connect
  BY <1>13 DEF Connect, Listening
<1>14. CASE Receive
  BY <1>14 DEF Receive
<1>15. CASE Bind
  BY <1>15 DEF Bind
<1>16. CASE Listen
  BY <1>16 DEF Listen
<1>17. CASE Accept
  BY <1>17 DEF Accept
<1>18. CASE Open
  BY <1>18 DEF Open, Dies, Spend
<1>19. CASE Write
  BY <1>19 DEF Write, Round, Dies, Spend
<1>20. CASE ReadFails
  BY <1>20 DEF ReadFails, Spend
<1>21. CASE ReadNothing
  BY <1>21 DEF ReadNothing, Dies
<1>22. CASE Finish
  BY <1>22 DEF Finish, Boot
<1>23. CASE Kill
  BY <1>23 DEF Kill, Spend, Hear
<1>24. CASE Reboot
  BY <1>24 DEF Reboot, Spend, Boot
<1>25. CASE UNCHANGED vars
  BY <1>25 DEF vars, disk, channel, copy, others
<1>26. QED
  BY <1>1, <1>2, <1>3, <1>4, <1>5, <1>6, <1>7, <1>8, <1>9, <1>10, <1>11, <1>12,
     <1>13, <1>14, <1>15, <1>16, <1>17, <1>18, <1>19, <1>20, <1>21, <1>22, <1>23, <1>24,
     <1>25
     DEF Next, WorkerStep, DaemonStep, Stopped

\* A connection has the live worker at its end, or a dead one.
LEMMA ChannelKept ==
  ASSUME TypeOK, ChannelInv, [Next]_vars
  PROVE  ChannelInv'
<1> USE CommitAssumption DEF TypeOK, ChannelInv, Ends, At, disk, channel, copy, others, Copies
<1>1. CASE Launch
  BY <1>1 DEF Launch
<1>2. CASE Freeze
  BY <1>2 DEF Freeze, RemountRoot, Spend
<1>3. CASE CopyRoot
  BY <1>3 DEF CopyRoot
<1>4. CASE Thaw
  BY <1>4 DEF Thaw, RemountRoot, Spend
<1>5. CASE Build
  BY <1>5 DEF Build
<1>6. CASE Submit
  BY <1>6 DEF Submit, AfterSubmit, Spend
<1>7. CASE Clear
  BY <1>7 DEF Clear
<1>8. CASE Refill
  BY <1>8 DEF Refill
<1>9. CASE Migrate
  BY <1>9 DEF Migrate
<1>10. CASE Unlink
  BY <1>10 DEF Unlink
<1>11. CASE Rename
  BY <1>11 DEF Rename
<1>12. CASE Remount
  BY <1>12 DEF Remount, RemountRoot, Spend
<1>13. CASE Connect
  BY <1>13 DEF Connect, Listening
<1>14. CASE Receive
  BY <1>14 DEF Receive
<1>15. CASE Bind
  BY <1>15 DEF Bind
<1>16. CASE Listen
  BY <1>16 DEF Listen
<1>17. CASE Accept
  BY <1>17 DEF Accept
<1>18. CASE Open
  BY <1>18 DEF Open, Dies, Spend
<1>19. CASE Write
  BY <1>19 DEF Write, Round, Dies, Spend
<1>20. CASE ReadFails
  BY <1>20 DEF ReadFails, Spend
<1>21. CASE ReadNothing
  BY <1>21 DEF ReadNothing, Dies
<1>22. CASE Finish
  BY <1>22 DEF Finish, Boot
<1>23. CASE Kill
  BY <1>23 DEF Kill, Spend, Hear
<1>24. CASE Reboot
  BY <1>24 DEF Reboot, Spend, Boot
<1>25. CASE UNCHANGED vars
  BY <1>25 DEF vars, disk, channel, copy, others
<1>26. QED
  BY <1>1, <1>2, <1>3, <1>4, <1>5, <1>6, <1>7, <1>8, <1>9, <1>10, <1>11, <1>12,
     <1>13, <1>14, <1>15, <1>16, <1>17, <1>18, <1>19, <1>20, <1>21, <1>22, <1>23, <1>24,
     <1>25
     DEF Next, WorkerStep, DaemonStep, Stopped

\* The job gets past the socket with a client, or because / is read-only.
LEMMA JobKept ==
  ASSUME TypeOK, WorkerInv, ChannelInv, JobInv, [Next]_vars
  PROVE  JobInv'
<1> USE CommitAssumption DEF TypeOK, WorkerInv, ChannelInv, JobInv, Misplaced, Exposed,
        Ends, At, disk, channel, copy, others, Preparing, Arranging, Watching, Copies
<1>1. CASE Launch
  BY <1>1 DEF Launch
<1>2. CASE Freeze
  BY <1>2 DEF Freeze, RemountRoot, Spend
<1>3. CASE CopyRoot
  BY <1>3 DEF CopyRoot
<1>4. CASE Thaw
  BY <1>4 DEF Thaw, RemountRoot, Spend
<1>5. CASE Build
  BY <1>5 DEF Build
<1>6. CASE Submit
  BY <1>6 DEF Submit, AfterSubmit, Spend
<1>7. CASE Clear
  BY <1>7 DEF Clear
<1>8. CASE Refill
  BY <1>8 DEF Refill
<1>9. CASE Migrate
  BY <1>9 DEF Migrate
<1>10. CASE Unlink
  BY <1>10 DEF Unlink
<1>11. CASE Rename
  BY <1>11 DEF Rename
<1>12. CASE Remount
  BY <1>12 DEF Remount, RemountRoot, Spend
<1>13. CASE Connect
  BY <1>13 DEF Connect, Listening
<1>14. CASE Receive
  BY <1>14 DEF Receive
<1>15. CASE Bind
  BY <1>15 DEF Bind
<1>16. CASE Listen
  BY <1>16 DEF Listen
<1>17. CASE Accept
  <2>1. dd = "final" \/ Misplaced
    BY <1>17 DEF Accept
  <2>2. worker \notin Arranging \/ Misplaced
    BY <1>17 DEF Accept
  <2>3. UNCHANGED <<worker, root, dd, harm, opened>> /\ daemon' = "open"
    BY <1>17 DEF Accept
  <2>4. root = "ro" \/ Exposed
    BY <1>17 DEF Accept
  <2>5. daemon # "none"
    BY <1>17 DEF Accept
  <2>6. QED
    BY <2>1, <2>2, <2>3, <2>4, <2>5
<1>18. CASE Open
  <2>1. UNCHANGED <<root, dd, harm>>
    BY <1>18 DEF Open
  <2>2. CASE Dies
    BY <1>18, <2>1, <2>2 DEF Open, Dies
  <2>3. CASE ~Dies
    BY <1>18, <2>1, <2>3 DEF Open
  <2>4. QED
    BY <2>2, <2>3
<1>19. CASE Write
  BY <1>19 DEF Write, Round, Dies, Spend
<1>20. CASE ReadFails
  BY <1>20 DEF ReadFails, Spend
<1>21. CASE ReadNothing
  BY <1>21 DEF ReadNothing, Dies
<1>22. CASE Finish
  BY <1>22 DEF Finish, Boot
<1>23. CASE Kill
  BY <1>23 DEF Kill, Spend, Hear
<1>24. CASE Reboot
  BY <1>24 DEF Reboot, Spend, Boot
<1>25. CASE UNCHANGED vars
  BY <1>25 DEF vars, disk, channel, copy, others
<1>26. QED
  BY <1>1, <1>2, <1>3, <1>4, <1>5, <1>6, <1>7, <1>8, <1>9, <1>10, <1>11, <1>12,
     <1>13, <1>14, <1>15, <1>16, <1>17, <1>18, <1>19, <1>20, <1>21, <1>22, <1>23, <1>24,
     <1>25
     DEF Next, WorkerStep, DaemonStep, Stopped

LEMMA Invariance == Spec => []IInv
<1>1. Init => IInv
  <2> SUFFICES ASSUME Init PROVE IInv
    OBVIOUS
  <2>1. restore \in BOOLEAN
    BY DEF Init
  <2>2. TypeOK
    <3>1. 0 \in 0..Chunks /\ 0 \in 0..0
      BY CommitAssumption
    <3>2. QED
      BY <2>1, <3>1, CommitAssumption DEF Init, TypeOK, Workers, Daemons, Ears
  <2>3. WorkerInv /\ ChannelInv /\ JobInv
    BY DEF Init, WorkerInv, ChannelInv, JobInv, Ends, Preparing, Arranging, Watching, Copies
  <2>4. QED
    BY <2>2, <2>3 DEF IInv
<1>2. IInv /\ [Next]_vars => IInv'
  BY TypesKept, WorkerKept, ChannelKept, JobKept DEF IInv
<1>3. QED
  BY <1>1, <1>2, PTL DEF Spec

-----------------------------------------------------------------------------
\* Every value stays in its set: no message is read before it is sent, and what
\* is renamed to disk0s1.dd is never the unfinished copy of /.
THEOREM TypeCorrect == Spec => []TypeOK
BY Invariance, PTL DEF IInv

\* The job copies the customised image, whenever it starts and whether or not it
\* waited for the worker, unless / could not be thawed or two launches overlap; and it
\* cannot fall between the unlink and the rename, although the two processes never
\* agree on that.
THEOREM OnlyFinalIsFlashed == Spec => []FlashesFinal
<1>1. IInv => FlashesFinal
  <2> SUFFICES ASSUME IInv PROVE FlashesFinal
    OBVIOUS
  <2>1. daemon = "copying" /\ opened # "final" => harm \cap {"frozen", "overlap"} # {}
    BY DEF IInv, JobInv, Misplaced
  <2>2. daemon = "open" /\ dd = "absent" => harm \cap {"frozen", "overlap"} # {}
    BY DEF IInv, TypeOK, JobInv, Copies, Misplaced
  <2>3. QED
    BY <2>1, <2>2 DEF FlashesFinal
<1>2. QED
  BY <1>1, Invariance, PTL

\* A worker that has read the last progress message of a connection that is still
\* there knows that the partition holds a whole image, unless a write of that copy
\* failed, which the job does not notice and announces like any other.
THEOREM AnnouncementIsTrue == Spec => []HeardToTheEnd
<1>1. IInv => HeardToTheEnd
  BY CommitAssumption DEF IInv, TypeOK, ChannelInv, Copies, HeardToTheEnd
<1>2. QED
  BY <1>1, Invariance, PTL

\* The user's data is restored from the 1.1.3 image before it is customised, in
\* every launch that found no image that an earlier launch had put in place.
THEOREM DataFromBase == Spec => []RestoredFromBase
<1>1. IInv => RestoredFromBase
  BY DEF IInv, WorkerInv, RestoredFromBase
<1>2. QED
  BY <1>1, Invariance, PTL

\* The partition is written only while / is mounted read-only, unless a remount
\* failed or two launches overlap.
THEOREM WrittenUnderReadOnly == Spec => RawWrittenReadOnly
<1>1. IInv /\ [Next]_vars
        => [raw' # raw => root = "ro" \/ harm \cap {"writable", "overlap"} # {}]_vars
  <2> SUFFICES ASSUME IInv, [Next]_vars, raw' # raw
               PROVE  root = "ro" \/ harm \cap {"writable", "overlap"} # {}
    OBVIOUS
  <2>1. Write \/ ReadFails
    BY DEF Next, WorkerStep, DaemonStep, Launch, Freeze, CopyRoot, Thaw, Build, Submit,
           Clear, Refill, Migrate, Unlink, Rename, Remount, Connect, Receive, Bind,
           Listen, Accept, Open, ReadNothing, Finish, Boot, Kill, Reboot, Stopped,
           vars, disk
  <2>2. QED
    BY <2>1 DEF Write, ReadFails, IInv, JobInv, Copies, Exposed
<1>2. QED
  BY <1>1, Invariance, PTL DEF Spec, RawWrittenReadOnly

-----------------------------------------------------------------------------
\* The job does not die under a worker that waits for its messages, unless the fopen of
\* the partition fails in that step, two launches overlap or the thaw failed.
THEOREM JobOutlives == Spec => JobOutlivesItsClient
<1>1. IInv /\ [Next]_vars
        => [worker = "recv" /\ worker' \in Ends /\ daemon' = "starting"
              => (daemon = "open" /\ budget' # budget)
                   \/ harm \cap {"frozen", "overlap"} # {}]_vars
  <2> SUFFICES ASSUME IInv, [Next]_vars, worker = "recv", worker' \in Ends,
                      daemon' = "starting"
               PROVE  (daemon = "open" /\ budget' # budget) \/ harm \cap {"frozen", "overlap"} # {}
    OBVIOUS
  <2> USE DEF IInv, Ends
  <2>1. CASE Receive
    BY <2>1 DEF Receive, ChannelInv, Copies, TypeOK
  <2>2. CASE Open
    <3>1. CASE Spend("fault")
      BY <2>2, <3>1 DEF Open, Spend, TypeOK, Mishaps
    <3>2. CASE ~Spend("fault")
      BY <2>2, <3>2 DEF Open, TypeOK, JobInv, Copies, Misplaced
    <3>3. QED
      BY <3>1, <3>2
  <2>3. CASE Write
    BY <2>3 DEF Write, Round, Dies, ChannelInv
  <2>4. CASE ReadFails
    BY <2>4 DEF ReadFails
  <2>5. CASE ReadNothing
    BY <2>5 DEF ReadNothing, Dies, ChannelInv
  <2>6. QED
    BY <2>1, <2>2, <2>3, <2>4, <2>5
       DEF Next, WorkerStep, DaemonStep, At, Launch, Freeze, CopyRoot, Thaw, Build, Submit,
           Clear, Refill, Migrate, Unlink, Rename, Remount, Connect, Bind,
           Listen, Accept, Finish, Boot, Kill, Reboot, Stopped, vars
<1>2. QED
  BY <1>1, Invariance, PTL DEF Spec, JobOutlivesItsClient

\* Only four steps touch the partition or the device.
LEMMA OthersLeaveThePartition ==
  ASSUME TypeOK, [Next]_vars, ~Write, ~ReadFails, ~Finish, ~Reboot
  PROVE  UNCHANGED <<raw, device, budget["reboot"]>>
<1> USE DEF TypeOK, Mishaps, disk, others
<1>1. CASE Launch \/ CopyRoot \/ Build \/ Clear \/ Refill \/ Migrate \/ Unlink \/ Rename
           \/ Connect \/ Receive \/ Bind \/ Listen \/ Accept \/ ReadNothing
  BY <1>1 DEF Launch, CopyRoot, Build, Clear, Refill, Migrate, Unlink, Rename, Connect,
              Receive, Bind, Listen, Accept, ReadNothing
<1>2. CASE Freeze \/ Thaw \/ Remount \/ Submit \/ Open \/ Kill
  BY <1>2 DEF Freeze, Thaw, Remount, RemountRoot, Submit, Open, Kill, Spend
<1>3. CASE UNCHANGED vars
  BY <1>3 DEF vars
<1>4. QED
  BY <1>1, <1>2, <1>3 DEF Next, WorkerStep, DaemonStep, Stopped

\* Every behaviour of the worker and the job, for an image of any size and any number
\* of mishaps, is one that the upgrade promises: step by step, under the mapping, which
\* excuses a copy in which a write failed until it ends, and what follows a failed
\* remount or a launch beside the job.
THEOREM PromiseKept == Spec => KeepsPromise
<1>1. Init => Promise!Init
  BY CommitAssumption DEF Init, Excused, Promise!Init, Mishaps
<1>2. IInv /\ [Next]_vars => [Promise!Next]_Promise!vars
  <2> SUFFICES ASSUME IInv, [Next]_vars
               PROVE  [Promise!Next]_Promise!vars
    OBVIOUS
  <2> USE DEF IInv
  <2>1. CASE Excused \/ Excused'
    <3>1. raw' = "old" => raw = "old"
      BY DEF Next, WorkerStep, DaemonStep, Launch, Freeze, CopyRoot, Thaw, Build, Submit,
             Clear, Refill, Migrate, Unlink, Rename, Remount, Connect, Receive, Bind,
             Listen, Accept, Open, Write, Round, ReadFails, ReadNothing, Finish, Boot,
             Kill, Reboot, Stopped, vars, disk, ChannelInv
    <3>2. QED
      BY <2>1, <3>1 DEF Excused, Promise!Next, Promise!Anything
  <2>2. CASE ~Excused /\ ~Excused'
    <3>1. daemon = "copying" => opened = "final"
      BY <2>2 DEF Excused, JobInv, Misplaced
    <3>2. raw \in {"old", "torn", "base", "final"}
      BY DEF TypeOK
    <3>3. CASE Write
      <4>1. /\ device = "on" /\ device' = device
            /\ budget'["reboot"] = budget["reboot"]
            /\ raw' \in {raw, "torn", "final"}
        BY <3>1, <3>3 DEF Write, Round, Spend, TypeOK, Mishaps
      <4>2. CASE raw' = raw
        BY <2>2, <4>1, <4>2 DEF Excused, Promise!vars
      <4>3. CASE raw' \in {"torn", "final"}
        BY <2>2, <4>1, <4>3 DEF Excused, Promise!Next, Promise!Write
      <4>4. QED
        BY <4>1, <4>2, <4>3
    <3>4. CASE ReadFails
      <4>1. /\ device = "on" /\ device' = device
            /\ budget'["reboot"] = budget["reboot"]
            /\ raw' \in {raw, "torn"}
        BY <3>4 DEF ReadFails, Spend, TypeOK, Mishaps
      <4>2. CASE raw' = raw
        BY <2>2, <4>1, <4>2 DEF Excused, Promise!vars
      <4>3. CASE raw' = "torn"
        BY <2>2, <4>1, <4>3 DEF Excused, Promise!Next, Promise!Write
      <4>4. QED
        BY <4>1, <4>2, <4>3
    <3>5. CASE Finish
      <4>1. raw = "final"
        BY <2>2, <3>1, <3>5 DEF Finish, ChannelInv, Excused
      <4>2. /\ raw' = raw /\ device = "on" /\ device' = "upgraded"
            /\ budget' = budget
        BY <4>1, <3>5 DEF Finish, Boot, others
      <4>3. QED
        BY <2>2, <4>1, <4>2 DEF Excused, Promise!Next, Promise!Finish
    <3>6. CASE Reboot
      <4>1. budget["reboot"] \in Nat /\ budget'["reboot"] = budget["reboot"] - 1
        BY <3>6 DEF Reboot, Spend, TypeOK, Mishaps
      <4>2. raw' = raw
        BY <3>6 DEF Reboot, Boot
      <4>3. Budget["reboot"] \in Nat
        BY CommitAssumption DEF Mishaps
      <4>4. Budget["reboot"] - budget'["reboot"] > Budget["reboot"] - budget["reboot"]
        BY <4>1, <4>3
      <4>5. device' = (IF raw = "old" THEN "on" ELSE IF raw = "torn" THEN "dead" ELSE "upgraded")
        BY <3>2, <3>6 DEF Reboot, Boot
      <4>6. QED
        BY <2>2, <3>2, <4>2, <4>4, <4>5 DEF Excused, Promise!Next, Promise!Mishap
    <3>7. CASE ~Write /\ ~ReadFails /\ ~Finish /\ ~Reboot
      <4>1. UNCHANGED <<raw, device, budget["reboot"]>>
        BY <3>7, OthersLeaveThePartition
      <4>2. QED
        BY <2>2, <4>1 DEF Excused, Promise!vars
    <3>8. QED
      BY <3>3, <3>4, <3>5, <3>6, <3>7
  <2>3. QED
    BY <2>1, <2>2
<1>3. QED
  BY <1>1, <1>2, Invariance, PTL DEF Spec, KeepsPromise, Promise!Safe

=============================================================================
