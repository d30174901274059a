----------------------------- MODULE ReaperProofs -----------------------------
(***************************************************************************)
(* Proofs about ChildReaper, for any number of commands, whichever threads *)
(* take the signal and whether or not fork can fail.                       *)
(***************************************************************************)
EXTENDS ChildReaper, TLAPS

\* Between the setting of one handler and of the other.
Busy == {"fork", "poll", "between", "polled"}

\* The state of every process follows from where the worker is.
CommandInv ==
  /\ worker \in Busy => cmd > 0 /\ action = "ignore"
  /\ \A c \in 1..Commands :
       /\ c < cmd => child[c] = "gone"
       /\ c > cmd => child[c] = "unborn"
       /\ c = cmd =>
            /\ worker \in {"fork", "forkFailed"} => child[c] = "unborn"
            /\ worker \in {"polled", "idle", "done"} => child[c] = "gone"

\* While a command is under way, every handler that reaps is an old one in the main
\* thread; so is every handler that has reaped the process of a command.
HandlerInv ==
  /\ \A t \in Threads : handler[t].fn = "waitpid" =>
       /\ handler[t].at <= cmd
       /\ worker \in Busy => handler[t].at < cmd /\ t = "main"
  /\ \A h \in thief : h.thread = "main" /\ h.at < cmd

IInv == TypeOK /\ CommandInv /\ HandlerInv

-----------------------------------------------------------------------------
\* What the worker does keeps all values in their sets.
LEMMA WorkerTypes ==
  ASSUME TypeOK, CommandInv, WorkerStep
  PROVE  TypeOK'
<1> USE ReaperAssumption DEF TypeOK, Runs
<1>1. CASE SetIgnore
  BY <1>1 DEF SetIgnore
<1>2. CASE Fork
  BY <1>2 DEF Fork
<1>3. CASE PollEnds
  BY <1>3 DEF PollEnds
<1>4. CASE PollAgain
  BY <1>4 DEF PollAgain
<1>5. CASE Report
  BY <1>5 DEF Report
<1>6. CASE Sleep
  BY <1>6 DEF Sleep
<1>7. CASE SetWaitpid
  BY <1>7 DEF SetWaitpid
<1>8. QED
  BY <1>1, <1>2, <1>3, <1>4, <1>5, <1>6, <1>7 DEF WorkerStep

\* So does everything that happens beside it.
LEMMA OtherTypes ==
  ASSUME TypeOK,
         \/ \E c \in 1..Commands : ChildExits(c)
         \/ \E t \in Receivers : Deliver(t) \/ Handler(t)
         \/ Show
         \/ UNCHANGED vars
  PROVE  TypeOK'
<1> USE ReaperAssumption DEF TypeOK
<1>1. ASSUME NEW c \in 1..Commands, ChildExits(c) PROVE TypeOK'
  BY <1>1 DEF ChildExits
<1>2. ASSUME NEW t \in Threads, Deliver(t) PROVE TypeOK'
  BY <1>2 DEF Deliver
<1>3. ASSUME NEW t \in Threads, IgnoreReturns(t) \/ ReapEnds(t) PROVE TypeOK'
  <2>1. /\ handler' = [handler EXCEPT ![t] = Idle]
        /\ UNCHANGED <<worker, cmd, child, action, pending, hud, thief>>
    BY <1>3 DEF IgnoreReturns, ReapEnds
  <2>2. Idle \in [fn : {"none", "ignore", "waitpid"}, at : 0..Commands]
    BY DEF Idle
  <2>3. handler' \in [Threads -> [fn : {"none", "ignore", "waitpid"}, at : 0..Commands]]
    BY <2>1, <2>2
  <2>4. QED
    BY <2>1, <2>3
<1>4. ASSUME NEW t \in Threads, Reap(t) PROVE TypeOK'
  BY <1>4 DEF Reap, Zombies
<1>5. CASE Show
  BY <1>5 DEF Show
<1>6. CASE UNCHANGED vars
  BY <1>6 DEF vars
<1>7. QED
  BY <1>1, <1>2, <1>3, <1>4, <1>5, <1>6 DEF Handler

-----------------------------------------------------------------------------
\* A command leaves its process reaped and the reaping handler set; only the
\* command after it takes that handler away.
LEMMA CommandStep ==
  ASSUME TypeOK, CommandInv, [Next]_vars
  PROVE  CommandInv'
<1> USE ReaperAssumption DEF TypeOK, CommandInv, Busy, Runs
<1>1. CASE SetIgnore
  BY <1>1 DEF SetIgnore
<1>2. CASE Fork
  BY <1>2 DEF Fork
<1>3. CASE PollEnds
  BY <1>3 DEF PollEnds
<1>4. CASE PollAgain
  BY <1>4 DEF PollAgain
<1>5. CASE Report
  BY <1>5 DEF Report
<1>6. CASE Sleep
  BY <1>6 DEF Sleep
<1>7. CASE SetWaitpid
  BY <1>7 DEF SetWaitpid
<1>8. ASSUME NEW c \in 1..Commands, ChildExits(c) PROVE CommandInv'
  BY <1>8 DEF ChildExits
<1>9. ASSUME NEW t \in Threads, Deliver(t) \/ IgnoreReturns(t) \/ ReapEnds(t)
      PROVE  CommandInv'
  BY <1>9 DEF Deliver, IgnoreReturns, ReapEnds
<1>10. ASSUME NEW t \in Threads, Reap(t) PROVE CommandInv'
  BY <1>10 DEF Reap, Zombies
<1>11. CASE Show
  BY <1>11 DEF Show
<1>12. CASE UNCHANGED vars
  BY <1>12 DEF vars
<1>13. QED
  BY <1>1, <1>2, <1>3, <1>4, <1>5, <1>6, <1>7, <1>8, <1>9, <1>10, <1>11, <1>12
     DEF Next, WorkerStep, Handler

\* A reaping handler begins only between two commands.
LEMMA HandlerStep ==
  ASSUME TypeOK, CommandInv, HandlerInv, [Next]_vars
  PROVE  HandlerInv'
<1> USE ReaperAssumption DEF TypeOK, CommandInv, HandlerInv, Busy, Runs
<1>1. CASE SetIgnore
  BY <1>1 DEF SetIgnore, Threads
<1>2. CASE Fork \/ PollEnds \/ PollAgain \/ Report \/ Sleep \/ SetWaitpid
  BY <1>2 DEF Fork, PollEnds, PollAgain, Report, Sleep, SetWaitpid
<1>3. ASSUME NEW c \in 1..Commands, ChildExits(c) PROVE HandlerInv'
  BY <1>3 DEF ChildExits
<1>4. ASSUME NEW t \in Threads, Deliver(t) PROVE HandlerInv'
  BY <1>4 DEF Deliver
<1>5. ASSUME NEW t \in Threads, IgnoreReturns(t) \/ ReapEnds(t) PROVE HandlerInv'
  <2>1. handler' = [handler EXCEPT ![t] = Idle] /\ Idle.fn # "waitpid"
    BY <1>5 DEF IgnoreReturns, ReapEnds, Idle
  <2>2. QED
    BY <1>5, <2>1 DEF IgnoreReturns, ReapEnds
<1>6. ASSUME NEW t \in Threads, Reap(t) PROVE HandlerInv'
  <2>1. \A h \in thief' : h.thread = "main" /\ h.at < cmd
    BY <1>6 DEF Reap
  <2>2. QED
    BY <1>6, <2>1 DEF Reap
<1>7. CASE Show
  BY <1>7 DEF Show
<1>8. CASE UNCHANGED vars
  BY <1>8 DEF vars
<1>9. QED
  BY <1>1, <1>2, <1>3, <1>4, <1>5, <1>6, <1>7, <1>8 DEF Next, WorkerStep, Handler

LEMMA Invariance == Spec => []IInv
<1>1. Init => IInv
  <2> SUFFICES ASSUME Init PROVE IInv
    OBVIOUS
  <2>1. pending \in BOOLEAN /\ hud \in BOOLEAN
    BY DEF Init
  <2>2. handler \in [Threads -> [fn : {"none", "ignore", "waitpid"}, at : 0..Commands]]
    BY ReaperAssumption DEF Init, Idle
  <2>3. TypeOK
    BY <2>1, <2>2, ReaperAssumption DEF Init, TypeOK
  <2>4. CommandInv /\ HandlerInv
    BY ReaperAssumption DEF Init, CommandInv, HandlerInv, Idle, Busy
  <2>5. QED
    BY <2>3, <2>4 DEF IInv
<1>2. IInv /\ [Next]_vars => IInv'
  BY WorkerTypes, OtherTypes, CommandStep, HandlerStep, ReaperAssumption DEF IInv, Next
<1>3. QED
  BY <1>1, <1>2, PTL DEF Spec

-----------------------------------------------------------------------------
\* Every value stays in its set; a text is shown only for a worker that waits.
THEOREM TypeCorrect == Spec => []TypeOK
BY Invariance, PTL DEF IInv

\* No process outlives the wait for it: mounts, copies and removals happen in the
\* order in which the code lists them, whatever the handlers reap.
THEOREM CommandsInOrder == Spec => []OneAtATime
<1>1. IInv => OneAtATime
  BY DEF IInv, TypeOK, CommandInv, OneAtATime
<1>2. QED
  BY <1>1, Invariance, PTL

\* A process that is reaped behind the worker's back is reaped by a handler of an
\* earlier command that the main thread is still running.
THEOREM OnlyOldHandlersSteal == Spec => []OnlyLateHandlersSteal
<1>1. IInv => OnlyLateHandlersSteal
  BY DEF IInv, TypeOK, HandlerInv, OnlyLateHandlersSteal
<1>2. QED
  BY <1>1, Invariance, PTL

===============================================================================
