----------------------------- MODULE ChildReaper -----------------------------
(***************************************************************************)
(* How the worker thread of Upgrade.app runs its commands and waits for    *)
(* them: cmd_system, cmd_system_progress, cmd_system_progress_dir and      *)
(* massiveDitto of utilities.c (lines 406-502), which differ only in what  *)
(* they do between two polls.                                              *)
(*                                                                         *)
(* A command is forked with a SIGCHLD handler that does nothing, polled    *)
(* with waitpid, and followed by a handler that reaps whatever it finds.   *)
(* The signal is delivered to any thread of the process, with the handler  *)
(* that is set when it is delivered; nothing makes the worker wait for a   *)
(* handler that another thread is still running.                           *)
(***************************************************************************)
EXTENDS Naturals

CONSTANTS
  Commands,      \* bound: how many commands the worker runs
  Receivers,     \* the threads that take SIGCHLD, of "main" and "worker"
  ForkMayFail    \* whether fork can return -1

Threads == {"main", "worker"}

ASSUME ReaperAssumption ==
  /\ Commands \in Nat \ {0}
  /\ Receivers \subseteq Threads /\ Receivers # {}
  /\ ForkMayFail \in BOOLEAN

VARIABLES
  worker,    \* where the worker is in its command
  cmd,       \* the command it runs or has run last
  child,     \* the process of each command
  action,    \* the handler set for SIGCHLD
  pending,   \* whether a SIGCHLD waits to be delivered
  handler,   \* the handler each thread is running, and the cmd it began at
  hud,       \* whether the worker waits for the main thread to show a text
  thief      \* history: the handler that reaped the child the worker polls for: in
             \* which thread, and the cmd at which it began; empty if none did

vars == <<worker, cmd, child, action, pending, handler, hud, thief>>

Idle == [fn |-> "none", at |-> 0]

TypeOK ==
  /\ worker \in {"idle", "fork", "poll", "between", "polled", "forkFailed", "done"}
  /\ cmd \in 0..Commands
  /\ child \in [1..Commands -> {"unborn", "running", "zombie", "gone"}]
  /\ action \in {"default", "ignore", "waitpid"}
  /\ pending \in BOOLEAN /\ hud \in BOOLEAN
  /\ handler \in [Threads -> [fn : {"none", "ignore", "waitpid"}, at : 0..Commands]]
  /\ thief \subseteq [thread : Threads, at : 0..Commands]
  /\ hud => worker = "between"

Init ==
  /\ worker = "idle" /\ cmd = 0
  /\ child = [c \in 1..Commands |-> "unborn"]
  /\ action = "default" /\ pending = FALSE
  /\ handler = [t \in Threads |-> Idle]
  /\ hud = FALSE /\ thief = {}

-----------------------------------------------------------------------------
(***************************************************************************)
(* The worker.  It does nothing while it runs a handler or waits for the   *)
(* main thread.                                                            *)
(***************************************************************************)
Runs(here) == worker = here /\ handler["worker"].fn = "none" /\ ~hud

\* Mutant of SetIgnore: the handler of the last command stays in place.
KeepWaitpid ==
  /\ Runs("idle") /\ cmd < Commands
  /\ worker' = "fork"
  /\ cmd' = cmd + 1
  /\ UNCHANGED <<action, child, pending, handler, hud, thief>>

\* signal(SIGCHLD, &sig_chld_ignore)
SetIgnore ==
  /\ Runs("idle") /\ cmd < Commands
  /\ worker' = "fork"
  /\ cmd' = cmd + 1
  /\ action' = "ignore"
  /\ UNCHANGED <<child, pending, handler, hud, thief>>

\* With a pid of -1 the loop polls for any child, there is none, and so for ever.
Fork ==
  /\ Runs("fork")
  /\ \/ worker' = "poll" /\ child' = [child EXCEPT ![cmd] = "running"]
     \/ ForkMayFail /\ worker' = "forkFailed" /\ UNCHANGED child
  /\ UNCHANGED <<cmd, action, pending, handler, hud, thief>>

\* Mutant of PollEnds: waitpid(...) < 0 is waited for, not <= 0.
PollOnce ==
  /\ Runs("poll") /\ child[cmd] \in {"running", "zombie"}
  /\ worker' = "polled"
  /\ child' = [child EXCEPT ![cmd] = IF @ = "zombie" THEN "gone" ELSE @]
  /\ UNCHANGED <<cmd, action, pending, handler, hud, thief>>

\* waitpid(fork_pid, NULL, WNOHANG) returns the pid.
PollEnds ==
  /\ Runs("poll") /\ child[cmd] = "zombie"
  /\ worker' = "polled"
  /\ child' = [child EXCEPT ![cmd] = "gone"]
  /\ UNCHANGED <<cmd, action, pending, handler, hud, thief>>

\* It returns 0 while the child runs, and -1 if somebody else has reaped it.
PollAgain ==
  /\ Runs("poll") /\ child[cmd] # "zombie"
  /\ worker' = "between"
  /\ UNCHANGED <<cmd, child, action, pending, handler, hud, thief>>

\* The progress callback: setProgressHUDText waits until the main thread is done.
Report ==
  /\ Runs("between")
  /\ hud' = TRUE
  /\ UNCHANGED <<worker, cmd, child, action, pending, handler, thief>>

\* usleep, with nothing to report (cmd_system never has).
Sleep ==
  /\ Runs("between")
  /\ worker' = "poll"
  /\ UNCHANGED <<cmd, child, action, pending, handler, hud, thief>>

\* signal(SIGCHLD, &sig_chld_waitpid)
SetWaitpid ==
  /\ Runs("polled")
  /\ worker' = IF cmd = Commands THEN "done" ELSE "idle"
  /\ action' = "waitpid"
  /\ UNCHANGED <<cmd, child, pending, handler, hud, thief>>

-----------------------------------------------------------------------------
(***************************************************************************)
(* The child, the kernel, the main thread.                                 *)
(***************************************************************************)

\* A child ends: by itself, or at once because execve failed.
ChildExits(c) ==
  /\ child[c] = "running"
  /\ child' = [child EXCEPT ![c] = "zombie"]
  /\ pending' = TRUE
  /\ UNCHANGED <<worker, cmd, action, handler, hud, thief>>

\* SIGCHLD is taken by a thread that runs no handler.
Deliver(t) ==
  /\ pending /\ handler[t].fn = "none"
  /\ pending' = FALSE
  /\ handler' = IF action = "default" THEN handler
                ELSE [handler EXCEPT ![t] = [fn |-> action, at |-> cmd]]
  /\ UNCHANGED <<worker, cmd, child, action, hud, thief>>

IgnoreReturns(t) ==
  /\ handler[t].fn = "ignore"
  /\ handler' = [handler EXCEPT ![t] = Idle]
  /\ UNCHANGED <<worker, cmd, child, action, pending, hud, thief>>

Zombies == {c \in 1..Commands : child[c] = "zombie"}

\* while(waitpid(-1, 0, WNOHANG) > 0);
Reap(t) ==
  /\ handler[t].fn = "waitpid"
  /\ \E c \in Zombies :
       /\ child' = [child EXCEPT ![c] = "gone"]
       /\ thief' = IF worker \in {"poll", "between"} /\ c = cmd
                   THEN {[thread |-> t, at |-> handler[t].at]} ELSE thief
  /\ UNCHANGED <<worker, cmd, action, pending, handler, hud>>

ReapEnds(t) ==
  /\ handler[t].fn = "waitpid"
  /\ Zombies = {}
  /\ handler' = [handler EXCEPT ![t] = Idle]
  /\ UNCHANGED <<worker, cmd, child, action, pending, hud, thief>>

\* The main thread shows the text and lets the worker go on to usleep.
Show ==
  /\ hud /\ handler["main"].fn = "none"
  /\ hud' = FALSE
  /\ worker' = "poll"
  /\ UNCHANGED <<cmd, child, action, pending, handler, thief>>

Handler(t) == IgnoreReturns(t) \/ Reap(t) \/ ReapEnds(t)

WorkerStep ==
  SetIgnore \/ Fork \/ PollEnds \/ PollAgain \/ Report \/ Sleep \/ SetWaitpid

Next ==
  \/ WorkerStep
  \/ \E c \in 1..Commands : ChildExits(c)
  \/ \E t \in Receivers : Deliver(t) \/ Handler(t)
  \/ Show
  \/ worker \in {"done", "forkFailed"} /\ UNCHANGED vars

\* The kernel runs every thread, and every child to its end.
Fairness ==
  /\ WF_vars(WorkerStep)
  /\ WF_vars(Show)
  /\ \A c \in 1..Commands : WF_vars(ChildExits(c))
  /\ \A t \in Threads : WF_vars(Handler(t))

Spec == Init /\ [][Next]_vars /\ Fairness

-----------------------------------------------------------------------------
\* The commands run strictly one after the other: no process outlives the wait
\* for it, and none is left unreaped when the next one is forked, so that mount,
\* rm, ditto and umount happen in the order in which jailbreak: lists them.
OneAtATime ==
  \A c \in 1..Commands :
    /\ child[c] = "running" => c = cmd /\ worker \in {"poll", "between"}
    /\ c < cmd => child[c] = "gone"

\* Only a handler that began before the command was started, and only one in the
\* other thread, can reap its process behind the worker's back: setting the handler
\* that does nothing before the fork closes the window for every signal delivered
\* later, and a handler in the worker's own thread returns before the worker goes on.
OnlyLateHandlersSteal == \A h \in thief : h.thread = "main" /\ h.at < cmd

\* The worker gets through its commands, the waits for the main thread included,
\* unless fork fails or such a late handler, still running in another thread,
\* reaps the process it polls for: then it polls for ever.
EndsUnlessStolen ==
  <>(worker \in {"done", "forkFailed"} \/ \E h \in thief : h.at < cmd)

=============================================================================
