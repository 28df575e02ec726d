---------------------------- MODULE HostProcess ----------------------------
(***************************************************************************)
(* The server's process (main in libanbox.cpp) with its two children: the  *)
(* container and the logcat that watches it.  Both run proot.              *)
(*                                                                         *)
(* A signal is handled by any thread of the server, so signal_handler runs *)
(* beside main.  SIGCHLD is ignored: the kernel reaps a child that ends,   *)
(* and waitpid then has no such child.  Until it execs, a child has the    *)
(* server's handlers, and its copies of the server's variables.            *)
(***************************************************************************)
EXTENDS Integers

CONSTANTS
  MaxSignals,  \* bound: SIGINTs and SIGTERMs sent to the server
  TestFrames   \* whether main pushes test frames, ~egl_initialized

ASSUME HostAssumption == MaxSignals \in Nat /\ TestFrames \in BOOLEAN

Children == {"container", "logcat"}
NoPid == -1

MainLabels ==
  {"start", "fork_container", "container_forked", "settle", "fork_logcat",
   "logcat_forked", "loop", "check_logcat", "frame", "services", "kill_logcat",
   "wait_logcat", "kill_container", "wait_container", "exited", "failed"}

(***************************************************************************)
(* A child is none, or has been forked, or has execed and has the default  *)
(* handlers, or ignores the signals that terminate (proot's event_loop),   *)
(* or is gone.                                                             *)
(***************************************************************************)
Stages == {"none", "forked", "execed", "proot", "gone"}

VARIABLES
  main,       \* where main is
  running,    \* running
  pid,        \* container_pid and logcat_pid
  stage,      \* the stage each child is in
  kernel,     \* the pids fork has returned to the server
  handler,    \* the child signal_handler comes to next, or "none"
  signals,    \* how many signals the server was sent
  signalled,  \* the pids the server has sent signals to
  echo        \* the logcat child has to run the handler it inherited

vars == <<main, running, pid, stage, kernel, handler, signals, signalled, echo>>

Alive(c) == stage[c] \notin {"none", "gone"}
Ended == main \in {"exited", "failed"}

-----------------------------------------------------------------------------
(* Signals *)

\* kill(pid[c], signum).  A child that is gone is not there to be hit.
HitStage(c) == IF stage[c] = "execed" THEN "gone" ELSE stage[c]

Kill(c) ==
  /\ signalled' = signalled \cup {pid[c]}
  /\ stage' = [stage EXCEPT ![c] = HitStage(c)]
  /\ echo' = (echo \/ (c = "logcat" /\ stage[c] = "forked"))

HasPid_Any(c) == TRUE
HasPid(c) == pid[c] > 0

KillIfRunning(c) ==
  \/ HasPid(c) /\ Kill(c)
  \/ ~HasPid(c) /\ UNCHANGED <<signalled, stage, echo>>

SignalArrives ==
  /\ ~Ended
  /\ handler = "none"
  /\ signals < MaxSignals
  /\ signals' = signals + 1
  /\ running' = FALSE
  /\ handler' = "logcat"
  /\ UNCHANGED <<main, pid, stage, kernel, signalled, echo>>

HandlerForwards ==
  /\ ~Ended
  /\ \/ handler = "logcat" /\ KillIfRunning("logcat") /\ handler' = "container"
     \/ handler = "container" /\ KillIfRunning("container") /\ handler' = "none"
  /\ UNCHANGED <<main, running, pid, kernel, signals>>

\* In the logcat child logcat_pid is 0 and container_pid the server's.
ChildForwards ==
  /\ echo
  /\ echo' = FALSE
  /\ signalled' = signalled \cup {pid["container"]}
  /\ stage' = [stage EXCEPT !["container"] = HitStage("container")]
  /\ UNCHANGED <<main, running, pid, kernel, handler, signals>>

-----------------------------------------------------------------------------
(* The children *)

Becomes(c, from, to) ==
  /\ stage[c] = from
  /\ stage' = [stage EXCEPT ![c] = to]
  /\ UNCHANGED <<main, running, pid, kernel, handler, signals, signalled, echo>>

Exec(c) == (c = "logcat" => ~echo) /\ Becomes(c, "forked", "execed")

\* A directory, a log or proot itself is not there.
ExecFails(c) == (c = "logcat" => ~echo) /\ Becomes(c, "forked", "gone")

\* proot's event_loop ignores every signal that terminates.
EventLoop(c) == Becomes(c, "execed", "proot")

\* proot ends with the last process of the container.
ChildEnds(c) == Becomes(c, "proot", "gone")

-----------------------------------------------------------------------------
(* main *)

Main(from, to) == main = from /\ main' = to
OnlyMain(from, to) ==
  /\ Main(from, to)
  /\ UNCHANGED <<running, pid, stage, kernel, handler, signals, signalled, echo>>

\* The services are started; if one fails, or fork does, main returns 1.
Start == OnlyMain("start", "fork_container")
StartFails == OnlyMain("start", "failed") \/ OnlyMain("fork_container", "failed")

\* There is no rootfs directory.
NoContainer == OnlyMain("fork_container", "loop")

Fork(c, from, to) ==
  /\ Main(from, to)
  /\ stage' = [stage EXCEPT ![c] = "forked"]
  /\ kernel' = [kernel EXCEPT ![c] = IF kernel["container"] > 0 THEN 2 ELSE 1]
  /\ UNCHANGED <<running, pid, handler, signals, signalled, echo>>

\* What fork has returned is stored in a step of its own.
StorePid(c, from, to) ==
  /\ Main(from, to)
  /\ pid' = [pid EXCEPT ![c] = kernel[c]]
  /\ UNCHANGED <<running, stage, kernel, handler, signals, signalled, echo>>

\* After two seconds of sleep the logcat is started, if it was asked for.
Settle == OnlyMain("settle", "fork_logcat") \/ OnlyMain("settle", "loop")
LogcatForkFails == OnlyMain("fork_logcat", "loop")

(***************************************************************************)
(* waitpid of a child: 0 while it runs, and NoPid, ECHILD, once it is gone *)
(* or was never there.  It never returns the pid.                          *)
(***************************************************************************)
Waitpid(c) == IF Alive(c) THEN 0 ELSE NoPid

AfterCheck(c) == IF HasPid(c) /\ Waitpid(c) = pid[c] THEN NoPid ELSE pid[c]

Check(c, from, to) ==
  /\ Main(from, to)
  /\ pid' = [pid EXCEPT ![c] = AfterCheck(c)]
  /\ UNCHANGED <<running, stage, kernel, handler, signals, signalled, echo>>

StaysInLoop_Always == TRUE
StaysInLoop == running

CheckContainer == StaysInLoop /\ Check("container", "loop", "check_logcat")
CheckLogcat == Check("logcat", "check_logcat", "frame")

FrameOrSleep == OnlyMain("frame", "loop")

\* send_frame throws when a client has gone, and main returns 1.
FrameThrows == TestFrames /\ OnlyMain("frame", "failed")

LeaveLoop == ~StaysInLoop /\ OnlyMain("loop", "services")

\* The composer, the forwarder, the streaming server and the runtime are stopped.
StopServices == OnlyMain("services", "kill_logcat")

KillChild(c, from, wait, next) ==
  /\ main = from
  /\ KillIfRunning(c)
  /\ main' = IF HasPid(c) THEN wait ELSE next
  /\ UNCHANGED <<running, pid, kernel, handler, signals>>

MayReturn_Poll(c) == TRUE

\* waitpid without WNOHANG.
MayReturn(c) == Waitpid(c) # 0

WaitChild(c, from, to) == MayReturn(c) /\ OnlyMain(from, to)

-----------------------------------------------------------------------------
Init ==
  /\ main = "start"
  /\ running = TRUE
  /\ pid = [c \in Children |-> NoPid]
  /\ stage = [c \in Children |-> "none"]
  /\ kernel = [c \in Children |-> NoPid]
  /\ handler = "none"
  /\ signals = 0
  /\ signalled = {}
  /\ echo = FALSE

MainRuns ==
  \/ Start \/ StartFails \/ NoContainer
  \/ Fork("container", "fork_container", "container_forked")
  \/ StorePid("container", "container_forked", "settle")
  \/ Settle \/ LogcatForkFails
  \/ Fork("logcat", "fork_logcat", "logcat_forked")
  \/ StorePid("logcat", "logcat_forked", "loop")
  \/ CheckContainer \/ CheckLogcat \/ FrameOrSleep \/ FrameThrows
  \/ LeaveLoop \/ StopServices
  \/ KillChild("logcat", "kill_logcat", "wait_logcat", "kill_container")
  \/ WaitChild("logcat", "wait_logcat", "kill_container")
  \/ KillChild("container", "kill_container", "wait_container", "exited")
  \/ WaitChild("container", "wait_container", "exited")

ChildRuns(c) == Exec(c) \/ ExecFails(c) \/ EventLoop(c)

Next ==
  \/ SignalArrives \/ HandlerForwards \/ ChildForwards \/ MainRuns
  \/ \E c \in Children : ChildRuns(c) \/ ChildEnds(c)

Spec == Init /\ [][Next]_vars

(***************************************************************************)
(* The scheduler runs the server's threads and its children.  Nothing      *)
(* sends a signal, and nothing ends a container.                           *)
(***************************************************************************)
FairSpec ==
  /\ Spec
  /\ WF_vars(MainRuns)
  /\ WF_vars(HandlerForwards)
  /\ WF_vars(ChildForwards)
  /\ \A c \in Children : WF_vars(ChildRuns(c))

-----------------------------------------------------------------------------
(* Properties *)

Pids == {NoPid, 1, 2}

\* The type invariant.
TypeOK ==
  /\ main \in MainLabels
  /\ running \in BOOLEAN /\ echo \in BOOLEAN
  /\ pid \in [Children -> Pids] /\ kernel \in [Children -> Pids]
  /\ stage \in [Children -> Stages]
  /\ handler \in Children \cup {"none"}
  /\ signals \in 0 .. MaxSignals
  /\ signalled \subseteq Pids

\* Whenever a signal comes, also between a fork and the store of its pid, and
\* whichever fork failed, only pids that fork returned are signalled: kill(-1, ...)
\* would reach every process of the user.
OnlyForkedPidsSignalled == signalled \subseteq {kernel[c] : c \in Children} \ {NoPid}

\* A server that shuts down leaves no child behind.
ExitLeavesNoChild == main = "exited" => \A c \in Children : ~Alive(c)

\* Once it was asked to, the server shuts down if its children end by themselves.
ShutdownWithoutChildren ==
  <>[](~running /\ \A c \in Children : ~Alive(c)) => <>Ended

\* libanbox.cpp:1923 says of the end: Kill container if still running.  So a server
\* that was asked to shuts down.
ShutdownEnds == ~running ~> Ended
=============================================================================
