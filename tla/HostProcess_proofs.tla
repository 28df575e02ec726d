------------------------- MODULE HostProcess_proofs -------------------------
(***************************************************************************)
(* Proofs about HostProcess, for any number of signals: the types, which   *)
(* pids are signalled, and that a shutdown leaves no child.                *)
(*                                                                         *)
(* Both safety properties rest on what main has done so far: a child is    *)
(* forked at one place only, and from the step after it on its pid is      *)
(* known for as long as it lives, because waitpid never gives it back.     *)
(***************************************************************************)
EXTENDS HostProcess, TLAPS

BeforeContainer == {"start", "fork_container"}
BeforeLogcat == BeforeContainer \cup {"container_forked", "settle", "fork_logcat"}

\* What has been forked, and what its fork returned.
ForkInv ==
  /\ main \in BeforeContainer =>
       stage["container"] = "none" /\ kernel["container"] = NoPid
  /\ main \in BeforeLogcat => stage["logcat"] = "none" /\ kernel["logcat"] = NoPid
  /\ main = "container_forked" => kernel["container"] # NoPid
  /\ main = "logcat_forked" => kernel["logcat"] # NoPid
  /\ main \in {"settle", "fork_logcat"} => pid["container"] # NoPid

\* The pids main has stored.
PidInv ==
  /\ \A c \in Children : pid[c] # NoPid => pid[c] = kernel[c]
  /\ kernel["logcat"] # NoPid => pid["container"] # NoPid
  /\ echo => pid["container"] # NoPid

\* A child that lives is known, and from a point of the shutdown on there is none.
AliveInv ==
  /\ Alive("container") => main = "container_forked" \/ pid["container"] # NoPid
  /\ Alive("logcat") => main = "logcat_forked" \/ pid["logcat"] # NoPid
  /\ main \in {"kill_container", "wait_container", "exited"} => ~Alive("logcat")
  /\ main = "exited" => ~Alive("container")

HostInv == TypeOK /\ ForkInv /\ PidInv /\ AliveInv /\ OnlyForkedPidsSignalled

LEMMA HostInit == Init => HostInv
<1> SUFFICES ASSUME Init PROVE HostInv
  OBVIOUS
<1>1. TypeOK
  <2>1. running \in BOOLEAN /\ echo \in BOOLEAN
    BY DEF Init
  <2>2. signals \in 0 .. MaxSignals
    BY HostAssumption DEF Init
  <2> QED BY <2>1, <2>2 DEF Init, TypeOK, Children, Stages, MainLabels, Pids
<1>2. ForkInv /\ PidInv
  BY DEF Init, ForkInv, PidInv, Children
<1>3. AliveInv
  BY DEF Init, AliveInv, Alive, Children
<1>4. OnlyForkedPidsSignalled
  BY DEF Init, OnlyForkedPidsSignalled
<1> QED BY <1>1, <1>2, <1>3, <1>4 DEF HostInv

\* A pid that is stored was returned by a fork.
LEMMA HasPidIsForked ==
  ASSUME HostInv, NEW c \in Children
  PROVE  /\ HasPid(c) <=> pid[c] # NoPid
         /\ pid[c] # NoPid => pid[c] \in {kernel[d] : d \in Children} \ {NoPid}
  BY DEF HostInv, TypeOK, PidInv, HasPid, Pids, NoPid

\* kill changes nothing but the stage of a child that lives, and never gives life.
LEMMA KillEffect ==
  ASSUME HostInv, NEW c \in Children, KillIfRunning(c)
  PROVE  /\ signalled' \in SUBSET Pids
         /\ signalled' \subseteq {kernel[d] : d \in Children} \ {NoPid}
         /\ stage' \in [Children -> Stages] /\ echo' \in BOOLEAN
         /\ \A d \in Children : stage'[d] \in {stage[d], HitStage(d)}
         /\ echo' => pid["container"] # NoPid
<1>1. CASE HasPid(c) /\ Kill(c)
  <2>1. /\ signalled' = signalled \cup {pid[c]}
        /\ pid[c] \in {kernel[d] : d \in Children} \ {NoPid} /\ pid[c] \in Pids
    BY <1>1, HasPidIsForked DEF Kill, HostInv, TypeOK
  <2>2. /\ stage' \in [Children -> Stages]
        /\ \A d \in Children : stage'[d] \in {stage[d], HitStage(d)}
    BY <1>1 DEF Kill, HitStage, HostInv, TypeOK, Stages
  <2>3. echo' \in BOOLEAN /\ (echo' => pid["container"] # NoPid)
    <3>1. c = "logcat" => pid["container"] # NoPid
      BY <2>1, <1>1, HasPidIsForked DEF HostInv, PidInv
    <3>2. echo' = (echo \/ (c = "logcat" /\ stage[c] = "forked"))
      BY <1>1 DEF Kill
    <3>3. echo \in BOOLEAN /\ (echo => pid["container"] # NoPid)
      BY DEF HostInv, TypeOK, PidInv
    <3> QED BY <3>1, <3>2, <3>3
  <2> QED BY <2>1, <2>2, <2>3 DEF HostInv, TypeOK, OnlyForkedPidsSignalled
<1>2. CASE UNCHANGED <<signalled, stage, echo>>
  <2>1. signalled \in SUBSET Pids /\ stage \in [Children -> Stages] /\ echo \in BOOLEAN
    BY DEF HostInv, TypeOK
  <2>2. /\ signalled \subseteq {kernel[d] : d \in Children} \ {NoPid}
        /\ echo => pid["container"] # NoPid
    BY DEF HostInv, OnlyForkedPidsSignalled, PidInv
  <2> QED BY <1>2, <2>1, <2>2
<1> QED BY <1>1, <1>2 DEF KillIfRunning
\* No child comes to life.
Waning ==
  \A c \in Children : /\ stage[c] = "none" => stage'[c] = "none"
                      /\ Alive(c)' => Alive(c)

\* A step beside main, of a signal or of a child.
LEMMA BesideMain ==
  ASSUME HostInv, TypeOK', Waning, UNCHANGED <<main, pid, kernel>>,
         echo' => pid["container"] # NoPid,
         signalled' \subseteq {kernel[d] : d \in Children} \ {NoPid}
  PROVE  HostInv'
<1>1. ForkInv'
  BY DEF HostInv, ForkInv, Waning, Children
<1>2. PidInv'
  BY DEF HostInv, PidInv
<1>3. AliveInv'
  BY DEF HostInv, AliveInv, Waning, Children
<1>4. OnlyForkedPidsSignalled'
  BY DEF OnlyForkedPidsSignalled
<1> QED BY <1>1, <1>2, <1>3, <1>4 DEF HostInv

\* A step of main that changes nothing but its place.
LEMMA MainMoves ==
  ASSUME HostInv, NEW from, NEW to, OnlyMain(from, to), to \in MainLabels,
         to \notin BeforeLogcat \/ (from = "start" /\ to = "fork_container")
                                \/ (from = "settle" /\ to = "fork_logcat"),
         from \notin {"container_forked", "logcat_forked"}, to # "logcat_forked",
         to = "kill_container" => ~Alive("logcat"),
         to = "wait_container" => ~Alive("logcat"),
         to = "exited" => ~Alive("logcat") /\ ~Alive("container")
  PROVE  HostInv'
<1>1. /\ main = from /\ main' = to
      /\ UNCHANGED <<running, pid, stage, kernel, handler, signals, signalled, echo>>
  BY DEF OnlyMain, Main
<1>2. TypeOK'
  BY <1>1 DEF HostInv, TypeOK
<1>3. ForkInv'
  BY <1>1 DEF HostInv, ForkInv, BeforeContainer, BeforeLogcat
<1>4. PidInv'
  BY <1>1 DEF HostInv, PidInv
<1>5. AliveInv'
  BY <1>1 DEF HostInv, AliveInv, Alive
<1>6. OnlyForkedPidsSignalled'
  BY <1>1 DEF HostInv, OnlyForkedPidsSignalled
<1> QED BY <1>2, <1>3, <1>4, <1>5, <1>6 DEF HostInv

LEMMA KillChildStep ==
  ASSUME HostInv, NEW c \in Children, NEW from, NEW wait, NEW next,
         KillChild(c, from, wait, next),
         \/ c = "logcat" /\ from = "kill_logcat" /\ wait = "wait_logcat" /\ next = "kill_container"
         \/ c = "container" /\ from = "kill_container" /\ wait = "wait_container" /\ next = "exited"
  PROVE  HostInv'
<1>1. /\ main = from /\ main' \in {wait, next}
      /\ UNCHANGED <<running, pid, kernel, handler, signals>>
      /\ main' = next => pid[c] = NoPid
  BY HasPidIsForked DEF KillChild
<1>2. /\ signalled' \in SUBSET Pids
      /\ signalled' \subseteq {kernel[d] : d \in Children} \ {NoPid}
      /\ stage' \in [Children -> Stages] /\ echo' \in BOOLEAN
      /\ \A d \in Children : stage'[d] \in {stage[d], HitStage(d)}
      /\ echo' => pid["container"] # NoPid
  BY KillEffect DEF KillChild
<1>3. Waning
  BY <1>2 DEF Waning, HitStage, Alive
<1>4. ~Alive(c) \/ main' # next
  BY <1>1 DEF HostInv, AliveInv, Children
<1>5. main' \in MainLabels
  BY <1>1 DEF MainLabels
<1>6. TypeOK'
  BY <1>1, <1>2, <1>5 DEF HostInv, TypeOK
<1>7. ForkInv'
  <2>1. main' \in {"wait_logcat", "kill_container", "wait_container", "exited"}
    BY <1>1
  <2> QED BY <2>1 DEF ForkInv, BeforeContainer, BeforeLogcat
<1>8. PidInv'
  BY <1>1, <1>2 DEF HostInv, PidInv
<1>9. AliveInv'
  BY <1>1, <1>3, <1>4 DEF HostInv, AliveInv, Waning, Children
<1>10. OnlyForkedPidsSignalled'
  BY <1>1, <1>2 DEF OnlyForkedPidsSignalled
<1> QED BY <1>6, <1>7, <1>8, <1>9, <1>10 DEF HostInv
LEMMA ForkStep ==
  ASSUME HostInv, NEW c \in Children, NEW from, NEW to, Fork(c, from, to),
         \/ c = "container" /\ from = "fork_container" /\ to = "container_forked"
         \/ c = "logcat" /\ from = "fork_logcat" /\ to = "logcat_forked"
  PROVE  HostInv'
<1>1. /\ main = from /\ main' = to
      /\ stage' = [stage EXCEPT ![c] = "forked"]
      /\ kernel' = [kernel EXCEPT ![c] = IF kernel["container"] > 0 THEN 2 ELSE 1]
      /\ UNCHANGED <<running, pid, handler, signals, signalled, echo>>
  BY DEF Fork, Main
<1>2. TypeOK'
  <2>1. kernel' \in [Children -> Pids] /\ stage' \in [Children -> Stages]
    BY <1>1 DEF HostInv, TypeOK, Pids, Stages
  <2> QED BY <1>1, <2>1 DEF HostInv, TypeOK, MainLabels
<1>3. kernel[c] = NoPid /\ pid[c] = NoPid /\ kernel'[c] \in {1, 2}
  BY <1>1 DEF HostInv, ForkInv, PidInv, TypeOK, BeforeContainer, BeforeLogcat
<1>4. \A d \in Children \ {c} : kernel'[d] = kernel[d] /\ stage'[d] = stage[d]
  BY <1>1 DEF HostInv, TypeOK
<1>5. ForkInv'
  BY <1>1, <1>3, <1>4 DEF HostInv, ForkInv, Children, NoPid, BeforeContainer, BeforeLogcat
<1>6. PidInv'
  BY <1>1, <1>3, <1>4 DEF HostInv, PidInv, ForkInv, Children
<1>7. AliveInv'
  BY <1>1, <1>4 DEF HostInv, AliveInv, Alive, Children
<1>8. OnlyForkedPidsSignalled'
  <2>1. \A d \in Children : kernel[d] # NoPid => kernel'[d] = kernel[d]
    BY <1>3, <1>4
  <2> QED BY <1>1, <2>1 DEF HostInv, OnlyForkedPidsSignalled
<1> QED BY <1>2, <1>5, <1>6, <1>7, <1>8 DEF HostInv

LEMMA StorePidStep ==
  ASSUME HostInv, NEW c \in Children, NEW from, NEW to, StorePid(c, from, to),
         \/ c = "container" /\ from = "container_forked" /\ to = "settle"
         \/ c = "logcat" /\ from = "logcat_forked" /\ to = "loop"
  PROVE  HostInv'
<1>1. /\ main = from /\ main' = to
      /\ pid' = [pid EXCEPT ![c] = kernel[c]]
      /\ UNCHANGED <<running, stage, kernel, handler, signals, signalled, echo>>
  BY DEF StorePid, Main
<1>2. pid' \in [Children -> Pids] /\ pid'[c] = kernel[c]
      /\ \A d \in Children \ {c} : pid'[d] = pid[d]
  BY <1>1 DEF HostInv, TypeOK
<1>3. TypeOK'
  BY <1>1, <1>2 DEF HostInv, TypeOK, MainLabels
<1>4. ForkInv'
  BY <1>1, <1>2 DEF HostInv, ForkInv, BeforeContainer, BeforeLogcat
<1>5. \A d \in Children : pid[d] # NoPid => pid'[d] = pid[d]
  BY <1>2 DEF HostInv, PidInv
<1>6. PidInv'
  BY <1>1, <1>2, <1>5 DEF HostInv, PidInv, Children
<1>7. AliveInv'
  <2>1. Alive(c) => kernel[c] # NoPid
    BY <1>1 DEF HostInv, AliveInv, PidInv, ForkInv, Children
  <2> QED BY <1>1, <1>2, <1>5, <2>1 DEF HostInv, AliveInv, Alive, Children
<1>8. OnlyForkedPidsSignalled'
  BY <1>1 DEF HostInv, OnlyForkedPidsSignalled
<1> QED BY <1>3, <1>4, <1>6, <1>7, <1>8 DEF HostInv

LEMMA CheckStep ==
  ASSUME HostInv, NEW c \in Children, NEW from, NEW to, Check(c, from, to),
         from \in {"loop", "check_logcat"}, to \in {"check_logcat", "frame"}
  PROVE  HostInv'
<1>1. pid' = pid
  <2>1. AfterCheck(c) = pid[c]
    <3>1. HasPid(c) => pid[c] \in {1, 2}
      BY DEF HasPid, NoPid, HostInv, TypeOK, Pids
    <3>2. Waitpid(c) \in {0, -1}
      BY DEF Waitpid, NoPid
    <3> QED BY <3>1, <3>2 DEF AfterCheck
  <2>2. pid' = [pid EXCEPT ![c] = pid[c]]
    BY <2>1 DEF Check
  <2> QED BY <2>2 DEF HostInv, TypeOK
<1>2. OnlyMain(from, to)
  BY <1>1 DEF Check, OnlyMain
<1> QED BY <1>2, MainMoves DEF MainLabels, BeforeLogcat, BeforeContainer

LEMMA HostStep == HostInv /\ [Next]_vars => HostInv'
<1> SUFFICES ASSUME HostInv, [Next]_vars PROVE HostInv'
  OBVIOUS
<1> USE DEF HostInv
<1>1. CASE SignalArrives
  <2>1. TypeOK'
    <3>1. signals' \in 0 .. MaxSignals
      BY <1>1, HostAssumption DEF SignalArrives, TypeOK
    <3>2. running' \in BOOLEAN /\ handler' \in Children \cup {"none"}
      BY <1>1 DEF SignalArrives, Children
    <3> QED BY <1>1, <3>1, <3>2 DEF SignalArrives, TypeOK
  <2>2. Waning /\ signalled' = signalled /\ (echo' <=> echo)
    BY <1>1 DEF SignalArrives, Waning, Alive
  <2> QED BY <1>1, <2>1, <2>2, BesideMain DEF SignalArrives, PidInv, OnlyForkedPidsSignalled
<1>2. CASE HandlerForwards
  <2>1. PICK c \in Children : KillIfRunning(c)
    BY <1>2 DEF HandlerForwards, Children
  <2>2. /\ UNCHANGED <<main, running, pid, kernel, signals>>
        /\ handler' \in Children \cup {"none"}
    BY <1>2 DEF HandlerForwards, Children
  <2>3. /\ signalled' \in SUBSET Pids
        /\ signalled' \subseteq {kernel[d] : d \in Children} \ {NoPid}
        /\ stage' \in [Children -> Stages] /\ echo' \in BOOLEAN
        /\ \A d \in Children : stage'[d] \in {stage[d], HitStage(d)}
        /\ echo' => pid["container"] # NoPid
    BY <2>1, KillEffect
  <2>4. TypeOK'
    BY <2>2, <2>3 DEF TypeOK
  <2>5. Waning
    BY <2>3 DEF Waning, HitStage, Alive
  <2> QED BY <2>2, <2>3, <2>4, <2>5, BesideMain
<1>3. CASE ChildForwards
  <2>1. /\ echo /\ echo' = FALSE
        /\ signalled' = signalled \cup {pid["container"]}
        /\ stage' = [stage EXCEPT !["container"] = HitStage("container")]
        /\ UNCHANGED <<main, running, pid, kernel, handler, signals>>
    BY <1>3 DEF ChildForwards
  <2>2. /\ pid["container"] \in {kernel[d] : d \in Children} \ {NoPid}
        /\ pid["container"] \in Pids
    BY <2>1, HasPidIsForked DEF PidInv, TypeOK, Children
  <2>3. /\ stage' \in [Children -> Stages]
        /\ \A d \in Children : stage'[d] \in {stage[d], HitStage(d)}
    BY <2>1 DEF HitStage, TypeOK, Stages
  <2>4. TypeOK'
    BY <2>1, <2>2, <2>3 DEF TypeOK
  <2>5. Waning
    BY <2>3 DEF Waning, HitStage, Alive
  <2> QED BY <2>1, <2>2, <2>4, <2>5, BesideMain DEF OnlyForkedPidsSignalled
<1>4. ASSUME NEW c \in Children, ChildRuns(c) \/ ChildEnds(c) PROVE HostInv'
  <2>1. PICK from, to : /\ stage[c] = from /\ stage' = [stage EXCEPT ![c] = to]
                        /\ from \in {"forked", "execed", "proot"} /\ to \in Stages
                        /\ UNCHANGED <<main, running, pid, kernel, handler, signals,
                                       signalled, echo>>
    BY <1>4 DEF ChildRuns, ChildEnds, Exec, ExecFails, EventLoop, Becomes, Stages
  <2>2. stage' \in [Children -> Stages] /\ Waning
    BY <2>1 DEF TypeOK, Waning, Alive
  <2>3. TypeOK'
    BY <2>1, <2>2 DEF TypeOK
  <2> QED BY <2>1, <2>2, <2>3, BesideMain DEF PidInv, OnlyForkedPidsSignalled
<1>5. CASE Start \/ StartFails \/ NoContainer
  BY <1>5, MainMoves DEF Start, StartFails, NoContainer, MainLabels, BeforeLogcat, BeforeContainer
<1>6. CASE Settle \/ LogcatForkFails
  BY <1>6, MainMoves DEF Settle, LogcatForkFails, MainLabels, BeforeLogcat, BeforeContainer
<1>7. CASE FrameOrSleep \/ FrameThrows \/ LeaveLoop \/ StopServices
  BY <1>7, MainMoves
     DEF FrameOrSleep, FrameThrows, LeaveLoop, StopServices, MainLabels, BeforeLogcat,
         BeforeContainer
<1>8. CASE CheckContainer \/ CheckLogcat
  BY <1>8, CheckStep DEF CheckContainer, CheckLogcat, Children
<1>9. CASE Fork("container", "fork_container", "container_forked")
  BY <1>9, ForkStep DEF Children
<1>10. CASE Fork("logcat", "fork_logcat", "logcat_forked")
  BY <1>10, ForkStep DEF Children
<1>11. CASE StorePid("container", "container_forked", "settle")
  BY <1>11, StorePidStep DEF Children
<1>12. CASE StorePid("logcat", "logcat_forked", "loop")
  BY <1>12, StorePidStep DEF Children
<1>13. CASE KillChild("logcat", "kill_logcat", "wait_logcat", "kill_container")
  BY <1>13, KillChildStep DEF Children
<1>14. CASE KillChild("container", "kill_container", "wait_container", "exited")
  BY <1>14, KillChildStep DEF Children
<1>15. CASE WaitChild("logcat", "wait_logcat", "kill_container")
  <2>1. OnlyMain("wait_logcat", "kill_container") /\ ~Alive("logcat")
    BY <1>15 DEF WaitChild, MayReturn, Waitpid
  <2> QED BY <2>1, MainMoves DEF MainLabels, BeforeLogcat, BeforeContainer
<1>16. CASE WaitChild("container", "wait_container", "exited")
  <2>1. OnlyMain("wait_container", "exited") /\ ~Alive("container")
    BY <1>16 DEF WaitChild, MayReturn, Waitpid
  <2>2. ~Alive("logcat")
    BY <2>1 DEF OnlyMain, Main, AliveInv
  <2> QED BY <2>1, <2>2, MainMoves DEF MainLabels, BeforeLogcat, BeforeContainer
<1>17. CASE UNCHANGED vars
  <2>1. TypeOK' /\ ForkInv' /\ PidInv'
    BY <1>17 DEF vars, TypeOK, ForkInv, PidInv
  <2>2. AliveInv' /\ OnlyForkedPidsSignalled'
    BY <1>17 DEF vars, AliveInv, Alive, OnlyForkedPidsSignalled
  <2> QED BY <2>1, <2>2
<1> QED
  BY <1>1, <1>2, <1>3, <1>4, <1>5, <1>6, <1>7, <1>8, <1>9, <1>10, <1>11, <1>12, <1>13, <1>14,
     <1>15, <1>16, <1>17 DEF Next, MainRuns

LEMMA HostInvariant == Spec => []HostInv
  BY HostInit, HostStep, PTL DEF Spec

\* The type invariant of the server's process.
THEOREM HostTypes == Spec => []TypeOK
<1>1. HostInv => TypeOK
  BY DEF HostInv
<1> QED BY <1>1, HostInvariant, PTL

\* However many signals come and wherever, only pids that fork returned are signalled.
THEOREM SignalsOnlyForked == Spec => []OnlyForkedPidsSignalled
<1>1. HostInv => OnlyForkedPidsSignalled
  BY DEF HostInv
<1> QED BY <1>1, HostInvariant, PTL

\* However many signals come and wherever, a server that shuts down leaves no child.
THEOREM NoChildLeft == Spec => []ExitLeavesNoChild
<1>1. HostInv => ExitLeavesNoChild
  BY DEF HostInv, AliveInv, ExitLeavesNoChild, Children
<1> QED BY <1>1, HostInvariant, PTL
=============================================================================
