--------------------------- MODULE QemuPipe_proofs ---------------------------
(***************************************************************************)
(* Proofs about QemuPipe, for any workers, guests, hosts, commands and     *)
(* amounts of data.                                                        *)
(*                                                                         *)
(* 1.  The lock.  One processor listens at a time, and the lock does not   *)
(* outlive the connection of the processor that holds it.  That the        *)
(* connection of the owner is there is inductive only together with what   *)
(* each worker may be doing: at most one of them handles a connection, and *)
(* then no read of it is outstanding.                                      *)
(*                                                                         *)
(* 2.  The types, of all the state: a worker that works for a host has     *)
(* one, and so has a processor that has gone past the accept command.      *)
(*                                                                         *)
(* 3.  The commands of a qemud connection, in the order they were sent.    *)
(* What is in the buffer, what a worker is processing and what is unread   *)
(* are one stream, which starts with the first byte of the next command    *)
(* and holds the commands up to the last one written.  process_commands    *)
(* cuts it at its first incomplete command: that there is a first one is   *)
(* the one induction here, and is taken from the least number of a set of  *)
(* numbers.                                                                *)
(*                                                                         *)
(* 4.  The data of an adb session.  The same stream is that of a guest of  *)
(* adb: an accept command, a start command and data, of which First(p)     *)
(* tokens are taken out of the buffer, Handled(p) are processed and        *)
(* ReadOf(p) are read.  Nothing goes to a host, and nothing listens,       *)
(* before the guest has sent the command that allows it; each host is the  *)
(* messenger of one pipe, and the tokens of it that the guest has got are  *)
(* numbered by their count among what was read from the host.              *)
(***************************************************************************)
EXTENDS QemuPipe, Integers, FiniteSets, FiniteSetTheorems, WellFoundedInduction,
        SequenceTheorems, TLAPS

\* The fields the proofs look at are there.
AdbShape == DOMAIN adb = Pipes /\ \A p \in Pipes : "connector" \in DOMAIN adb[p]

TaskShape ==
  DOMAIN task = Workers /\ \A w \in Workers : {"at", "pipe", "data", "host"} = DOMAIN task[w]

PipeShape == DOMAIN pipe = Pipes /\ \A p \in Pipes : "status" \in DOMAIN pipe[p]

SameConnectors ==
  /\ AdbShape'
  /\ \A p \in Pipes : adb'[p].connector = adb[p].connector
  /\ owner' = owner

-----------------------------------------------------------------------------
(* One listener *)

ListenerInv == AdbShape /\ OneListener

LEMMA ListenerInit == Init => ListenerInv
  BY DEF Init, ListenerInv, AdbShape, OneListener

\* A step that neither moves the lock nor a connector keeps the invariant.
LEMMA SameConnectorsKeep == ListenerInv /\ SameConnectors => ListenerInv'
  BY DEF ListenerInv, AdbShape, OneListener, SameConnectors

LEMMA UnchangedKeeps == AdbShape /\ UNCHANGED <<adb, owner>> => SameConnectors
  BY DEF AdbShape, SameConnectors

LEMMA ListenerStep == ListenerInv /\ [Next]_vars => ListenerInv'
<1> SUFFICES ASSUME ListenerInv, [Next]_vars PROVE ListenerInv'
  OBVIOUS
<1> USE DEF ListenerInv
<1>1. ASSUME NEW w \in Workers, IdentifyClient(w) PROVE ListenerInv'
  BY <1>1, UnchangedKeeps, SameConnectorsKeep DEF IdentifyClient, session
<1>2. ASSUME NEW w \in Workers, AddConnection(w) PROVE ListenerInv'
  BY <1>2, UnchangedKeeps, SameConnectorsKeep DEF AddConnection, session
<1>3. ASSUME NEW w \in Workers, ReadNextMessage(w) PROVE ListenerInv'
  BY <1>3, UnchangedKeeps, SameConnectorsKeep DEF ReadNextMessage, session
<1>4. ASSUME NEW w \in Workers, RemoveConnection(w) PROVE ListenerInv'
  <2> DEFINE p == task[w].pipe
  <2>1. /\ adb' = [adb EXCEPT ![p].state = "closed_by_host", ![p].connector = "none"]
        /\ owner' = Unlocked(p)
    BY <1>4 DEF RemoveConnection
  <2>2. AdbShape' /\ \A q \in Pipes :
          adb'[q].connector = IF q = p THEN "none" ELSE adb[q].connector
    BY <2>1 DEF AdbShape
  <2>3. OneListener'
    BY <2>1, <2>2 DEF OneListener, Unlocked
  <2> QED BY <2>2, <2>3
<1>5. ASSUME NEW w \in Workers, ProcessCommands(w) PROVE ListenerInv'
  <2>1. SameConnectors
    BY <1>5 DEF ProcessCommands, SameConnectors, AdbShape
  <2> QED BY <2>1, SameConnectorsKeep
<1>6. ASSUME NEW w \in Workers, OnHostConnection(w) PROVE ListenerInv'
  <2>1. SameConnectors
    BY <1>6 DEF OnHostConnection, SameConnectors, AdbShape
  <2> QED BY <2>1, SameConnectorsKeep
<1>7. ASSUME NEW w \in Workers, SetState(w) PROVE ListenerInv'
  <2>1. SameConnectors
    BY <1>7 DEF SetState, SameConnectors, AdbShape
  <2> QED BY <2>1, SameConnectorsKeep
<1>8. ASSUME NEW w \in Workers, SetExpected(w) PROVE ListenerInv'
  <2> DEFINE p == task[w].pipe
  <2>1. /\ owner' = owner
        /\ adb' = [adb EXCEPT ![p].expected_command = start_command,
                              ![p].connector = IF @ = "busy" THEN "listening" ELSE @]
    BY <1>8 DEF SetExpected
  <2>2. AdbShape' /\ \A q \in Pipes : adb'[q].connector # "none" => adb[q].connector # "none"
    BY <2>1 DEF AdbShape
  <2> QED BY <2>1, <2>2 DEF OneListener
<1>9. ASSUME NEW w \in Workers, NEW p \in Pipes, ReadSome(w, p) \/ ReadError(w, p)
      PROVE ListenerInv'
  BY <1>9, UnchangedKeeps, SameConnectorsKeep DEF ReadSome, ReadError, session
<1>10. ASSUME NEW w \in Workers, NEW p \in Pipes,
              ProxyData(w, p) \/ ProxyThrows(w, p)
       PROVE ListenerInv'
  BY <1>10, UnchangedKeeps, SameConnectorsKeep DEF ProxyData, ProxyThrows, session
<1>11. ASSUME NEW w \in Workers, NEW p \in Pipes, CollectCommand(w, p) PROVE ListenerInv'
  <2>1. owner' = owner
    BY <1>11 DEF CollectCommand
  <2>2. PICK b, e : \/ adb' = [adb EXCEPT ![p].buffer = b]
                    \/ adb' = [adb EXCEPT ![p].buffer = b, ![p].expected_command = e]
    BY <1>11 DEF CollectCommand
  <2>3. SameConnectors
    BY <2>1, <2>2 DEF SameConnectors, AdbShape
  <2> QED BY <2>3, SameConnectorsKeep
<1>12. ASSUME NEW w \in Workers, NEW p \in Pipes, WaitForHostConnection(w, p) PROVE ListenerInv'
  <2>1. /\ owner = NoPipe /\ owner' = p
        /\ adb' = [adb EXCEPT ![p].connector = "listening"]
    BY <1>12 DEF WaitForHostConnection, LockFree
  <2>2. \A q \in Pipes : adb[q].connector = "none"
    BY <2>1, PipeAssumption DEF OneListener
  <2>3. AdbShape' /\ \A q \in Pipes \ {p} : adb'[q].connector = adb[q].connector
    BY <2>1 DEF AdbShape
  <2> QED BY <2>1, <2>2, <2>3 DEF OneListener
<1>13. ASSUME NEW w \in Workers, NEW p \in Pipes, StartProxying(w, p) PROVE ListenerInv'
  <2>1. SameConnectors
    BY <1>13 DEF StartProxying, SameConnectors, AdbShape
  <2> QED BY <2>1, SameConnectorsKeep
<1>14. ASSUME NEW w \in Workers, NEW p \in Pipes, NEW h \in Hosts, OnHostRead(w, p, h)
       PROVE ListenerInv'
  BY <1>14, UnchangedKeeps, SameConnectorsKeep DEF OnHostRead, session
<1>15. ASSUME NEW w \in Workers, NEW p \in Pipes, NEW h \in Hosts, OnHostReadError(w, p, h)
       PROVE ListenerInv'
  <2>1. SameConnectors
    BY <1>15 DEF OnHostReadError, SameConnectors, AdbShape
  <2> QED BY <2>1, SameConnectorsKeep
<1>16. ASSUME NEW w \in Workers, NEW p \in Pipes, Accept(w, p) PROVE ListenerInv'
  BY <1>16, UnchangedKeeps, SameConnectorsKeep DEF Accept, session
<1>17. ASSUME NEW w \in Workers, NEW p \in Pipes, NEW h \in Hosts, AcceptHost(w, p, h)
       PROVE ListenerInv'
  <2>1. /\ owner' = owner /\ adb[p].connector = "listening"
        /\ adb' = [adb EXCEPT ![p].connector = "busy"]
    BY <1>17 DEF AcceptHost
  <2>2. AdbShape' /\ \A q \in Pipes \ {p} : adb'[q].connector = adb[q].connector
    BY <2>1 DEF AdbShape
  <2> QED BY <2>1, <2>2 DEF OneListener
<1>18. ASSUME NEW p \in Pipes, GuestNames(p) \/ GuestWritesNext(p) \/ GuestLeaves(p)
       PROVE ListenerInv'
  BY <1>18, UnchangedKeeps, SameConnectorsKeep
     DEF GuestNames, GuestWritesNext, GuestLeaves, GuestWrites, Guest, session
<1>19. ASSUME NEW h \in Hosts, HostWrites(h) \/ HostLeaves(h) PROVE ListenerInv'
  BY <1>19, UnchangedKeeps, SameConnectorsKeep DEF HostWrites, HostLeaves, Host, session
<1>20. CASE UNCHANGED vars
  BY <1>20, UnchangedKeeps, SameConnectorsKeep DEF vars, session
<1> QED
  BY <1>1, <1>2, <1>3, <1>4, <1>5, <1>6, <1>7, <1>8, <1>9, <1>10, <1>11, <1>12, <1>13, <1>14,
     <1>15, <1>16, <1>17, <1>18, <1>19, <1>20 DEF Next, Handles

\* However many connections adbd opens, only the processor that holds active_instance_
\* listens on the port of the emulator.
THEOREM ListensAlone == Spec => []OneListener
<1>1. ListenerInv => OneListener
  BY DEF ListenerInv
<1> QED BY <1>1, ListenerInit, ListenerStep, PTL DEF Spec

-----------------------------------------------------------------------------
(* The lock and the connection *)

Busy(w) == task[w].at \in {"first_read", "read_next", "process", "advance", "remove"}
Creating(w) == task[w].at \in {"identify", "add"}
Seen(p) == p \in Pipes /\ pipe[p].status # "none"

\* A connection that is handled is not read, and has one worker.
BusyInv ==
  /\ reading \subseteq conns
  /\ \A w \in Workers : Busy(w) => task[w].pipe \in conns \ reading
  /\ \A w, v \in Workers : Busy(w) /\ Busy(v) /\ task[w].pipe = task[v].pipe => w = v

\* A guest is accepted once, and its connection added once.
CreatingInv ==
  /\ \A p \in conns : Seen(p)
  /\ \A w \in Workers : Creating(w) => Seen(task[w].pipe) /\ task[w].pipe \notin conns
  /\ \A w, v \in Workers :
       Creating(w) /\ Creating(v) /\ task[w].pipe = task[v].pipe => w = v

LockInv ==
  /\ TaskShape /\ PipeShape
  /\ BusyInv /\ CreatingInv
  /\ LockIsConnected

\* What a step does that gives no worker a connection it had not.
Releases ==
  /\ TaskShape' /\ PipeShape'
  /\ \A w \in Workers : task[w]' = task[w] \/ ~(Busy(w)' \/ Creating(w)')
  /\ \A p \in Pipes : Seen(p) => Seen(p)'
  /\ UNCHANGED <<conns, reading, owner>>

\* What a step does that brings one worker further with its connection.
Proceeds(w) ==
  /\ TaskShape' /\ PipeShape'
  /\ Busy(w)
  /\ task[w].pipe' = task[w].pipe
  /\ ~Creating(w)'
  /\ \A v \in Workers \ {w} : task[v]' = task[v]
  /\ \A p \in Pipes : Seen(p) => Seen(p)'
  /\ UNCHANGED <<conns, reading>>
  /\ owner' \in {owner, task[w].pipe}

LEMMA LockInit == Init => LockInv
  BY DEF Init, LockInv, TaskShape, PipeShape, BusyInv, CreatingInv, LockIsConnected, Busy,
         Creating, Idle

LEMMA ReleasesKeeps == LockInv /\ Releases => LockInv'
<1> SUFFICES ASSUME LockInv, Releases PROVE LockInv'
  OBVIOUS
<1>1. BusyInv'
  BY DEF LockInv, Releases, BusyInv, Busy
<1>2. CreatingInv'
  BY DEF LockInv, Releases, CreatingInv, Creating, Seen
<1>3. LockIsConnected'
  BY DEF LockInv, Releases, LockIsConnected
<1> QED BY <1>1, <1>2, <1>3 DEF LockInv, Releases

LEMMA ProceedsKeeps ==
  ASSUME NEW w \in Workers, LockInv, Proceeds(w) PROVE LockInv'
<1>1. BusyInv'
  BY DEF LockInv, Proceeds, BusyInv, Busy
<1>2. CreatingInv'
  BY DEF LockInv, Proceeds, CreatingInv, Creating, Seen
<1>3. LockIsConnected'
  BY DEF LockInv, Proceeds, LockIsConnected, BusyInv
<1> QED BY <1>1, <1>2, <1>3 DEF LockInv, Proceeds

\* The parts of Releases and Proceeds that most actions have in common.
LEMMA UnchangedPipes ==
  PipeShape /\ pipe' = pipe => PipeShape' /\ \A p \in Pipes : Seen(p) => Seen(p)'
  BY DEF PipeShape, Seen

LEMMA GoesProceeds ==
  ASSUME NEW w \in Workers, NEW label, TaskShape, Goes(w, label)
  PROVE  /\ TaskShape'
         /\ task[w]'.at = label /\ task[w]'.pipe = task[w].pipe
         /\ \A v \in Workers \ {w} : task[v]' = task[v]
  BY DEF Goes, TaskShape

LEMMA EndsReleases ==
  ASSUME NEW w \in Workers, TaskShape, Ends(w)
  PROVE  /\ TaskShape'
         /\ task[w]' = Idle
         /\ \A v \in Workers \ {w} : task[v]' = task[v]
  BY DEF Ends, TaskShape, Idle

LEMMA BeginsTask ==
  ASSUME NEW w \in Workers, NEW label, NEW p, NEW data, NEW h, TaskShape,
         Begins(w, label, p, data, h)
  PROVE  /\ TaskShape'
         /\ task[w]'.at = label /\ task[w]'.pipe = p
         /\ \A v \in Workers \ {w} : task[v]' = task[v]
  BY DEF Begins, TaskShape
LEMMA LockStep == LockInv /\ [Next]_vars => LockInv'
<1> SUFFICES ASSUME LockInv, [Next]_vars PROVE LockInv'
  OBVIOUS
<1> TaskShape /\ PipeShape
  BY DEF LockInv
<1>1. ASSUME NEW w \in Workers, IdentifyClient(w) PROVE LockInv'
  <2>1. At(w, "identify") /\ Goes(w, "add") /\ UNCHANGED <<conns, reading, owner, pipe>>
    BY <1>1 DEF IdentifyClient, server, session, ends
  <2>2. /\ TaskShape' /\ task[w]'.at = "add" /\ task[w]'.pipe = task[w].pipe
        /\ \A v \in Workers \ {w} : task[v]' = task[v]
    BY <2>1, GoesProceeds
  <2>3. PipeShape' /\ \A q \in Pipes : Seen(q) => Seen(q)'
    BY <2>1, UnchangedPipes
  <2>4. Creating(w) /\ ~Busy(w)' /\ \A v \in Workers : Creating(v)' => Creating(v)
    BY <2>1, <2>2 DEF At, Creating, Busy
  <2>5. BusyInv'
    BY <2>1, <2>2, <2>4 DEF LockInv, BusyInv, Busy
  <2>6. CreatingInv'
    BY <2>1, <2>2, <2>3, <2>4 DEF LockInv, CreatingInv, Seen
  <2>7. LockIsConnected'
    BY <2>1 DEF LockInv, LockIsConnected
  <2> QED BY <2>2, <2>3, <2>5, <2>6, <2>7 DEF LockInv
<1>2. ASSUME NEW w \in Workers, AddConnection(w) PROVE LockInv'
  <2> DEFINE p == task[w].pipe
  <2>1. At(w, "add") /\ Goes(w, "first_read") /\ UNCHANGED <<reading, owner, pipe>>
    BY <1>2 DEF AddConnection, session, ends
  <2>2. /\ TaskShape' /\ task[w]'.at = "first_read" /\ task[w]'.pipe = p
        /\ \A v \in Workers \ {w} : task[v]' = task[v]
    BY <2>1, GoesProceeds
  <2>3. PipeShape' /\ \A q \in Pipes : Seen(q) => Seen(q)'
    BY <2>1, UnchangedPipes
  <2>4. conns' = conns \cup {p}
    BY <1>2 DEF AddConnection, Added
  <2>5. Seen(p) /\ p \notin conns /\ \A v \in Workers \ {w} : Creating(v) => task[v].pipe # p
    BY <2>1 DEF LockInv, CreatingInv, Creating, At
  <2>6. BusyInv'
    BY <2>1, <2>2, <2>4, <2>5 DEF LockInv, BusyInv, Busy
  <2>7. CreatingInv'
    BY <2>1, <2>2, <2>3, <2>4, <2>5 DEF LockInv, CreatingInv, Creating, Seen
  <2>8. LockIsConnected'
    BY <2>1, <2>4 DEF LockInv, LockIsConnected
  <2> QED BY <2>2, <2>3, <2>6, <2>7, <2>8 DEF LockInv
<1>3. ASSUME NEW w \in Workers, ReadNextMessage(w) PROVE LockInv'
  <2> DEFINE p == task[w].pipe
  <2>1. Busy(w) /\ reading' = reading \cup {p} /\ Ends(w) /\ UNCHANGED <<conns, owner, pipe>>
    BY <1>3 DEF ReadNextMessage, session, ends, Busy, At
  <2>2. /\ TaskShape' /\ ~Busy(w)' /\ ~Creating(w)'
        /\ \A v \in Workers \ {w} : task[v]' = task[v]
    BY <2>1, EndsReleases DEF Busy, Creating, Idle
  <2>3. PipeShape' /\ \A q \in Pipes : Seen(q) => Seen(q)'
    BY <2>1, UnchangedPipes
  <2>4. BusyInv'
    BY <2>1, <2>2 DEF LockInv, BusyInv, Busy
  <2>5. CreatingInv'
    BY <2>1, <2>2, <2>3 DEF LockInv, CreatingInv, Creating, Seen
  <2>6. LockIsConnected'
    BY <2>1 DEF LockInv, LockIsConnected
  <2> QED BY <2>2, <2>3, <2>4, <2>5, <2>6 DEF LockInv
<1>4. ASSUME NEW w \in Workers, NEW p \in Pipes, ReadSome(w, p) \/ ReadError(w, p)
      PROVE LockInv'
  <2>1. p \in reading /\ reading' = reading \ {p} /\ UNCHANGED <<conns, owner>>
    BY <1>4 DEF ReadSome, ReadError, session
  <2>2. PICK label, d : label \in {"process", "remove"} /\ Begins(w, label, p, d, NoHost)
    BY <1>4 DEF ReadSome, ReadError
  <2>3. /\ TaskShape' /\ task[w]'.at = label /\ task[w]'.pipe = p
        /\ \A v \in Workers \ {w} : task[v]' = task[v]
    BY <2>2, BeginsTask
  <2>4. PipeShape' /\ \A q \in Pipes : Seen(q) => Seen(q)'
    BY <1>4, UnchangedPipes DEF ReadSome, ReadError, ends, PipeShape, Seen
  <2>5. BusyInv'
    BY <2>1, <2>2, <2>3 DEF LockInv, BusyInv, Busy
  <2>6. CreatingInv'
    BY <2>1, <2>2, <2>3, <2>4 DEF LockInv, CreatingInv, Creating, Seen
  <2>7. LockIsConnected'
    BY <2>1 DEF LockInv, LockIsConnected
  <2> QED BY <2>3, <2>4, <2>5, <2>6, <2>7 DEF LockInv
<1>5. ASSUME NEW w \in Workers, RemoveConnection(w) PROVE LockInv'
  <2> DEFINE p == task[w].pipe
  <2>1. Busy(w) /\ Ends(w) /\ reading' = reading /\ conns' = conns \ {p} /\ owner' = Unlocked(p)
    BY <1>5 DEF RemoveConnection, Removed, Busy, At
  <2>2. /\ TaskShape' /\ ~Busy(w)' /\ ~Creating(w)'
        /\ \A v \in Workers \ {w} : task[v]' = task[v]
    BY <2>1, EndsReleases DEF Busy, Creating, Idle
  <2>3. pipe' = [pipe EXCEPT ![p].status = "closed"]
    BY <1>5 DEF RemoveConnection
  <2>4. PipeShape' /\ \A q \in Pipes : Seen(q) => Seen(q)'
    BY <2>3 DEF PipeShape, Seen
  <2>5. BusyInv'
    BY <2>1, <2>2 DEF LockInv, BusyInv, Busy
  <2>6. CreatingInv'
    BY <2>1, <2>2, <2>4 DEF LockInv, CreatingInv, Creating, Seen
  <2>7. LockIsConnected'
    BY <2>1 DEF LockInv, LockIsConnected, Unlocked
  <2> QED BY <2>2, <2>4, <2>5, <2>6, <2>7 DEF LockInv
<1>6. ASSUME NEW w \in Workers, ProcessCommands(w) PROVE LockInv'
  <2>1. UNCHANGED <<conns, reading>> /\ owner' \in {owner, task[w].pipe}
    BY <1>6 DEF ProcessCommands, server
  <2>2. PICK label \in {"read_next", "advance", "remove"} : Goes(w, label)
    BY <1>6 DEF ProcessCommands
  <2>3. Busy(w)
    BY <1>6 DEF ProcessCommands, Busy, At
  <2>4. PipeShape' /\ \A q \in Pipes : Seen(q) => Seen(q)'
    BY <1>6, UnchangedPipes DEF ProcessCommands, ends, PipeShape, Seen
  <2> QED BY <2>1, <2>2, <2>3, <2>4, GoesProceeds, ProceedsKeeps DEF Proceeds, Creating
<1>7. ASSUME NEW w \in Workers, NEW p \in Pipes, ProxyData(w, p) PROVE LockInv'
  <2>1. UNCHANGED <<conns, reading>> /\ owner' \in {owner, task[w].pipe}
    BY <1>7 DEF ProxyData, server, Processes, session
  <2>2. PICK label \in {"read_next", "advance", "remove"} : Goes(w, label)
    BY <1>7 DEF ProxyData, Processes, session
  <2>3. Busy(w)
    BY <1>7 DEF ProxyData, Busy, At, Processes, session
  <2>4. PipeShape' /\ \A q \in Pipes : Seen(q) => Seen(q)'
    BY <1>7, UnchangedPipes DEF ProxyData, ends, PipeShape, Seen
  <2> QED BY <2>1, <2>2, <2>3, <2>4, GoesProceeds, ProceedsKeeps DEF Proceeds, Creating
<1>8. ASSUME NEW w \in Workers, NEW p \in Pipes, CollectCommand(w, p) PROVE LockInv'
  <2>1. UNCHANGED <<conns, reading>> /\ owner' \in {owner, task[w].pipe}
    BY <1>8 DEF CollectCommand, server, Processes
  <2>2. PICK label \in {"read_next", "advance", "remove"} : Goes(w, label)
    BY <1>8 DEF CollectCommand, Processes
  <2>3. Busy(w)
    BY <1>8 DEF CollectCommand, Busy, At, Processes
  <2>4. PipeShape' /\ \A q \in Pipes : Seen(q) => Seen(q)'
    BY <1>8, UnchangedPipes DEF CollectCommand, ends, PipeShape, Seen
  <2> QED BY <2>1, <2>2, <2>3, <2>4, GoesProceeds, ProceedsKeeps DEF Proceeds, Creating
<1>9. ASSUME NEW w \in Workers, NEW p \in Pipes, WaitForHostConnection(w, p) PROVE LockInv'
  <2>1. UNCHANGED <<conns, reading>> /\ owner' \in {owner, task[w].pipe}
    BY <1>9 DEF WaitForHostConnection, server, Advances
  <2>2. PICK label \in {"read_next", "advance", "remove"} : Goes(w, label)
    BY <1>9 DEF WaitForHostConnection, Advances
  <2>3. Busy(w)
    BY <1>9 DEF WaitForHostConnection, Busy, At, Advances
  <2>4. PipeShape' /\ \A q \in Pipes : Seen(q) => Seen(q)'
    BY <1>9, UnchangedPipes DEF WaitForHostConnection, ends, PipeShape, Seen
  <2> QED BY <2>1, <2>2, <2>3, <2>4, GoesProceeds, ProceedsKeeps DEF Proceeds, Creating
<1>10. ASSUME NEW w \in Workers, NEW p \in Pipes, StartProxying(w, p) PROVE LockInv'
  <2>1. UNCHANGED <<conns, reading>> /\ owner' \in {owner, task[w].pipe}
    BY <1>10 DEF StartProxying, server, Advances
  <2>2. PICK label \in {"read_next", "advance", "remove"} : Goes(w, label)
    BY <1>10 DEF StartProxying, Advances
  <2>3. Busy(w)
    BY <1>10 DEF StartProxying, Busy, At, Advances
  <2>4. PipeShape' /\ \A q \in Pipes : Seen(q) => Seen(q)'
    BY <1>10, UnchangedPipes DEF StartProxying, ends, PipeShape, Seen
  <2> QED BY <2>1, <2>2, <2>3, <2>4, GoesProceeds, ProceedsKeeps DEF Proceeds, Creating
<1>11. ASSUME NEW w \in Workers, NEW p \in Pipes, ProxyThrows(w, p) PROVE LockInv'
  <2>1. Ends(w) /\ UNCHANGED <<conns, reading, owner, pipe>>
    BY <1>11 DEF ProxyThrows, server, session, ends
  <2> QED BY <2>1, EndsReleases, UnchangedPipes, ReleasesKeeps DEF Releases, Busy, Creating, Idle
<1>12. ASSUME NEW w \in Workers, OnHostConnection(w) PROVE LockInv'
  <2>1. UNCHANGED <<conns, reading, owner>> /\ (Goes(w, "host_state") \/ Ends(w))
    BY <1>12 DEF OnHostConnection, server
  <2>2. PipeShape' /\ \A q \in Pipes : Seen(q) => Seen(q)'
    BY <1>12, UnchangedPipes DEF OnHostConnection, Told, PipeShape, Seen
  <2> QED BY <2>1, <2>2, GoesProceeds, EndsReleases, ReleasesKeeps
          DEF Releases, Busy, Creating, Idle
<1>13. ASSUME NEW w \in Workers, SetState(w) PROVE LockInv'
  <2>1. Goes(w, "host_expected") /\ UNCHANGED <<conns, reading, owner, pipe>>
    BY <1>13 DEF SetState, server, ends
  <2> QED BY <2>1, GoesProceeds, UnchangedPipes, ReleasesKeeps DEF Releases, Busy, Creating
<1>14. ASSUME NEW w \in Workers, SetExpected(w) PROVE LockInv'
  <2>1. Ends(w) /\ UNCHANGED <<conns, reading, owner, pipe>>
    BY <1>14 DEF SetExpected, server, ends
  <2> QED BY <2>1, EndsReleases, UnchangedPipes, ReleasesKeeps DEF Releases, Busy, Creating, Idle
<1>15. ASSUME NEW w \in Workers, NEW p \in Pipes, NEW h \in Hosts,
              OnHostRead(w, p, h) \/ OnHostReadError(w, p, h)
       PROVE LockInv'
  <2>1. UNCHANGED <<conns, reading, owner, task>>
    BY <1>15 DEF OnHostRead, OnHostReadError, server, session
  <2>2. PipeShape' /\ \A q \in Pipes : Seen(q) => Seen(q)'
    BY <1>15 DEF OnHostRead, OnHostReadError, Told, PipeShape, Seen
  <2> QED BY <2>1, <2>2, ReleasesKeeps DEF Releases, TaskShape
<1>16. ASSUME NEW w \in Workers, NEW p \in Pipes, Accept(w, p) PROVE LockInv'
  <2>1. /\ pipe[p].status = "none" /\ pipe' = [pipe EXCEPT ![p].status = "open"]
        /\ Begins(w, "identify", p, <<>>, NoHost)
        /\ UNCHANGED <<conns, reading, owner>>
    BY <1>16 DEF Accept, session
  <2>2. /\ TaskShape' /\ task[w]'.at = "identify" /\ task[w]'.pipe = p
        /\ \A v \in Workers \ {w} : task[v]' = task[v]
    BY <2>1, BeginsTask
  <2>3. PipeShape' /\ Seen(p)' /\ ~Seen(p) /\ \A q \in Pipes : Seen(q) => Seen(q)'
    BY <2>1 DEF PipeShape, Seen
  <2>4. BusyInv'
    BY <2>1, <2>2 DEF LockInv, BusyInv, Busy
  <2>5. CreatingInv'
    BY <2>1, <2>2, <2>3 DEF LockInv, CreatingInv, Creating, Seen
  <2>6. LockIsConnected'
    BY <2>1 DEF LockInv, LockIsConnected
  <2> QED BY <2>2, <2>3, <2>4, <2>5, <2>6 DEF LockInv
<1>17. ASSUME NEW w \in Workers, NEW p \in Pipes, NEW h \in Hosts, AcceptHost(w, p, h)
       PROVE LockInv'
  <2>1. Begins(w, "host_connection", p, <<>>, h) /\ UNCHANGED <<conns, reading, owner, pipe>>
    BY <1>17 DEF AcceptHost, server
  <2> QED BY <2>1, BeginsTask, UnchangedPipes, ReleasesKeeps DEF Releases, Busy, Creating
<1>18. ASSUME NEW p \in Pipes, GuestNames(p) \/ GuestWritesNext(p) \/ GuestLeaves(p)
       PROVE LockInv'
  <2>1. PICK end : /\ Guest(p, end) /\ "status" \in DOMAIN end /\ end.status # "none"
    <3>1. CASE GuestNames(p)
      BY <3>1 DEF GuestNames, Guest, PipeShape
    <3>2. CASE GuestWritesNext(p)
      <4>1. PICK bytes : GuestWrites(p, bytes)
        <5>1. CASE pipe[p].service = "qemud"
          BY <3>2, <5>1 DEF GuestWritesNext
        <5>2. CASE pipe[p].service # "qemud"
          BY <3>2, <5>2 DEF GuestWritesNext
        <5> QED BY <5>1, <5>2
      <4> DEFINE e == [pipe[p] EXCEPT !.written = @ + 1, !.unread = @ \o bytes]
      <4>2. Guest(p, e)
        BY <4>1 DEF GuestWrites
      <4>3. "status" \in DOMAIN e /\ e.status = pipe[p].status
        BY DEF PipeShape
      <4>4. pipe[p].status = "open"
        BY <4>2 DEF Guest
      <4> HIDE DEF e
      <4> QED BY <4>2, <4>3, <4>4
    <3>3. CASE GuestLeaves(p)
      <4> DEFINE e == [pipe[p] EXCEPT !.status = "left"]
      <4>1. Guest(p, e) /\ "status" \in DOMAIN e /\ e.status = "left"
        BY <3>3 DEF GuestLeaves, PipeShape
      <4> HIDE DEF e
      <4> QED BY <4>1
    <3> QED BY <1>18, <3>1, <3>2, <3>3
  <2>2. pipe' = [pipe EXCEPT ![p] = end] /\ UNCHANGED <<conns, reading, owner, task>>
    BY <2>1 DEF Guest, server, session
  <2>3. PipeShape' /\ \A q \in Pipes : Seen(q) => Seen(q)'
    BY <2>1, <2>2 DEF PipeShape, Seen
  <2> QED BY <2>2, <2>3, ReleasesKeeps DEF Releases, TaskShape
<1>19. ASSUME NEW h \in Hosts, HostWrites(h) \/ HostLeaves(h) PROVE LockInv'
  <2>1. UNCHANGED <<conns, reading, owner, task, pipe>>
    BY <1>19 DEF HostWrites, HostLeaves, Host, server, session
  <2> QED BY <2>1, UnchangedPipes, ReleasesKeeps DEF Releases, TaskShape
<1>20. CASE UNCHANGED vars
  <2>1. UNCHANGED <<conns, reading, owner, task, pipe>>
    BY <1>20 DEF vars, server, session, ends
  <2> QED BY <2>1, UnchangedPipes, ReleasesKeeps DEF Releases, TaskShape
<1> QED
  BY <1>1, <1>2, <1>3, <1>4, <1>5, <1>6, <1>7, <1>8, <1>9, <1>10, <1>11, <1>12, <1>13,
     <1>14, <1>15, <1>16, <1>17, <1>18, <1>19, <1>20 DEF Next, Handles

\* The lock never outlives the connection whose processor holds it.
THEOREM LockGoesWithConnection == Spec => []LockIsConnected
<1>1. LockInv => LockIsConnected
  BY DEF LockInv
<1> QED BY <1>1, LockInit, LockStep, PTL DEF Spec

-----------------------------------------------------------------------------
(* The least number of a set *)

\* Any set of numbers has a least one: what an induction over numbers comes down to here.
LEMMA LeastNumber ==
  ASSUME NEW T \in SUBSET Nat, T # {}
  PROVE  \E m \in T : \A k \in T : m <= k
<1> DEFINE Upto == {0 .. n : n \in T}
<1>1. Upto \subseteq FiniteSubsetsOf(Nat) /\ Upto # {}
  <2>1. ASSUME NEW n \in T
        PROVE  IsFiniteSet(0 .. n) /\ 0 .. n \in SUBSET Nat
    BY FS_Interval
  <2>2. \A n \in T : 0 .. n \in FiniteSubsetsOf(Nat)
    BY <2>1, Zenon DEF FiniteSubsetsOf
  <2> QED
    BY <2>2
<1>2. PICK x \in Upto : \A y \in Upto : ~ (<<y, x>> \in StrictSubsetOrdering(Nat))
  BY <1>1, FS_StrictSubsetOrderingWellFounded, WFMin
<1>3. PICK m \in T : x = 0 .. m
  OBVIOUS
<1>4. ASSUME NEW k \in T, k < m
      PROVE FALSE
  <2>1. (0 .. k) \subseteq (0 .. m) /\ m \in 0 .. m /\ m \notin 0 .. k
    BY <1>4
  <2>2. <<0 .. k, 0 .. m>> \in StrictSubsetOrdering(Nat)
    BY <2>1 DEF StrictSubsetOrdering
  <2> QED BY <2>2, <1>2, <1>3
<1> QED
  BY <1>4

-----------------------------------------------------------------------------
(* What process_commands computes *)

LEMMA Sizes ==
  ASSUME NEW c \in Commands
  PROVE  c \in Nat /\ TotalSize(c) \in Nat /\ TotalSize(c) >= header_size /\ header_size \in Nat \ {0}
  BY QemudAssumption DEF TotalSize

LEMMA OfBytes ==
  ASSUME NEW b \in Seq(Bytes), NEW i \in 1 .. Len(b)
  PROVE  /\ b[i][1] \in Commands /\ b[i][2] \in 1 .. TotalSize(b[i][1])
         /\ b[i] = <<b[i][1], b[i][2]>>
<1>1. b[i] \in Bytes
  OBVIOUS
<1>2. PICK c \in Commands : b[i] \in {c} \X (1 .. TotalSize(c))
  BY <1>1 DEF Bytes
<1> QED BY <1>2

\* A command that is complete is as long as its first byte says; the rest is shorter.
LEMMA RestOf ==
  ASSUME NEW b \in Seq(Bytes), Complete(b)
  PROVE  /\ Head(b) = b[1] /\ Len(b) > 0
         /\ b[1][1] \in Commands
         /\ ParsedSize(b) = TotalSize(b[1][1]) /\ ParsedSize(b) \in 1 .. Len(b)
         /\ Erased(b) \in Seq(Bytes)
         /\ Len(Erased(b)) = Len(b) - ParsedSize(b)
         /\ \A i \in 1 .. Len(Erased(b)) : Erased(b)[i] = b[i + ParsedSize(b)]
<1>1. Len(b) >= header_size /\ Len(b) >= ParsedSize(b) /\ header_size \in Nat \ {0}
  BY QemudAssumption DEF Complete
<1>2. Len(b) \in Nat /\ Len(b) > 0 /\ Head(b) = b[1]
  BY <1>1
<1>3. b[1][1] \in Commands
  BY <1>2, OfBytes
<1>4. ParsedSize(b) = TotalSize(b[1][1]) /\ ParsedSize(b) \in 1 .. Len(b)
  BY <1>1, <1>2, <1>3, Sizes DEF ParsedSize
<1>5. /\ Erased(b) \in Seq(Bytes)
      /\ Len(Erased(b)) = Len(b) - ParsedSize(b)
      /\ \A i \in 1 .. Len(Erased(b)) : Erased(b)[i] = b[i + ParsedSize(b)]
  <2> DEFINE k == ParsedSize(b)
  <2>1. k \in 1 .. Len(b)
    BY <1>4
  <2>2. Erased(b) = SubSeq(b, k + 1, Len(b))
    BY DEF Erased
  <2> HIDE DEF k
  <2> QED BY <2>1, <2>2 DEF k
<1> QED BY <1>2, <1>3, <1>4, <1>5

\* The body of process_commands, with f for the rest.
Body(f, b) ==
  IF ~Complete(b)
  THEN [handled |-> <<>>, buffer |-> b]
  ELSE LET c == Head(b)[1]
           rest == Erased(b)
           next == IF GoesOnAfter(b) THEN f[rest] ELSE [handled |-> <<>>, buffer |-> rest]
       IN [handled |-> <<c>> \o next.handled, buffer |-> next.buffer]

Short(n) == {b \in Seq(Bytes) : Len(b) <= n}

Computes(n, g) == g = [b \in Short(n) |-> Body(g, b)]

LEMMA SomeComputes == \A n \in Nat : \E g : Computes(n, g)
<1> DEFINE T == {n \in Nat : ~ \E g : Computes(n, g)}
<1> SUFFICES ASSUME T # {} PROVE FALSE
  OBVIOUS
<1>1. PICK m \in T : \A k \in T : m <= k
  BY LeastNumber
<1>2. ASSUME m = 0 PROVE FALSE
  <2> DEFINE g == [b \in Short(0) |-> [handled |-> <<>>, buffer |-> b]]
  <2>1. \A b \in Short(0) : ~Complete(b)
    BY QemudAssumption DEF Short, Complete
  <2>2. \A b \in Short(0) : Body(g, b) = [handled |-> <<>>, buffer |-> b]
    BY <2>1 DEF Body
  <2>3. Computes(0, g)
    BY <2>2 DEF Computes
  <2> QED BY <1>2, <2>3, <1>1
<1>3. ASSUME m # 0 PROVE FALSE
  <2>1. m - 1 \in Nat /\ m - 1 \notin T
    BY <1>1, <1>3
  <2>2. PICK f : Computes(m - 1, f)
    BY <2>1
  <2> DEFINE g == [b \in Short(m) |-> Body(f, b)]
  <2>3. ASSUME NEW b \in Short(m) PROVE Body(g, b) = Body(f, b)
    <3>1. CASE ~Complete(b)
      BY <3>1 DEF Body
    <3>2. CASE Complete(b)
      <4>1. Erased(b) \in Short(m - 1) /\ Erased(b) \in Short(m)
        BY <3>2, RestOf DEF Short
      <4>2. g[Erased(b)] = f[Erased(b)]
        BY <4>1, <2>2 DEF Computes
      <4> HIDE DEF g
      <4> QED BY <4>2 DEF Body
    <3> QED BY <3>1, <3>2
  <2>4. Computes(m, g)
    BY <2>3, Zenon DEF Computes
  <2> QED BY <2>4, <1>1
<1> QED BY <1>2, <1>3

\* Two functions that compute agree where both are defined.
LEMMA ComputesOnce ==
  ASSUME NEW n \in Nat, NEW m \in Nat, NEW f, NEW g, Computes(n, f), Computes(m, g)
  PROVE  \A b \in Short(n) \cap Short(m) : f[b] = g[b]
<1> DEFINE T == {k \in Nat : \E b \in Short(n) \cap Short(m) : Len(b) = k /\ f[b] # g[b]}
<1> SUFFICES ASSUME T # {} PROVE FALSE
  BY DEF Short
<1>1. PICK k \in T : \A j \in T : k <= j
  BY LeastNumber
<1>2. PICK b \in Short(n) \cap Short(m) : Len(b) = k /\ f[b] # g[b]
  BY <1>1
<1>3. f[b] = Body(f, b) /\ g[b] = Body(g, b)
  BY DEF Computes
<1>4. CASE ~Complete(b)
  BY <1>2, <1>3, <1>4 DEF Body
<1>5. CASE Complete(b)
  <2>1. Erased(b) \in Short(n) \cap Short(m) /\ Len(Erased(b)) \in Nat /\ Len(Erased(b)) < k
    BY <1>5, <1>2, RestOf DEF Short
  <2>2. f[Erased(b)] = g[Erased(b)]
    BY <2>1, <1>1
  <2> QED BY <2>2, <1>2, <1>3 DEF Body
<1> QED BY <1>4, <1>5

\* process_commands is what its definition says.
LEMMA ProcessCommandsIs ==
  ASSUME NEW b \in Seq(Bytes)
  PROVE  process_commands[b] = Body(process_commands, b)
<1> DEFINE S == Seq(Bytes)
           G(n) == CHOOSE g : Computes(n, g)
           f == [a \in S |-> G(Len(a))[a]]
<1>1. \A n \in Nat : Computes(n, G(n))
  BY SomeComputes
<1>2. ASSUME NEW a \in S PROVE f[a] = Body(f, a)
  <2>1. Len(a) \in Nat /\ a \in Short(Len(a))
    BY DEF Short
  <2>2. f[a] = Body(G(Len(a)), a)
    BY <2>1, <1>1 DEF Computes
  <2>3. CASE ~Complete(a)
    BY <2>2, <2>3 DEF Body
  <2>4. CASE Complete(a)
    <3> DEFINE r == Erased(a)
    <3>1. r \in S /\ Len(r) \in Nat /\ r \in Short(Len(a)) \cap Short(Len(r))
      BY <2>4, RestOf DEF Short
    <3>2. f[r] = G(Len(a))[r]
      BY <3>1, <2>1, <1>1, ComputesOnce
    <3> HIDE DEF f
    <3> QED BY <2>2, <3>2 DEF Body
  <2> QED BY <2>3, <2>4
<1>3. f = [a \in S |-> Body(f, a)]
  BY <1>2, Zenon
<1> DEFINE P == process_commands
<1> HIDE DEF f
<1>4. P = [a \in S |-> Body(P, a)]
  BY <1>3 DEF process_commands, Body
<1> QED BY <1>4

\* The byte behind a byte of a stream of whole commands, one after another.
After(byte) ==
  IF byte[2] < TotalSize(byte[1]) THEN <<byte[1], byte[2] + 1>> ELSE <<byte[1] + 1, 1>>

Follows(s) == \A i \in 1 .. Len(s) - 1 : s[i + 1] = After(s[i])

\* The stream goes on with the command after the m first ones.
StartsAfter(s, m) == s # <<>> => s[1] = <<m + 1, 1>>

LEMMA FirstCommand ==
  ASSUME NEW b \in Seq(Bytes), NEW m \in Nat, Follows(b), StartsAfter(b, m), b # <<>>
  PROVE  \A i \in 1 .. Len(b) : i <= TotalSize(m + 1) => b[i] = <<m + 1, i>>
<1> DEFINE T == {i \in Nat : i \in 1 .. Len(b) /\ i <= TotalSize(m + 1) /\ b[i] # <<m + 1, i>>}
<1> SUFFICES ASSUME T # {} PROVE FALSE
  OBVIOUS
<1>1. PICK k \in T : \A j \in T : k <= j
  BY LeastNumber
<1>2. k # 1
  BY DEF StartsAfter
<1>3. m + 1 \in Commands /\ TotalSize(m + 1) \in Nat
  <2>1. b[1] = <<m + 1, 1>> /\ 1 \in 1 .. Len(b)
    BY DEF StartsAfter
  <2> HIDE DEF T
  <2>2. b[1][1] \in Commands
    BY <2>1, OfBytes
  <2>3. m + 1 \in Commands
    BY <2>1, <2>2
  <2> QED BY <2>3, Sizes
<1>4. k - 1 \in Nat /\ k - 1 \in 1 .. Len(b) - 1 /\ k - 1 < TotalSize(m + 1)
  <2>1. k \in 1 .. Len(b) /\ k <= TotalSize(m + 1) /\ Len(b) \in Nat
    BY <1>1
  <2> HIDE DEF T
  <2> QED BY <1>2, <1>3, <2>1
<1>5. b[k - 1] = <<m + 1, k - 1>>
  <2>1. k - 1 \notin T
    BY <1>1, <1>4
  <2>2. k - 1 \in 1 .. Len(b) /\ k - 1 <= TotalSize(m + 1)
    BY <1>3, <1>4
  <2> QED BY <2>1, <2>2, <1>4
<1>6. b[k] = After(b[k - 1])
  BY <1>4 DEF Follows
<1> QED BY <1>4, <1>5, <1>6 DEF After

\* What process_commands leaves is the end of what it got, and what it handled are the
\* commands before that, each once and in order.
HandlesFrom(b, m, result) ==
  /\ result.handled \in Seq(Commands)
  /\ \A i \in 1 .. Len(result.handled) : result.handled[i] = m + i
  /\ result.buffer \in Seq(Bytes)
  /\ Len(result.buffer) <= Len(b)
  /\ \A i \in 1 .. Len(result.buffer) : result.buffer[i] = b[i + (Len(b) - Len(result.buffer))]
  /\ StartsAfter(result.buffer, m + Len(result.handled))
  /\ b # <<>> /\ result.buffer = <<>> =>
       LET c == m + Len(result.handled) IN b[Len(b)] = <<c, TotalSize(c)>>

LEMMA NothingHandled == process_commands[<<>>] = [handled |-> <<>>, buffer |-> <<>>]
<1>1. ~Complete(<<>>) /\ <<>> \in Seq(Bytes)
  BY QemudAssumption DEF Complete
<1> QED BY <1>1, ProcessCommandsIs DEF Body

\* One command before those that are handled from the rest.
LEMMA OneMore ==
  ASSUME NEW b \in Seq(Bytes), NEW m \in Nat, NEW c, c = m + 1, c \in Commands,
         NEW k \in 1 .. Len(b), NEW rest \in Seq(Bytes), NEW next,
         Len(rest) = Len(b) - k, \A i \in 1 .. Len(rest) : rest[i] = b[i + k],
         rest = <<>> => b[Len(b)] = <<c, TotalSize(c)>>,
         rest = <<>> => next.handled = <<>>,
         HandlesFrom(rest, c, next)
  PROVE  HandlesFrom(b, m, [handled |-> <<c>> \o next.handled, buffer |-> next.buffer])
<1> DEFINE more == <<c>> \o next.handled
           left == next.buffer
<1>1. next.handled \in Seq(Commands) /\ \A i \in 1 .. Len(next.handled) : next.handled[i] = c + i
  BY DEF HandlesFrom
<1>2. <<c>> \in Seq(Commands) /\ Len(<<c>>) = 1 /\ <<c>>[1] = c
  OBVIOUS
<1>3. /\ more \in Seq(Commands)
      /\ Len(more) = 1 + Len(next.handled)
  BY <1>1, <1>2
<1>4. ASSUME NEW i \in 1 .. Len(more) PROVE more[i] = m + i
  <2>1. CASE i = 1
    BY <2>1, <1>1, <1>2
  <2>2. CASE i # 1
    <3>1. i - 1 \in 1 .. Len(next.handled) /\ more[i] = next.handled[i - 1]
      BY <2>2, <1>1, <1>2, <1>3
    <3> QED BY <3>1, <1>1
  <2> QED BY <2>1, <2>2
<1>5. /\ left \in Seq(Bytes) /\ Len(left) <= Len(rest)
      /\ \A i \in 1 .. Len(left) : left[i] = rest[i + (Len(rest) - Len(left))]
      /\ StartsAfter(left, c + Len(next.handled))
      /\ rest # <<>> /\ left = <<>> =>
           rest[Len(rest)] = <<c + Len(next.handled), TotalSize(c + Len(next.handled))>>
  BY DEF HandlesFrom
<1>6. Len(next.handled) \in Nat /\ c + Len(next.handled) = m + Len(more)
  <2> DEFINE n == Len(next.handled)
  <2>1. n \in Nat
    BY <1>1
  <2>2. Len(more) = 1 + n
    BY <1>3
  <2> HIDE DEF n, more
  <2>3. c + n = m + Len(more)
    BY <2>1, <2>2
  <2> QED BY <2>1, <2>3 DEF n
<1>7. /\ Len(left) <= Len(b)
      /\ \A i \in 1 .. Len(left) : left[i] = b[i + (Len(b) - Len(left))]
  <2>1. Len(left) \in Nat /\ Len(rest) \in Nat /\ Len(b) \in Nat
    BY <1>5
  <2>2. ASSUME NEW i \in 1 .. Len(left)
        PROVE  /\ i + (Len(rest) - Len(left)) \in 1 .. Len(rest)
               /\ (i + (Len(rest) - Len(left))) + k = i + (Len(b) - Len(left))
    BY <2>1, <1>5
  <2>3. ASSUME NEW i \in 1 .. Len(left) PROVE left[i] = b[i + (Len(b) - Len(left))]
    BY <2>2, <2>3, <1>5
  <2> HIDE DEF left, more
  <2> QED BY <1>5, <2>1, <2>3
<1>8. left = <<>> => b[Len(b)] = <<m + Len(more), TotalSize(m + Len(more))>>
  <2> SUFFICES ASSUME left = <<>>
               PROVE  b[Len(b)] = <<m + Len(more), TotalSize(m + Len(more))>>
    OBVIOUS
  <2>1. CASE rest = <<>>
    <3>1. m + Len(more) = c
      BY <2>1, <1>6
    <3> QED BY <2>1, <3>1
  <2>2. CASE rest # <<>>
    <3>1. rest[Len(rest)] = b[Len(b)]
      BY <2>2
    <3> QED BY <2>2, <3>1, <1>5, <1>6
  <2> QED BY <2>1, <2>2
<1>9. StartsAfter(left, m + Len(more))
  BY <1>5, <1>6
<1> DEFINE result == [handled |-> more, buffer |-> left]
<1> HIDE DEF more, left
<1>10. result.handled = more /\ result.buffer = left
  OBVIOUS
<1> HIDE DEF result
<1>11. HandlesFrom(b, m, result)
  BY <1>3, <1>4, <1>5, <1>7, <1>8, <1>9, <1>10 DEF HandlesFrom
<1> QED BY <1>11 DEF result, more, left

LEMMA HandlesInOrder ==
  \A b \in Seq(Bytes), m \in Nat :
    Follows(b) /\ StartsAfter(b, m) => HandlesFrom(b, m, process_commands[b])
<1> DEFINE T == {n \in Nat : \E b \in Seq(Bytes), m \in Nat :
                   /\ Len(b) = n
                   /\ Follows(b) /\ StartsAfter(b, m)
                   /\ ~HandlesFrom(b, m, process_commands[b])}
<1> SUFFICES ASSUME T # {} PROVE FALSE
  OBVIOUS
<1>1. PICK n \in T : \A j \in T : n <= j
  BY LeastNumber
<1>2. PICK b \in Seq(Bytes), m \in Nat :
         /\ Len(b) = n
         /\ Follows(b) /\ StartsAfter(b, m)
         /\ ~HandlesFrom(b, m, process_commands[b])
  BY <1>1
<1> DEFINE result == process_commands[b]
<1>3. result = Body(process_commands, b)
  BY ProcessCommandsIs
<1>4. CASE ~Complete(b)
  <2>1. result = [handled |-> <<>>, buffer |-> b]
    BY <1>3, <1>4 DEF Body
  <2>2. <<>> \in Seq(Commands)
    OBVIOUS
  <2>3. HandlesFrom(b, m, [handled |-> <<>>, buffer |-> b])
    BY <2>2, <1>2 DEF HandlesFrom
  <2> QED BY <1>2, <2>1, <2>3
<1>5. CASE Complete(b)
  <2> DEFINE c == m + 1
             k == TotalSize(c)
             rest == Erased(b)
             next == IF GoesOnAfter(b) THEN process_commands[rest]
                     ELSE [handled |-> <<>>, buffer |-> rest]
  <2>1. /\ Len(b) \in Nat /\ Len(b) > 0 /\ b # <<>> /\ Head(b) = b[1] /\ b[1] = <<c, 1>>
        /\ c \in Commands /\ k \in 1 .. Len(b)
    BY <1>2, <1>5, RestOf DEF StartsAfter
  <2>2. /\ rest \in Seq(Bytes) /\ Len(rest) = Len(b) - k /\ Len(rest) < Len(b)
        /\ \A i \in 1 .. Len(rest) : rest[i] = b[i + k]
    BY <1>5, <2>1, RestOf
  <2>3. b[k] = <<c, k>>
    BY <2>1, <1>2, FirstCommand
  <2>4. Follows(rest)
    <3>1. Len(rest) \in Nat /\ \A i \in 1 .. Len(rest) - 1 : i \in 1 .. Len(rest) /\ i + 1 \in 1 .. Len(rest)
      BY <2>1, <2>2
    <3> HIDE DEF rest, k, result, next, c, T
    <3>2. ASSUME NEW i \in 1 .. Len(rest) - 1
          PROVE  i + k \in 1 .. Len(b) - 1 /\ (i + 1) + k = (i + k) + 1
      <4>1. Len(b) \in Nat /\ k \in 1 .. Len(b) /\ Len(rest) = Len(b) - k
        BY <2>1, <2>2
      <4> QED BY <4>1
    <3>3. \A i \in 1 .. Len(rest) - 1 : rest[i + 1] = After(rest[i])
      BY <2>2, <3>1, <3>2, <1>2 DEF Follows
    <3> QED BY <3>3 DEF Follows
  <2>5. StartsAfter(rest, c)
    <3> SUFFICES ASSUME rest # <<>> PROVE rest[1] = <<c + 1, 1>>
      BY DEF StartsAfter
    <3>1. Len(rest) > 0 /\ rest[1] = b[k + 1]
      BY <2>1, <2>2
    <3>2. b[k + 1] = After(b[k])
      BY <3>1, <2>1, <2>2, <1>2 DEF Follows
    <3> HIDE DEF rest
    <3> QED BY <3>1, <3>2, <2>3, <2>1 DEF After
  <2>6. rest = <<>> => b[Len(b)] = <<c, TotalSize(c)>>
    BY <2>1, <2>2, <2>3
  <2>7. HandlesFrom(rest, c, next)
    <3>1. CASE GoesOnAfter(b)
      <4>1. Len(rest) \in Nat /\ Len(rest) \notin T
        BY <2>1, <2>2, <1>1, <1>2
      <4> QED BY <3>1, <4>1, <2>1, <2>2, <2>4, <2>5
    <3>2. CASE ~GoesOnAfter(b)
      <4>1. next = [handled |-> <<>>, buffer |-> rest]
        BY <3>2
      <4>2. <<>> \in Seq(Commands)
        OBVIOUS
      <4>3. c \in Nat
        OBVIOUS
      <4> HIDE DEF rest, c, next
      <4>4. HandlesFrom(rest, c, [handled |-> <<>>, buffer |-> rest])
        BY <4>2, <4>3, <2>2, <2>4, <2>5 DEF HandlesFrom
      <4> QED BY <4>1, <4>4
    <3> QED BY <3>1, <3>2
  <2>8. result = [handled |-> <<c>> \o next.handled, buffer |-> next.buffer]
    <3>1. Head(b)[1] = c
      BY <2>1
    <3> QED BY <1>3, <1>5, <3>1 DEF Body
  <2> HIDE DEF next, rest, c, k
  <2>9. c = m + 1
    BY DEF c
  <2>10. HandlesFrom(b, m, [handled |-> <<c>> \o next.handled, buffer |-> next.buffer])
    <3>1. rest = <<>> => next.handled = <<>>
      BY NothingHandled DEF next
    <3> QED BY <2>1, <2>2, <2>6, <2>7, <2>9, <3>1, OneMore
  <2> QED BY <1>2, <2>8, <2>10
<1> QED BY <1>4, <1>5

-----------------------------------------------------------------------------
(* Types *)

Token ==
  Bytes \cup ({"accept", "start", "ok", "data"} \X (Hosts \cup {NoHost}) \X Nat)

Tasks ==
  [at : Labels, pipe : Pipes \cup {NoPipe}, data : Seq(Token), host : Hosts \cup {NoHost}]

Guests ==
  [status : {"none", "open", "left", "closed"}, service : Services \cup {Unnamed},
   written : Nat, unread : Seq(Token), got : Seq(Token)]

Processors ==
  [state : States, expected_command : Seq(Token), buffer : Seq(Token),
   connector : {"none", "listening", "busy"}, messenger : Hosts \cup {NoHost}]

HostEnds ==
  [status : {"none", "open", "left", "closed"}, written : Nat, unread : Seq(Token),
   got : Seq(Token)]

HostLabels == {"host_connection", "host_state", "host_expected"}

Shapes ==
  /\ accepting \in BOOLEAN
  /\ conns \subseteq Pipes /\ reading \subseteq Pipes
  /\ task \in [Workers -> Tasks]
  /\ pipe \in [Pipes -> Guests]
  /\ adb \in [Pipes -> Processors]
  /\ commands \in [Pipes -> Seq(Commands)]
  /\ owner \in Pipes \cup {NoPipe}
  /\ host \in [Hosts -> HostEnds]
  /\ host_reads \subseteq Pipes \X Hosts

\* A task of the processors a.
TaskTyped(t, a) ==
  /\ t.at = "idle" => t = Idle
  /\ t.at # "idle" => t.pipe \in Pipes
  /\ t.at = "host_connection" => t.host \in Hosts
  /\ t.at \in {"host_state", "host_expected"} => a[t.pipe].messenger \in Hosts
  /\ t.at = "process" => t.data # <<>>

HasMessenger(a) ==
  a.state \in {"waiting_for_guest_start_command", "proxying_data"} => a.messenger \in Hosts

Typed ==
  /\ Shapes
  /\ \A w \in Workers : TaskTyped(task[w], adb)
  /\ \A p \in Pipes : HasMessenger(adb[p])

-----------------------------------------------------------------------------
(* What is being processed *)

Processing(t, w, p) == t[w].at = "process" /\ t[w].pipe = p

PendingIn(t, p) ==
  IF \E w \in Workers : Processing(t, w, p)
  THEN t[CHOOSE w \in Workers : Processing(t, w, p)].data
  ELSE <<>>

Pending(p) == PendingIn(task, p)

-----------------------------------------------------------------------------
(* Commands *)

\* The stream holds the commands after the m first ones, up to the n-th.
UpTo(s, m, n) ==
  /\ Follows(s) /\ StartsAfter(s, m)
  /\ IF s = <<>> THEN m = n ELSE s[Len(s)] = <<n, TotalSize(n)>>
  /\ \A i \in 1 .. Len(s) : s[i][1] <= n

Advancing(p) == \E w \in Workers : At(w, "advance") /\ task[w].pipe = p
ForHost(p) == \E w \in Workers : task[w].at \in HostLabels /\ task[w].pipe = p

Quiet(p) == adb[p].connector = "none" /\ adb[p].messenger = NoHost /\ ~ForHost(p)

\* What is true of a connection by its service: only the processor of adb has to do with
\* hosts, and nothing is sent before the service is known.
ServicePart(p) ==
  /\ p \in conns => Named(p)
  /\ \A w \in Workers : At(w, "add") /\ task[w].pipe = p => Named(p)
  /\ pipe[p].service = "none" =>
       /\ pipe[p].written = 0 /\ pipe[p].unread = <<>>
       /\ adb[p].buffer = <<>> /\ commands[p] = <<>>
       /\ adb[p].expected_command = accept_command
  /\ pipe[p].service # "adb" =>
       /\ Quiet(p) /\ ~Advancing(p)
       /\ pipe[p].got = <<>>
       /\ \A h \in Hosts : <<p, h>> \notin host_reads
       /\ adb[p].state \notin {"waiting_for_guest_start_command", "proxying_data"}

QemudPart(p) ==
  /\ pipe[p].service = "adb" => commands[p] = <<>>
  /\ pipe[p].service = "qemud" =>
       /\ adb[p].buffer \in Seq(Bytes)
       /\ pipe[p].unread \in Seq(Bytes)
       /\ Pending(p) \in Seq(Bytes)
       /\ UpTo(adb[p].buffer \o (Pending(p) \o pipe[p].unread), Len(commands[p]), pipe[p].written)
       /\ \A i \in 1 .. Len(commands[p]) : commands[p][i] = i

ServiceInv == \A p \in Pipes : ServicePart(p)
QemudInv == \A p \in Pipes : QemudPart(p)

-----------------------------------------------------------------------------
(* Sessions *)

\* The tokens the guest of an adb session sends, and how many its first n writes are.
AdbToken(j) ==
  IF j <= 2 THEN <<"accept", 0, j>> ELSE IF j <= 4 THEN <<"start", 0, j - 2>> ELSE Data(0, j - 4)

Sent(n) == IF n <= 2 THEN 2 * n ELSE n + 2

\* How many of them have been read, processed, and taken out of the buffer.
ReadOf(p) == Sent(pipe[p].written) - Len(pipe[p].unread)
Handled(p) == ReadOf(p) - Len(Pending(p))
First(p) == Handled(p) - Len(adb[p].buffer)

Unstarted(p) == First(p) < 4 \/ Advancing(p)

IsRun(s, n) == \A i \in 1 .. Len(s) : s[i] = AdbToken(n + i)

Aligned(p) ==
  /\ First(p) \in {0, 2} \/ (First(p) >= 4)
  /\ IsRun(adb[p].buffer, First(p))
  /\ IsRun(Pending(p), Handled(p))
  /\ IsRun(pipe[p].unread, ReadOf(p))
  /\ adb[p].expected_command \in {accept_command, <<>>, start_command}

\* Before its first command is handled nothing listens for the session
BeforeAccept(p) ==
  adb[p].expected_command = accept_command \/ (Advancing(p) /\ First(p) < 4) =>
    /\ Quiet(p)
    /\ adb[p].state \notin {"waiting_for_guest_start_command", "proxying_data"}
    /\ adb[p].expected_command = accept_command => First(p) = 0 /\ ~Advancing(p)

Read(h) == host[h].written - Len(host[h].unread)

Fresh(h) == Read(h) = 0 /\ host[h].got = <<>>

BeforeStart(p) ==
  Unstarted(p) =>
    /\ pipe[p].written <= 2
    /\ ~Has(pipe[p].got, "data")
    /\ adb[p].state # "proxying_data"
    /\ \A h \in Hosts : /\ <<p, h>> \notin host_reads
                        /\ adb[p].messenger = h => Fresh(h)

Live(p) == p \in reading \/ \E w \in Workers : Busy(w) /\ task[w].pipe = p

Proxies(p) ==
  adb[p].state = "proxying_data" =>
    /\ adb[p].buffer = <<>>
    /\ Live(p) => LET got == host[adb[p].messenger].got IN
         got = <<>> \/ got[Len(got)] = AdbToken(Handled(p))

\* A connection that is still being created waits for its first command.
Begun(p) ==
  /\ pipe[p].status # "none"
  /\ \A w \in Workers : task[w].at \in {"identify", "add"} => task[w].pipe # p

SessionPart(p) ==
  pipe[p].service = "adb" =>
    /\ Aligned(p) /\ BeforeAccept(p) /\ BeforeStart(p) /\ Proxies(p)
    /\ ~Begun(p) => adb[p].expected_command = accept_command

SessionInv == \A p \in Pipes : SessionPart(p)

HostSends(h) ==
  /\ Len(host[h].unread) <= host[h].written
  /\ \A i \in 1 .. Len(host[h].unread) : host[h].unread[i] = Data(h, Read(h) + i)
  /\ host[h].status = "none" => Fresh(h)

\* A host is the messenger of one pipe, and only that pipe reads it.
Messenger(p, h) ==
  /\ adb[p].messenger = h =>
       /\ host[h].status # "none"
       /\ \A q \in Pipes : adb[q].messenger = h => p = q
  /\ <<p, h>> \in host_reads => adb[p].messenger = h

\* A host that has just connected has said nothing, and is nobody's messenger yet.
Arriving(w) ==
  At(w, "host_connection") =>
    /\ host[task[w].host].status # "none"
    /\ Fresh(task[w].host)
    /\ \A p \in Pipes : adb[p].messenger # task[w].host
    /\ \A v \in Workers : At(v, "host_connection") /\ task[v].host = task[w].host => v = w

HostInv ==
  /\ \A h \in Hosts : HostSends(h)
  /\ \A p \in Pipes, h \in Hosts : Messenger(p, h)
  /\ \A w \in Workers : Arriving(w)

\* The tokens of a host the guest has got are the ones read from the host.
GotRead(p, h) ==
  LET n == GotFrom(p, h, Len(pipe[p].got)) IN
  /\ n <= Read(h)
  /\ <<p, h>> \in host_reads /\ pipe[p].status = "open" => n = Read(h)

GotOf(p) ==
  \A i \in 1 .. Len(pipe[p].got) :
    LET token == pipe[p].got[i] IN
    token[2] \in Hosts =>
      /\ token = Data(token[2], GotFrom(p, token[2], i))
      /\ pipe[p].written > 1

GotInv ==
  /\ \A p \in Pipes : GotOf(p)
  /\ \A p \in Pipes, h \in Hosts : GotRead(p, h)

-----------------------------------------------------------------------------
(* What the steps do *)

LEMMA TokensOk ==
  /\ Ok \in Token /\ accept_command \in Seq(Token) /\ start_command \in Seq(Token)
  /\ \A h \in Hosts \cup {NoHost}, n \in Nat : Data(h, n) \in Token
  /\ \A c \in Commands : BytesOf(c) \in Seq(Bytes) /\ BytesOf(c) \in Seq(Token)
  /\ Seq(Bytes) \subseteq Seq(Token)
<1>1. Ok \in Token /\ \A h \in Hosts \cup {NoHost}, n \in Nat : Data(h, n) \in Token
  BY DEF Ok, Data, Token, NoHost
<1>2. \A word \in {"accept", "start"} : Command(word) \in Seq(Token)
  <2>1. \A word \in {"accept", "start"} : <<word, 0, 1>> \in Token /\ <<word, 0, 2>> \in Token
    BY DEF Token, NoHost
  <2> QED BY <2>1 DEF Command
<1>3. ASSUME NEW c \in Commands PROVE BytesOf(c) \in Seq(Bytes)
  <2>1. TotalSize(c) \in Nat
    BY Sizes
  <2>2. \A i \in 1 .. TotalSize(c) : <<c, i>> \in Bytes
    BY DEF Bytes
  <2> QED BY <2>1, <2>2 DEF BytesOf
<1>4. Bytes \subseteq Token
  BY DEF Token
<1>5. Seq(Bytes) \subseteq Seq(Token)
  <2>1. \A s \in Seq(Bytes) : s \in Seq(Token)
    BY <1>4
  <2> QED BY <2>1
<1> QED BY <1>1, <1>2, <1>3, <1>5 DEF accept_command, start_command

LEMMA GoesDoes ==
  ASSUME Typed, NEW w \in Workers, NEW l \in Labels, Goes(w, l)
  PROVE  /\ task' \in [Workers -> Tasks]
         /\ task'[w] = [task[w] EXCEPT !.at = l]
         /\ task'[w].at = l /\ task'[w].pipe = task[w].pipe
         /\ task'[w].data = task[w].data /\ task'[w].host = task[w].host
         /\ \A v \in Workers \ {w} : task'[v] = task[v]
  BY DEF Typed, Shapes, Goes, Tasks

LEMMA EndsDoes ==
  ASSUME Typed, NEW w \in Workers, Ends(w)
  PROVE  /\ task' \in [Workers -> Tasks]
         /\ task'[w] = Idle
         /\ \A v \in Workers \ {w} : task'[v] = task[v]
<1>1. Idle \in Tasks
  BY DEF Idle, Tasks, Labels
<1> QED BY <1>1 DEF Typed, Shapes, Ends

LEMMA BeginsDoes ==
  ASSUME Typed, NEW w \in Workers, NEW l \in Labels, NEW p \in Pipes, NEW d \in Seq(Token),
         NEW h \in Hosts \cup {NoHost}, Begins(w, l, p, d, h)
  PROVE  /\ task' \in [Workers -> Tasks]
         /\ task[w] = Idle
         /\ task'[w] = [at |-> l, pipe |-> p, data |-> d, host |-> h]
         /\ \A v \in Workers \ {w} : task'[v] = task[v]
<1>1. [at |-> l, pipe |-> p, data |-> d, host |-> h] \in Tasks
  BY DEF Tasks
<1> QED BY <1>1 DEF Typed, Shapes, TaskTyped, Begins, At

\* The fields of a pipe p are as they were, and no worker begins or goes on with it.
SamePipe(p) ==
  /\ pipe'[p] = pipe[p] /\ adb'[p] = adb[p] /\ commands'[p] = commands[p]
  /\ p \in conns' <=> p \in conns
  /\ p \in reading' <=> p \in reading
  /\ \A h \in Hosts : <<p, h>> \in host_reads' <=> <<p, h>> \in host_reads
  /\ \A w \in Workers :
       task'[w] = task[w] \/ (task[w].pipe # p /\ task'[w].pipe # p)

Only(p) == \A q \in Pipes \ {p} : SamePipe(q)

\* A step that changes the task of one worker, and loses no messenger.
LEMMA TypedFrom ==
  ASSUME Typed, Shapes', NEW w \in Workers,
         TaskTyped(task'[w], adb'),
         \A v \in Workers \ {w} : task'[v] = task[v],
         \A p \in Pipes : adb[p].messenger \in Hosts => adb'[p].messenger \in Hosts,
         \A p \in Pipes : HasMessenger(adb'[p])
  PROVE  Typed'
<1>1. ASSUME NEW v \in Workers PROVE TaskTyped(task'[v], adb')
  <2>1. CASE v = w
    BY <2>1
  <2>2. CASE v # w
    <3>1. task'[v] = task[v] /\ TaskTyped(task[v], adb)
      BY <2>2 DEF Typed
    <3> QED BY <3>1 DEF TaskTyped
  <2> QED BY <2>1, <2>2
<1> QED BY <1>1 DEF Typed

\* The same when the processors stay as they are.
LEMMA TypedTask ==
  ASSUME Typed, Shapes', NEW w \in Workers, adb' = adb,
         TaskTyped(task'[w], adb), \A v \in Workers \ {w} : task'[v] = task[v]
  PROVE  Typed'
<1>1. \A p \in Pipes : HasMessenger(adb'[p])
  BY DEF Typed
<1> QED BY <1>1, TypedFrom

\* The same when the processor of one pipe changes.
LEMMA TypedProcessor ==
  ASSUME Typed, Shapes', NEW w \in Workers, NEW p \in Pipes,
         \A v \in Workers \ {w} : task'[v] = task[v],
         \A q \in Pipes \ {p} : adb'[q] = adb[q],
         adb'[p].messenger = adb[p].messenger \/ adb'[p].messenger \in Hosts,
         HasMessenger(adb'[p]), TaskTyped(task'[w], adb')
  PROVE  Typed'
<1>1. \A q \in Pipes : adb[q].messenger \in Hosts => adb'[q].messenger \in Hosts
  OBVIOUS
<1>2. ASSUME NEW q \in Pipes PROVE HasMessenger(adb'[q])
  <2>1. CASE q = p
    BY <2>1
  <2>2. CASE q # p
    <3>1. adb'[q] = adb[q] /\ HasMessenger(adb[q])
      BY <2>2 DEF Typed
    <3> QED BY <3>1
  <2> QED BY <2>1, <2>2
<1> QED BY <1>1, <1>2, TypedFrom

LEMMA IdentifyClientDoes ==
  ASSUME Typed, NEW w \in Workers, IdentifyClient(w)
  PROVE  /\ Typed'
         /\ task[w].pipe \in Pipes /\ At(w, "identify") /\ Named(task[w].pipe)
         /\ task'[w] = [task[w] EXCEPT !.at = "add"]
         /\ \A v \in Workers \ {w} : task'[v] = task[v]
         /\ UNCHANGED <<server, session, ends, host_reads>>
<1>1. /\ At(w, "identify") /\ Named(task[w].pipe) /\ Goes(w, "add")
      /\ UNCHANGED <<server, session, ends, host_reads>>
  BY DEF IdentifyClient
<1>2. /\ task' \in [Workers -> Tasks]
      /\ task'[w] = [task[w] EXCEPT !.at = "add"]
      /\ task'[w].at = "add" /\ task'[w].pipe = task[w].pipe
      /\ \A v \in Workers \ {w} : task'[v] = task[v]
  BY <1>1, GoesDoes DEF Labels
<1>3. Typed'
  <2>1. Shapes'
    BY <1>1, <1>2 DEF Typed, Shapes, server, session, ends
  <2>2. TaskTyped(task'[w], adb) /\ adb' = adb
    BY <1>1, <1>2 DEF Typed, TaskTyped, At, Idle, session
  <2> QED BY <1>1, <1>2, <2>1, <2>2, TypedTask
<1> QED BY <1>1, <1>2, <1>3 DEF At, Typed, TaskTyped

LEMMA AddConnectionDoes ==
  ASSUME Typed, NEW w \in Workers, AddConnection(w)
  PROVE  /\ Typed'
         /\ task[w].pipe \in Pipes /\ At(w, "add")
         /\ conns' = conns \cup {task[w].pipe}
         /\ task'[w] = [task[w] EXCEPT !.at = "first_read"]
         /\ \A v \in Workers \ {w} : task'[v] = task[v]
         /\ UNCHANGED <<accepting, reading, session, ends, host_reads>>
<1>1. /\ At(w, "add") /\ Goes(w, "first_read")
      /\ UNCHANGED <<accepting, reading, session, ends, host_reads>>
      /\ conns' = conns \cup {task[w].pipe}
  BY DEF AddConnection, Added
<1>2. /\ task' \in [Workers -> Tasks]
      /\ task'[w] = [task[w] EXCEPT !.at = "first_read"]
      /\ task'[w].at = "first_read" /\ task'[w].pipe = task[w].pipe
      /\ \A v \in Workers \ {w} : task'[v] = task[v]
  BY <1>1, GoesDoes DEF Labels
<1>3. task[w].pipe \in Pipes
  BY <1>1 DEF At, Typed, TaskTyped
<1>4. Typed'
  <2>1. Shapes'
    BY <1>1, <1>2, <1>3 DEF Typed, Shapes, server, session, ends
  <2>2. TaskTyped(task'[w], adb) /\ adb' = adb
    BY <1>1, <1>2, <1>3 DEF Typed, TaskTyped, At, Idle, session
  <2> QED BY <1>1, <1>2, <1>3, <2>1, <2>2, TypedTask
<1> QED BY <1>1, <1>2, <1>3, <1>4

LEMMA ReadNextMessageDoes ==
  ASSUME Typed, NEW w \in Workers, ReadNextMessage(w)
  PROVE  /\ Typed'
         /\ task[w].pipe \in Pipes /\ (At(w, "read_next") \/ At(w, "first_read"))
         /\ reading' = reading \cup {task[w].pipe}
         /\ task'[w] = Idle
         /\ \A v \in Workers \ {w} : task'[v] = task[v]
         /\ UNCHANGED <<conns, session, ends, host_reads>>
<1>1. /\ At(w, "read_next") \/ At(w, "first_read")
      /\ Ends(w)
      /\ reading' = reading \cup {task[w].pipe}
      /\ accepting' = (accepting \/ At(w, "first_read"))
      /\ UNCHANGED <<conns, session, ends, host_reads>>
  BY DEF ReadNextMessage
<1>2. /\ task' \in [Workers -> Tasks]
      /\ task'[w] = Idle
      /\ \A v \in Workers \ {w} : task'[v] = task[v]
  BY <1>1, EndsDoes
<1>3. task[w].pipe \in Pipes
  BY <1>1 DEF At, Typed, TaskTyped
<1>4. accepting' \in BOOLEAN
  BY <1>1, Zenon
<1>5. Typed'
  <2>1. Shapes'
    BY <1>1, <1>2, <1>3, <1>4 DEF Typed, Shapes, server, session, ends
  <2>2. TaskTyped(task'[w], adb) /\ adb' = adb
    BY <1>1, <1>2, <1>3, <1>4 DEF Typed, TaskTyped, At, Idle, session
  <2> QED BY <1>1, <1>2, <1>3, <1>4, <2>1, <2>2, TypedTask
<1> QED BY <1>1, <1>2, <1>3, <1>5

LEMMA CutIn ==
  ASSUME NEW S, NEW s \in Seq(S), NEW k \in 1 .. Len(s)
  PROVE  /\ SubSeq(s, 1, k) \in Seq(S) /\ Len(SubSeq(s, 1, k)) = k
         /\ SubSeq(s, k + 1, Len(s)) \in Seq(S) /\ Len(SubSeq(s, k + 1, Len(s))) = Len(s) - k
         /\ \A i \in 1 .. k : SubSeq(s, 1, k)[i] = s[i]
         /\ \A i \in 1 .. Len(s) - k : SubSeq(s, k + 1, Len(s))[i] = s[i + k]
  OBVIOUS

LEMMA ReadSomeDoes ==
  ASSUME Typed, NEW w \in Workers, NEW p \in Pipes, ReadSome(w, p)
  PROVE  /\ Typed'
         /\ p \in reading /\ task[w] = Idle
         /\ reading' = reading \ {p}
         /\ \E k \in 1 .. Len(pipe[p].unread) :
              /\ task'[w] = [at |-> "process", pipe |-> p, data |-> SubSeq(pipe[p].unread, 1, k),
                             host |-> NoHost]
              /\ pipe' = [pipe EXCEPT ![p].unread = SubSeq(@, k + 1, Len(@))]
         /\ \A v \in Workers \ {w} : task'[v] = task[v]
         /\ UNCHANGED <<conns, session, host, host_reads>>
<1>1. /\ p \in reading /\ reading' = reading \ {p}
      /\ UNCHANGED <<accepting, conns, session, host, host_reads>>
  BY DEF ReadSome
<1>2. PICK k \in 1 .. Len(pipe[p].unread) :
        /\ Begins(w, "process", p, SubSeq(pipe[p].unread, 1, k), NoHost)
        /\ pipe' = [pipe EXCEPT ![p].unread = SubSeq(@, k + 1, Len(@))]
  BY DEF ReadSome
<1>3. pipe[p] \in Guests /\ pipe[p].unread \in Seq(Token)
  BY DEF Typed, Shapes, Guests
<1> DEFINE data == SubSeq(pipe[p].unread, 1, k)
           left == SubSeq(pipe[p].unread, k + 1, Len(pipe[p].unread))
<1>4. data \in Seq(Token) /\ left \in Seq(Token) /\ data # <<>>
  <2>1. data \in Seq(Token) /\ left \in Seq(Token) /\ Len(data) = k
    BY <1>3, CutIn
  <2>2. k > 0
    BY <1>3
  <2> HIDE DEF data, left
  <2> QED BY <2>1, <2>2
<1> HIDE DEF data, left
<1>5. /\ task' \in [Workers -> Tasks]
      /\ task[w] = Idle
      /\ task'[w] = [at |-> "process", pipe |-> p, data |-> data, host |-> NoHost]
      /\ \A v \in Workers \ {w} : task'[v] = task[v]
  BY <1>2, <1>4, BeginsDoes DEF Labels, data
<1>6. pipe' = [pipe EXCEPT ![p].unread = left]
  BY <1>2 DEF left
<1>7. pipe' \in [Pipes -> Guests]
  BY <1>3, <1>4, <1>6 DEF Typed, Shapes, Guests
<1>8. Typed'
  <2>1. Shapes'
    BY <1>1, <1>4, <1>5, <1>7 DEF Typed, Shapes, server, session, ends
  <2>2. TaskTyped(task'[w], adb) /\ adb' = adb
    BY <1>1, <1>4, <1>5, <1>7 DEF Typed, TaskTyped, At, Idle, session
  <2> QED BY <1>1, <1>4, <1>5, <1>7, <2>1, <2>2, TypedTask
<1> QED BY <1>1, <1>2, <1>5, <1>8 DEF data

LEMMA ReadErrorDoes ==
  ASSUME Typed, NEW w \in Workers, NEW p \in Pipes, ReadError(w, p)
  PROVE  /\ Typed'
         /\ p \in reading /\ task[w] = Idle
         /\ reading' = reading \ {p}
         /\ task'[w] = [at |-> "remove", pipe |-> p, data |-> <<>>, host |-> NoHost]
         /\ \A v \in Workers \ {w} : task'[v] = task[v]
         /\ UNCHANGED <<conns, session, ends, host_reads>>
<1>1. /\ p \in reading /\ reading' = reading \ {p}
      /\ Begins(w, "remove", p, <<>>, NoHost)
      /\ UNCHANGED <<accepting, conns, session, ends, host_reads>>
  BY DEF ReadError
<1>2. <<>> \in Seq(Token)
  OBVIOUS
<1>3. /\ task' \in [Workers -> Tasks]
      /\ task[w] = Idle
      /\ task'[w] = [at |-> "remove", pipe |-> p, data |-> <<>>, host |-> NoHost]
      /\ \A v \in Workers \ {w} : task'[v] = task[v]
  BY <1>1, <1>2, BeginsDoes DEF Labels
<1>4. Typed'
  <2>1. Shapes'
    BY <1>1, <1>3 DEF Typed, Shapes, server, session, ends
  <2>2. TaskTyped(task'[w], adb) /\ adb' = adb
    BY <1>1, <1>3 DEF Typed, TaskTyped, At, Idle, session
  <2> QED BY <1>1, <1>3, <2>1, <2>2, TypedTask
<1> QED BY <1>1, <1>3, <1>4

LEMMA RemoveConnectionDoes ==
  ASSUME Typed, NEW w \in Workers, RemoveConnection(w)
  PROVE  LET p == task[w].pipe IN
         /\ Typed'
         /\ p \in Pipes /\ At(w, "remove")
         /\ conns' = conns \ {p}
         /\ adb'[p] = [adb[p] EXCEPT !.state = "closed_by_host", !.connector = "none"]
         /\ pipe'[p] = [pipe[p] EXCEPT !.status = "closed"]
         /\ \A q \in Pipes \ {p} : adb'[q] = adb[q] /\ pipe'[q] = pipe[q]
         /\ host_reads' = host_reads \ ({p} \X Hosts)
         /\ \A h \in Hosts : \/ host'[h] = host[h]
                             \/ h = adb[p].messenger /\ host'[h] = [host[h] EXCEPT !.status = "closed"]
         /\ task'[w] = Idle
         /\ \A v \in Workers \ {w} : task'[v] = task[v]
         /\ UNCHANGED <<reading, commands>>
<1> DEFINE p == task[w].pipe
<1>1. /\ At(w, "remove") /\ Ends(w)
      /\ conns' = conns \ {p}
      /\ adb' = [adb EXCEPT ![p].state = "closed_by_host", ![p].connector = "none"]
      /\ owner' = Unlocked(p)
      /\ host_reads' = host_reads \ ({p} \X Hosts)
      /\ host' = [h \in Hosts |->
           IF h = adb[p].messenger THEN [host[h] EXCEPT !.status = "closed"] ELSE host[h]]
      /\ pipe' = [pipe EXCEPT ![p].status = "closed"]
      /\ UNCHANGED <<accepting, reading, commands>>
  BY DEF RemoveConnection, Removed
<1>2. /\ task' \in [Workers -> Tasks] /\ task'[w] = Idle
      /\ \A v \in Workers \ {w} : task'[v] = task[v]
  BY <1>1, EndsDoes
<1>3. p \in Pipes
  BY <1>1 DEF At, Typed, TaskTyped
<1> HIDE DEF p
<1>4. /\ adb' \in [Pipes -> Processors]
      /\ adb'[p] = [adb[p] EXCEPT !.state = "closed_by_host", !.connector = "none"]
      /\ \A q \in Pipes \ {p} : adb'[q] = adb[q]
  <2>1. adb \in [Pipes -> Processors]
    BY DEF Typed, Shapes
  <2>2. adb' = [adb EXCEPT ![p] = [[@ EXCEPT !.state = "closed_by_host"]
                                     EXCEPT !.connector = "none"]]
    BY <1>1, <1>3, <2>1
  <2>3. [[adb[p] EXCEPT !.state = "closed_by_host"] EXCEPT !.connector = "none"] \in Processors
    BY <1>3, <2>1 DEF Processors, States
  <2> QED BY <1>3, <2>1, <2>2, <2>3
<1>5. /\ pipe' \in [Pipes -> Guests]
      /\ pipe'[p] = [pipe[p] EXCEPT !.status = "closed"]
      /\ \A q \in Pipes \ {p} : pipe'[q] = pipe[q]
  BY <1>1, <1>3 DEF Typed, Shapes, Guests
<1>6. ASSUME NEW h \in Hosts
      PROVE  /\ host'[h] \in HostEnds
             /\ \/ host'[h] = host[h]
                \/ h = adb[p].messenger /\ host'[h] = [host[h] EXCEPT !.status = "closed"]
  <2>1. host[h] \in HostEnds
    BY DEF Typed, Shapes
  <2>2. [host[h] EXCEPT !.status = "closed"] \in HostEnds
    BY <2>1 DEF HostEnds
  <2> QED BY <1>1, <2>1, <2>2
<1>7. host' \in [Hosts -> HostEnds]
  BY <1>1, <1>6
<1>8. Shapes'
  BY <1>1, <1>2, <1>3, <1>4, <1>5, <1>7 DEF Typed, Shapes, Unlocked
<1>9. adb[p] \in Processors
  BY <1>3 DEF Typed, Shapes
<1>10. adb'[p].messenger = adb[p].messenger /\ HasMessenger(adb'[p])
  BY <1>4, <1>9 DEF Processors, HasMessenger
<1>11. TaskTyped(task'[w], adb')
  BY <1>2 DEF TaskTyped, Idle
<1>12. Typed'
  BY <1>2, <1>3, <1>4, <1>8, <1>10, <1>11, TypedProcessor
<1> QED BY <1>1, <1>2, <1>3, <1>4, <1>5, <1>6, <1>12 DEF p

LEMMA ProcessCommandsDoes ==
  ASSUME Typed, NEW w \in Workers, ProcessCommands(w), NEW m,
         LET b == adb[task[w].pipe].buffer \o task[w].data IN
           HandlesFrom(b, m, process_commands[b])
  PROVE  LET p == task[w].pipe
             result == process_commands[adb[p].buffer \o task[w].data] IN
         /\ Typed'
         /\ p \in Pipes /\ At(w, "process") /\ pipe[p].service = "qemud"
         /\ commands'[p] = commands[p] \o result.handled
         /\ adb'[p] = [adb[p] EXCEPT !.buffer = result.buffer]
         /\ \A q \in Pipes \ {p} : adb'[q] = adb[q] /\ commands'[q] = commands[q]
         /\ task'[w] = [task[w] EXCEPT !.at = "read_next"]
         /\ \A v \in Workers \ {w} : task'[v] = task[v]
         /\ UNCHANGED <<server, owner, ends, host_reads>>
<1> DEFINE p == task[w].pipe
           b == adb[p].buffer \o task[w].data
           result == process_commands[b]
<1>1. /\ At(w, "process") /\ Goes(w, "read_next") /\ pipe[p].service = "qemud"
      /\ commands' = [commands EXCEPT ![p] = @ \o result.handled]
      /\ adb' = [adb EXCEPT ![p].buffer = result.buffer]
      /\ UNCHANGED <<server, owner, ends, host_reads>>
  BY DEF ProcessCommands
<1>2. /\ task' \in [Workers -> Tasks]
      /\ task'[w] = [task[w] EXCEPT !.at = "read_next"]
      /\ task'[w].at = "read_next" /\ task'[w].pipe = p
      /\ \A v \in Workers \ {w} : task'[v] = task[v]
  BY <1>1, GoesDoes DEF Labels
<1>3. p \in Pipes
  BY <1>1 DEF At, Typed, TaskTyped
<1>4. result.handled \in Seq(Commands) /\ result.buffer \in Seq(Token)
  BY TokensOk DEF HandlesFrom
<1> HIDE DEF p, result
<1>5. /\ adb' \in [Pipes -> Processors]
      /\ adb'[p] = [adb[p] EXCEPT !.buffer = result.buffer]
      /\ \A q \in Pipes \ {p} : adb'[q] = adb[q]
  BY <1>1, <1>3, <1>4 DEF Typed, Shapes, Processors
<1>6. /\ commands' \in [Pipes -> Seq(Commands)]
      /\ commands'[p] = commands[p] \o result.handled
      /\ \A q \in Pipes \ {p} : commands'[q] = commands[q]
  BY <1>1, <1>3, <1>4 DEF Typed, Shapes
<1>7. Shapes'
  BY <1>1, <1>2, <1>5, <1>6 DEF Typed, Shapes, server, ends
<1>8. adb[p] \in Processors /\ HasMessenger(adb[p])
  BY <1>3 DEF Typed, Shapes
<1>9. adb'[p].messenger = adb[p].messenger /\ HasMessenger(adb'[p])
  BY <1>5, <1>8 DEF Processors, HasMessenger
<1>10. TaskTyped(task'[w], adb')
  BY <1>2, <1>3 DEF TaskTyped
<1>11. Typed'
  BY <1>2, <1>3, <1>5, <1>7, <1>9, <1>10, TypedProcessor
<1> QED BY <1>1, <1>2, <1>3, <1>5, <1>6, <1>11 DEF p, result

LEMMA ProxyDataDoes ==
  ASSUME Typed, NEW w \in Workers, NEW p \in Pipes, ProxyData(w, p)
  PROVE  /\ Typed'
         /\ p = task[w].pipe /\ At(w, "process") /\ pipe[p].service = "adb"
         /\ adb[p].state = "proxying_data" /\ adb[p].messenger \in Hosts
         /\ host'[adb[p].messenger] =
              [host[adb[p].messenger] EXCEPT !.got = @ \o task[w].data]
         /\ \A h \in Hosts \ {adb[p].messenger} : host'[h] = host[h]
         /\ task'[w] = [task[w] EXCEPT !.at = "read_next"]
         /\ \A v \in Workers \ {w} : task'[v] = task[v]
         /\ UNCHANGED <<server, session, pipe, host_reads>>
<1>1. /\ p = task[w].pipe /\ At(w, "process") /\ pipe[p].service = "adb"
      /\ adb[p].state = "proxying_data" /\ Goes(w, "read_next")
      /\ UNCHANGED <<server, session, pipe, host_reads>>
  BY DEF ProxyData, Processes
<1>2. PICK h \in Hosts : /\ h = adb[p].messenger
                         /\ host' = [host EXCEPT ![h].got = @ \o task[w].data]
  BY DEF ProxyData
<1>3. /\ task' \in [Workers -> Tasks]
      /\ task'[w] = [task[w] EXCEPT !.at = "read_next"]
      /\ task'[w].at = "read_next" /\ task'[w].pipe = p
      /\ \A v \in Workers \ {w} : task'[v] = task[v]
  BY <1>1, GoesDoes DEF Labels
<1>4. task[w].data \in Seq(Token) /\ host[h] \in HostEnds /\ host[h].got \in Seq(Token)
  BY DEF Typed, Shapes, Tasks, HostEnds
<1>5. /\ host' \in [Hosts -> HostEnds]
      /\ host'[h] = [host[h] EXCEPT !.got = @ \o task[w].data]
      /\ \A g \in Hosts \ {h} : host'[g] = host[g]
  <2> DEFINE more == host[h].got \o task[w].data
  <2>1. more \in Seq(Token)
    BY <1>4
  <2> HIDE DEF more
  <2>2. host' = [host EXCEPT ![h].got = more]
    BY <1>2 DEF more
  <2>3. /\ host' \in [Hosts -> HostEnds]
        /\ host'[h] = [host[h] EXCEPT !.got = more]
        /\ \A g \in Hosts \ {h} : host'[g] = host[g]
    BY <1>4, <2>1, <2>2 DEF Typed, Shapes, HostEnds
  <2> QED BY <2>3 DEF more
<1>6. Typed'
  <2>1. Shapes'
    BY <1>1, <1>3, <1>5 DEF Typed, Shapes, server, session
  <2>2. TaskTyped(task'[w], adb) /\ adb' = adb
    BY <1>1, <1>3 DEF TaskTyped, session
  <2> QED BY <1>3, <2>1, <2>2, TypedTask
<1> QED BY <1>1, <1>2, <1>3, <1>5, <1>6

LEMMA ProxyThrowsDoes ==
  ASSUME Typed, NEW w \in Workers, NEW p \in Pipes, ProxyThrows(w, p)
  PROVE  /\ Typed'
         /\ p = task[w].pipe /\ At(w, "process") /\ pipe[p].service = "adb"
         /\ adb[p].state = "proxying_data"
         /\ task'[w] = Idle
         /\ \A v \in Workers \ {w} : task'[v] = task[v]
         /\ UNCHANGED <<server, session, ends, host_reads>>
<1>1. /\ p = task[w].pipe /\ At(w, "process") /\ pipe[p].service = "adb"
      /\ adb[p].state = "proxying_data" /\ Ends(w)
      /\ UNCHANGED <<server, session, ends, host_reads>>
  BY DEF ProxyThrows, Processes
<1>2. /\ task' \in [Workers -> Tasks] /\ task'[w] = Idle
      /\ \A v \in Workers \ {w} : task'[v] = task[v]
  BY <1>1, EndsDoes
<1>3. Typed'
  <2>1. Shapes'
    BY <1>1, <1>2 DEF Typed, Shapes, server, session, ends
  <2>2. TaskTyped(task'[w], adb) /\ adb' = adb
    BY <1>1, <1>2 DEF TaskTyped, Idle, session
  <2> QED BY <1>2, <2>1, <2>2, TypedTask
<1> QED BY <1>1, <1>2, <1>3

\* What the processor makes of the data: it is kept, or the connection is given up, or
\* the command is there.
Collects(p, data, label) ==
  LET buffer == adb[p].buffer \o data
      expected == adb[p].expected_command IN
  \/ label = "read_next" /\ adb'[p] = [adb[p] EXCEPT !.buffer = buffer]
  \/ label = "remove" /\ adb'[p] = [adb[p] EXCEPT !.buffer = buffer]
  \/ /\ label = "advance"
     /\ Len(expected) > 0 /\ Len(buffer) >= Len(expected)
     /\ ~Mismatch(buffer, expected, Len(data))
     /\ adb'[p] = [adb[p] EXCEPT !.buffer = SubSeq(buffer, Len(expected) + 1, Len(buffer)),
                                 !.expected_command = <<>>]

LEMMA CollectCommandDoes ==
  ASSUME Typed, NEW w \in Workers, NEW p \in Pipes, CollectCommand(w, p)
  PROVE  /\ Typed'
         /\ p = task[w].pipe /\ At(w, "process") /\ pipe[p].service = "adb"
         /\ adb[p].state # "proxying_data"
         /\ \E label \in {"read_next", "remove", "advance"} :
              /\ task'[w] = [task[w] EXCEPT !.at = label]
              /\ Collects(p, task[w].data, label)
         /\ \A q \in Pipes \ {p} : adb'[q] = adb[q]
         /\ \A v \in Workers \ {w} : task'[v] = task[v]
         /\ UNCHANGED <<server, commands, owner, ends, host_reads>>
<1> DEFINE data == task[w].data
           buffer == adb[p].buffer \o data
           expected == adb[p].expected_command
           left == SubSeq(buffer, Len(expected) + 1, Len(buffer))
<1>1. /\ p = task[w].pipe /\ At(w, "process") /\ pipe[p].service = "adb"
      /\ adb[p].state # "proxying_data"
      /\ UNCHANGED <<server, commands, owner, ends, host_reads>>
  BY DEF CollectCommand, Processes
<1>2. data \in Seq(Token) /\ adb[p] \in Processors /\ HasMessenger(adb[p])
  BY DEF Typed, Shapes, Tasks
<1>3. adb[p].buffer \in Seq(Token) /\ expected \in Seq(Token)
  BY <1>2 DEF Processors
<1>4. buffer \in Seq(Token) /\ left \in Seq(Token) /\ <<>> \in Seq(Token)
  <2>1. buffer \in Seq(Token) /\ Len(expected) \in Nat
    BY <1>2, <1>3
  <2> HIDE DEF buffer, expected
  <2> QED BY <2>1
<1>5. PICK label \in {"read_next", "remove", "advance"} :
        /\ Goes(w, label)
        /\ \/ /\ label \in {"read_next", "remove"}
              /\ adb' = [adb EXCEPT ![p].buffer = buffer]
           \/ /\ label = "advance"
              /\ Len(expected) > 0 /\ Len(buffer) >= Len(expected)
              /\ ~Mismatch(buffer, expected, Len(data))
              /\ adb' = [adb EXCEPT ![p].buffer = left, ![p].expected_command = <<>>]
  BY DEF CollectCommand
<1>6. /\ task' \in [Workers -> Tasks]
      /\ task'[w] = [task[w] EXCEPT !.at = label]
      /\ task'[w].at = label /\ task'[w].pipe = p
      /\ \A v \in Workers \ {w} : task'[v] = task[v]
  <2>1. label \in Labels /\ Goes(w, label) /\ p = task[w].pipe
    BY <1>1, <1>5 DEF Labels
  <2> HIDE DEF data, buffer, expected, left
  <2> QED BY <2>1, GoesDoes
<1>7. /\ adb' \in [Pipes -> Processors]
      /\ Collects(p, data, label)
      /\ \A q \in Pipes \ {p} : adb'[q] = adb[q]
      /\ adb'[p].messenger = adb[p].messenger /\ adb'[p].state = adb[p].state
  <2> HIDE DEF data, buffer, expected, left
  <2>1. CASE label \in {"read_next", "remove"}
    <3>1. adb' = [adb EXCEPT ![p].buffer = buffer]
      BY <1>5, <2>1
    <3>2. /\ adb' \in [Pipes -> Processors]
          /\ adb'[p] = [adb[p] EXCEPT !.buffer = buffer]
          /\ \A q \in Pipes \ {p} : adb'[q] = adb[q]
          /\ adb'[p].messenger = adb[p].messenger /\ adb'[p].state = adb[p].state
      BY <1>2, <1>4, <3>1 DEF Typed, Shapes, Processors
    <3> QED BY <2>1, <3>2 DEF Collects, buffer
  <2>2. CASE label = "advance"
    <3>1. adb' = [adb EXCEPT ![p].buffer = left, ![p].expected_command = <<>>]
      BY <1>5, <2>2
    <3>2. /\ adb' \in [Pipes -> Processors]
          /\ adb'[p] = [adb[p] EXCEPT !.buffer = left, !.expected_command = <<>>]
          /\ \A q \in Pipes \ {p} : adb'[q] = adb[q]
          /\ adb'[p].messenger = adb[p].messenger /\ adb'[p].state = adb[p].state
      BY <1>2, <1>4, <3>1 DEF Typed, Shapes, Processors
    <3> QED BY <1>5, <2>2, <3>2 DEF Collects, buffer, expected, left
  <2> QED BY <2>1, <2>2
<1> HIDE DEF data, buffer, expected, left
<1>8. Shapes'
  BY <1>1, <1>6, <1>7 DEF Typed, Shapes, server, ends
<1>9. HasMessenger(adb'[p]) /\ TaskTyped(task'[w], adb')
  BY <1>2, <1>6, <1>7 DEF HasMessenger, TaskTyped
<1>10. Typed'
  BY <1>6, <1>7, <1>8, <1>9, TypedProcessor
<1> QED BY <1>1, <1>6, <1>7, <1>10 DEF data

LEMMA WaitForHostConnectionDoes ==
  ASSUME Typed, NEW w \in Workers, NEW p \in Pipes, WaitForHostConnection(w, p)
  PROVE  /\ Typed'
         /\ p = task[w].pipe /\ At(w, "advance")
         /\ adb[p].state = "waiting_for_guest_accept_command"
         /\ adb'[p] = [adb[p] EXCEPT !.connector = "listening"]
         /\ \A q \in Pipes \ {p} : adb'[q] = adb[q]
         /\ task'[w] = [task[w] EXCEPT !.at = "read_next"]
         /\ \A v \in Workers \ {w} : task'[v] = task[v]
         /\ UNCHANGED <<server, commands, ends, host_reads>>
<1>1. /\ p = task[w].pipe /\ At(w, "advance")
      /\ adb[p].state = "waiting_for_guest_accept_command"
      /\ owner' = p
      /\ adb' = [adb EXCEPT ![p].connector = "listening"]
      /\ Goes(w, "read_next")
      /\ UNCHANGED <<server, commands, ends, host_reads>>
  BY DEF WaitForHostConnection, Advances
<1>2. /\ task' \in [Workers -> Tasks]
      /\ task'[w] = [task[w] EXCEPT !.at = "read_next"]
      /\ task'[w].at = "read_next" /\ task'[w].pipe = p
      /\ \A v \in Workers \ {w} : task'[v] = task[v]
  BY <1>1, GoesDoes DEF Labels
<1>3. adb[p] \in Processors /\ HasMessenger(adb[p])
  BY DEF Typed, Shapes
<1>4. /\ adb' \in [Pipes -> Processors]
      /\ adb'[p] = [adb[p] EXCEPT !.connector = "listening"]
      /\ adb'[p].messenger = adb[p].messenger /\ adb'[p].state = adb[p].state
      /\ \A q \in Pipes \ {p} : adb'[q] = adb[q]
  BY <1>1, <1>3 DEF Typed, Shapes, Processors
<1>5. Shapes'
  BY <1>1, <1>2, <1>4 DEF Typed, Shapes, server, ends
<1>6. HasMessenger(adb'[p]) /\ TaskTyped(task'[w], adb')
  BY <1>2, <1>3, <1>4 DEF HasMessenger, TaskTyped
<1>7. Typed'
  BY <1>2, <1>4, <1>5, <1>6, TypedProcessor
<1> QED BY <1>1, <1>2, <1>4, <1>7

LEMMA StartProxyingDoes ==
  ASSUME Typed, NEW w \in Workers, NEW p \in Pipes, StartProxying(w, p)
  PROVE  /\ Typed'
         /\ p = task[w].pipe /\ At(w, "advance")
         /\ adb[p].state = "waiting_for_guest_start_command" /\ adb[p].messenger \in Hosts
         /\ adb'[p] = [adb[p] EXCEPT !.state = "proxying_data"]
         /\ \A q \in Pipes \ {p} : adb'[q] = adb[q]
         /\ host_reads' = host_reads \cup {<<p, adb[p].messenger>>}
         /\ task'[w] = [task[w] EXCEPT !.at = "read_next"]
         /\ \A v \in Workers \ {w} : task'[v] = task[v]
         /\ UNCHANGED <<server, commands, owner, ends>>
<1>1. /\ p = task[w].pipe /\ At(w, "advance")
      /\ adb[p].state = "waiting_for_guest_start_command"
      /\ adb' = [adb EXCEPT ![p].state = "proxying_data"]
      /\ host_reads' = host_reads \cup {<<p, adb[p].messenger>>}
      /\ Goes(w, "read_next")
      /\ UNCHANGED <<server, commands, owner, ends>>
  BY DEF StartProxying, Advances
<1>2. /\ task' \in [Workers -> Tasks]
      /\ task'[w] = [task[w] EXCEPT !.at = "read_next"]
      /\ task'[w].at = "read_next" /\ task'[w].pipe = p
      /\ \A v \in Workers \ {w} : task'[v] = task[v]
  BY <1>1, GoesDoes DEF Labels
<1>3. adb[p] \in Processors /\ adb[p].messenger \in Hosts
  BY <1>1 DEF Typed, Shapes, HasMessenger
<1>4. /\ adb' \in [Pipes -> Processors]
      /\ adb'[p] = [adb[p] EXCEPT !.state = "proxying_data"]
      /\ adb'[p].messenger = adb[p].messenger
      /\ \A q \in Pipes \ {p} : adb'[q] = adb[q]
  BY <1>1, <1>3 DEF Typed, Shapes, Processors, States
<1>5. Shapes'
  BY <1>1, <1>2, <1>3, <1>4 DEF Typed, Shapes, server, ends
<1>6. HasMessenger(adb'[p]) /\ TaskTyped(task'[w], adb')
  BY <1>2, <1>3, <1>4 DEF HasMessenger, TaskTyped
<1>7. Typed'
  BY <1>2, <1>4, <1>5, <1>6, TypedProcessor
<1> QED BY <1>1, <1>2, <1>3, <1>4, <1>7

LEMMA AcceptHostDoes ==
  ASSUME Typed, NEW w \in Workers, NEW p \in Pipes, NEW h \in Hosts, AcceptHost(w, p, h)
  PROVE  /\ Typed'
         /\ adb[p].connector = "listening"
         /\ host[h].status = "none"
         /\ host'[h] = [host[h] EXCEPT !.status = "open"]
         /\ \A g \in Hosts \ {h} : host'[g] = host[g]
         /\ adb'[p] = [adb[p] EXCEPT !.connector = "busy"]
         /\ \A q \in Pipes \ {p} : adb'[q] = adb[q]
         /\ task[w] = Idle
         /\ task'[w].at = "host_connection" /\ task'[w].pipe = p /\ task'[w].host = h
         /\ \A v \in Workers \ {w} : task'[v] = task[v]
         /\ UNCHANGED <<server, commands, owner, pipe, host_reads>>
<1>1. /\ adb[p].connector = "listening"
      /\ host[h].status = "none"
      /\ host' = [host EXCEPT ![h].status = "open"]
      /\ adb' = [adb EXCEPT ![p].connector = "busy"]
      /\ Begins(w, "host_connection", p, <<>>, h)
      /\ UNCHANGED <<server, commands, owner, pipe, host_reads>>
  BY DEF AcceptHost
<1>2. <<>> \in Seq(Token) /\ "host_connection" \in Labels /\ h \in Hosts \cup {NoHost}
  BY DEF Labels
<1>3. /\ task' \in [Workers -> Tasks] /\ task[w] = Idle
      /\ task'[w] = [at |-> "host_connection", pipe |-> p, data |-> <<>>, host |-> h]
      /\ \A v \in Workers \ {w} : task'[v] = task[v]
  BY <1>1, <1>2, BeginsDoes
<1>4. adb[p] \in Processors /\ HasMessenger(adb[p]) /\ host[h] \in HostEnds
  BY DEF Typed, Shapes
<1>5. /\ adb' \in [Pipes -> Processors]
      /\ adb'[p] = [adb[p] EXCEPT !.connector = "busy"]
      /\ adb'[p].messenger = adb[p].messenger /\ adb'[p].state = adb[p].state
      /\ \A q \in Pipes \ {p} : adb'[q] = adb[q]
  BY <1>1, <1>4 DEF Typed, Shapes, Processors
<1>6. /\ host' \in [Hosts -> HostEnds]
      /\ host'[h] = [host[h] EXCEPT !.status = "open"]
      /\ \A g \in Hosts \ {h} : host'[g] = host[g]
  BY <1>1, <1>4 DEF Typed, Shapes, HostEnds
<1>7. Shapes'
  BY <1>1, <1>3, <1>5, <1>6 DEF Typed, Shapes, server
<1>8. HasMessenger(adb'[p]) /\ TaskTyped(task'[w], adb')
  BY <1>3, <1>4, <1>5 DEF HasMessenger, TaskTyped
<1>9. Typed'
  BY <1>3, <1>5, <1>7, <1>8, TypedProcessor
<1> QED BY <1>1, <1>3, <1>5, <1>6, <1>9

LEMMA ToldDoes ==
  ASSUME Typed, NEW p \in Pipes, NEW data \in Seq(Token), Told(p, data)
  PROVE  /\ pipe' \in [Pipes -> Guests]
         /\ pipe'[p] = [pipe[p] EXCEPT !.got = @ \o data]
         /\ \A q \in Pipes \ {p} : pipe'[q] = pipe[q]
<1> DEFINE more == pipe[p].got \o data
<1>1. pipe[p] \in Guests /\ pipe[p].got \in Seq(Token)
  BY DEF Typed, Shapes, Guests
<1>2. more \in Seq(Token) /\ pipe' = [pipe EXCEPT ![p].got = more]
  BY <1>1 DEF Told
<1> HIDE DEF more
<1>3. /\ pipe' \in [Pipes -> Guests]
      /\ pipe'[p] = [pipe[p] EXCEPT !.got = more]
      /\ \A q \in Pipes \ {p} : pipe'[q] = pipe[q]
  BY <1>1, <1>2 DEF Typed, Shapes, Guests
<1> QED BY <1>3 DEF more

LEMMA OnHostConnectionDoes ==
  ASSUME Typed, NEW w \in Workers, OnHostConnection(w)
  PROVE  LET p == task[w].pipe
             old == adb[p].messenger IN
         /\ Typed'
         /\ p \in Pipes /\ At(w, "host_connection") /\ task[w].host \in Hosts
         /\ adb'[p] = [adb[p] EXCEPT !.messenger = task[w].host]
         /\ \A q \in Pipes \ {p} : adb'[q] = adb[q] /\ pipe'[q] = pipe[q]
         /\ \A h \in Hosts : \/ host'[h] = host[h]
                             \/ h = old /\ host'[h] = [host[h] EXCEPT !.status = "closed"]
         /\ host_reads' = host_reads \ {<<p, old>>}
         /\ \/ /\ pipe[p].status = "open"
               /\ pipe'[p] = [pipe[p] EXCEPT !.got = @ \o <<Ok>>]
               /\ task'[w] = [task[w] EXCEPT !.at = "host_state"]
            \/ /\ pipe[p].status # "open"
               /\ pipe'[p] = pipe[p]
               /\ task'[w] = Idle
         /\ \A v \in Workers \ {w} : task'[v] = task[v]
         /\ UNCHANGED <<server, commands, owner>>
<1> DEFINE p == task[w].pipe
           old == adb[p].messenger
<1>1. /\ At(w, "host_connection")
      /\ adb' = [adb EXCEPT ![p].messenger = task[w].host]
      /\ host' = [h \in Hosts |->
            IF h = old THEN [host[h] EXCEPT !.status = "closed"] ELSE host[h]]
      /\ host_reads' = host_reads \ {<<p, old>>}
      /\ \/ pipe[p].status = "open" /\ Told(p, <<Ok>>) /\ Goes(w, "host_state")
         \/ pipe[p].status # "open" /\ UNCHANGED pipe /\ Ends(w)
      /\ UNCHANGED <<server, commands, owner>>
  BY DEF OnHostConnection
<1>2. p \in Pipes /\ task[w].host \in Hosts
  BY <1>1 DEF At, Typed, TaskTyped
<1> HIDE DEF p, old
<1>3. adb[p] \in Processors /\ HasMessenger(adb[p])
  BY <1>2 DEF Typed, Shapes
<1>4. /\ adb' \in [Pipes -> Processors]
      /\ adb'[p] = [adb[p] EXCEPT !.messenger = task[w].host]
      /\ adb'[p].messenger = task[w].host
      /\ \A q \in Pipes \ {p} : adb'[q] = adb[q]
  BY <1>1, <1>2, <1>3 DEF Typed, Shapes, Processors
<1>5. ASSUME NEW h \in Hosts
      PROVE  /\ host'[h] \in HostEnds
             /\ \/ host'[h] = host[h]
                \/ h = old /\ host'[h] = [host[h] EXCEPT !.status = "closed"]
  <2>1. host[h] \in HostEnds
    BY DEF Typed, Shapes
  <2>2. [host[h] EXCEPT !.status = "closed"] \in HostEnds
    BY <2>1 DEF HostEnds
  <2> QED BY <1>1, <2>1, <2>2
<1>6. host' \in [Hosts -> HostEnds]
  BY <1>1, <1>5
<1>7. /\ pipe' \in [Pipes -> Guests] /\ task' \in [Workers -> Tasks]
      /\ \/ /\ pipe[p].status = "open"
            /\ pipe'[p] = [pipe[p] EXCEPT !.got = @ \o <<Ok>>]
            /\ task'[w] = [task[w] EXCEPT !.at = "host_state"]
            /\ task'[w].at = "host_state" /\ task'[w].pipe = p
         \/ /\ pipe[p].status # "open"
            /\ pipe'[p] = pipe[p]
            /\ task'[w] = Idle
      /\ \A q \in Pipes \ {p} : pipe'[q] = pipe[q]
      /\ \A v \in Workers \ {w} : task'[v] = task[v]
  <2>1. CASE pipe[p].status = "open" /\ Told(p, <<Ok>>) /\ Goes(w, "host_state")
    <3>1. <<Ok>> \in Seq(Token)
      BY TokensOk
    <3>2. /\ pipe' \in [Pipes -> Guests]
          /\ pipe'[p] = [pipe[p] EXCEPT !.got = @ \o <<Ok>>]
          /\ \A q \in Pipes \ {p} : pipe'[q] = pipe[q]
      BY <1>2, <2>1, <3>1, ToldDoes
    <3> QED BY <2>1, <3>2, GoesDoes DEF Labels, p
  <2>2. CASE pipe[p].status # "open" /\ UNCHANGED pipe /\ Ends(w)
    BY <2>2, EndsDoes DEF Typed, Shapes
  <2> QED BY <1>1, <2>1, <2>2
<1>8. Shapes'
  BY <1>1, <1>4, <1>6, <1>7 DEF Typed, Shapes, server
<1>9. HasMessenger(adb'[p]) /\ TaskTyped(task'[w], adb')
  <2>1. CASE task'[w] = Idle
    BY <1>2, <1>4, <2>1 DEF HasMessenger, TaskTyped, Idle
  <2>2. CASE task'[w].at = "host_state" /\ task'[w].pipe = p
    BY <1>2, <1>4, <2>2 DEF HasMessenger, TaskTyped
  <2> QED BY <1>7, <2>1, <2>2
<1>10. Typed'
  BY <1>2, <1>4, <1>7, <1>8, <1>9, TypedProcessor
<1> QED BY <1>1, <1>2, <1>4, <1>5, <1>7, <1>10 DEF p, old

LEMMA SetStateDoes ==
  ASSUME Typed, NEW w \in Workers, SetState(w)
  PROVE  LET p == task[w].pipe IN
         /\ Typed'
         /\ p \in Pipes /\ At(w, "host_state")
         /\ adb'[p] = [adb[p] EXCEPT !.state = "waiting_for_guest_start_command"]
         /\ \A q \in Pipes \ {p} : adb'[q] = adb[q]
         /\ task'[w] = [task[w] EXCEPT !.at = "host_expected"]
         /\ \A v \in Workers \ {w} : task'[v] = task[v]
         /\ UNCHANGED <<server, commands, owner, ends, host_reads>>
<1> DEFINE p == task[w].pipe
<1>1. /\ At(w, "host_state") /\ Goes(w, "host_expected")
      /\ adb' = [adb EXCEPT ![p].state = "waiting_for_guest_start_command"]
      /\ UNCHANGED <<server, commands, owner, ends, host_reads>>
  BY DEF SetState, AfterHostConnection
<1>2. p \in Pipes /\ adb[p].messenger \in Hosts
  BY <1>1 DEF At, Typed, TaskTyped
<1>3. /\ task' \in [Workers -> Tasks]
      /\ task'[w] = [task[w] EXCEPT !.at = "host_expected"]
      /\ task'[w].at = "host_expected" /\ task'[w].pipe = p
      /\ \A v \in Workers \ {w} : task'[v] = task[v]
  BY <1>1, GoesDoes DEF Labels
<1> HIDE DEF p
<1>4. adb[p] \in Processors
  BY <1>2 DEF Typed, Shapes
<1>5. /\ adb' \in [Pipes -> Processors]
      /\ adb'[p] = [adb[p] EXCEPT !.state = "waiting_for_guest_start_command"]
      /\ adb'[p].messenger = adb[p].messenger
      /\ \A q \in Pipes \ {p} : adb'[q] = adb[q]
  BY <1>1, <1>2, <1>4 DEF Typed, Shapes, Processors, States
<1>6. Shapes'
  BY <1>1, <1>3, <1>5 DEF Typed, Shapes, server, ends
<1>7. HasMessenger(adb'[p]) /\ TaskTyped(task'[w], adb')
  BY <1>2, <1>3, <1>5 DEF HasMessenger, TaskTyped
<1>8. Typed'
  BY <1>2, <1>3, <1>5, <1>6, <1>7, TypedProcessor
<1> QED BY <1>1, <1>2, <1>3, <1>5, <1>8 DEF p

LEMMA SetExpectedDoes ==
  ASSUME Typed, NEW w \in Workers, SetExpected(w)
  PROVE  LET p == task[w].pipe IN
         /\ Typed'
         /\ p \in Pipes /\ At(w, "host_expected")
         /\ \E c \in {"none", "listening"} :
              adb'[p] = [adb[p] EXCEPT !.expected_command = start_command, !.connector = c]
         /\ \A q \in Pipes \ {p} : adb'[q] = adb[q]
         /\ task'[w] = Idle
         /\ \A v \in Workers \ {w} : task'[v] = task[v]
         /\ UNCHANGED <<server, commands, owner, ends, host_reads>>
<1> DEFINE p == task[w].pipe
           c == IF adb[p].connector = "busy" THEN "listening" ELSE adb[p].connector
<1>1. /\ At(w, "host_expected") /\ Ends(w)
      /\ adb' = [adb EXCEPT ![p].expected_command = start_command,
                            ![p].connector = IF @ = "busy" THEN "listening" ELSE @]
      /\ UNCHANGED <<server, commands, owner, ends, host_reads>>
  BY DEF SetExpected
<1>2. p \in Pipes
  BY <1>1 DEF At, Typed, TaskTyped
<1>3. /\ task' \in [Workers -> Tasks] /\ task'[w] = Idle
      /\ \A v \in Workers \ {w} : task'[v] = task[v]
  BY <1>1, EndsDoes
<1> HIDE DEF p
<1>4. adb[p] \in Processors /\ HasMessenger(adb[p])
  BY <1>2 DEF Typed, Shapes
<1>5. c \in {"none", "listening"}
  BY <1>4 DEF Processors
<1>6. adb' = [adb EXCEPT ![p].expected_command = start_command, ![p].connector = c]
  BY <1>1, <1>2, <1>4 DEF Typed, Shapes, Processors
<1> HIDE DEF c
<1>7. /\ adb' \in [Pipes -> Processors]
      /\ adb'[p] = [adb[p] EXCEPT !.expected_command = start_command, !.connector = c]
      /\ adb'[p].messenger = adb[p].messenger /\ adb'[p].state = adb[p].state
      /\ \A q \in Pipes \ {p} : adb'[q] = adb[q]
  BY <1>2, <1>4, <1>5, <1>6, TokensOk DEF Typed, Shapes, Processors
<1>8. Shapes'
  BY <1>1, <1>3, <1>7 DEF Typed, Shapes, server, ends
<1>9. HasMessenger(adb'[p]) /\ TaskTyped(task'[w], adb')
  BY <1>3, <1>4, <1>7 DEF HasMessenger, TaskTyped, Idle
<1>10. Typed'
  BY <1>2, <1>3, <1>7, <1>8, <1>9, TypedProcessor
<1> QED BY <1>1, <1>2, <1>3, <1>5, <1>7, <1>10 DEF p

LEMMA TypedSameTasks ==
  ASSUME Typed, Shapes', UNCHANGED task,
         \A p \in Pipes : adb'[p].messenger = adb[p].messenger /\ HasMessenger(adb'[p])
  PROVE  Typed'
<1>1. ASSUME NEW v \in Workers PROVE TaskTyped(task'[v], adb')
  <2>1. TaskTyped(task[v], adb) /\ task'[v] = task[v]
    BY DEF Typed
  <2> QED BY <2>1 DEF TaskTyped
<1> QED BY <1>1 DEF Typed

LEMMA OnHostReadDoes ==
  ASSUME Typed, NEW w \in Workers, NEW p \in Pipes, NEW h \in Hosts, OnHostRead(w, p, h)
  PROVE  /\ Typed'
         /\ <<p, h>> \in host_reads
         /\ \E k \in 1 .. Len(host[h].unread) :
              /\ host'[h] = [host[h] EXCEPT !.unread = SubSeq(@, k + 1, Len(@))]
              /\ \/ /\ pipe[p].status = "open" /\ UNCHANGED host_reads
                    /\ pipe'[p] = [pipe[p] EXCEPT !.got = @ \o SubSeq(host[h].unread, 1, k)]
                 \/ /\ pipe[p].status # "open"
                    /\ host_reads' = host_reads \ {<<p, h>>}
                    /\ pipe'[p] = pipe[p]
         /\ \A g \in Hosts \ {h} : host'[g] = host[g]
         /\ \A q \in Pipes \ {p} : pipe'[q] = pipe[q]
         /\ UNCHANGED <<server, task, session>>
<1>1. <<p, h>> \in host_reads /\ UNCHANGED <<server, task, session>>
  BY DEF OnHostRead
<1>2. PICK k \in 1 .. Len(host[h].unread) :
        LET data == SubSeq(host[h].unread, 1, k) IN
        /\ host' = [host EXCEPT ![h].unread = Rearmed(p, h, data)]
        /\ \/ pipe[p].status = "open" /\ Told(p, data) /\ UNCHANGED host_reads
           \/ /\ pipe[p].status # "open"
              /\ host_reads' = host_reads \ {<<p, h>>}
              /\ UNCHANGED pipe
  BY DEF OnHostRead
<1> DEFINE data == SubSeq(host[h].unread, 1, k)
           left == SubSeq(host[h].unread, k + 1, Len(host[h].unread))
<1>3. host[h] \in HostEnds /\ host[h].unread \in Seq(Token)
  BY DEF Typed, Shapes, HostEnds
<1>4. data \in Seq(Token) /\ left \in Seq(Token) /\ Len(data) = k
  BY <1>3, CutIn
<1>5. Rearmed(p, h, data) = left
  BY <1>4 DEF Rearmed
<1> HIDE DEF data, left
<1>6. /\ host' \in [Hosts -> HostEnds]
      /\ host'[h] = [host[h] EXCEPT !.unread = left]
      /\ \A g \in Hosts \ {h} : host'[g] = host[g]
  <2>1. host' = [host EXCEPT ![h].unread = left]
    BY <1>2, <1>5 DEF data
  <2> QED BY <1>3, <1>4, <2>1 DEF Typed, Shapes, HostEnds
<1>7. /\ pipe' \in [Pipes -> Guests] /\ host_reads' \subseteq host_reads
      /\ \/ /\ pipe[p].status = "open" /\ UNCHANGED host_reads
            /\ pipe'[p] = [pipe[p] EXCEPT !.got = @ \o data]
         \/ /\ pipe[p].status # "open"
            /\ host_reads' = host_reads \ {<<p, h>>}
            /\ pipe'[p] = pipe[p]
      /\ \A q \in Pipes \ {p} : pipe'[q] = pipe[q]
  <2>1. CASE pipe[p].status = "open" /\ Told(p, data) /\ UNCHANGED host_reads
    BY <1>4, <2>1, ToldDoes
  <2>2. CASE /\ pipe[p].status # "open"
             /\ host_reads' = host_reads \ {<<p, h>>}
             /\ UNCHANGED pipe
    BY <2>2 DEF Typed, Shapes
  <2> QED BY <1>2, <2>1, <2>2 DEF data
<1>8. Shapes'
  BY <1>1, <1>6, <1>7 DEF Typed, Shapes, server, session
<1>9. Typed'
  <2>1. \A q \in Pipes : adb'[q].messenger = adb[q].messenger /\ HasMessenger(adb'[q])
    BY <1>1 DEF Typed, session
  <2> QED BY <1>1, <1>8, <2>1, TypedSameTasks
<1>10. /\ host'[h] = [host[h] EXCEPT !.unread = SubSeq(@, k + 1, Len(@))]
       /\ \/ /\ pipe[p].status = "open" /\ UNCHANGED host_reads
             /\ pipe'[p] = [pipe[p] EXCEPT !.got = @ \o SubSeq(host[h].unread, 1, k)]
          \/ /\ pipe[p].status # "open"
             /\ host_reads' = host_reads \ {<<p, h>>}
             /\ pipe'[p] = pipe[p]
  BY <1>6, <1>7 DEF data, left
<1> QED BY <1>1, <1>6, <1>7, <1>9, <1>10

LEMMA OnHostReadErrorDoes ==
  ASSUME Typed, NEW w \in Workers, NEW p \in Pipes, NEW h \in Hosts, OnHostReadError(w, p, h)
  PROVE  /\ Typed'
         /\ <<p, h>> \in host_reads
         /\ host_reads' = host_reads \ {<<p, h>>}
         /\ adb'[p] = [adb[p] EXCEPT !.state = "closed_by_host"]
         /\ pipe'[p] = [pipe[p] EXCEPT !.status = "closed"]
         /\ \A q \in Pipes \ {p} : adb'[q] = adb[q] /\ pipe'[q] = pipe[q]
         /\ UNCHANGED <<server, task, commands, owner, host>>
<1>1. /\ <<p, h>> \in host_reads
      /\ host_reads' = host_reads \ {<<p, h>>}
      /\ adb' = [adb EXCEPT ![p].state = "closed_by_host"]
      /\ pipe' = [pipe EXCEPT ![p].status = "closed"]
      /\ UNCHANGED <<server, task, commands, owner, host>>
  BY DEF OnHostReadError
<1>2. adb[p] \in Processors /\ pipe[p] \in Guests
  BY DEF Typed, Shapes
<1>3. /\ adb' \in [Pipes -> Processors]
      /\ adb'[p] = [adb[p] EXCEPT !.state = "closed_by_host"]
      /\ \A q \in Pipes \ {p} : adb'[q] = adb[q]
  BY <1>1, <1>2 DEF Typed, Shapes, Processors, States
<1>4. /\ pipe' \in [Pipes -> Guests]
      /\ pipe'[p] = [pipe[p] EXCEPT !.status = "closed"]
      /\ \A q \in Pipes \ {p} : pipe'[q] = pipe[q]
  BY <1>1, <1>2 DEF Typed, Shapes, Guests
<1>5. Shapes'
  BY <1>1, <1>3, <1>4 DEF Typed, Shapes, server
<1>6. \A q \in Pipes : adb'[q].messenger = adb[q].messenger /\ HasMessenger(adb'[q])
  <2>1. adb'[p].messenger = adb[p].messenger /\ HasMessenger(adb'[p])
    BY <1>2, <1>3 DEF Processors, HasMessenger
  <2>2. \A q \in Pipes \ {p} : adb'[q].messenger = adb[q].messenger /\ HasMessenger(adb'[q])
    BY <1>3 DEF Typed
  <2> QED BY <2>1, <2>2
<1> QED BY <1>1, <1>3, <1>4, <1>5, <1>6, TypedSameTasks

LEMMA AcceptDoes ==
  ASSUME Typed, NEW w \in Workers, NEW p \in Pipes, Accept(w, p)
  PROVE  /\ Typed'
         /\ pipe[p].status = "none"
         /\ pipe'[p] = [pipe[p] EXCEPT !.status = "open"]
         /\ \A q \in Pipes \ {p} : pipe'[q] = pipe[q]
         /\ task[w] = Idle
         /\ task'[w] = [at |-> "identify", pipe |-> p, data |-> <<>>, host |-> NoHost]
         /\ \A v \in Workers \ {w} : task'[v] = task[v]
         /\ UNCHANGED <<conns, reading, session, host, host_reads>>
<1>1. /\ pipe[p].status = "none" /\ accepting' = FALSE
      /\ pipe' = [pipe EXCEPT ![p].status = "open"]
      /\ Begins(w, "identify", p, <<>>, NoHost)
      /\ UNCHANGED <<conns, reading, session, host, host_reads>>
  BY DEF Accept
<1>2. <<>> \in Seq(Token) /\ "identify" \in Labels
  BY DEF Labels
<1>3. /\ task' \in [Workers -> Tasks] /\ task[w] = Idle
      /\ task'[w] = [at |-> "identify", pipe |-> p, data |-> <<>>, host |-> NoHost]
      /\ \A v \in Workers \ {w} : task'[v] = task[v]
  BY <1>1, <1>2, BeginsDoes
<1>4. /\ pipe' \in [Pipes -> Guests]
      /\ pipe'[p] = [pipe[p] EXCEPT !.status = "open"]
      /\ \A q \in Pipes \ {p} : pipe'[q] = pipe[q]
  BY <1>1 DEF Typed, Shapes, Guests
<1>5. Shapes'
  BY <1>1, <1>3, <1>4 DEF Typed, Shapes, session
<1>6. TaskTyped(task'[w], adb) /\ adb' = adb
  BY <1>1, <1>3 DEF TaskTyped, session
<1>7. Typed'
  BY <1>3, <1>5, <1>6, TypedTask
<1> QED BY <1>1, <1>3, <1>4, <1>7

LEMMA GuestDoes ==
  ASSUME Typed, NEW p \in Pipes, NEW end \in Guests, Guest(p, end)
  PROVE  /\ Typed'
         /\ pipe[p].status = "open"
         /\ pipe'[p] = end
         /\ \A q \in Pipes \ {p} : pipe'[q] = pipe[q]
         /\ UNCHANGED <<server, task, session, host, host_reads>>
<1>1. /\ pipe[p].status = "open"
      /\ pipe' = [pipe EXCEPT ![p] = end]
      /\ UNCHANGED <<server, task, session, host, host_reads>>
  BY DEF Guest
<1>2. /\ pipe' \in [Pipes -> Guests]
      /\ pipe'[p] = end
      /\ \A q \in Pipes \ {p} : pipe'[q] = pipe[q]
  BY <1>1 DEF Typed, Shapes
<1>3. Shapes'
  BY <1>1, <1>2 DEF Typed, Shapes, server, session
<1>4. \A q \in Pipes : adb'[q].messenger = adb[q].messenger /\ HasMessenger(adb'[q])
  BY <1>1 DEF Typed, session
<1> QED BY <1>1, <1>2, <1>3, <1>4, TypedSameTasks

LEMMA GuestNamesDoes ==
  ASSUME Typed, NEW p \in Pipes, GuestNames(p)
  PROVE  /\ Typed'
         /\ ~Named(p)
         /\ \E service \in Services : pipe'[p] = [pipe[p] EXCEPT !.service = service]
         /\ \A q \in Pipes \ {p} : pipe'[q] = pipe[q]
         /\ UNCHANGED <<server, task, session, host, host_reads>>
<1>1. PICK service \in Services : Guest(p, [pipe[p] EXCEPT !.service = service])
  BY DEF GuestNames
<1> DEFINE end == [pipe[p] EXCEPT !.service = service]
<1>2. end \in Guests
  BY DEF Typed, Shapes, Guests
<1>3. ~Named(p)
  BY DEF GuestNames
<1> HIDE DEF end
<1>4. Guest(p, end)
  BY <1>1 DEF end
<1> QED BY <1>2, <1>3, <1>4, GuestDoes DEF end

LEMMA GuestLeavesDoes ==
  ASSUME Typed, NEW p \in Pipes, GuestLeaves(p)
  PROVE  /\ Typed'
         /\ pipe'[p] = [pipe[p] EXCEPT !.status = "left"]
         /\ \A q \in Pipes \ {p} : pipe'[q] = pipe[q]
         /\ UNCHANGED <<server, task, session, host, host_reads>>
<1> DEFINE end == [pipe[p] EXCEPT !.status = "left"]
<1>1. end \in Guests
  BY DEF Typed, Shapes, Guests
<1>2. Guest(p, end)
  BY DEF GuestLeaves
<1> HIDE DEF end
<1> QED BY <1>1, <1>2, GuestDoes DEF end

\* What a guest writes next.
NextBytes(p, bytes) ==
  LET n == pipe[p].written IN
  \/ pipe[p].service = "qemud" /\ n + 1 \in Commands /\ bytes = BytesOf(n + 1)
  \/ pipe[p].service = "adb" /\ n = 0 /\ bytes = accept_command
  \/ pipe[p].service = "adb" /\ n = 1 /\ bytes = start_command
  \/ pipe[p].service = "adb" /\ n > 1 /\ Has(pipe[p].got, "data") /\ bytes = <<Data(0, n - 1)>>

LEMMA GuestWritesNextDoes ==
  ASSUME Typed, NEW p \in Pipes, GuestWritesNext(p)
  PROVE  /\ Typed'
         /\ \E bytes \in Seq(Token) :
              /\ NextBytes(p, bytes)
              /\ pipe'[p] = [pipe[p] EXCEPT !.written = @ + 1, !.unread = @ \o bytes]
         /\ \A q \in Pipes \ {p} : pipe'[q] = pipe[q]
         /\ UNCHANGED <<server, task, session, host, host_reads>>
<1> DEFINE n == pipe[p].written
<1>1. pipe[p] \in Guests /\ n \in Nat
  BY DEF Typed, Shapes, Guests
<1>2. PICK bytes \in Seq(Token) : NextBytes(p, bytes) /\ GuestWrites(p, bytes)
  <2>1. CASE pipe[p].service = "qemud"
    BY <2>1, TokensOk DEF GuestWritesNext, NextBytes
  <2>2. CASE pipe[p].service # "qemud"
    <3>1. \/ n = 0 /\ GuestWrites(p, accept_command)
          \/ n = 1 /\ GuestWrites(p, start_command)
          \/ n > 1 /\ Has(pipe[p].got, "data") /\ GuestWrites(p, <<Data(0, n - 1)>>)
      BY <2>2 DEF GuestWritesNext
    <3>2. pipe[p].service = "adb"
      BY <1>1, <2>2, <3>1 DEF GuestWrites, Named, Guests, Services, Unnamed
    <3>3. n > 1 => <<Data(0, n - 1)>> \in Seq(Token)
      <4> SUFFICES ASSUME n > 1 PROVE <<Data(0, n - 1)>> \in Seq(Token)
        OBVIOUS
      <4>1. n - 1 \in Nat /\ 0 \in Hosts \cup {NoHost}
        BY <1>1 DEF NoHost
      <4>2. Data(0, n - 1) \in Token
        BY <4>1, TokensOk
      <4> QED BY <4>2
    <3> QED BY <3>1, <3>2, <3>3, TokensOk DEF NextBytes
  <2> QED BY <2>1, <2>2
<1> DEFINE more == pipe[p].unread \o bytes
           end == [pipe[p] EXCEPT !.written = @ + 1, !.unread = more]
<1>3. more \in Seq(Token)
  BY <1>1, <1>2 DEF Guests
<1>4. Guest(p, end)
  BY <1>2 DEF GuestWrites
<1> HIDE DEF more
<1>5. end \in Guests
  <2>1. pipe[p].written + 1 \in Nat
    BY <1>1
  <2> QED BY <1>1, <1>3, <2>1 DEF Guests
<1> HIDE DEF end
<1>6. /\ Typed'
      /\ pipe'[p] = end
      /\ \A q \in Pipes \ {p} : pipe'[q] = pipe[q]
      /\ UNCHANGED <<server, task, session, host, host_reads>>
  BY <1>4, <1>5, GuestDoes
<1> QED BY <1>2, <1>6 DEF end, more

LEMMA HostDoes ==
  ASSUME Typed, NEW h \in Hosts, NEW end \in HostEnds, Host(h, end)
  PROVE  /\ Typed'
         /\ host[h].status = "open"
         /\ host'[h] = end
         /\ \A g \in Hosts \ {h} : host'[g] = host[g]
         /\ UNCHANGED <<server, task, session, pipe, host_reads>>
<1>1. /\ host[h].status = "open"
      /\ host' = [host EXCEPT ![h] = end]
      /\ UNCHANGED <<server, task, session, pipe, host_reads>>
  BY DEF Host
<1>2. /\ host' \in [Hosts -> HostEnds]
      /\ host'[h] = end
      /\ \A g \in Hosts \ {h} : host'[g] = host[g]
  BY <1>1 DEF Typed, Shapes
<1>3. Shapes'
  BY <1>1, <1>2 DEF Typed, Shapes, server, session
<1>4. \A q \in Pipes : adb'[q].messenger = adb[q].messenger /\ HasMessenger(adb'[q])
  BY <1>1 DEF Typed, session
<1> QED BY <1>1, <1>2, <1>3, <1>4, TypedSameTasks

LEMMA HostWritesDoes ==
  ASSUME Typed, NEW h \in Hosts, HostWrites(h)
  PROVE  /\ Typed'
         /\ host[h].status = "open"
         /\ host'[h] = [host[h] EXCEPT !.written = @ + 1,
                                       !.unread = Append(@, Data(h, host[h].written + 1))]
         /\ \A g \in Hosts \ {h} : host'[g] = host[g]
         /\ UNCHANGED <<server, task, session, pipe, host_reads>>
<1> DEFINE more == Append(host[h].unread, Data(h, host[h].written + 1))
           end == [host[h] EXCEPT !.written = @ + 1, !.unread = more]
<1>1. host[h] \in HostEnds
  BY DEF Typed, Shapes
<1>2. host[h].unread \in Seq(Token) /\ host[h].written + 1 \in Nat
  BY <1>1 DEF HostEnds
<1>3. Data(h, host[h].written + 1) \in Token
  BY <1>2, TokensOk
<1>4. more \in Seq(Token)
  BY <1>2, <1>3
<1>5. Host(h, end)
  BY DEF HostWrites
<1> HIDE DEF more
<1>6. end \in HostEnds
  BY <1>1, <1>2, <1>4 DEF HostEnds
<1> HIDE DEF end
<1> QED BY <1>5, <1>6, HostDoes DEF end, more

LEMMA HostLeavesDoes ==
  ASSUME Typed, NEW h \in Hosts, HostLeaves(h)
  PROVE  /\ Typed'
         /\ host[h].status = "open"
         /\ host'[h] = [host[h] EXCEPT !.status = "left"]
         /\ \A g \in Hosts \ {h} : host'[g] = host[g]
         /\ UNCHANGED <<server, task, session, pipe, host_reads>>
<1> DEFINE end == [host[h] EXCEPT !.status = "left"]
<1>1. end \in HostEnds
  BY DEF Typed, Shapes, HostEnds
<1>2. Host(h, end)
  BY DEF HostLeaves
<1> HIDE DEF end
<1> QED BY <1>1, <1>2, HostDoes DEF end

LEMMA TypedInit == Init => Typed
<1> SUFFICES ASSUME Init PROVE Typed
  OBVIOUS
<1>1. <<>> \in Seq(Token) /\ <<>> \in Seq(Commands) /\ Idle \in Tasks
  BY DEF Idle, Tasks, Labels
<1>2. task \in [Workers -> Tasks] /\ \A w \in Workers : task[w] = Idle
  BY <1>1 DEF Init
<1>3. pipe \in [Pipes -> Guests]
  BY <1>1 DEF Init, Guests
<1>4. adb \in [Pipes -> Processors] /\ \A p \in Pipes : HasMessenger(adb[p])
  BY <1>1, TokensOk DEF Init, Processors, States, HasMessenger
<1>5. host \in [Hosts -> HostEnds]
  BY <1>1 DEF Init, HostEnds
<1>6. commands \in [Pipes -> Seq(Commands)]
  BY <1>1 DEF Init
<1>7. Shapes
  BY <1>2, <1>3, <1>4, <1>5, <1>6 DEF Init, Shapes
<1> QED BY <1>2, <1>4, <1>7 DEF Typed, TaskTyped, Idle

-----------------------------------------------------------------------------
(* The data being processed *)

LEMMA PendingOne ==
  ASSUME NEW t, NEW w \in Workers, NEW p, Processing(t, w, p),
         \A v \in Workers : Processing(t, v, p) => v = w
  PROVE  PendingIn(t, p) = t[w].data
<1> DEFINE v == CHOOSE v \in Workers : Processing(t, v, p)
<1>1. v \in Workers /\ Processing(t, v, p)
  OBVIOUS
<1>2. v = w
  BY <1>1
<1> QED BY <1>2 DEF PendingIn

LEMMA PendingNone ==
  ASSUME NEW t, NEW p, \A v \in Workers : ~Processing(t, v, p)
  PROVE  PendingIn(t, p) = <<>>
  BY DEF PendingIn

LEMMA PendingSame ==
  ASSUME NEW t, NEW u, NEW p,
         \A w, v \in Workers : Processing(t, w, p) /\ Processing(t, v, p) => w = v,
         \A w \in Workers : /\ Processing(u, w, p) <=> Processing(t, w, p)
                            /\ Processing(t, w, p) => u[w].data = t[w].data
  PROVE  PendingIn(u, p) = PendingIn(t, p)
<1>1. CASE \A v \in Workers : ~Processing(t, v, p)
  BY <1>1, PendingNone
<1>2. ASSUME NEW w \in Workers, Processing(t, w, p)
      PROVE  PendingIn(u, p) = PendingIn(t, p)
  <2>1. PendingIn(t, p) = t[w].data
    BY <1>2, PendingOne
  <2>2. PendingIn(u, p) = u[w].data
    BY <1>2, PendingOne
  <2> QED BY <1>2, <2>1, <2>2
<1> QED BY <1>1, <1>2

\* A worker that processes the data of a connection is alone with it.
LEMMA ProcessesAlone ==
  ASSUME LockInv, NEW p \in Pipes
  PROVE  /\ \A w, v \in Workers : Processing(task, w, p) /\ Processing(task, v, p) => w = v
         /\ \A w, v \in Workers :
              Processing(task, w, p) /\ Busy(v) /\ task[v].pipe = p => v = w
         /\ \A w \in Workers : Processing(task, w, p) => p \notin reading /\ p \in conns
         /\ \A w, v \in Workers :
              At(w, "advance") /\ task[w].pipe = p /\ Busy(v) /\ task[v].pipe = p => v = w
         /\ \A w \in Workers : At(w, "advance") /\ task[w].pipe = p => p \notin reading /\ p \in conns
  BY DEF LockInv, BusyInv, Busy, Processing, At

LEMMA PendingOf ==
  ASSUME LockInv, NEW p \in Pipes, NEW w \in Workers, task[w].pipe = p
  PROVE  /\ At(w, "process") => Pending(p) = task[w].data
         /\ Busy(w) /\ ~At(w, "process") => Pending(p) = <<>>
<1>1. CASE At(w, "process")
  BY <1>1, ProcessesAlone, PendingOne DEF Pending, Processing, At
<1>2. CASE Busy(w) /\ ~At(w, "process")
  BY <1>2, ProcessesAlone, PendingNone DEF Pending, Processing, At
<1> QED BY <1>1, <1>2

LEMMA NothingPending ==
  ASSUME LockInv, NEW p \in Pipes, p \in reading \/ p \notin conns
  PROVE  Pending(p) = <<>>
  BY ProcessesAlone, PendingNone DEF Pending

\* The task of one worker has changed, and it neither began nor ended to process data.
LEMMA PendingKept ==
  ASSUME LockInv, NEW p \in Pipes, NEW w \in Workers,
         \A v \in Workers \ {w} : task'[v] = task[v],
         ~Processing(task, w, p), ~Processing(task', w, p)
  PROVE  Pending(p)' = Pending(p)
<1>1. \A v \in Workers : /\ Processing(task', v, p) <=> Processing(task, v, p)
                         /\ Processing(task, v, p) => task'[v].data = task[v].data
  BY DEF Processing
<1> QED BY <1>1, ProcessesAlone, PendingSame DEF Pending

\* The end of the processing.
LEMMA PendingGone ==
  ASSUME LockInv, NEW p \in Pipes, NEW w \in Workers,
         \A v \in Workers \ {w} : task'[v] = task[v],
         Processing(task, w, p), ~Processing(task', w, p)
  PROVE  Pending(p) = task[w].data /\ Pending(p)' = <<>>
<1>1. Pending(p) = task[w].data
  BY PendingOf DEF Processing, At
<1>2. \A v \in Workers : ~Processing(task', v, p)
  BY ProcessesAlone DEF Processing
<1> QED BY <1>1, <1>2, PendingNone DEF Pending

\* And its begin.
LEMMA PendingBegun ==
  ASSUME LockInv, NEW p \in Pipes, NEW w \in Workers,
         \A v \in Workers \ {w} : task'[v] = task[v],
         p \in reading, Processing(task', w, p)
  PROVE  Pending(p) = <<>> /\ Pending(p)' = task'[w].data
<1>1. Pending(p) = <<>> /\ \A v \in Workers : ~Processing(task, v, p)
  BY NothingPending, ProcessesAlone
<1>2. \A v \in Workers : Processing(task', v, p) => v = w
  BY <1>1 DEF Processing
<1> QED BY <1>1, <1>2, PendingOne DEF Pending

-----------------------------------------------------------------------------
(* What steps for another pipe leave alone *)

\* The step is one of worker w for the pipe p, so the workers of another pipe go on.
LEMMA OtherTasks ==
  ASSUME Typed, NEW w \in Workers, NEW p \in Pipes, NEW q \in Pipes \ {p},
         task[w].pipe = p \/ task[w] = Idle,
         task'[w].pipe = p \/ task'[w] = Idle,
         \A v \in Workers \ {w} : task'[v] = task[v]
  PROVE  \A v \in Workers : task'[v] = task[v] \/ (task[v].pipe # q /\ task'[v].pipe # q)
<1>1. Idle.pipe # q
  BY PipeAssumption DEF Idle
<1> QED BY <1>1

LEMMA SameTasks ==
  ASSUME NEW p \in Pipes, SamePipe(p), LockInv
  PROVE  /\ Pending(p)' = Pending(p)
         /\ Advancing(p)' <=> Advancing(p)
         /\ ForHost(p)' <=> ForHost(p)
         /\ Live(p)' <=> Live(p)
         /\ \A w \in Workers : (At(w, "add") /\ task[w].pipe = p)' =>
              At(w, "add") /\ task[w].pipe = p
<1>1. \A w \in Workers : task'[w] = task[w] \/ (task[w].pipe # p /\ task'[w].pipe # p)
  BY DEF SamePipe
<1>2. \A w \in Workers : /\ Processing(task', w, p) <=> Processing(task, w, p)
                         /\ Processing(task, w, p) => task'[w].data = task[w].data
  BY <1>1 DEF Processing
<1>3. Pending(p)' = Pending(p)
  BY <1>2, ProcessesAlone, PendingSame DEF Pending
<1>4. /\ Advancing(p)' <=> Advancing(p)
      /\ \A w \in Workers : (At(w, "add") /\ task[w].pipe = p)' =>
              At(w, "add") /\ task[w].pipe = p
  BY <1>1 DEF Advancing, At
<1>5. ForHost(p)' <=> ForHost(p)
  BY <1>1 DEF ForHost
<1>6. Live(p)' <=> Live(p)
  <2>1. p \in reading' <=> p \in reading
    BY DEF SamePipe
  <2> QED BY <1>1, <2>1 DEF Live, Busy
<1> QED BY <1>3, <1>4, <1>5, <1>6

LEMMA SameParts ==
  ASSUME NEW p \in Pipes, SamePipe(p), LockInv, ServicePart(p), QemudPart(p)
  PROVE  ServicePart(p)' /\ QemudPart(p)'
<1>1. /\ pipe'[p] = pipe[p] /\ adb'[p] = adb[p] /\ commands'[p] = commands[p]
      /\ p \in conns' <=> p \in conns
      /\ \A h \in Hosts : <<p, h>> \in host_reads' <=> <<p, h>> \in host_reads
  BY DEF SamePipe
<1>2. QemudPart(p)'
  BY <1>1, SameTasks DEF QemudPart
<1>3. Quiet(p)' <=> Quiet(p)
  BY <1>1, SameTasks DEF Quiet
<1>4. ServicePart(p)'
  BY <1>1, <1>3, SameTasks DEF ServicePart, Named
<1> QED BY <1>2, <1>4

-----------------------------------------------------------------------------
(* The stream of the commands *)

LEMMA ConcatParts ==
  ASSUME NEW S, NEW s \in Seq(S), NEW t \in Seq(S)
  PROVE  /\ s \o t \in Seq(S)
         /\ Len(s) \in Nat /\ Len(t) \in Nat /\ Len(s \o t) = Len(s) + Len(t)
         /\ \A i \in 1 .. Len(s) : (s \o t)[i] = s[i]
         /\ \A i \in 1 .. Len(t) : (s \o t)[i + Len(s)] = t[i]
         /\ \A i \in Len(s) + 1 .. Len(s) + Len(t) : (s \o t)[i] = t[i - Len(s)]
  OBVIOUS

LEMMA Appended ==
  ASSUME NEW S, NEW s \in Seq(S), NEW t \in Seq(S), NEW r, r = s \o t
  PROVE  /\ r \in Seq(S) /\ Len(s) \in Nat /\ Len(r) = Len(s) + Len(t)
         /\ \A i \in 1 .. Len(s) : r[i] = s[i]
         /\ \A i \in 1 .. Len(t) : r[i + Len(s)] = t[i]
  OBVIOUS

LEMMA UpToNothing ==
  UpTo(<<>> \o (<<>> \o <<>>), 0, 0) /\ <<>> \in Seq(Bytes)
<1>1. <<>> \o (<<>> \o <<>>) = <<>>
  OBVIOUS
<1>2. UpTo(<<>>, 0, 0)
  BY DEF UpTo, Follows, StartsAfter
<1> QED BY <1>1, <1>2

\* Bytes that move from the unread ones to the data being processed.
LEMMA CutAndJoin ==
  ASSUME NEW S, NEW s \in Seq(S), NEW k \in 1 .. Len(s)
  PROVE  SubSeq(s, 1, k) \o SubSeq(s, k + 1, Len(s)) = <<>> \o s
<1>1. SubSeq(s, 1, k) \o SubSeq(s, k + 1, Len(s)) = SubSeq(s, 1, Len(s))
  <2>1. /\ 1 \in 1 .. Len(s) + 1 /\ k \in 1 - 1 .. Len(s) /\ Len(s) \in k .. Len(s)
    OBVIOUS
  <2> QED BY <2>1, ConcatAdjacentSubSeq
<1>2. SubSeq(s, 1, Len(s)) = s /\ <<>> \o s = s
  BY SubSeqFull, ConcatEmptySeq
<1> QED BY <1>1, <1>2

LEMMA BytesOfIs ==
  ASSUME NEW c \in Commands
  PROVE  /\ BytesOf(c) \in Seq(Bytes)
         /\ Len(BytesOf(c)) = TotalSize(c) /\ TotalSize(c) \in Nat \ {0}
         /\ \A i \in 1 .. TotalSize(c) : BytesOf(c)[i] = <<c, i>>
<1>1. TotalSize(c) \in Nat \ {0}
  BY Sizes
<1> QED BY <1>1, TokensOk DEF BytesOf

\* One more command is written.
LEMMA UpToAppended ==
  ASSUME NEW s \in Seq(Bytes), NEW m \in Nat, NEW n \in Nat, UpTo(s, m, n),
         NEW c, c = n + 1, NEW k, k = TotalSize(c), k \in Nat \ {0},
         NEW t \in Seq(Bytes), Len(t) = k, \A i \in 1 .. k : t[i] = <<c, i>>,
         NEW r, r = s \o t
  PROVE  UpTo(r, m, c)
<1>2. /\ r \in Seq(Bytes) /\ Len(r) = Len(s) + k /\ Len(s) \in Nat
      /\ \A i \in 1 .. Len(s) : r[i] = s[i]
      /\ \A i \in 1 .. k : r[i + Len(s)] = <<c, i>>
  <2>1. /\ r \in Seq(Bytes) /\ Len(s) \in Nat /\ Len(r) = Len(s) + Len(t)
        /\ \A i \in 1 .. Len(s) : r[i] = s[i]
        /\ \A i \in 1 .. Len(t) : r[i + Len(s)] = t[i]
    <3>1. r \in Seq(Bytes)
      BY Appended
    <3>2. Len(s) \in Nat
      BY Appended
    <3>3. Len(r) = Len(s) + Len(t)
      BY <3>1, <3>2, Appended
    <3>4. \A i \in 1 .. Len(s) : r[i] = s[i]
      BY Appended
    <3>5. \A i \in 1 .. Len(t) : r[i + Len(s)] = t[i]
      BY Appended
    <3> QED BY <3>1, <3>2, <3>3, <3>4, <3>5
  <2>2. Len(t) = k
    OBVIOUS
  <2>3. \A i \in 1 .. k : r[i + Len(s)] = <<c, i>>
    <3> TAKE i \in 1 .. k
    <3>1. r[i + Len(s)] = t[i] /\ t[i] = <<c, i>>
      BY <2>1, <2>2
    <3> QED BY <3>1
  <2> QED BY <2>1, <2>2, <2>3
<1>3. /\ Follows(s) /\ StartsAfter(s, m)
      /\ s = <<>> => m = n
      /\ s # <<>> => s[Len(s)] = <<n, TotalSize(n)>>
      /\ \A i \in 1 .. Len(s) : s[i][1] <= n
  BY DEF UpTo
<1>4. Follows(r)
  <2> SUFFICES ASSUME NEW i \in 1 .. Len(r) - 1 PROVE r[i + 1] = After(r[i])
    BY DEF Follows
  <2>1. CASE i < Len(s)
    <3>1. i \in 1 .. Len(s) - 1 /\ i \in 1 .. Len(s) /\ i + 1 \in 1 .. Len(s)
      BY <1>2, <2>1
    <3> QED BY <3>1, <1>2, <1>3 DEF Follows
  <2>2. CASE i = Len(s)
    <3>1. s # <<>> /\ r[i] = <<n, TotalSize(n)>>
      BY <1>2, <1>3, <2>2
    <3>2. r[i + 1] = <<n + 1, 1>>
      <4>1. 1 \in 1 .. k /\ i + 1 = 1 + Len(s)
        BY <1>2, <2>2
      <4> QED BY <4>1, <1>2
    <3>3. s[Len(s)][1] \in Commands /\ s[Len(s)] = <<n, TotalSize(n)>>
      BY <3>1, <1>3, OfBytes
    <3>4. TotalSize(n) \in Nat
      BY <3>3, Sizes
    <3> QED BY <3>1, <3>2, <3>4 DEF After
  <2>3. CASE i > Len(s)
    <3> DEFINE j == i - Len(s)
    <3>1. j \in 1 .. k - 1 /\ j \in 1 .. k /\ j + 1 \in 1 .. k /\ i = j + Len(s) /\ i + 1 = (j + 1) + Len(s)
      BY <1>2, <2>3
    <3>2. r[i] = <<c, j>> /\ r[i + 1] = <<c, j + 1>>
      <4> HIDE DEF j
      <4> QED BY <3>1, <1>2
    <3>3. j < k
      <4> HIDE DEF j
      <4> QED BY <3>1
    <3> HIDE DEF j
    <3> QED BY <3>2, <3>3 DEF After
  <2>4. i \in Int /\ Len(s) \in Int
    BY <1>2
  <2> QED BY <2>1, <2>2, <2>3, <2>4
<1>5. StartsAfter(r, m)
  <2>1. CASE s = <<>>
    <3>1. 1 \in 1 .. k /\ r[1 + Len(s)] = <<c, 1>> /\ 1 + Len(s) = 1
      BY <1>2, <2>1
    <3> QED BY <3>1, <2>1, <1>3 DEF StartsAfter
  <2>2. CASE s # <<>>
    <3>1. r[1] = s[1]
      BY <1>2, <2>2
    <3> QED BY <3>1, <2>2, <1>3 DEF StartsAfter
  <2> QED BY <2>1, <2>2
<1>6. r # <<>> /\ r[Len(r)] = <<c, TotalSize(c)>>
  <2>1. k \in 1 .. k /\ Len(r) = k + Len(s) /\ Len(r) > 0
    BY <1>2
  <2> QED BY <2>1, <1>2
<1>7. ASSUME NEW i \in 1 .. Len(r) PROVE r[i][1] <= c
  <2>1. CASE i <= Len(s)
    <3>1. i \in 1 .. Len(s) /\ s[i][1] <= n
      BY <1>2, <1>3, <2>1
    <3>2. s[i][1] \in Nat
      BY <3>1, OfBytes, Sizes
    <3> QED BY <3>1, <3>2, <1>2
  <2>2. CASE i > Len(s)
    <3>1. i - Len(s) \in 1 .. k /\ i = (i - Len(s)) + Len(s)
      BY <1>2, <2>2
    <3>2. r[i] = <<c, i - Len(s)>>
      BY <3>1, <1>2
    <3> QED BY <3>2
  <2> QED BY <1>2, <2>1, <2>2
<1> QED BY <1>4, <1>5, <1>6, <1>7 DEF UpTo

LEMMA UpToNext ==
  ASSUME NEW s \in Seq(Bytes), NEW m \in Nat, NEW n \in Nat, n + 1 \in Commands,
         UpTo(s, m, n)
  PROVE  UpTo(s \o BytesOf(n + 1), m, n + 1)
  BY BytesOfIs, UpToAppended, Zenon

\* The commands at the begin of the stream are handled.
LEMMA UpToRest ==
  ASSUME NEW b \in Seq(Bytes), b # <<>>, NEW u \in Seq(Bytes), NEW m \in Nat, NEW n \in Nat,
         UpTo(b \o u, m, n), NEW result, HandlesFrom(b, m, result)
  PROVE  UpTo(result.buffer \o u, m + Len(result.handled), n)
<1> DEFINE s == b \o u
           l == result.buffer
           r == l \o u
           k == Len(b) - Len(l)
           c == m + Len(result.handled)
<1>1. /\ l \in Seq(Bytes) /\ Len(l) <= Len(b)
      /\ \A i \in 1 .. Len(l) : l[i] = b[i + k]
      /\ StartsAfter(l, c)
      /\ b # <<>> /\ l = <<>> => b[Len(b)] = <<c, TotalSize(c)>>
      /\ result.handled \in Seq(Commands)
  BY DEF HandlesFrom
<1>2. /\ s \in Seq(Bytes) /\ Len(s) = Len(b) + Len(u)
      /\ \A i \in 1 .. Len(b) : s[i] = b[i]
      /\ \A i \in Len(b) + 1 .. Len(b) + Len(u) : s[i] = u[i - Len(b)]
  BY ConcatParts
<1> HIDE DEF l
<1>3. /\ r \in Seq(Bytes) /\ Len(r) = Len(l) + Len(u)
      /\ \A i \in 1 .. Len(l) : r[i] = l[i]
      /\ \A i \in Len(l) + 1 .. Len(l) + Len(u) : r[i] = u[i - Len(l)]
  BY <1>1, ConcatParts
<1> HIDE DEF s, r
<1>4. Len(b) \in Nat /\ Len(u) \in Nat /\ Len(l) \in Nat /\ k \in Nat /\ k = Len(b) - Len(l)
      /\ Len(s) = Len(r) + k
  BY <1>1, <1>2, <1>3
<1> HIDE DEF k
<1>5. ASSUME NEW i \in 1 .. Len(r) PROVE r[i] = s[i + k] /\ i + k \in 1 .. Len(s)
  <2>1. CASE i <= Len(l)
    <3>1. i \in 1 .. Len(l) /\ i + k \in 1 .. Len(b) /\ i + k \in 1 .. Len(s)
      BY <1>3, <1>4, <2>1
    <3>2. r[i] = l[i] /\ s[i + k] = b[i + k]
      BY <3>1, <1>2, <1>3
    <3>3. l[i] = b[i + k]
      BY <3>1, <1>1, <1>4
    <3> QED BY <3>1, <3>2, <3>3
  <2>2. CASE i > Len(l)
    <3>1. /\ i \in Len(l) + 1 .. Len(l) + Len(u) /\ i + k \in Len(b) + 1 .. Len(b) + Len(u)
          /\ (i + k) - Len(b) = i - Len(l) /\ i + k \in 1 .. Len(s)
      BY <1>2, <1>3, <1>4, <2>2
    <3>2. r[i] = u[i - Len(l)] /\ s[i + k] = u[(i + k) - Len(b)]
      BY <3>1, <1>2, <1>3
    <3> QED BY <3>1, <3>2
  <2> QED BY <1>3, <1>4, <2>1, <2>2
<1>6. /\ Follows(s) /\ StartsAfter(s, m)
      /\ s = <<>> => m = n
      /\ s # <<>> => s[Len(s)] = <<n, TotalSize(n)>>
      /\ \A i \in 1 .. Len(s) : s[i][1] <= n
  BY DEF UpTo, s
<1>7. Follows(r)
  <2> SUFFICES ASSUME NEW i \in 1 .. Len(r) - 1 PROVE r[i + 1] = After(r[i])
    BY DEF Follows
  <2>1. i \in 1 .. Len(r) /\ i + 1 \in 1 .. Len(r) /\ i + k \in 1 .. Len(s) - 1
        /\ (i + 1) + k = (i + k) + 1
    BY <1>3, <1>4
  <2> QED BY <2>1, <1>5, <1>6 DEF Follows
<1>8. c \in Nat
  BY <1>1
<1>9. b # <<>> /\ l = <<>> => c \in Nat /\ TotalSize(c) \in Nat
  <2> SUFFICES ASSUME b # <<>>, l = <<>> PROVE TotalSize(c) \in Nat
    BY <1>8
  <2>1. Len(b) \in 1 .. Len(b) /\ b[Len(b)] = <<c, TotalSize(c)>>
    BY <1>1, <1>4
  <2>2. c \in Commands
    <3> HIDE DEF c
    <3> QED BY <2>1, OfBytes
  <2> QED BY <2>2, Sizes
<1>10. StartsAfter(r, c)
  <2> SUFFICES ASSUME r # <<>> PROVE r[1] = <<c + 1, 1>>
    BY DEF StartsAfter
  <2>1. CASE l # <<>>
    <3>1. r[1] = l[1]
      BY <2>1, <1>1, <1>3, <1>4
    <3> QED BY <3>1, <2>1, <1>1 DEF StartsAfter
  <2>2. CASE l = <<>> /\ b # <<>>
    <3>1. k = Len(b) /\ Len(b) \in 1 .. Len(s) - 1 /\ Len(b) \in 1 .. Len(b)
          /\ 1 \in 1 .. Len(r)
      BY <2>2, <1>2, <1>3, <1>4
    <3>2. r[1] = s[1 + k] /\ s[k + 1] = After(s[k]) /\ s[k] = b[Len(b)]
      BY <3>1, <1>2, <1>5, <1>6 DEF Follows
    <3>3. r[1] = After(b[Len(b)]) /\ b[Len(b)] = <<c, TotalSize(c)>>
      BY <3>1, <3>2, <2>2, <1>1
    <3> HIDE DEF c
    <3> QED BY <3>3, <1>9, <2>2 DEF After
  <2> QED BY <2>1, <2>2
<1>11. IF r = <<>> THEN c = n ELSE r[Len(r)] = <<n, TotalSize(n)>>
  <2>1. s # <<>> /\ s[Len(s)] = <<n, TotalSize(n)>>
    BY <1>2, <1>4, <1>6
  <2>2. CASE r = <<>>
    <3>1. l = <<>> /\ Len(s) = Len(b) /\ Len(b) \in 1 .. Len(b)
      BY <2>2, <1>1, <1>2, <1>3, <1>4
    <3>2. s[Len(s)] = b[Len(b)]
      BY <3>1, <1>2
    <3>3. b[Len(b)] = <<c, TotalSize(c)>>
      BY <3>1, <1>1
    <3> HIDE DEF c
    <3>4. c = n
      BY <2>1, <3>2, <3>3
    <3> QED BY <3>4, <2>2
  <2>3. CASE r # <<>>
    <3>1. Len(r) \in 1 .. Len(r) /\ Len(r) + k = Len(s)
      BY <2>3, <1>3, <1>4
    <3> QED BY <3>1, <2>1, <2>3, <1>5
  <2> QED BY <2>2, <2>3
<1>12. \A i \in 1 .. Len(r) : r[i][1] <= n
  BY <1>5, <1>6
<1> HIDE DEF c
<1>13. UpTo(r, c, n)
  BY <1>7, <1>10, <1>11, <1>12 DEF UpTo
<1> QED BY <1>13 DEF r, l, c

-----------------------------------------------------------------------------
(* The commands in order *)

OrderInv == Typed /\ LockInv /\ ServiceInv /\ QemudInv

LEMMA OnlyOne ==
  ASSUME Typed, NEW w \in Workers, NEW p \in Pipes,
         task[w].pipe = p \/ task[w] = Idle,
         task'[w].pipe = p \/ task'[w] = Idle,
         \A v \in Workers \ {w} : task'[v] = task[v],
         \A q \in Pipes \ {p} :
           /\ pipe'[q] = pipe[q] /\ adb'[q] = adb[q] /\ commands'[q] = commands[q]
           /\ q \in conns' <=> q \in conns
           /\ q \in reading' <=> q \in reading
           /\ \A h \in Hosts : <<q, h>> \in host_reads' <=> <<q, h>> \in host_reads
  PROVE  Only(p)
<1> SUFFICES ASSUME NEW q \in Pipes \ {p} PROVE SamePipe(q)
  BY DEF Only
<1>1. \A v \in Workers : task'[v] = task[v] \/ (task[v].pipe # q /\ task'[v].pipe # q)
  BY OtherTasks
<1> QED BY <1>1 DEF SamePipe

LEMMA OnePart ==
  ASSUME OrderInv, NEW p \in Pipes, Only(p), ServicePart(p)', QemudPart(p)'
  PROVE  ServiceInv' /\ QemudInv'
<1>1. ASSUME NEW q \in Pipes PROVE ServicePart(q)' /\ QemudPart(q)'
  <2>1. CASE q = p
    BY <2>1
  <2>2. CASE q # p
    <3>1. SamePipe(q)
      BY <2>2 DEF Only
    <3> QED BY <3>1, SameParts DEF OrderInv, ServiceInv, QemudInv
  <2> QED BY <2>1, <2>2
<1> QED BY <1>1 DEF ServiceInv, QemudInv

LEMMA EachPartSame ==
  ASSUME OrderInv, \A p \in Pipes : SamePipe(p)
  PROVE  ServiceInv' /\ QemudInv'
<1>1. ASSUME NEW q \in Pipes PROVE ServicePart(q)' /\ QemudPart(q)'
  BY SameParts DEF OrderInv, ServiceInv, QemudInv
<1> QED BY <1>1 DEF ServiceInv, QemudInv

\* A step of a session with adbd: the commands of qemud have no part in it.
LEMMA AdbParts ==
  ASSUME NEW p \in Pipes, QemudPart(p), pipe[p].service = "adb", pipe'[p].service = "adb",
         commands'[p] = commands[p]
  PROVE  ServicePart(p)' /\ QemudPart(p)'
<1>1. QemudPart(p)'
  BY DEF QemudPart
<1>2. ServicePart(p)'
  BY DEF ServicePart, Named, Unnamed
<1> QED BY <1>1, <1>2

LEMMA StreamKept ==
  ASSUME NEW p \in Pipes, QemudPart(p),
         adb'[p].buffer = adb[p].buffer, commands'[p] = commands[p],
         pipe'[p].service = pipe[p].service, pipe'[p].written = pipe[p].written,
         pipe'[p].unread = pipe[p].unread, Pending(p)' = Pending(p)
  PROVE  QemudPart(p)'
  BY DEF QemudPart

\* A worker that neither waits for a host nor advances the state of a session.
LEMMA CalmTask ==
  ASSUME NEW w \in Workers, \A v \in Workers \ {w} : task'[v] = task[v],
         task'[w].at \notin HostLabels \cup {"advance"}, NEW p \in Pipes
  PROVE  /\ Advancing(p)' => Advancing(p)
         /\ ForHost(p)' => ForHost(p)
<1>1. Advancing(p)' => Advancing(p)
  BY DEF Advancing, At
<1>2. ForHost(p)' => ForHost(p)
  BY DEF ForHost
<1> QED BY <1>1, <1>2

LEMMA ServiceKept ==
  ASSUME NEW p \in Pipes, ServicePart(p),
         NEW w \in Workers, \A v \in Workers \ {w} : task'[v] = task[v],
         task'[w].at \notin HostLabels \cup {"advance"},
         task'[w].at = "add" => Named(p),
         p \in conns' => p \in conns \/ Named(p),
         \A h \in Hosts : <<p, h>> \in host_reads' => <<p, h>> \in host_reads,
         adb'[p].buffer = adb[p].buffer,
         adb'[p].expected_command = adb[p].expected_command,
         adb'[p].connector \in {adb[p].connector, "none"},
         adb'[p].messenger = adb[p].messenger,
         adb'[p].state \in {adb[p].state, "closed_by_host"},
         commands'[p] = commands[p],
         pipe'[p].service = pipe[p].service, pipe'[p].written = pipe[p].written,
         pipe'[p].unread = pipe[p].unread, pipe'[p].got = pipe[p].got
  PROVE  ServicePart(p)'
<1>1. Named(p)' <=> Named(p)
  BY DEF Named
<1>2. p \in conns' => Named(p)'
  BY <1>1 DEF ServicePart
<1>3. \A v \in Workers : (At(v, "add") /\ task[v].pipe = p)' => Named(p)'
  BY <1>1 DEF ServicePart, At
<1>4. (Advancing(p)' => Advancing(p)) /\ (ForHost(p)' => ForHost(p))
  BY CalmTask
<1>5. Quiet(p) => Quiet(p)'
  BY <1>4 DEF Quiet
<1> QED BY <1>2, <1>3, <1>4, <1>5 DEF ServicePart

LEMMA AdbOnly ==
  ASSUME OrderInv, NEW p \in Pipes,
         \/ adb[p].connector # "none"
         \/ Advancing(p)
         \/ ForHost(p)
         \/ \E h \in Hosts : <<p, h>> \in host_reads
  PROVE  pipe[p].service = "adb"
  BY DEF OrderInv, ServiceInv, ServicePart, Quiet

LEMMA TouchesAdb ==
  ASSUME OrderInv, NEW p \in Pipes, Only(p),
         pipe[p].service = "adb", pipe'[p].service = "adb", commands'[p] = commands[p]
  PROVE  ServiceInv' /\ QemudInv'
<1>1. QemudPart(p)
  BY DEF OrderInv, QemudInv
<1> QED BY <1>1, AdbParts, OnePart

Associates(s, t, u) == s \o t \in Seq(Bytes) /\ (s \o t) \o u = s \o (t \o u)

Joins(b, d, u, t) ==
  /\ b \o (d \o u) \in Seq(Bytes) /\ u \o t \in Seq(Bytes)
  /\ (b \o (d \o u)) \o t = b \o (d \o (u \o t))

LEMMA Associative == \A s, t, u \in Seq(Bytes) : Associates(s, t, u)
BY ConcatAssociative DEF Associates

LEMMA Joined == \A b, d, u, t \in Seq(Bytes) : Joins(b, d, u, t)
<1> TAKE b, d, u, t \in Seq(Bytes)
<1>1. Associates(d, u, t) /\ Associates(u, t, b)
  BY Associative
<1>2. Associates(b, d \o u, t)
  <2>1. d \o u \in Seq(Bytes)
    BY <1>1 DEF Associates
  <2> QED BY <2>1, Associative
<1>3. Associates(b \o (d \o u), t, b)
  <2>1. b \o (d \o u) \in Seq(Bytes)
    BY <1>2 DEF Associates
  <2> QED BY <2>1, Associative
<1> QED BY <1>1, <1>2, <1>3, Zenon DEF Associates, Joins

LEMMA StreamJoined ==
  ASSUME NEW b \in Seq(Bytes), NEW d \in Seq(Bytes), NEW u \in Seq(Bytes), NEW t \in Seq(Bytes),
         NEW m, NEW c
  PROVE  UpTo((b \o (d \o u)) \o t, m, c) => UpTo(b \o (d \o (u \o t)), m, c)
<1>1. Joins(b, d, u, t)
  BY Joined
<1>2. (b \o (d \o u)) \o t = b \o (d \o (u \o t))
  BY <1>1, Zenon DEF Joins
<1> QED BY <1>2, Zenon

LEMMA StreamNext ==
  ASSUME NEW b \in Seq(Bytes), NEW d \in Seq(Bytes), NEW u \in Seq(Bytes),
         NEW m \in Nat, NEW n \in Nat, NEW c, c = n + 1, c \in Commands,
         UpTo(b \o (d \o u), m, n), NEW t, t = BytesOf(c)
  PROVE  /\ u \o t \in Seq(Bytes)
         /\ UpTo(b \o (d \o (u \o t)), m, c)
<1>1. t \in Seq(Bytes)
  BY BytesOfIs
<1>2. Joins(b, d, u, t)
  BY <1>1, Joined
<1> DEFINE s == b \o (d \o u)
<1>3. s \in Seq(Bytes) /\ u \o t \in Seq(Bytes)
  BY <1>2, Zenon DEF Joins
<1>4. UpTo(s, m, n)
  OBVIOUS
<1> HIDE DEF s
<1>5. UpTo(s \o t, m, c)
  BY <1>3, <1>4, UpToNext
<1>6. UpTo(b \o (d \o (u \o t)), m, c)
  BY <1>1, <1>5, StreamJoined, Zenon DEF s
<1> QED BY <1>3, <1>6

-----------------------------------------------------------------------------
(* The steps that do not touch the commands of a session, and those that move its bytes *)

LEMMA IdentifyClientOrder ==
  ASSUME OrderInv, NEW w \in Workers, IdentifyClient(w)
  PROVE  Typed' /\ ServiceInv' /\ QemudInv'
<1> Typed /\ LockInv
  BY DEF OrderInv
<1>0. PICK p \in Pipes : p = task[w].pipe
  BY IdentifyClientDoes
<1>1. /\ Typed'
      /\ p \in Pipes /\ At(w, "identify") /\ Named(p)
      /\ task'[w] = [task[w] EXCEPT !.at = "add"]
      /\ \A v \in Workers \ {w} : task'[v] = task[v]
      /\ UNCHANGED <<server, session, ends, host_reads>>
  BY <1>0, IdentifyClientDoes
<1>2. task'[w].at = "add" /\ task'[w].pipe = p
  BY <1>0, <1>1 DEF Typed, Shapes, Tasks
<1>3. Only(p)
  BY <1>0, <1>1, <1>2, OnlyOne DEF server, session, ends
<1>4. ServicePart(p) /\ QemudPart(p)
  BY <1>1 DEF OrderInv, ServiceInv, QemudInv
<1>5. Pending(p)' = Pending(p)
  BY <1>0, <1>1, <1>2, PendingKept DEF Processing, At
<1>6. QemudPart(p)'
  BY <1>1, <1>4, <1>5, StreamKept DEF session, ends
<1>7. ServicePart(p)'
  BY <1>0, <1>1, <1>2, <1>4, ServiceKept DEF session, ends, server, HostLabels
<1> QED BY <1>1, <1>3, <1>6, <1>7, OnePart

LEMMA AddConnectionOrder ==
  ASSUME OrderInv, NEW w \in Workers, AddConnection(w)
  PROVE  Typed' /\ ServiceInv' /\ QemudInv'
<1> Typed /\ LockInv
  BY DEF OrderInv
<1>0. PICK p \in Pipes : p = task[w].pipe
  BY AddConnectionDoes
<1>1. /\ Typed'
      /\ p \in Pipes /\ At(w, "add")
      /\ conns' = conns \cup {p}
      /\ task'[w] = [task[w] EXCEPT !.at = "first_read"]
      /\ \A v \in Workers \ {w} : task'[v] = task[v]
      /\ UNCHANGED <<accepting, reading, session, ends, host_reads>>
  BY <1>0, AddConnectionDoes
<1>2. task'[w].at = "first_read" /\ task'[w].pipe = p
  BY <1>0, <1>1 DEF Typed, Shapes, Tasks
<1>3. ServicePart(p) /\ QemudPart(p)
  BY <1>1 DEF OrderInv, ServiceInv, QemudInv
<1>4. Named(p)
  BY <1>0, <1>1, <1>3 DEF ServicePart
<1>5. Only(p)
  BY <1>0, <1>1, <1>2, OnlyOne DEF session, ends
<1>6. Pending(p)' = Pending(p)
  BY <1>0, <1>1, <1>2, PendingKept DEF Processing, At
<1>7. QemudPart(p)'
  BY <1>1, <1>3, <1>6, StreamKept DEF session, ends
<1>8. ServicePart(p)'
  BY <1>0, <1>1, <1>2, <1>3, <1>4, ServiceKept DEF session, ends, HostLabels
<1> QED BY <1>1, <1>5, <1>7, <1>8, OnePart

LEMMA ReadNextMessageOrder ==
  ASSUME OrderInv, NEW w \in Workers, ReadNextMessage(w)
  PROVE  Typed' /\ ServiceInv' /\ QemudInv'
<1> Typed /\ LockInv
  BY DEF OrderInv
<1>0. PICK p \in Pipes : p = task[w].pipe
  BY ReadNextMessageDoes
<1>1. /\ Typed'
      /\ p \in Pipes /\ (At(w, "read_next") \/ At(w, "first_read"))
      /\ reading' = reading \cup {p}
      /\ task'[w] = Idle
      /\ \A v \in Workers \ {w} : task'[v] = task[v]
      /\ UNCHANGED <<conns, session, ends, host_reads>>
  BY <1>0, ReadNextMessageDoes
<1>2. task'[w].at = "idle"
  BY <1>1 DEF Idle
<1>3. ServicePart(p) /\ QemudPart(p)
  BY <1>1 DEF OrderInv, ServiceInv, QemudInv
<1>4. Only(p)
  BY <1>0, <1>1, OnlyOne DEF session, ends
<1>5. Pending(p)' = Pending(p)
  BY <1>0, <1>1, <1>2, PendingKept DEF Processing, At
<1>6. QemudPart(p)'
  BY <1>1, <1>3, <1>5, StreamKept DEF session, ends
<1>7. ServicePart(p)'
  BY <1>0, <1>1, <1>2, <1>3, ServiceKept DEF session, ends, HostLabels
<1> QED BY <1>1, <1>4, <1>6, <1>7, OnePart

LEMMA ReadErrorOrder ==
  ASSUME OrderInv, NEW w \in Workers, NEW p \in Pipes, ReadError(w, p)
  PROVE  Typed' /\ ServiceInv' /\ QemudInv'
<1> Typed /\ LockInv
  BY DEF OrderInv
<1>1. /\ Typed'
      /\ p \in reading /\ task[w] = Idle
      /\ reading' = reading \ {p}
      /\ task'[w] = [at |-> "remove", pipe |-> p, data |-> <<>>, host |-> NoHost]
      /\ \A v \in Workers \ {w} : task'[v] = task[v]
      /\ UNCHANGED <<conns, session, ends, host_reads>>
  BY ReadErrorDoes
<1>2. task[w].at = "idle" /\ task'[w].at = "remove" /\ task'[w].pipe = p
  BY <1>1 DEF Idle
<1>3. ServicePart(p) /\ QemudPart(p)
  BY <1>1 DEF OrderInv, ServiceInv, QemudInv
<1>4. Only(p)
  BY <1>1, <1>2, OnlyOne DEF session, ends
<1>5. Pending(p)' = Pending(p)
  BY <1>1, <1>2, PendingKept DEF Processing
<1>6. QemudPart(p)'
  BY <1>1, <1>3, <1>5, StreamKept DEF session, ends
<1>7. ServicePart(p)'
  BY <1>1, <1>2, <1>3, ServiceKept DEF session, ends, HostLabels
<1> QED BY <1>1, <1>4, <1>6, <1>7, OnePart

LEMMA RemoveConnectionOrder ==
  ASSUME OrderInv, NEW w \in Workers, RemoveConnection(w)
  PROVE  Typed' /\ ServiceInv' /\ QemudInv'
<1> Typed /\ LockInv
  BY DEF OrderInv
<1>0. PICK p \in Pipes : p = task[w].pipe
  BY RemoveConnectionDoes
<1>1. /\ Typed'
      /\ p \in Pipes /\ At(w, "remove")
      /\ conns' = conns \ {p}
      /\ adb'[p] = [adb[p] EXCEPT !.state = "closed_by_host", !.connector = "none"]
      /\ pipe'[p] = [pipe[p] EXCEPT !.status = "closed"]
      /\ \A q \in Pipes \ {p} : adb'[q] = adb[q] /\ pipe'[q] = pipe[q]
      /\ host_reads' = host_reads \ ({p} \X Hosts)
      /\ task'[w] = Idle
      /\ \A v \in Workers \ {w} : task'[v] = task[v]
      /\ UNCHANGED <<reading, commands>>
  BY <1>0, RemoveConnectionDoes
<1>2. task'[w].at = "idle"
  BY <1>1 DEF Idle
<1>3. ServicePart(p) /\ QemudPart(p)
  BY <1>1 DEF OrderInv, ServiceInv, QemudInv
<1>4. Only(p)
  BY <1>0, <1>1, OnlyOne
<1>5. Pending(p)' = Pending(p)
  BY <1>0, <1>1, <1>2, PendingKept DEF Processing, At
<1>6. adb[p] \in Processors /\ pipe[p] \in Guests
  BY <1>1 DEF Typed, Shapes
<1>7. /\ adb'[p].buffer = adb[p].buffer /\ adb'[p].messenger = adb[p].messenger
      /\ adb'[p].expected_command = adb[p].expected_command
      /\ adb'[p].connector = "none" /\ adb'[p].state = "closed_by_host"
      /\ pipe'[p].service = pipe[p].service /\ pipe'[p].written = pipe[p].written
      /\ pipe'[p].unread = pipe[p].unread /\ pipe'[p].got = pipe[p].got
  BY <1>1, <1>6 DEF Processors, Guests
<1>8. QemudPart(p)'
  BY <1>1, <1>3, <1>5, <1>7, StreamKept
<1>9. ServicePart(p)'
  BY <1>0, <1>1, <1>2, <1>3, <1>7, ServiceKept DEF HostLabels
<1> QED BY <1>1, <1>4, <1>8, <1>9, OnePart

LEMMA AcceptOrder ==
  ASSUME OrderInv, NEW w \in Workers, NEW p \in Pipes, Accept(w, p)
  PROVE  Typed' /\ ServiceInv' /\ QemudInv'
<1> Typed /\ LockInv
  BY DEF OrderInv
<1>1. /\ Typed'
      /\ pipe'[p] = [pipe[p] EXCEPT !.status = "open"]
      /\ \A q \in Pipes \ {p} : pipe'[q] = pipe[q]
      /\ task[w] = Idle
      /\ task'[w] = [at |-> "identify", pipe |-> p, data |-> <<>>, host |-> NoHost]
      /\ \A v \in Workers \ {w} : task'[v] = task[v]
      /\ UNCHANGED <<conns, reading, session, host, host_reads>>
  BY AcceptDoes
<1>2. task[w].at = "idle" /\ task'[w].at = "identify" /\ task'[w].pipe = p
  BY <1>1 DEF Idle
<1>3. ServicePart(p) /\ QemudPart(p)
  BY <1>1 DEF OrderInv, ServiceInv, QemudInv
<1>4. Only(p)
  BY <1>1, <1>2, OnlyOne DEF session
<1>5. Pending(p)' = Pending(p)
  BY <1>1, <1>2, PendingKept DEF Processing
<1>6. pipe[p] \in Guests
  BY DEF Typed, Shapes
<1>7. /\ pipe'[p].service = pipe[p].service /\ pipe'[p].written = pipe[p].written
      /\ pipe'[p].unread = pipe[p].unread /\ pipe'[p].got = pipe[p].got
  BY <1>1, <1>6 DEF Guests
<1>8. QemudPart(p)'
  BY <1>1, <1>3, <1>5, <1>7, StreamKept DEF session
<1>9. ServicePart(p)'
  BY <1>1, <1>2, <1>3, <1>7, ServiceKept DEF session, HostLabels
<1> QED BY <1>1, <1>4, <1>8, <1>9, OnePart

LEMMA ProxyDataOrder ==
  ASSUME OrderInv, NEW w \in Workers, NEW p \in Pipes, ProxyData(w, p)
  PROVE  Typed' /\ ServiceInv' /\ QemudInv'
<1> Typed /\ LockInv
  BY DEF OrderInv
<1>1. /\ Typed'
      /\ p = task[w].pipe /\ pipe[p].service = "adb"
      /\ task'[w] = [task[w] EXCEPT !.at = "read_next"]
      /\ \A v \in Workers \ {w} : task'[v] = task[v]
      /\ UNCHANGED <<server, session, pipe, host_reads>>
  BY ProxyDataDoes
<1>2. task'[w].pipe = p
  BY <1>1 DEF Typed, Shapes, Tasks
<1>3. Only(p)
  BY <1>1, <1>2, OnlyOne DEF server, session
<1> QED BY <1>1, <1>3, TouchesAdb DEF session

LEMMA ProxyThrowsOrder ==
  ASSUME OrderInv, NEW w \in Workers, NEW p \in Pipes, ProxyThrows(w, p)
  PROVE  Typed' /\ ServiceInv' /\ QemudInv'
<1> Typed /\ LockInv
  BY DEF OrderInv
<1>1. /\ Typed'
      /\ p = task[w].pipe /\ pipe[p].service = "adb"
      /\ task'[w] = Idle
      /\ \A v \in Workers \ {w} : task'[v] = task[v]
      /\ UNCHANGED <<server, session, ends, host_reads>>
  BY ProxyThrowsDoes
<1>2. Only(p)
  BY <1>1, OnlyOne DEF server, session, ends
<1> QED BY <1>1, <1>2, TouchesAdb DEF session, ends

LEMMA CollectCommandOrder ==
  ASSUME OrderInv, NEW w \in Workers, NEW p \in Pipes, CollectCommand(w, p)
  PROVE  Typed' /\ ServiceInv' /\ QemudInv'
<1> Typed /\ LockInv
  BY DEF OrderInv
<1>1. PICK label \in {"read_next", "remove", "advance"} :
        task'[w] = [task[w] EXCEPT !.at = label]
  BY CollectCommandDoes
<1>2. /\ Typed'
      /\ p = task[w].pipe /\ pipe[p].service = "adb"
      /\ \A q \in Pipes \ {p} : adb'[q] = adb[q]
      /\ \A v \in Workers \ {w} : task'[v] = task[v]
      /\ UNCHANGED <<server, commands, owner, ends, host_reads>>
  BY CollectCommandDoes
<1>3. task'[w].pipe = p
  BY <1>1, <1>2 DEF Typed, Shapes, Tasks
<1>4. Only(p)
  BY <1>2, <1>3, OnlyOne DEF server, ends
<1> QED BY <1>2, <1>4, TouchesAdb DEF ends

LEMMA WaitForHostConnectionOrder ==
  ASSUME OrderInv, NEW w \in Workers, NEW p \in Pipes, WaitForHostConnection(w, p)
  PROVE  Typed' /\ ServiceInv' /\ QemudInv'
<1> Typed /\ LockInv
  BY DEF OrderInv
<1>1. /\ Typed'
      /\ p = task[w].pipe /\ At(w, "advance")
      /\ \A q \in Pipes \ {p} : adb'[q] = adb[q]
      /\ task'[w] = [task[w] EXCEPT !.at = "read_next"]
      /\ \A v \in Workers \ {w} : task'[v] = task[v]
      /\ UNCHANGED <<server, commands, ends, host_reads>>
  BY WaitForHostConnectionDoes
<1>2. task'[w].pipe = p
  BY <1>1 DEF Typed, Shapes, Tasks
<1>3. Only(p)
  BY <1>1, <1>2, OnlyOne DEF server, ends
<1>4. pipe[p].service = "adb"
  BY <1>1, AdbOnly DEF Advancing
<1> QED BY <1>1, <1>3, <1>4, TouchesAdb DEF ends

LEMMA StartProxyingOrder ==
  ASSUME OrderInv, NEW w \in Workers, NEW p \in Pipes, StartProxying(w, p)
  PROVE  Typed' /\ ServiceInv' /\ QemudInv'
<1> Typed /\ LockInv
  BY DEF OrderInv
<1>1. /\ Typed'
      /\ p = task[w].pipe /\ At(w, "advance")
      /\ \A q \in Pipes \ {p} : adb'[q] = adb[q]
      /\ host_reads' = host_reads \cup {<<p, adb[p].messenger>>}
      /\ task'[w] = [task[w] EXCEPT !.at = "read_next"]
      /\ \A v \in Workers \ {w} : task'[v] = task[v]
      /\ UNCHANGED <<server, commands, owner, ends>>
  BY StartProxyingDoes
<1>2. task'[w].pipe = p
  BY <1>1 DEF Typed, Shapes, Tasks
<1>3. Only(p)
  BY <1>1, <1>2, OnlyOne DEF server, ends
<1>4. pipe[p].service = "adb"
  BY <1>1, AdbOnly DEF Advancing
<1> QED BY <1>1, <1>3, <1>4, TouchesAdb DEF ends

LEMMA AcceptHostOrder ==
  ASSUME OrderInv, NEW w \in Workers, NEW p \in Pipes, NEW h \in Hosts, AcceptHost(w, p, h)
  PROVE  Typed' /\ ServiceInv' /\ QemudInv'
<1> Typed /\ LockInv
  BY DEF OrderInv
<1>1. /\ Typed'
      /\ adb[p].connector = "listening"
      /\ host[h].status = "none"
      /\ host'[h] = [host[h] EXCEPT !.status = "open"]
      /\ \A g \in Hosts \ {h} : host'[g] = host[g]
      /\ adb'[p] = [adb[p] EXCEPT !.connector = "busy"]
      /\ \A q \in Pipes \ {p} : adb'[q] = adb[q]
      /\ task[w] = Idle
      /\ task'[w].at = "host_connection" /\ task'[w].pipe = p /\ task'[w].host = h
      /\ \A v \in Workers \ {w} : task'[v] = task[v]
      /\ UNCHANGED <<server, commands, owner, pipe, host_reads>>
  BY AcceptHostDoes, Zenon
<1>2. Only(p)
  BY <1>1, OnlyOne DEF server
<1>3. pipe[p].service = "adb"
  BY <1>1, AdbOnly
<1> QED BY <1>1, <1>2, <1>3, TouchesAdb

LEMMA OnHostConnectionOrder ==
  ASSUME OrderInv, NEW w \in Workers, OnHostConnection(w)
  PROVE  Typed' /\ ServiceInv' /\ QemudInv'
<1> Typed /\ LockInv
  BY DEF OrderInv
<1>0. PICK p \in Pipes : p = task[w].pipe
  BY OnHostConnectionDoes
<1>1. /\ Typed'
      /\ At(w, "host_connection")
      /\ \A q \in Pipes \ {p} : adb'[q] = adb[q] /\ pipe'[q] = pipe[q]
      /\ host_reads' = host_reads \ {<<p, adb[p].messenger>>}
      /\ \/ pipe'[p] = [pipe[p] EXCEPT !.got = @ \o <<Ok>>]
         \/ pipe'[p] = pipe[p]
      /\ \/ task'[w] = [task[w] EXCEPT !.at = "host_state"]
         \/ task'[w] = Idle
      /\ \A v \in Workers \ {w} : task'[v] = task[v]
      /\ UNCHANGED <<server, commands, owner>>
  BY <1>0, OnHostConnectionDoes
<1>2. task'[w].pipe = p \/ task'[w] = Idle
  BY <1>0, <1>1 DEF Typed, Shapes, Tasks
<1>3. Only(p)
  BY <1>0, <1>1, <1>2, OnlyOne DEF server
<1>4. pipe[p].service = "adb"
  BY <1>0, <1>1, AdbOnly DEF ForHost, HostLabels, At
<1>5. pipe'[p].service = "adb"
  BY <1>1, <1>4 DEF Typed, Shapes, Guests
<1> QED BY <1>1, <1>3, <1>4, <1>5, TouchesAdb

LEMMA SetStateOrder ==
  ASSUME OrderInv, NEW w \in Workers, SetState(w)
  PROVE  Typed' /\ ServiceInv' /\ QemudInv'
<1> Typed /\ LockInv
  BY DEF OrderInv
<1>0. PICK p \in Pipes : p = task[w].pipe
  BY SetStateDoes
<1>1. /\ Typed'
      /\ At(w, "host_state")
      /\ \A q \in Pipes \ {p} : adb'[q] = adb[q]
      /\ task'[w] = [task[w] EXCEPT !.at = "host_expected"]
      /\ \A v \in Workers \ {w} : task'[v] = task[v]
      /\ UNCHANGED <<server, commands, owner, ends, host_reads>>
  BY <1>0, SetStateDoes
<1>2. task'[w].pipe = p
  BY <1>0, <1>1 DEF Typed, Shapes, Tasks
<1>3. Only(p)
  BY <1>0, <1>1, <1>2, OnlyOne DEF server, ends
<1>4. pipe[p].service = "adb"
  BY <1>0, <1>1, AdbOnly DEF ForHost, HostLabels, At
<1> QED BY <1>1, <1>3, <1>4, TouchesAdb DEF ends

LEMMA SetExpectedOrder ==
  ASSUME OrderInv, NEW w \in Workers, SetExpected(w)
  PROVE  Typed' /\ ServiceInv' /\ QemudInv'
<1> Typed /\ LockInv
  BY DEF OrderInv
<1>0. PICK p \in Pipes : p = task[w].pipe
  BY SetExpectedDoes
<1>1. /\ Typed'
      /\ At(w, "host_expected")
      /\ \A q \in Pipes \ {p} : adb'[q] = adb[q]
      /\ task'[w] = Idle
      /\ \A v \in Workers \ {w} : task'[v] = task[v]
      /\ UNCHANGED <<server, commands, owner, ends, host_reads>>
  BY <1>0, SetExpectedDoes
<1>2. Only(p)
  BY <1>0, <1>1, OnlyOne DEF server, ends
<1>3. pipe[p].service = "adb"
  BY <1>0, <1>1, AdbOnly DEF ForHost, HostLabels, At
<1> QED BY <1>1, <1>2, <1>3, TouchesAdb DEF ends

\* A step no worker's task changes in.
LEMMA OnlyOneSameTasks ==
  ASSUME UNCHANGED task, NEW p \in Pipes,
         \A q \in Pipes \ {p} :
           /\ pipe'[q] = pipe[q] /\ adb'[q] = adb[q] /\ commands'[q] = commands[q]
           /\ q \in conns' <=> q \in conns
           /\ q \in reading' <=> q \in reading
           /\ \A h \in Hosts : <<q, h>> \in host_reads' <=> <<q, h>> \in host_reads
  PROVE  Only(p)
  BY DEF Only, SamePipe

LEMMA OnHostReadOrder ==
  ASSUME OrderInv, NEW w \in Workers, NEW p \in Pipes, NEW h \in Hosts, OnHostRead(w, p, h)
  PROVE  Typed' /\ ServiceInv' /\ QemudInv'
<1> Typed /\ LockInv
  BY DEF OrderInv
<1>1. /\ Typed'
      /\ <<p, h>> \in host_reads
      /\ \A q \in Pipes \ {p} : pipe'[q] = pipe[q]
      /\ UNCHANGED <<server, task, session>>
  BY OnHostReadDoes
<1>2. PICK k \in 1 .. Len(host[h].unread) :
        /\ host'[h] = [host[h] EXCEPT !.unread = SubSeq(@, k + 1, Len(@))]
        /\ \/ /\ pipe[p].status = "open" /\ UNCHANGED host_reads
              /\ pipe'[p] = [pipe[p] EXCEPT !.got = @ \o SubSeq(host[h].unread, 1, k)]
           \/ /\ pipe[p].status # "open"
              /\ host_reads' = host_reads \ {<<p, h>>}
              /\ pipe'[p] = pipe[p]
  BY OnHostReadDoes, Zenon
<1>3. Only(p)
  BY <1>1, <1>2, OnlyOneSameTasks DEF server, session
<1>4. pipe[p].service = "adb"
  BY <1>1, AdbOnly
<1>5. pipe'[p].service = "adb"
  BY <1>2, <1>4 DEF Typed, Shapes, Guests
<1> QED BY <1>1, <1>3, <1>4, <1>5, TouchesAdb DEF session

LEMMA OnHostReadErrorOrder ==
  ASSUME OrderInv, NEW w \in Workers, NEW p \in Pipes, NEW h \in Hosts, OnHostReadError(w, p, h)
  PROVE  Typed' /\ ServiceInv' /\ QemudInv'
<1> Typed /\ LockInv
  BY DEF OrderInv
<1>1. /\ Typed'
      /\ <<p, h>> \in host_reads
      /\ host_reads' = host_reads \ {<<p, h>>}
      /\ pipe'[p] = [pipe[p] EXCEPT !.status = "closed"]
      /\ \A q \in Pipes \ {p} : adb'[q] = adb[q] /\ pipe'[q] = pipe[q]
      /\ UNCHANGED <<server, task, commands, owner, host>>
  BY OnHostReadErrorDoes
<1>2. Only(p)
  BY <1>1, OnlyOneSameTasks DEF server
<1>3. pipe[p].service = "adb"
  BY <1>1, AdbOnly
<1>4. pipe'[p].service = "adb"
  BY <1>1, <1>3 DEF Typed, Shapes, Guests
<1> QED BY <1>1, <1>2, <1>3, <1>4, TouchesAdb

LEMMA HostOrder ==
  ASSUME OrderInv, NEW h \in Hosts, HostWrites(h) \/ HostLeaves(h)
  PROVE  Typed' /\ ServiceInv' /\ QemudInv'
<1> Typed /\ LockInv
  BY DEF OrderInv
<1>1. Typed' /\ UNCHANGED <<server, task, session, pipe, host_reads>>
  BY HostWritesDoes, HostLeavesDoes
<1>2. \A p \in Pipes : SamePipe(p)
  BY <1>1 DEF SamePipe, server, session
<1> QED BY <1>1, <1>2, EachPartSame

LEMMA ReadSomeOrder ==
  ASSUME OrderInv, NEW w \in Workers, NEW p \in Pipes, ReadSome(w, p)
  PROVE  Typed' /\ ServiceInv' /\ QemudInv'
<1> Typed /\ LockInv
  BY DEF OrderInv
<1>1. /\ Typed'
      /\ p \in reading /\ task[w] = Idle
      /\ reading' = reading \ {p}
      /\ \A v \in Workers \ {w} : task'[v] = task[v]
      /\ UNCHANGED <<conns, session, host, host_reads>>
  BY ReadSomeDoes, Zenon
<1>2. PICK k \in 1 .. Len(pipe[p].unread) :
        /\ task'[w] = [at |-> "process", pipe |-> p, data |-> SubSeq(pipe[p].unread, 1, k),
                       host |-> NoHost]
        /\ pipe' = [pipe EXCEPT ![p].unread = SubSeq(@, k + 1, Len(@))]
  BY ReadSomeDoes, Zenon
<1> DEFINE u == pipe[p].unread
           data == SubSeq(u, 1, k)
           left == SubSeq(u, k + 1, Len(u))
<1>3. pipe[p] \in Guests
  BY DEF Typed, Shapes
<1>4. /\ pipe'[p] = [pipe[p] EXCEPT !.unread = left]
      /\ pipe'[p].unread = left /\ pipe'[p].service = pipe[p].service
      /\ pipe'[p].written = pipe[p].written /\ pipe'[p].got = pipe[p].got
      /\ \A q \in Pipes \ {p} : pipe'[q] = pipe[q]
  <2> HIDE DEF left
  <2>1. pipe' = [pipe EXCEPT ![p].unread = left]
    BY <1>2 DEF left
  <2> QED BY <2>1, <1>3 DEF Typed, Shapes, Guests
<1>5. task'[w].at = "process" /\ task'[w].pipe = p /\ task'[w].data = data
  BY <1>2
<1>6. Only(p)
  BY <1>1, <1>4, <1>5, OnlyOne DEF session
<1>7. ServicePart(p) /\ QemudPart(p)
  BY DEF OrderInv, ServiceInv, QemudInv
<1> HIDE DEF data, left, u
<1>8. CASE pipe[p].service = "adb"
  BY <1>1, <1>4, <1>6, <1>8, TouchesAdb DEF session
<1>9. CASE pipe[p].service = "none"
  <2>1. u = <<>>
    BY <1>7, <1>9 DEF ServicePart, u
  <2> QED BY <2>1 DEF u
<1>10. CASE pipe[p].service = "qemud"
  <2>1. Pending(p) = <<>> /\ Pending(p)' = data
    <3>1. Processing(task', w, p)
      BY <1>5 DEF Processing
    <3> QED BY <1>1, <1>5, <3>1, PendingBegun
  <2>2. /\ adb[p].buffer \in Seq(Bytes) /\ u \in Seq(Bytes)
        /\ UpTo(adb[p].buffer \o (Pending(p) \o u), Len(commands[p]), pipe[p].written)
        /\ \A i \in 1 .. Len(commands[p]) : commands[p][i] = i
    BY <1>7, <1>10 DEF QemudPart, u
  <2>3. data \in Seq(Bytes) /\ left \in Seq(Bytes)
    <3>1. k \in 1 .. Len(u)
      BY DEF u
    <3> QED BY <2>2, <3>1, CutIn DEF data, left
  <2>4. data \o left = <<>> \o u
    <3>1. k \in 1 .. Len(u)
      BY DEF u
    <3> QED BY <2>2, <3>1, CutAndJoin DEF data, left
  <2>5. UpTo(adb[p].buffer \o (data \o left), Len(commands[p]), pipe[p].written)
    BY <2>1, <2>2, <2>4
  <2>6. QemudPart(p)'
    BY <1>1, <1>4, <1>10, <2>1, <2>2, <2>3, <2>5 DEF QemudPart, session
  <2>7. ServicePart(p)'
    <3>1. (Advancing(p)' => Advancing(p)) /\ (ForHost(p)' => ForHost(p))
      BY <1>1, <1>5, CalmTask DEF HostLabels
    <3>2. Quiet(p) => Quiet(p)'
      BY <1>1, <3>1 DEF Quiet, session
    <3>3. Named(p)'
      BY <1>4, <1>10 DEF Named, Unnamed
    <3> QED BY <1>1, <1>4, <1>7, <1>10, <3>1, <3>2, <3>3 DEF ServicePart, session
  <2> QED BY <1>1, <1>6, <2>6, <2>7, OnePart
<1>11. pipe[p].service \in {"adb", "qemud", "none"}
  BY <1>3 DEF Guests, Services, Unnamed
<1> QED BY <1>8, <1>9, <1>10, <1>11

LEMMA GuestLeavesOrder ==
  ASSUME OrderInv, NEW p \in Pipes, GuestLeaves(p)
  PROVE  Typed' /\ ServiceInv' /\ QemudInv'
<1> Typed /\ LockInv
  BY DEF OrderInv
<1>1. /\ Typed'
      /\ pipe'[p] = [pipe[p] EXCEPT !.status = "left"]
      /\ \A q \in Pipes \ {p} : pipe'[q] = pipe[q]
      /\ UNCHANGED <<server, task, session, host, host_reads>>
  BY GuestLeavesDoes
<1>2. Only(p)
  BY <1>1, OnlyOneSameTasks DEF server, session
<1>3. pipe[p] \in Guests
  BY DEF Typed, Shapes
<1>4. /\ pipe'[p].service = pipe[p].service /\ pipe'[p].written = pipe[p].written
      /\ pipe'[p].unread = pipe[p].unread /\ pipe'[p].got = pipe[p].got
  BY <1>1, <1>3 DEF Guests
<1>5. ServicePart(p) /\ QemudPart(p)
  BY DEF OrderInv, ServiceInv, QemudInv
<1>6. Pending(p)' = Pending(p) /\ Quiet(p)' = Quiet(p) /\ Advancing(p)' = Advancing(p)
  BY <1>1 DEF Pending, Quiet, Advancing, ForHost, At, session
<1>7. QemudPart(p)'
  BY <1>1, <1>4, <1>5, <1>6, StreamKept DEF session
<1>8. ServicePart(p)'
  BY <1>1, <1>4, <1>5, <1>6 DEF ServicePart, Named, At, server, session
<1> QED BY <1>1, <1>2, <1>7, <1>8, OnePart

LEMMA GuestNamesOrder ==
  ASSUME OrderInv, NEW p \in Pipes, GuestNames(p)
  PROVE  Typed' /\ ServiceInv' /\ QemudInv'
<1> Typed /\ LockInv
  BY DEF OrderInv
<1>1. /\ Typed' /\ ~Named(p)
      /\ \A q \in Pipes \ {p} : pipe'[q] = pipe[q]
      /\ UNCHANGED <<server, task, session, host, host_reads>>
  BY GuestNamesDoes
<1>2. PICK service \in Services : pipe'[p] = [pipe[p] EXCEPT !.service = service]
  BY GuestNamesDoes
<1>3. Only(p)
  BY <1>1, OnlyOneSameTasks DEF server, session
<1>4. pipe[p] \in Guests
  BY DEF Typed, Shapes
<1>5. /\ pipe'[p].service = service /\ pipe'[p].written = pipe[p].written
      /\ pipe'[p].unread = pipe[p].unread /\ pipe'[p].got = pipe[p].got
  BY <1>2, <1>4 DEF Guests
<1>6. ServicePart(p) /\ QemudPart(p) /\ pipe[p].service = "none"
  BY <1>1 DEF OrderInv, ServiceInv, QemudInv, Named, Unnamed
<1>7. Pending(p)' = Pending(p) /\ Quiet(p)' = Quiet(p) /\ Advancing(p)' = Advancing(p)
  BY <1>1 DEF Pending, Quiet, Advancing, ForHost, At, session
<1>8. Pending(p) = <<>>
  <2>1. p \notin conns
    BY <1>1, <1>6 DEF ServicePart
  <2> QED BY <2>1, NothingPending
<1>9. /\ pipe[p].written = 0 /\ pipe[p].unread = <<>> /\ adb[p].buffer = <<>>
      /\ commands[p] = <<>>
  BY <1>6 DEF ServicePart
<1>10. QemudPart(p)'
  <2>1. UpTo(<<>> \o (<<>> \o <<>>), 0, 0) /\ <<>> \in Seq(Bytes)
    BY UpToNothing
  <2>2. Len(<<>>) = 0 /\ 1 .. 0 = {}
    OBVIOUS
  <2>3. /\ adb'[p].buffer = <<>> /\ commands'[p] = <<>> /\ pipe'[p].written = 0
        /\ pipe'[p].unread = <<>> /\ Pending(p)' = <<>>
    BY <1>1, <1>5, <1>7, <1>8, <1>9 DEF session
  <2> QED BY <2>1, <2>2, <2>3 DEF QemudPart
<1>11. ServicePart(p)'
  BY <1>1, <1>5, <1>6, <1>7 DEF ServicePart, Named, Unnamed, Services, At, server, session
<1> QED BY <1>1, <1>3, <1>10, <1>11, OnePart

LEMMA GuestWritesNextOrder ==
  ASSUME OrderInv, NEW p \in Pipes, GuestWritesNext(p)
  PROVE  Typed' /\ ServiceInv' /\ QemudInv'
<1> Typed /\ LockInv
  BY DEF OrderInv
<1>1. /\ Typed'
      /\ \A q \in Pipes \ {p} : pipe'[q] = pipe[q]
      /\ UNCHANGED <<server, task, session, host, host_reads>>
  BY GuestWritesNextDoes, Zenon
<1>2. PICK bytes \in Seq(Token) :
        /\ NextBytes(p, bytes)
        /\ pipe'[p] = [pipe[p] EXCEPT !.written = @ + 1, !.unread = @ \o bytes]
  BY GuestWritesNextDoes, Zenon
<1>3. Only(p)
  BY <1>1, OnlyOneSameTasks DEF server, session
<1>4. pipe[p] \in Guests
  BY DEF Typed, Shapes
<1> DEFINE more == pipe[p].unread \o bytes
<1>5. /\ pipe'[p].service = pipe[p].service /\ pipe'[p].written = pipe[p].written + 1
      /\ pipe'[p].unread = more /\ pipe'[p].got = pipe[p].got
  <2> HIDE DEF more
  <2>1. pipe'[p] = [pipe[p] EXCEPT !.written = @ + 1, !.unread = more]
    BY <1>2 DEF more
  <2> QED BY <1>4, <2>1 DEF Guests
<1>6. ServicePart(p) /\ QemudPart(p)
  BY DEF OrderInv, ServiceInv, QemudInv
<1> HIDE DEF more
<1>7. pipe[p].service \in {"adb", "qemud"}
  BY <1>2 DEF NextBytes
<1>8. CASE pipe[p].service = "adb"
  BY <1>1, <1>3, <1>5, <1>8, TouchesAdb DEF session
<1>9. CASE pipe[p].service = "qemud"
  <2> DEFINE n == pipe[p].written
             s == adb[p].buffer \o (Pending(p) \o pipe[p].unread)
  <2>1. Pending(p)' = Pending(p) /\ Quiet(p)' = Quiet(p) /\ Advancing(p)' = Advancing(p)
    BY <1>1 DEF Pending, Quiet, Advancing, ForHost, At, session
  <2>2. /\ n + 1 \in Commands /\ bytes = BytesOf(n + 1) /\ n \in Nat
        /\ bytes \in Seq(Bytes)
    BY <1>2, <1>4, <1>9, TokensOk DEF NextBytes, Guests
  <2>3. /\ adb[p].buffer \in Seq(Bytes) /\ pipe[p].unread \in Seq(Bytes)
        /\ Pending(p) \in Seq(Bytes)
        /\ UpTo(s, Len(commands[p]), n)
        /\ \A i \in 1 .. Len(commands[p]) : commands[p][i] = i
    BY <1>6, <1>9 DEF QemudPart
  <2>4. Len(commands[p]) \in Nat
    BY DEF Typed, Shapes
  <2> HIDE DEF n
  <2>5. /\ more \in Seq(Bytes)
        /\ UpTo(adb[p].buffer \o (Pending(p) \o more), Len(commands[p]), n + 1)
    BY <2>2, <2>3, <2>4, StreamNext DEF s, more
  <2> HIDE DEF s
  <2>6. QemudPart(p)'
    BY <1>1, <1>5, <1>9, <2>1, <2>3, <2>5 DEF QemudPart, session, n
  <2>7. ServicePart(p)'
    BY <1>1, <1>5, <1>6, <1>9, <2>1 DEF ServicePart, Named, Unnamed, At, server, session
  <2> QED BY <1>1, <1>3, <2>6, <2>7, OnePart
<1> QED BY <1>7, <1>8, <1>9

-----------------------------------------------------------------------------
(* process_commands *)

LEMMA UpToFirst ==
  ASSUME NEW b \in Seq(Bytes), NEW u \in Seq(Bytes), NEW m, NEW n, UpTo(b \o u, m, n)
  PROVE  Follows(b) /\ StartsAfter(b, m)
<1> DEFINE s == b \o u
<1>1. /\ Len(b) \in Nat /\ Len(u) \in Nat /\ Len(s) = Len(b) + Len(u)
      /\ \A i \in 1 .. Len(b) : s[i] = b[i]
      /\ s \in Seq(Bytes)
  BY ConcatParts
<1>2. Follows(s) /\ StartsAfter(s, m)
  BY DEF UpTo
<1> HIDE DEF s
<1>3. Follows(b)
  <2> SUFFICES ASSUME NEW i \in 1 .. Len(b) - 1 PROVE b[i + 1] = After(b[i])
    BY DEF Follows
  <2>1. i \in 1 .. Len(s) - 1 /\ i \in 1 .. Len(b) /\ i + 1 \in 1 .. Len(b)
    BY <1>1
  <2>2. s[i + 1] = After(s[i])
    BY <1>2, <2>1 DEF Follows
  <2> QED BY <1>1, <2>1, <2>2
<1>4. StartsAfter(b, m)
  <2> SUFFICES ASSUME b # <<>> PROVE b[1] = <<m + 1, 1>>
    BY DEF StartsAfter
  <2>1. 1 \in 1 .. Len(b) /\ s # <<>>
    BY <1>1
  <2> QED BY <1>1, <1>2, <2>1 DEF StartsAfter
<1> QED BY <1>3, <1>4

\* The data is joined to the buffer.
LEMMA ConcatFirst ==
  ASSUME NEW b \in Seq(Bytes), NEW d \in Seq(Bytes), NEW u \in Seq(Bytes), d # <<>>
  PROVE  /\ b \o d \in Seq(Bytes) /\ b \o d # <<>>
         /\ b \o (d \o u) = (b \o d) \o u
<1>1. b \o d \in Seq(Bytes) /\ b \o d # <<>>
  <2>1. Len(b) \in Nat /\ Len(d) \in Nat /\ Len(d) # 0 /\ Len(b \o d) = Len(b) + Len(d)
    OBVIOUS
  <2> QED BY <2>1
<1>2. (b \o d) \o u = b \o (d \o u)
  BY ConcatAssociative
<1> QED BY <1>1, <1>2

\* The numbers of the commands go on.
LEMMA NumbersGoOn ==
  ASSUME NEW s \in Seq(Commands), \A i \in 1 .. Len(s) : s[i] = i,
         NEW t \in Seq(Commands), NEW m, m = Len(s), \A i \in 1 .. Len(t) : t[i] = m + i,
         NEW r, r = s \o t
  PROVE  /\ Len(r) = m + Len(t)
         /\ \A i \in 1 .. Len(r) : r[i] = i
<1>1. /\ Len(s) \in Nat /\ Len(t) \in Nat /\ Len(r) = Len(s) + Len(t)
      /\ \A i \in 1 .. Len(s) : r[i] = s[i]
      /\ \A i \in Len(s) + 1 .. Len(s) + Len(t) : r[i] = t[i - Len(s)]
  BY ConcatParts
<1>2. ASSUME NEW i \in 1 .. Len(r) PROVE r[i] = i
  <2>1. CASE i <= Len(s)
    <3>1. i \in 1 .. Len(s)
      BY <1>1, <2>1
    <3> QED BY <1>1, <3>1
  <2>2. CASE i > Len(s)
    <3>1. i \in Len(s) + 1 .. Len(s) + Len(t) /\ i - Len(s) \in 1 .. Len(t)
          /\ Len(s) + (i - Len(s)) = i
      BY <1>1, <2>2
    <3>2. r[i] = t[i - Len(s)] /\ t[i - Len(s)] = Len(s) + (i - Len(s))
      BY <1>1, <3>1
    <3> QED BY <3>1, <3>2
  <2> QED BY <1>1, <2>1, <2>2
<1> QED BY <1>1, <1>2

LEMMA ProcessCommandsOrder ==
  ASSUME OrderInv, NEW w \in Workers, ProcessCommands(w)
  PROVE  Typed' /\ ServiceInv' /\ QemudInv'
<1> Typed /\ LockInv
  BY DEF OrderInv
<1>1. PICK p \in Pipes : p = task[w].pipe /\ At(w, "process") /\ pipe[p].service = "qemud"
  BY DEF ProcessCommands, At, Typed, TaskTyped
<1> DEFINE d == task[w].data
           b == adb[p].buffer \o d
           u == pipe[p].unread
           m == Len(commands[p])
           n == pipe[p].written
           result == process_commands[b]
<1>2. ServicePart(p) /\ QemudPart(p)
  BY DEF OrderInv, ServiceInv, QemudInv
<1>3. Pending(p) = d /\ d # <<>>
  BY <1>1, PendingOf DEF At, Typed, TaskTyped
<1>4. /\ adb[p].buffer \in Seq(Bytes) /\ u \in Seq(Bytes) /\ d \in Seq(Bytes)
      /\ UpTo(adb[p].buffer \o (d \o u), m, n)
      /\ \A i \in 1 .. m : commands[p][i] = i
  BY <1>1, <1>2, <1>3 DEF QemudPart
<1>5. commands[p] \in Seq(Commands) /\ m \in Nat /\ n \in Nat
  BY DEF Typed, Shapes, Guests
<1>6. b \in Seq(Bytes) /\ b # <<>> /\ adb[p].buffer \o (d \o u) = b \o u
  <2>1. /\ adb[p].buffer \in Seq(Bytes) /\ u \in Seq(Bytes) /\ d \in Seq(Bytes)
        /\ d # <<>>
    BY <1>3, <1>4
  <2> DEFINE a == adb[p].buffer
  <2>2. a \in Seq(Bytes) /\ u \in Seq(Bytes) /\ d \in Seq(Bytes) /\ d # <<>>
    BY <2>1
  <2> HIDE DEF a, d, u, m, n, result
  <2>3. /\ a \o d \in Seq(Bytes) /\ a \o d # <<>>
        /\ a \o (d \o u) = (a \o d) \o u
    BY <2>2, ConcatFirst
  <2> QED BY <2>3 DEF a
<1> HIDE DEF d, u, b, m, n
<1>7. UpTo(b \o u, m, n)
  BY <1>4, <1>6
<1>8. HandlesFrom(b, m, result)
  <2>1. Follows(b) /\ StartsAfter(b, m)
    BY <1>4, <1>6, <1>7, UpToFirst
  <2> QED BY <1>5, <1>6, <2>1, HandlesInOrder
<1> HIDE DEF result
<1>9. /\ Typed'
      /\ commands'[p] = commands[p] \o result.handled
      /\ adb'[p] = [adb[p] EXCEPT !.buffer = result.buffer]
      /\ \A q \in Pipes \ {p} : adb'[q] = adb[q] /\ commands'[q] = commands[q]
      /\ task'[w] = [task[w] EXCEPT !.at = "read_next"]
      /\ \A v \in Workers \ {w} : task'[v] = task[v]
      /\ UNCHANGED <<server, owner, ends, host_reads>>
  <2>1. HandlesFrom(adb[task[w].pipe].buffer \o task[w].data, m,
                    process_commands[adb[task[w].pipe].buffer \o task[w].data])
    BY <1>1, <1>8 DEF b, d, result
  <2> HIDE DEF m
  <2> QED BY <1>1, <2>1, ProcessCommandsDoes DEF b, d, result
<1>10. task'[w].at = "read_next" /\ task'[w].pipe = p
  BY <1>1, <1>9 DEF Typed, Shapes, Tasks
<1>11. Only(p)
  BY <1>1, <1>9, <1>10, OnlyOne DEF server, ends
<1>12. Pending(p)' = <<>>
  <2>1. Processing(task, w, p) /\ ~Processing(task', w, p)
    BY <1>1, <1>10 DEF Processing, At
  <2> QED BY <1>9, <2>1, PendingGone
<1>13. /\ adb'[p].buffer = result.buffer /\ adb'[p].connector = adb[p].connector
       /\ adb'[p].messenger = adb[p].messenger /\ adb'[p].state = adb[p].state
  BY <1>9 DEF Typed, Shapes, Processors
<1>14. /\ result.handled \in Seq(Commands) /\ result.buffer \in Seq(Bytes)
       /\ \A i \in 1 .. Len(result.handled) : result.handled[i] = m + i
  BY <1>8 DEF HandlesFrom
<1>15. /\ Len(commands'[p]) = m + Len(result.handled)
       /\ \A i \in 1 .. Len(commands'[p]) : commands'[p][i] = i
  <2>1. commands'[p] = commands[p] \o result.handled
    BY <1>9
  <2>2. m = Len(commands[p]) /\ \A i \in 1 .. Len(commands[p]) : commands[p][i] = i
    BY <1>4 DEF m
  <2> DEFINE c == commands[p]
             t == result.handled
             r == commands'[p]
  <2>3. /\ c \in Seq(Commands) /\ t \in Seq(Commands) /\ m = Len(c) /\ r = c \o t
        /\ \A i \in 1 .. Len(c) : c[i] = i
        /\ \A i \in 1 .. Len(t) : t[i] = m + i
    BY <1>5, <1>14, <2>1, <2>2
  <2> HIDE DEF c, t, r
  <2>4. /\ Len(r) = m + Len(t)
        /\ \A i \in 1 .. Len(r) : r[i] = i
    BY <2>3, NumbersGoOn
  <2> QED BY <2>4 DEF t, r
<1>16. UpTo(result.buffer \o u, m + Len(result.handled), n)
  BY <1>4, <1>5, <1>6, <1>7, <1>8, UpToRest
<1>17. <<>> \o u = u /\ <<>> \in Seq(Bytes)
  BY <1>4, ConcatEmptySeq
<1>18. QemudPart(p)'
  <2>1. pipe'[p].unread = u /\ pipe'[p].written = n /\ pipe'[p].service = "qemud"
    BY <1>1, <1>9 DEF ends, u, n
  <2>2. adb'[p].buffer \o (Pending(p)' \o pipe'[p].unread) = result.buffer \o u
    BY <1>12, <1>13, <1>17, <2>1
  <2>3. UpTo(adb'[p].buffer \o (Pending(p)' \o pipe'[p].unread), Len(commands'[p]), pipe'[p].written)
    BY <1>15, <1>16, <2>1, <2>2
  <2>4. /\ adb'[p].buffer \in Seq(Bytes) /\ pipe'[p].unread \in Seq(Bytes)
        /\ Pending(p)' \in Seq(Bytes)
    BY <1>4, <1>12, <1>13, <1>14, <1>17, <2>1
  <2> QED BY <1>15, <2>1, <2>3, <2>4 DEF QemudPart
<1>19. ServicePart(p)'
  <2>1. (Advancing(p)' => Advancing(p)) /\ (ForHost(p)' => ForHost(p))
    BY <1>9, <1>10, CalmTask DEF HostLabels
  <2>2. Quiet(p) => Quiet(p)'
    BY <1>13, <2>1 DEF Quiet
  <2> QED BY <1>1, <1>2, <1>9, <1>13, <2>1, <2>2 DEF ServicePart, Named, Unnamed, server, ends
<1> QED BY <1>9, <1>11, <1>18, <1>19, OnePart

LEMMA OrderInit == Init => OrderInv
<1> SUFFICES ASSUME Init PROVE OrderInv
  OBVIOUS
<1>1. Typed /\ LockInv
  BY TypedInit, LockInit
<1>2. ASSUME NEW p \in Pipes PROVE ServicePart(p) /\ QemudPart(p)
  BY DEF Init, ServicePart, QemudPart, Quiet, Advancing, ForHost, At, Idle, HostLabels, Unnamed, Named
<1> QED BY <1>1, <1>2 DEF OrderInv, ServiceInv, QemudInv

LEMMA OrderStep == OrderInv /\ [Next]_vars => OrderInv'
<1> SUFFICES ASSUME OrderInv, [Next]_vars PROVE OrderInv'
  OBVIOUS
<1>1. LockInv'
  BY LockStep DEF OrderInv
<1>2. CASE UNCHANGED vars
  <2>1. \A p \in Pipes : SamePipe(p)
    BY <1>2 DEF vars, server, session, ends, SamePipe
  <2>2. Typed'
    BY <1>2 DEF OrderInv, Typed, Shapes, vars, server, session, ends
  <2> QED BY <1>1, <2>1, <2>2, EachPartSame DEF OrderInv
<1>3. ASSUME NEW w \in Workers, Handles(w) PROVE Typed' /\ ServiceInv' /\ QemudInv'
  <2>1. CASE IdentifyClient(w) \/ AddConnection(w) \/ ReadNextMessage(w) \/ RemoveConnection(w)
    BY <2>1, IdentifyClientOrder, AddConnectionOrder, ReadNextMessageOrder, RemoveConnectionOrder
  <2>2. CASE ProcessCommands(w) \/ OnHostConnection(w) \/ SetState(w) \/ SetExpected(w)
    BY <2>2, ProcessCommandsOrder, OnHostConnectionOrder, SetStateOrder, SetExpectedOrder
  <2>3. ASSUME NEW p \in Pipes,
               \/ ReadSome(w, p) \/ ReadError(w, p)
               \/ ProxyData(w, p) \/ ProxyThrows(w, p) \/ CollectCommand(w, p)
               \/ WaitForHostConnection(w, p) \/ StartProxying(w, p)
        PROVE  Typed' /\ ServiceInv' /\ QemudInv'
    BY <2>3, ReadSomeOrder, ReadErrorOrder, ProxyDataOrder, ProxyThrowsOrder,
       CollectCommandOrder, WaitForHostConnectionOrder, StartProxyingOrder
  <2>4. ASSUME NEW p \in Pipes, NEW h \in Hosts, OnHostRead(w, p, h) \/ OnHostReadError(w, p, h)
        PROVE  Typed' /\ ServiceInv' /\ QemudInv'
    BY <2>4, OnHostReadOrder, OnHostReadErrorOrder
  <2> QED BY <1>3, <2>1, <2>2, <2>3, <2>4 DEF Handles
<1>4. ASSUME NEW w \in Workers, NEW p \in Pipes,
             Accept(w, p) \/ \E h \in Hosts : AcceptHost(w, p, h)
      PROVE  Typed' /\ ServiceInv' /\ QemudInv'
  BY <1>4, AcceptOrder, AcceptHostOrder
<1>5. ASSUME NEW p \in Pipes, GuestNames(p) \/ GuestWritesNext(p) \/ GuestLeaves(p)
      PROVE  Typed' /\ ServiceInv' /\ QemudInv'
  BY <1>5, GuestNamesOrder, GuestWritesNextOrder, GuestLeavesOrder
<1>6. ASSUME NEW h \in Hosts, HostWrites(h) \/ HostLeaves(h)
      PROVE  Typed' /\ ServiceInv' /\ QemudInv'
  BY <1>6, HostOrder
<1>7. CASE Next
  BY <1>1, <1>3, <1>4, <1>5, <1>6, <1>7 DEF Next, OrderInv
<1> QED BY <1>2, <1>7

LEMMA OrderMeans == OrderInv => TypeOK /\ CommandsInOrder
<1> SUFFICES ASSUME OrderInv PROVE TypeOK /\ CommandsInOrder
  OBVIOUS
<1>1. TypeOK
  <2>1. reading \subseteq conns
    BY DEF OrderInv, LockInv, BusyInv
  <2>2. \A w \in Workers : task[w].at \in Labels /\ task[w].pipe \in Pipes \cup {NoPipe}
    BY DEF OrderInv, Typed, Shapes, Tasks
  <2>3. ASSUME NEW p \in Pipes
        PROVE  /\ pipe[p].status \in {"none", "open", "left", "closed"}
               /\ adb[p].state \in States
               /\ adb[p].connector \in {"none", "listening", "busy"}
               /\ adb[p].messenger \in Hosts \cup {NoHost}
               /\ adb[p].state = "proxying_data" => adb[p].messenger # NoHost
    BY PipeAssumption DEF OrderInv, Typed, Shapes, HasMessenger, Guests, Processors
  <2> QED BY <2>1, <2>2, <2>3 DEF OrderInv, Typed, Shapes, TypeOK
<1>2. ASSUME NEW p \in Pipes
      PROVE  /\ Len(commands[p]) <= pipe[p].written
             /\ \A i \in DOMAIN commands[p] : commands[p][i] = i
  <2> DEFINE m == Len(commands[p])
             n == pipe[p].written
             s == adb[p].buffer \o (Pending(p) \o pipe[p].unread)
  <2>1. commands[p] \in Seq(Commands) /\ m \in Nat /\ n \in Nat /\ pipe[p] \in Guests
    BY DEF OrderInv, Typed, Shapes, Guests
  <2>2. ServicePart(p) /\ QemudPart(p)
    BY DEF OrderInv, ServiceInv, QemudInv
  <2>3. CASE pipe[p].service # "qemud"
    <3>1. commands[p] = <<>>
      BY <2>1, <2>2, <2>3 DEF ServicePart, QemudPart, Guests, Services, Unnamed
    <3> QED BY <2>1, <3>1
  <2>4. CASE pipe[p].service = "qemud"
    <3>1. /\ s \in Seq(Bytes) /\ UpTo(s, m, n)
          /\ \A i \in 1 .. m : commands[p][i] = i
      BY <2>2, <2>4 DEF QemudPart
    <3> HIDE DEF s
    <3>2. CASE s = <<>>
      <4>1. m = n
        BY <3>1, <3>2 DEF UpTo
      <4> QED BY <2>1, <3>1, <4>1
    <3>3. CASE s # <<>>
      <4>1. 1 \in 1 .. Len(s)
        BY <3>1, <3>3
      <4>2. s[1] = <<m + 1, 1>> /\ s[1][1] <= n
        BY <3>1, <3>3, <4>1 DEF UpTo, StartsAfter
      <4>3. m + 1 <= n
        BY <4>2
      <4> HIDE DEF m, n
      <4>4. m <= n
        BY <2>1, <4>3
      <4>5. \A i \in DOMAIN commands[p] : commands[p][i] = i
        BY <2>1, <3>1 DEF m
      <4> QED BY <4>4, <4>5 DEF m, n
    <3> QED BY <3>2, <3>3
  <2> QED BY <2>3, <2>4
<1> QED BY <1>1, <1>2 DEF CommandsInOrder

\* The type invariant, with the shape of every message and of what each worker runs: the
\* fields of the processors and the ends of the connections are what the code takes them for.
THEOREM WellTyped == Spec => []TypeOK
  BY OrderInit, OrderStep, OrderMeans, PTL DEF Spec

\* The commands a guest sends to a qemud service are handled whole, once and in order,
\* however process_data gets their bytes and for any sizes of header and body.
THEOREM HandlesWholeCommands == Spec => []CommandsInOrder
  BY OrderInit, OrderStep, OrderMeans, PTL DEF Spec

-----------------------------------------------------------------------------
(* The data of a session *)

DataInv == OrderInv /\ SessionInv /\ HostInv /\ GotInv /\ HostGetsData

SameHost(h) == Read(h)' = Read(h) /\ host'[h].got = host[h].got

\* A step that leaves what the guest of p has sent where it is, and starts nothing for p.
LEMMA SessionKept ==
  ASSUME NEW p \in Pipes, SessionPart(p), HasMessenger(adb[p]), adb[p].messenger \in Hosts \cup {NoHost},
         pipe'[p].service = pipe[p].service, pipe'[p].written = pipe[p].written,
         pipe'[p].unread = pipe[p].unread, pipe'[p].got = pipe[p].got,
         Pending(p)' = Pending(p),
         adb'[p].buffer = adb[p].buffer,
         adb'[p].expected_command = adb[p].expected_command,
         adb'[p].messenger = adb[p].messenger,
         adb'[p].state \in {adb[p].state, "closed_by_host"},
         Quiet(p) => Quiet(p)',
         Advancing(p)' => Advancing(p),
         Live(p)' => Live(p) \/ adb'[p].state # "proxying_data",
         ~Begun(p)' => ~Begun(p) \/ adb[p].expected_command = accept_command,
         \A h \in Hosts : <<p, h>> \in host_reads' => <<p, h>> \in host_reads,
         adb[p].messenger \in Hosts => SameHost(adb[p].messenger)
  PROVE  SessionPart(p)'
<1> SUFFICES ASSUME pipe[p].service = "adb" PROVE SessionPart(p)'
  BY DEF SessionPart
<1>1. Aligned(p) /\ BeforeAccept(p) /\ BeforeStart(p) /\ Proxies(p)
  BY DEF SessionPart
<1>2. ReadOf(p)' = ReadOf(p)
  BY DEF ReadOf
<1>3. Handled(p)' = Handled(p)
  BY <1>2 DEF Handled
<1>4. First(p)' = First(p)
  BY <1>3 DEF First
<1>5. Aligned(p)'
  BY <1>1, <1>2, <1>3, <1>4 DEF Aligned
<1>6. BeforeAccept(p)'
  BY <1>1, <1>4 DEF BeforeAccept
<1>7. Unstarted(p)' => Unstarted(p)
  BY <1>4 DEF Unstarted
<1>8. ASSUME NEW h \in Hosts, adb[p].messenger = h, Fresh(h) PROVE Fresh(h)'
  BY <1>8 DEF Fresh, SameHost
<1>9. BeforeStart(p)'
  <2>1. Has(pipe'[p].got, "data") = Has(pipe[p].got, "data")
    OBVIOUS
  <2> QED BY <1>1, <1>7, <1>8, <2>1 DEF BeforeStart
<1>10. Proxies(p)'
  <2>1. CASE adb'[p].state # "proxying_data"
    BY <2>1 DEF Proxies
  <2>2. CASE adb'[p].state = "proxying_data"
    <3>1. adb[p].state = "proxying_data" /\ adb[p].messenger \in Hosts
      BY <2>2 DEF HasMessenger
    <3>2. host'[adb'[p].messenger].got = host[adb[p].messenger].got
      BY <3>1 DEF SameHost
    <3> QED BY <1>1, <1>3, <2>2, <3>1, <3>2 DEF Proxies
  <2> QED BY <2>1, <2>2
<1>11. ~Begun(p)' => adb'[p].expected_command = accept_command
  BY DEF SessionPart
<1> QED BY <1>5, <1>6, <1>9, <1>10, <1>11 DEF SessionPart

LEMMA SameSession ==
  ASSUME NEW p \in Pipes, SamePipe(p), DataInv, Typed',
         adb[p].messenger \in Hosts => SameHost(adb[p].messenger)
  PROVE  SessionPart(p)'
<1>1. /\ pipe'[p] = pipe[p] /\ adb'[p] = adb[p]
      /\ \A h \in Hosts : <<p, h>> \in host_reads' <=> <<p, h>> \in host_reads
  BY DEF SamePipe
<1>2. /\ Pending(p)' = Pending(p)
      /\ Advancing(p)' <=> Advancing(p)
      /\ ForHost(p)' <=> ForHost(p)
      /\ Live(p)' <=> Live(p)
  BY SameTasks DEF DataInv, OrderInv
<1>3. Quiet(p) => Quiet(p)'
  BY <1>1, <1>2 DEF Quiet
<1>4. ~Begun(p)' => ~Begun(p)
  BY DEF SamePipe, Begun
<1>5. SessionPart(p) /\ HasMessenger(adb[p]) /\ adb[p].messenger \in Hosts \cup {NoHost}
  BY DEF DataInv, OrderInv, SessionInv, Typed, Shapes, Processors
<1> QED BY <1>1, <1>2, <1>3, <1>4, <1>5, SessionKept

\* What the ends of the hosts and of the guests have got stays.
LEMMA GotKept ==
  ASSUME NEW p \in Pipes, pipe'[p].got = pipe[p].got
  PROVE  \A h \in Hosts, n \in Nat : GotFrom(p, h, n)' = GotFrom(p, h, n)
  BY DEF GotFrom

LEMMA GotOfKept ==
  ASSUME NEW p \in Pipes, GotOf(p), Typed, pipe'[p].got = pipe[p].got,
         pipe[p].written > 1 => pipe'[p].written > 1
  PROVE  GotOf(p)'
<1>1. \A i \in 1 .. Len(pipe[p].got) : i \in Nat
  OBVIOUS
<1> QED BY <1>1, GotKept DEF GotOf

LEMMA GotReadKept ==
  ASSUME NEW p \in Pipes, NEW h \in Hosts, GotRead(p, h), Typed, pipe'[p].got = pipe[p].got,
         Read(h)' = Read(h),
         <<p, h>> \in host_reads' /\ pipe'[p].status = "open" =>
           <<p, h>> \in host_reads /\ pipe[p].status = "open"
  PROVE  GotRead(p, h)'
<1>1. Len(pipe[p].got) \in Nat
  BY DEF Typed, Shapes, Guests
<1>2. GotFrom(p, h, Len(pipe[p].got))' = GotFrom(p, h, Len(pipe[p].got))
  BY <1>1, GotKept
<1> QED BY <1>2 DEF GotRead

LEMMA HostSendsKept ==
  ASSUME NEW h \in Hosts, HostSends(h),
         host'[h].written = host[h].written, host'[h].unread = host[h].unread,
         host'[h].got = host[h].got,
         host'[h].status = "none" => host[h].status = "none"
  PROVE  HostSends(h)' /\ SameHost(h) /\ (Fresh(h)' <=> Fresh(h))
<1>1. Read(h)' = Read(h)
  BY DEF Read
<1> QED BY <1>1 DEF HostSends, SameHost, Fresh

\* A step after which each end has got, and each host has sent, what it had before, and
\* that makes nothing of a host the messenger of a pipe.
PlainStep ==
  /\ \A h \in Hosts :
       /\ host'[h].written = host[h].written /\ host'[h].unread = host[h].unread
       /\ host'[h].got = host[h].got
       /\ host'[h].status = "none" <=> host[h].status = "none"
  /\ \A p \in Pipes :
       /\ adb'[p].messenger = adb[p].messenger
       /\ pipe'[p].got = pipe[p].got
       /\ pipe[p].written > 1 => pipe'[p].written > 1
       /\ \A h \in Hosts : <<p, h>> \in host_reads' => <<p, h>> \in host_reads
       /\ \A h \in Hosts : <<p, h>> \in host_reads /\ pipe'[p].status = "open" =>
            pipe[p].status = "open"
  /\ \A w \in Workers : task'[w].at = "host_connection" => task'[w] = task[w]

LEMMA PlainKeeps ==
  ASSUME DataInv, Typed', PlainStep
  PROVE  HostInv' /\ GotInv' /\ HostGetsData'
<1>1. ASSUME NEW h \in Hosts PROVE HostSends(h)' /\ SameHost(h) /\ (Fresh(h)' <=> Fresh(h))
  BY HostSendsKept DEF PlainStep, DataInv, HostInv
<1>2. ASSUME NEW p \in Pipes, NEW h \in Hosts PROVE Messenger(p, h)'
  <2>1. Messenger(p, h)
    BY DEF DataInv, HostInv
  <2> QED BY <2>1 DEF Messenger, PlainStep
<1>3. ASSUME NEW w \in Workers PROVE Arriving(w)'
  <2> SUFFICES ASSUME task'[w].at = "host_connection" PROVE Arriving(w)'
    BY DEF Arriving, At
  <2>1. task'[w] = task[w] /\ Arriving(w) /\ task[w].host \in Hosts
    BY DEF PlainStep, DataInv, OrderInv, HostInv, Typed, TaskTyped
  <2>2. PICK h \in Hosts : h = task[w].host
    BY <2>1
  <2>3. host[h].status # "none" /\ Fresh(h)
        /\ (\A p \in Pipes : adb[p].messenger # h)
        /\ (\A v \in Workers : At(v, "host_connection") /\ task[v].host = h => v = w)
    BY <2>1, <2>2 DEF Arriving, At
  <2>4. host'[h].status # "none" /\ Fresh(h)'
        /\ (\A p \in Pipes : adb'[p].messenger # h)
        /\ (\A v \in Workers : At(v, "host_connection")' /\ task'[v].host = h => v = w)
    BY <1>1, <2>3 DEF PlainStep, At
  <2>5. task'[w].host = h
    BY <2>1, <2>2
  <2> QED BY <2>4, <2>5 DEF Arriving, Fresh, Read
<1>4. ASSUME NEW p \in Pipes PROVE GotOf(p)'
  BY GotOfKept DEF DataInv, OrderInv, GotInv, PlainStep
<1>5. ASSUME NEW p \in Pipes, NEW h \in Hosts PROVE GotRead(p, h)'
  <2>1. GotRead(p, h) /\ Typed /\ Read(h)' = Read(h)
    BY <1>1 DEF DataInv, OrderInv, GotInv, SameHost
  <2> QED BY <2>1, GotReadKept DEF PlainStep
<1>6. HostGetsData'
  BY DEF DataInv, HostGetsData, PlainStep
<1> QED BY <1>1, <1>2, <1>3, <1>4, <1>5, <1>6 DEF HostInv, GotInv

DataParts == SessionInv /\ HostInv /\ GotInv /\ HostGetsData

LEMMA OtherSessions ==
  ASSUME DataInv, Typed', NEW p \in Pipes, Only(p), SessionPart(p)',
         \A q \in Pipes \ {p} : adb[q].messenger \in Hosts => SameHost(adb[q].messenger)
  PROVE  SessionInv'
<1>1. ASSUME NEW q \in Pipes PROVE SessionPart(q)'
  <2>1. CASE q = p
    BY <2>1
  <2>2. CASE q # p
    <3>1. SamePipe(q)
      BY <2>2 DEF Only
    <3> QED BY <2>2, <3>1, SameSession
  <2> QED BY <2>1, <2>2
<1> QED BY <1>1 DEF SessionInv

LEMMA PlainSession ==
  ASSUME DataInv, Typed', PlainStep, NEW p \in Pipes, Only(p), SessionPart(p)'
  PROVE  DataParts'
<1>1. \A h \in Hosts : SameHost(h)
  BY HostSendsKept DEF PlainStep, DataInv, HostInv
<1>2. SessionInv'
  BY <1>1, OtherSessions
<1> QED BY <1>2, PlainKeeps DEF DataParts

\* A step for p after which nothing has been sent or got, and nothing has begun.
LEMMA CalmStep ==
  ASSUME DataInv, Typed', NEW p \in Pipes, Only(p),
         \A v \in Workers : task'[v].at = "host_connection" => task'[v] = task[v],
         Advancing(p)' => Advancing(p), ForHost(p)' => ForHost(p),
         Pending(p)' = Pending(p),
         Live(p)' => Live(p) \/ adb'[p].state # "proxying_data",
         ~Begun(p)' => ~Begun(p),
         pipe'[p].service = pipe[p].service, pipe'[p].written = pipe[p].written,
         pipe'[p].unread = pipe[p].unread, pipe'[p].got = pipe[p].got,
         adb'[p].buffer = adb[p].buffer,
         adb'[p].expected_command = adb[p].expected_command,
         adb'[p].messenger = adb[p].messenger,
         adb'[p].connector \in {adb[p].connector, "none"},
         adb'[p].state \in {adb[p].state, "closed_by_host"},
         \A h \in Hosts : <<p, h>> \in host_reads' => <<p, h>> \in host_reads,
         \A h \in Hosts : <<p, h>> \in host_reads /\ pipe'[p].status = "open" =>
           pipe[p].status = "open",
         \A h \in Hosts :
           /\ host'[h].written = host[h].written /\ host'[h].unread = host[h].unread
           /\ host'[h].got = host[h].got
           /\ host'[h].status = "none" <=> host[h].status = "none"
  PROVE  DataParts'
<1>1. \A h \in Hosts : SameHost(h)
  BY HostSendsKept DEF DataInv, HostInv
<1>2. Quiet(p) => Quiet(p)'
  BY DEF Quiet
<1>3. SessionPart(p) /\ HasMessenger(adb[p]) /\ adb[p].messenger \in Hosts \cup {NoHost}
  BY DEF DataInv, OrderInv, SessionInv, Typed, Shapes, Processors
<1>4. SessionPart(p)'
  BY <1>1, <1>2, <1>3, SessionKept
<1>5. PlainStep
  BY DEF PlainStep, Only, SamePipe
<1> QED BY <1>4, <1>5, PlainSession

\* What the session of a connection that is being created looks like.
LEMMA NotBegun ==
  ASSUME DataInv, NEW p \in Pipes, ~Begun(p)
  PROVE  /\ adb[p].state # "proxying_data"
         /\ \A h \in Hosts : <<p, h>> \notin host_reads
<1>1. SessionPart(p) /\ ServicePart(p)
  BY DEF DataInv, OrderInv, SessionInv, ServiceInv
<1>2. CASE pipe[p].service = "adb"
  <2>1. adb[p].expected_command = accept_command /\ BeforeAccept(p) /\ BeforeStart(p)
    BY <1>1, <1>2 DEF SessionPart
  <2>2. First(p) = 0 /\ adb[p].state # "proxying_data"
    BY <2>1 DEF BeforeAccept
  <2>3. Unstarted(p)
    BY <2>2 DEF Unstarted
  <2> QED BY <2>1, <2>2, <2>3 DEF BeforeStart
<1>3. CASE pipe[p].service # "adb"
  BY <1>1, <1>3 DEF ServicePart
<1> QED BY <1>2, <1>3

LEMMA IdentifyClientData ==
  ASSUME DataInv, NEW w \in Workers, IdentifyClient(w)
  PROVE  DataParts'
<1> Typed /\ LockInv
  BY DEF DataInv, OrderInv
<1>1. PICK p \in Pipes : p = task[w].pipe
  BY IdentifyClientDoes
<1>0. /\ Typed' /\ At(w, "identify")
      /\ task'[w] = [task[w] EXCEPT !.at = "add"]
      /\ \A v \in Workers \ {w} : task'[v] = task[v]
      /\ UNCHANGED <<server, session, ends, host_reads>>
  BY IdentifyClientDoes
<1>2. task'[w].at = "add" /\ task'[w].pipe = p
  BY <1>0, <1>1 DEF Typed, Shapes, Tasks
<1>3. Only(p)
  BY <1>1, <1>0, <1>2, OnlyOne DEF server, session, ends
<1>4. Pending(p)' = Pending(p)
  BY <1>0, <1>2, PendingKept DEF Processing, At
<1>5. (Advancing(p)' => Advancing(p)) /\ (ForHost(p)' => ForHost(p))
  BY <1>0, <1>2, CalmTask DEF HostLabels
<1>6. Live(p)' => Live(p)
  BY <1>0, <1>2 DEF Live, Busy, server
<1>7. ~Begun(p)
  BY <1>1, <1>0, <1>2 DEF Begun, At
<1> QED BY <1>0, <1>2, <1>3, <1>4, <1>5, <1>6, <1>7, CalmStep DEF session, ends

LEMMA AddConnectionData ==
  ASSUME DataInv, NEW w \in Workers, AddConnection(w)
  PROVE  DataParts'
<1> Typed /\ LockInv
  BY DEF DataInv, OrderInv
<1>1. PICK p \in Pipes : p = task[w].pipe
  BY AddConnectionDoes
<1>0. /\ Typed' /\ At(w, "add")
      /\ conns' = conns \cup {task[w].pipe}
      /\ task'[w] = [task[w] EXCEPT !.at = "first_read"]
      /\ \A v \in Workers \ {w} : task'[v] = task[v]
      /\ UNCHANGED <<accepting, reading, session, ends, host_reads>>
  BY AddConnectionDoes
<1>2. conns' = conns \cup {p} /\ task'[w].at = "first_read" /\ task'[w].pipe = p
  BY <1>0, <1>1 DEF Typed, Shapes, Tasks
<1>3. Only(p)
  BY <1>1, <1>0, <1>2, OnlyOne DEF session, ends
<1>4. Pending(p)' = Pending(p)
  BY <1>0, <1>2, PendingKept DEF Processing, At
<1>5. (Advancing(p)' => Advancing(p)) /\ (ForHost(p)' => ForHost(p))
  BY <1>0, <1>2, CalmTask DEF HostLabels
<1>6. ~Begun(p)
  BY <1>1, <1>0, <1>2 DEF Begun, At
<1>7. adb'[p].state # "proxying_data"
  BY <1>0, <1>2, <1>6, NotBegun DEF session
<1> QED BY <1>0, <1>2, <1>3, <1>4, <1>5, <1>6, <1>7, CalmStep DEF session, ends

LEMMA ReadNextMessageData ==
  ASSUME DataInv, NEW w \in Workers, ReadNextMessage(w)
  PROVE  DataParts'
<1> Typed /\ LockInv
  BY DEF DataInv, OrderInv
<1>1. PICK p \in Pipes : p = task[w].pipe
  BY ReadNextMessageDoes
<1>2. /\ Typed' /\ (At(w, "read_next") \/ At(w, "first_read"))
      /\ reading' = reading \cup {p}
      /\ task'[w] = Idle /\ task'[w].at = "idle" /\ task'[w].pipe = NoPipe
      /\ \A v \in Workers \ {w} : task'[v] = task[v]
      /\ UNCHANGED <<conns, session, ends, host_reads>>
  BY <1>1, ReadNextMessageDoes DEF Idle
<1>3. Only(p)
  BY <1>1, <1>2, OnlyOne DEF session, ends
<1>4. Pending(p)' = Pending(p)
  BY <1>2, PendingKept DEF Processing, At
<1>5. (Advancing(p)' => Advancing(p)) /\ (ForHost(p)' => ForHost(p))
  BY <1>2, CalmTask DEF HostLabels
<1>6. Live(p)
  BY <1>1, <1>2 DEF Live, Busy, At
<1>7. ~Begun(p)' => ~Begun(p)
  BY <1>2 DEF Begun, ends
<1> QED BY <1>2, <1>3, <1>4, <1>5, <1>6, <1>7, CalmStep DEF session, ends

LEMMA ReadErrorData ==
  ASSUME DataInv, NEW w \in Workers, NEW p \in Pipes, ReadError(w, p)
  PROVE  DataParts'
<1> Typed /\ LockInv
  BY DEF DataInv, OrderInv
<1>1. /\ Typed'
      /\ p \in reading /\ task[w] = Idle
      /\ reading' = reading \ {p}
      /\ task'[w] = [at |-> "remove", pipe |-> p, data |-> <<>>, host |-> NoHost]
      /\ \A v \in Workers \ {w} : task'[v] = task[v]
      /\ UNCHANGED <<conns, session, ends, host_reads>>
  BY ReadErrorDoes
<1>2. task[w].at = "idle" /\ task'[w].at = "remove" /\ task'[w].pipe = p
  BY <1>1 DEF Idle
<1>3. Only(p)
  BY <1>1, <1>2, OnlyOne DEF session, ends
<1>4. Pending(p)' = Pending(p)
  BY <1>1, <1>2, PendingKept DEF Processing
<1>5. (Advancing(p)' => Advancing(p)) /\ (ForHost(p)' => ForHost(p))
  BY <1>1, <1>2, CalmTask DEF HostLabels
<1>6. Live(p)
  BY <1>1, <1>2 DEF Live
<1>7. ~Begun(p)' => ~Begun(p)
  BY <1>1, <1>2 DEF Begun, ends
<1> QED BY <1>1, <1>2, <1>3, <1>4, <1>5, <1>6, <1>7, CalmStep DEF session, ends

LEMMA RemoveConnectionData ==
  ASSUME DataInv, NEW w \in Workers, RemoveConnection(w)
  PROVE  DataParts'
<1> Typed /\ LockInv
  BY DEF DataInv, OrderInv
<1>1. PICK p \in Pipes : p = task[w].pipe
  BY RemoveConnectionDoes
<1>2. /\ Typed' /\ At(w, "remove")
      /\ conns' = conns \ {p}
      /\ adb'[p] = [adb[p] EXCEPT !.state = "closed_by_host", !.connector = "none"]
      /\ pipe'[p] = [pipe[p] EXCEPT !.status = "closed"]
      /\ \A q \in Pipes \ {p} : adb'[q] = adb[q] /\ pipe'[q] = pipe[q]
      /\ host_reads' = host_reads \ ({p} \X Hosts)
      /\ \A h \in Hosts : \/ host'[h] = host[h]
                          \/ h = adb[p].messenger /\ host'[h] = [host[h] EXCEPT !.status = "closed"]
      /\ task'[w] = Idle
      /\ \A v \in Workers \ {w} : task'[v] = task[v]
      /\ UNCHANGED <<reading, commands>>
  BY <1>1, RemoveConnectionDoes
<1>3. task'[w].at = "idle" /\ task'[w].pipe = NoPipe
  BY <1>2 DEF Idle
<1>4. Only(p)
  BY <1>1, <1>2, OnlyOne
<1>5. Pending(p)' = Pending(p)
  BY <1>1, <1>2, <1>3, PendingKept DEF Processing, At
<1>6. adb[p] \in Processors /\ pipe[p] \in Guests
  BY DEF Typed, Shapes
<1>7. /\ adb'[p].buffer = adb[p].buffer /\ adb'[p].messenger = adb[p].messenger
      /\ adb'[p].expected_command = adb[p].expected_command
      /\ adb'[p].connector = "none" /\ adb'[p].state = "closed_by_host"
      /\ pipe'[p].service = pipe[p].service /\ pipe'[p].written = pipe[p].written
      /\ pipe'[p].unread = pipe[p].unread /\ pipe'[p].got = pipe[p].got
      /\ pipe'[p].status = "closed"
  BY <1>2, <1>6 DEF Processors, Guests
<1>8. (Advancing(p)' => Advancing(p)) /\ (ForHost(p)' => ForHost(p))
  BY <1>2, <1>3, CalmTask DEF HostLabels
<1>9. ~Begun(p)' => ~Begun(p)
  BY <1>2, <1>3, <1>7 DEF Begun
<1>10. ASSUME NEW h \in Hosts
       PROVE  /\ host'[h].written = host[h].written /\ host'[h].unread = host[h].unread
              /\ host'[h].got = host[h].got
              /\ host'[h].status = "none" <=> host[h].status = "none"
  <2>1. host[h] \in HostEnds
    BY DEF Typed, Shapes
  <2>2. h = adb[p].messenger => host[h].status # "none"
    BY DEF DataInv, HostInv, Messenger
  <2>3. CASE host'[h] = host[h]
    BY <2>3
  <2>4. CASE h = adb[p].messenger /\ host'[h] = [host[h] EXCEPT !.status = "closed"]
    BY <2>1, <2>2, <2>4 DEF HostEnds
  <2> QED BY <1>2, <2>3, <2>4
<1>11. \A v \in Workers : task'[v].at = "host_connection" => task'[v] = task[v]
  BY <1>2, <1>3
<1> QED BY <1>2, <1>4, <1>5, <1>7, <1>8, <1>9, <1>10, <1>11, CalmStep

LEMMA AcceptData ==
  ASSUME DataInv, NEW w \in Workers, NEW p \in Pipes, Accept(w, p)
  PROVE  DataParts'
<1> Typed /\ LockInv
  BY DEF DataInv, OrderInv
<1>1. /\ Typed'
      /\ pipe[p].status = "none"
      /\ pipe'[p] = [pipe[p] EXCEPT !.status = "open"]
      /\ \A q \in Pipes \ {p} : pipe'[q] = pipe[q]
      /\ task[w] = Idle
      /\ task'[w] = [at |-> "identify", pipe |-> p, data |-> <<>>, host |-> NoHost]
      /\ \A v \in Workers \ {w} : task'[v] = task[v]
      /\ UNCHANGED <<conns, reading, session, host, host_reads>>
  BY AcceptDoes
<1>2. task[w].at = "idle" /\ task'[w].at = "identify" /\ task'[w].pipe = p
  BY <1>1 DEF Idle
<1>3. Only(p)
  BY <1>1, <1>2, OnlyOne DEF session
<1>4. Pending(p)' = Pending(p)
  BY <1>1, <1>2, PendingKept DEF Processing
<1>5. (Advancing(p)' => Advancing(p)) /\ (ForHost(p)' => ForHost(p))
  BY <1>1, <1>2, CalmTask DEF HostLabels
<1>6. ~Begun(p)
  BY <1>1 DEF Begun
<1>7. pipe[p] \in Guests
  BY DEF Typed, Shapes
<1>8. /\ pipe'[p].service = pipe[p].service /\ pipe'[p].written = pipe[p].written
      /\ pipe'[p].unread = pipe[p].unread /\ pipe'[p].got = pipe[p].got
  BY <1>1, <1>7 DEF Guests
<1>9. /\ adb'[p].state # "proxying_data"
      /\ \A h \in Hosts : <<p, h>> \notin host_reads
  BY <1>1, <1>6, NotBegun DEF session
<1> QED BY <1>1, <1>2, <1>3, <1>4, <1>5, <1>6, <1>8, <1>9, CalmStep DEF session

LEMMA OnHostReadErrorData ==
  ASSUME DataInv, NEW w \in Workers, NEW p \in Pipes, NEW h \in Hosts, OnHostReadError(w, p, h)
  PROVE  DataParts'
<1> Typed /\ LockInv
  BY DEF DataInv, OrderInv
<1>1. /\ Typed'
      /\ host_reads' = host_reads \ {<<p, h>>}
      /\ adb'[p] = [adb[p] EXCEPT !.state = "closed_by_host"]
      /\ pipe'[p] = [pipe[p] EXCEPT !.status = "closed"]
      /\ \A q \in Pipes \ {p} : adb'[q] = adb[q] /\ pipe'[q] = pipe[q]
      /\ UNCHANGED <<server, task, commands, owner, host>>
  BY OnHostReadErrorDoes
<1>2. Only(p)
  BY <1>1, OnlyOneSameTasks DEF server
<1>3. Pending(p)' = Pending(p) /\ Advancing(p)' = Advancing(p) /\ ForHost(p)' = ForHost(p)
  BY <1>1 DEF Pending, Advancing, ForHost, At
<1>4. adb[p] \in Processors /\ pipe[p] \in Guests
  BY DEF Typed, Shapes
<1>5. /\ adb'[p].buffer = adb[p].buffer /\ adb'[p].messenger = adb[p].messenger
      /\ adb'[p].expected_command = adb[p].expected_command
      /\ adb'[p].connector = adb[p].connector /\ adb'[p].state = "closed_by_host"
      /\ pipe'[p].service = pipe[p].service /\ pipe'[p].written = pipe[p].written
      /\ pipe'[p].unread = pipe[p].unread /\ pipe'[p].got = pipe[p].got
      /\ pipe'[p].status = "closed"
  BY <1>1, <1>4 DEF Processors, Guests
<1>6. ~Begun(p)' => ~Begun(p)
  BY <1>1, <1>5 DEF Begun
<1> QED BY <1>1, <1>2, <1>3, <1>5, <1>6, CalmStep

LEMMA GuestLeavesData ==
  ASSUME DataInv, NEW p \in Pipes, GuestLeaves(p)
  PROVE  DataParts'
<1> Typed /\ LockInv
  BY DEF DataInv, OrderInv
<1>1. /\ Typed'
      /\ pipe'[p] = [pipe[p] EXCEPT !.status = "left"]
      /\ \A q \in Pipes \ {p} : pipe'[q] = pipe[q]
      /\ UNCHANGED <<server, task, session, host, host_reads>>
  BY GuestLeavesDoes
<1>2. Only(p)
  BY <1>1, OnlyOneSameTasks DEF server, session
<1>3. /\ Pending(p)' = Pending(p) /\ Advancing(p)' = Advancing(p) /\ ForHost(p)' = ForHost(p)
      /\ Live(p)' = Live(p)
  BY <1>1 DEF Pending, Advancing, ForHost, At, Live, Busy, server
<1>4. pipe[p] \in Guests
  BY DEF Typed, Shapes
<1>5. /\ pipe'[p].service = pipe[p].service /\ pipe'[p].written = pipe[p].written
      /\ pipe'[p].unread = pipe[p].unread /\ pipe'[p].got = pipe[p].got
      /\ pipe'[p].status = "left"
  BY <1>1, <1>4 DEF Guests
<1>6. ~Begun(p)' => ~Begun(p)
  BY <1>1, <1>5 DEF Begun
<1> QED BY <1>1, <1>2, <1>3, <1>5, <1>6, CalmStep DEF session

\* No pipe has part in the step of a host.
LEMMA HostLeavesData ==
  ASSUME DataInv, NEW h \in Hosts, HostLeaves(h)
  PROVE  DataParts'
<1> Typed /\ LockInv
  BY DEF DataInv, OrderInv
<1>1. /\ Typed'
      /\ host[h].status = "open"
      /\ host'[h] = [host[h] EXCEPT !.status = "left"]
      /\ \A g \in Hosts \ {h} : host'[g] = host[g]
      /\ UNCHANGED <<server, task, session, pipe, host_reads>>
  BY HostLeavesDoes
<1>2. \A p \in Pipes : SamePipe(p)
  BY <1>1 DEF SamePipe, server, session
<1>3. host[h] \in HostEnds
  BY DEF Typed, Shapes
<1>4. /\ host'[h].written = host[h].written /\ host'[h].unread = host[h].unread
      /\ host'[h].got = host[h].got /\ host'[h].status = "left"
  BY <1>1, <1>3 DEF HostEnds
<1>5. PlainStep
  BY <1>1, <1>4 DEF PlainStep, session
<1>6. \A g \in Hosts : SameHost(g)
  BY <1>1, <1>4 DEF SameHost, Read
<1>7. SessionInv'
  BY <1>1, <1>2, <1>6, SameSession DEF SessionInv
<1> QED BY <1>1, <1>5, <1>7, PlainKeeps DEF DataParts

-----------------------------------------------------------------------------
(* The steps of the streams of a session *)

\* A step that may read or write what the guest sends, and starts nothing for p.
LEMMA SessionMoved ==
  ASSUME NEW p \in Pipes, SessionPart(p), HasMessenger(adb[p]),
         pipe[p].service = "adb" =>
           /\ First(p)' = First(p) /\ Handled(p)' = Handled(p) /\ Aligned(p)'
           /\ Unstarted(p) => pipe'[p].written <= 2,
         pipe'[p].service = pipe[p].service, pipe'[p].got = pipe[p].got,
         adb'[p] = adb[p],
         Quiet(p) => Quiet(p)',
         Advancing(p)' => Advancing(p),
         Live(p)' => Live(p),
         ~Begun(p)' => ~Begun(p),
         \A h \in Hosts : <<p, h>> \in host_reads' => <<p, h>> \in host_reads,
         UNCHANGED host
  PROVE  SessionPart(p)'
<1> SUFFICES ASSUME pipe[p].service = "adb" PROVE SessionPart(p)'
  BY DEF SessionPart
<1>1. Aligned(p) /\ BeforeAccept(p) /\ BeforeStart(p) /\ Proxies(p)
  BY DEF SessionPart
<1>2. BeforeAccept(p)'
  BY <1>1 DEF BeforeAccept
<1>3. Unstarted(p)' => Unstarted(p)
  BY DEF Unstarted
<1>4. ASSUME NEW h \in Hosts, Fresh(h) PROVE Fresh(h)'
  BY <1>4 DEF Fresh, Read
<1>5. BeforeStart(p)'
  <2>1. Has(pipe'[p].got, "data") = Has(pipe[p].got, "data")
    OBVIOUS
  <2> QED BY <1>1, <1>3, <1>4, <2>1 DEF BeforeStart
<1>6. Proxies(p)'
  BY <1>1 DEF Proxies
<1>7. ~Begun(p)' => adb'[p].expected_command = accept_command
  BY DEF SessionPart
<1> QED BY <1>2, <1>5, <1>6, <1>7 DEF SessionPart

\* The numbers that say how far the stream has come.
LEMMA Counts ==
  ASSUME Typed, NEW p \in Pipes, Pending(p) \in Seq(Token)
  PROVE  /\ pipe[p].written \in Nat /\ Sent(pipe[p].written) \in Nat
         /\ pipe[p].unread \in Seq(Token) /\ Len(pipe[p].unread) \in Nat
         /\ adb[p].buffer \in Seq(Token) /\ Len(adb[p].buffer) \in Nat
         /\ Len(Pending(p)) \in Nat
         /\ ReadOf(p) \in Int /\ Handled(p) \in Int /\ First(p) \in Int
<1>1. pipe[p] \in Guests /\ adb[p] \in Processors
  BY DEF Typed, Shapes
<1>2. pipe[p].written \in Nat /\ pipe[p].unread \in Seq(Token) /\ adb[p].buffer \in Seq(Token)
  BY <1>1 DEF Guests, Processors
<1>3. Sent(pipe[p].written) \in Nat
  BY <1>2 DEF Sent
<1>4. Len(pipe[p].unread) \in Nat /\ Len(adb[p].buffer) \in Nat /\ Len(Pending(p)) \in Nat
  BY <1>2
<1>5. ReadOf(p) \in Int
  BY <1>3, <1>4 DEF ReadOf
<1>6. Handled(p) \in Int
  BY <1>4, <1>5 DEF Handled
<1>7. First(p) \in Int
  BY <1>4, <1>6 DEF First
<1> QED BY <1>2, <1>3, <1>4, <1>5, <1>6, <1>7

LEMMA PendingTyped ==
  ASSUME Typed, LockInv, NEW p \in Pipes
  PROVE  Pending(p) \in Seq(Token)
<1>1. CASE \A v \in Workers : ~Processing(task, v, p)
  <2>1. Pending(p) = <<>>
    BY <1>1, PendingNone DEF Pending
  <2>2. <<>> \in Seq(Token)
    OBVIOUS
  <2> QED BY <2>1, <2>2
<1>2. ASSUME NEW w \in Workers, Processing(task, w, p)
      PROVE  Pending(p) \in Seq(Token)
  <2>1. Pending(p) = task[w].data
    BY <1>2, PendingOf DEF Processing, At
  <2>2. task[w] \in Tasks
    BY DEF Typed, Shapes
  <2> QED BY <2>1, <2>2 DEF Tasks
<1> QED BY <1>1, <1>2

\* What is read is taken from the front of what is there.
LEMMA RunCut ==
  ASSUME NEW s \in Seq(Token), NEW n \in Int, IsRun(s, n), NEW k \in 1 .. Len(s)
  PROVE  IsRun(SubSeq(s, 1, k), n) /\ IsRun(SubSeq(s, k + 1, Len(s)), n + k)
<1> DEFINE d == SubSeq(s, 1, k)
           r == SubSeq(s, k + 1, Len(s))
<1>1. /\ Len(s) \in Nat /\ k \in Nat /\ Len(d) = k /\ Len(r) = Len(s) - k
      /\ \A i \in 1 .. k : d[i] = s[i]
      /\ \A i \in 1 .. Len(s) - k : r[i] = s[i + k]
  BY CutIn
<1> HIDE DEF d, r
<1>2. ASSUME NEW i \in 1 .. Len(d) PROVE d[i] = AdbToken(n + i)
  <2>1. i \in 1 .. k /\ i \in 1 .. Len(s)
    BY <1>1
  <2> QED BY <1>1, <2>1 DEF IsRun
<1>3. ASSUME NEW i \in 1 .. Len(r) PROVE r[i] = AdbToken((n + k) + i)
  <2>1. i + k \in 1 .. Len(s) /\ n + (i + k) = (n + k) + i /\ i \in 1 .. Len(s) - k
    BY <1>1
  <2>2. r[i] = s[i + k] /\ s[i + k] = AdbToken(n + (i + k))
    BY <1>1, <2>1 DEF IsRun
  <2> QED BY <2>1, <2>2
<1> QED BY <1>2, <1>3 DEF IsRun, d, r

\* And what is written follows it.
LEMMA RunJoined ==
  ASSUME NEW s \in Seq(Token), NEW t \in Seq(Token), NEW n \in Int, NEW m, m = n + Len(s),
         IsRun(s, n), IsRun(t, m)
  PROVE  IsRun(s \o t, n)
<1> DEFINE r == s \o t
<1>1. /\ Len(s) \in Nat /\ Len(t) \in Nat /\ Len(r) = Len(s) + Len(t)
      /\ \A i \in 1 .. Len(s) : r[i] = s[i]
      /\ \A i \in Len(s) + 1 .. Len(s) + Len(t) : r[i] = t[i - Len(s)]
  BY ConcatParts
<1> HIDE DEF r
<1>2. ASSUME NEW i \in 1 .. Len(r) PROVE r[i] = AdbToken(n + i)
  <2>1. CASE i <= Len(s)
    <3>1. i \in 1 .. Len(s)
      BY <1>1, <2>1
    <3> QED BY <1>1, <3>1 DEF IsRun
  <2>2. CASE i > Len(s)
    <3>1. /\ i \in Len(s) + 1 .. Len(s) + Len(t) /\ i - Len(s) \in 1 .. Len(t)
          /\ m + (i - Len(s)) = n + i
      BY <1>1, <2>2
    <3>2. r[i] = t[i - Len(s)] /\ t[i - Len(s)] = AdbToken(m + (i - Len(s)))
      BY <1>1, <3>1 DEF IsRun
    <3> QED BY <3>1, <3>2
  <2>3. i \in Int /\ Len(s) \in Int
    BY <1>1
  <2> QED BY <2>1, <2>2, <2>3
<1> QED BY <1>2 DEF IsRun, r

LEMMA ReadSomeData ==
  ASSUME DataInv, NEW w \in Workers, NEW p \in Pipes, ReadSome(w, p)
  PROVE  DataParts'
<1> Typed /\ LockInv
  BY DEF DataInv, OrderInv
<1>1. /\ Typed'
      /\ p \in reading /\ task[w] = Idle
      /\ reading' = reading \ {p}
      /\ \A v \in Workers \ {w} : task'[v] = task[v]
      /\ UNCHANGED <<conns, session, host, host_reads>>
  BY ReadSomeDoes
<1>2. PICK k \in 1 .. Len(pipe[p].unread) :
        /\ task'[w] = [at |-> "process", pipe |-> p, data |-> SubSeq(pipe[p].unread, 1, k),
                       host |-> NoHost]
        /\ pipe' = [pipe EXCEPT ![p].unread = SubSeq(@, k + 1, Len(@))]
  BY ReadSomeDoes, Zenon
<1> DEFINE d == SubSeq(pipe[p].unread, 1, k)
           r == SubSeq(pipe[p].unread, k + 1, Len(pipe[p].unread))
<1>3. /\ task[w].at = "idle" /\ task'[w].at = "process" /\ task'[w].pipe = p
      /\ task'[w].data = d
  BY <1>1, <1>2 DEF Idle
<1>4. pipe \in [Pipes -> Guests] /\ pipe[p] \in Guests /\ pipe[p].unread \in Seq(Token)
  BY DEF Typed, Shapes, Guests
<1>5. /\ pipe'[p].service = pipe[p].service /\ pipe'[p].written = pipe[p].written
      /\ pipe'[p].got = pipe[p].got /\ pipe'[p].status = pipe[p].status
      /\ pipe'[p].unread = r
      /\ \A q \in Pipes \ {p} : pipe'[q] = pipe[q]
  BY <1>2, <1>4 DEF Guests
<1>6. d \in Seq(Token) /\ Len(d) = k /\ r \in Seq(Token) /\ Len(r) = Len(pipe[p].unread) - k
  BY <1>4, CutIn
<1> HIDE DEF d, r
<1>7. Only(p)
  BY <1>1, <1>3, <1>5, OnlyOne DEF session
<1>8. Pending(p) = <<>> /\ Pending(p)' = d
  BY <1>1, <1>3, PendingBegun DEF Processing
<1>9. (Advancing(p)' => Advancing(p)) /\ (ForHost(p)' => ForHost(p))
  BY <1>1, <1>3, CalmTask DEF HostLabels
<1>10. Quiet(p) => Quiet(p)'
  BY <1>1, <1>9 DEF Quiet, session
<1>11. Live(p) /\ (~Begun(p)' => ~Begun(p))
  BY <1>1, <1>3, <1>5 DEF Live, Begun
<1>12. SessionPart(p) /\ HasMessenger(adb[p])
  BY DEF DataInv, SessionInv, Typed
<1>13. ASSUME pipe[p].service = "adb"
       PROVE  /\ First(p)' = First(p) /\ Handled(p)' = Handled(p) /\ Aligned(p)'
              /\ Unstarted(p) => pipe'[p].written <= 2
  <2>1. Aligned(p) /\ BeforeStart(p)
    BY <1>12, <1>13 DEF SessionPart
  <2>2. Pending(p) \in Seq(Token) /\ Len(Pending(p)) = 0 /\ k \in Nat /\ Len(d) = k
    BY <1>6, <1>8
  <2>3. /\ Sent(pipe[p].written) \in Nat /\ Len(pipe[p].unread) \in Nat
        /\ ReadOf(p) \in Int /\ Handled(p) \in Int
    BY <2>2, Counts
  <2>4. ReadOf(p)' = ReadOf(p) + k
    BY <1>5, <1>6, <2>2, <2>3 DEF ReadOf
  <2>5. Handled(p) = ReadOf(p) /\ Handled(p)' = Handled(p)
    BY <1>8, <2>2, <2>3, <2>4 DEF Handled
  <2>6. First(p)' = First(p)
    BY <1>1, <2>5 DEF First, session
  <2>7. IsRun(d, ReadOf(p)) /\ IsRun(r, ReadOf(p) + k)
    BY <1>4, <2>1, <2>3, RunCut DEF Aligned, d, r
  <2>8. Aligned(p)'
    <3>1. IsRun(Pending(p), Handled(p))' /\ IsRun(pipe[p].unread, ReadOf(p))'
      BY <1>5, <1>8, <2>4, <2>5, <2>7
    <3>2. adb'[p] = adb[p]
      BY <1>1 DEF session
    <3> QED BY <2>1, <2>6, <3>1, <3>2 DEF Aligned
  <2>9. Unstarted(p) => pipe'[p].written <= 2
    BY <1>5, <2>1 DEF BeforeStart
  <2> QED BY <2>5, <2>6, <2>8, <2>9
<1>14. SessionPart(p)'
  BY <1>1, <1>5, <1>9, <1>10, <1>11, <1>12, <1>13, SessionMoved DEF session
<1>15. PlainStep
  BY <1>1, <1>3, <1>5 DEF PlainStep, session
<1> QED BY <1>1, <1>7, <1>14, <1>15, PlainSession

\* What the guest of an adb session writes as its next message.
LEMMA NextRun ==
  ASSUME NEW p \in Pipes, Typed, pipe[p].service = "adb", NEW bytes \in Seq(Token), NextBytes(p, bytes)
  PROVE  /\ IsRun(bytes, Sent(pipe[p].written))
         /\ Sent(pipe[p].written + 1) = Sent(pipe[p].written) + Len(bytes)
         /\ pipe[p].written > 1 => Has(pipe[p].got, "data")
<1> DEFINE n == pipe[p].written
<1>1. n \in Nat
  BY DEF Typed, Shapes, Guests
<1>2. \/ n = 0 /\ bytes = accept_command
      \/ n = 1 /\ bytes = start_command
      \/ n > 1 /\ Has(pipe[p].got, "data") /\ bytes = <<Data(0, n - 1)>>
  BY DEF NextBytes
<1> HIDE DEF n
<1>3. CASE n = 0 /\ bytes = accept_command
  <2>1. Len(bytes) = 2 /\ bytes[1] = <<"accept", 0, 1>> /\ bytes[2] = <<"accept", 0, 2>>
    BY <1>3 DEF accept_command, Command
  <2>2. Sent(n) = 0 /\ Sent(n + 1) = 2
    BY <1>3 DEF Sent
  <2>3. \A i \in 1 .. 2 : bytes[i] = AdbToken(0 + i)
    BY <2>1 DEF AdbToken
  <2> QED BY <1>3, <2>1, <2>2, <2>3 DEF IsRun, n
<1>4. CASE n = 1 /\ bytes = start_command
  <2>1. Len(bytes) = 2 /\ bytes[1] = <<"start", 0, 1>> /\ bytes[2] = <<"start", 0, 2>>
    BY <1>4 DEF start_command, Command
  <2>2. Sent(n) = 2 /\ Sent(n + 1) = 4
    BY <1>4 DEF Sent
  <2>3. \A i \in 1 .. 2 : bytes[i] = AdbToken(2 + i)
    BY <2>1 DEF AdbToken
  <2> QED BY <1>4, <2>1, <2>2, <2>3 DEF IsRun, n
<1>5. CASE n > 1 /\ Has(pipe[p].got, "data") /\ bytes = <<Data(0, n - 1)>>
  <2>1. Len(bytes) = 1 /\ bytes[1] = Data(0, n - 1)
    BY <1>5
  <2>2. Sent(n) = n + 2 /\ Sent(n + 1) = n + 3
    BY <1>1, <1>5 DEF Sent
  <2>3. AdbToken((n + 2) + 1) = Data(0, n - 1)
    <3>1. (n + 2) + 1 > 4 /\ ((n + 2) + 1) - 4 = n - 1
      BY <1>1, <1>5
    <3> QED BY <1>1, <3>1 DEF AdbToken
  <2>4. \A i \in 1 .. 1 : bytes[i] = AdbToken((n + 2) + i)
    BY <2>1, <2>3
  <2> QED BY <1>1, <1>5, <2>1, <2>2, <2>4 DEF IsRun, n
<1> QED BY <1>2, <1>3, <1>4, <1>5

LEMMA GuestWritesNextData ==
  ASSUME DataInv, NEW p \in Pipes, GuestWritesNext(p)
  PROVE  DataParts'
<1> Typed /\ LockInv
  BY DEF DataInv, OrderInv
<1>1. /\ Typed'
      /\ \A q \in Pipes \ {p} : pipe'[q] = pipe[q]
      /\ UNCHANGED <<server, task, session, host, host_reads>>
  BY GuestWritesNextDoes
<1>2. PICK bytes \in Seq(Token) :
        /\ NextBytes(p, bytes)
        /\ pipe'[p] = [pipe[p] EXCEPT !.written = @ + 1, !.unread = @ \o bytes]
  BY GuestWritesNextDoes, Zenon
<1>3. pipe[p] \in Guests /\ pipe[p].unread \in Seq(Token) /\ pipe[p].written \in Nat
  BY DEF Typed, Shapes, Guests
<1>4. /\ pipe'[p].service = pipe[p].service /\ pipe'[p].written = pipe[p].written + 1
      /\ pipe'[p].got = pipe[p].got /\ pipe'[p].status = pipe[p].status
      /\ pipe'[p].unread = pipe[p].unread \o bytes
  BY <1>2, <1>3 DEF Guests
<1>5. Only(p)
  BY <1>1, OnlyOneSameTasks DEF server, session
<1>6. /\ Pending(p)' = Pending(p) /\ Advancing(p)' = Advancing(p) /\ ForHost(p)' = ForHost(p)
      /\ Live(p)' = Live(p)
  BY <1>1 DEF Pending, Advancing, ForHost, At, Live, Busy, server
<1>7. Quiet(p)' = Quiet(p)
  BY <1>1, <1>6 DEF Quiet, session
<1>8. ~Begun(p)' => ~Begun(p)
  BY <1>1, <1>4 DEF Begun
<1>9. SessionPart(p) /\ HasMessenger(adb[p])
  BY DEF DataInv, SessionInv, Typed
<1>10. ASSUME pipe[p].service = "adb"
       PROVE  /\ First(p)' = First(p) /\ Handled(p)' = Handled(p) /\ Aligned(p)'
              /\ Unstarted(p) => pipe'[p].written <= 2
  <2>1. Aligned(p) /\ BeforeStart(p)
    BY <1>9, <1>10 DEF SessionPart
  <2>2. /\ IsRun(bytes, Sent(pipe[p].written))
        /\ Sent(pipe[p].written + 1) = Sent(pipe[p].written) + Len(bytes)
        /\ pipe[p].written > 1 => Has(pipe[p].got, "data")
    BY <1>2, <1>10, NextRun
  <2>3. /\ Sent(pipe[p].written) \in Nat /\ Len(pipe[p].unread) \in Nat
        /\ ReadOf(p) \in Int /\ Handled(p) \in Int /\ Len(bytes) \in Nat
    BY PendingTyped, Counts
  <2>4. Len(pipe'[p].unread) = Len(pipe[p].unread) + Len(bytes)
    BY <1>3, <1>4
  <2>5. ReadOf(p)' = ReadOf(p)
    BY <1>4, <2>2, <2>3, <2>4 DEF ReadOf
  <2>6. Handled(p)' = Handled(p)
    BY <1>6, <2>5 DEF Handled
  <2>7. First(p)' = First(p)
    BY <1>1, <2>6 DEF First, session
  <2>8. IsRun(pipe[p].unread \o bytes, ReadOf(p))
    <3>1. Sent(pipe[p].written) = ReadOf(p) + Len(pipe[p].unread)
      BY <2>3 DEF ReadOf
    <3> QED BY <1>3, <2>1, <2>2, <2>3, <3>1, RunJoined DEF Aligned
  <2>9. Aligned(p)'
    <3>1. IsRun(Pending(p), Handled(p))' /\ IsRun(pipe[p].unread, ReadOf(p))'
      BY <1>4, <1>6, <2>1, <2>5, <2>6, <2>8 DEF Aligned
    <3>2. adb'[p] = adb[p]
      BY <1>1 DEF session
    <3> QED BY <2>1, <2>7, <3>1, <3>2 DEF Aligned
  <2>10. Unstarted(p) => pipe'[p].written <= 2
    BY <1>3, <1>4, <2>1, <2>2 DEF BeforeStart
  <2> QED BY <2>6, <2>7, <2>9, <2>10
<1>11. SessionPart(p)'
  BY <1>1, <1>4, <1>6, <1>7, <1>8, <1>9, <1>10, SessionMoved DEF session
<1>12. PlainStep
  BY <1>1, <1>3, <1>4 DEF PlainStep, session
<1> QED BY <1>1, <1>5, <1>11, <1>12, PlainSession

\* The guest of a session that begins has sent nothing, and was told nothing.
LEMMA GuestNamesData ==
  ASSUME DataInv, NEW p \in Pipes, GuestNames(p)
  PROVE  DataParts'
<1> Typed /\ LockInv
  BY DEF DataInv, OrderInv
<1>1. /\ Typed' /\ ~Named(p)
      /\ \A q \in Pipes \ {p} : pipe'[q] = pipe[q]
      /\ UNCHANGED <<server, task, session, host, host_reads>>
  BY GuestNamesDoes
<1>2. PICK service \in Services : pipe'[p] = [pipe[p] EXCEPT !.service = service]
  BY GuestNamesDoes, Zenon
<1>3. pipe[p] \in Guests
  BY DEF Typed, Shapes
<1>4. /\ pipe'[p].written = pipe[p].written /\ pipe'[p].unread = pipe[p].unread
      /\ pipe'[p].got = pipe[p].got /\ pipe'[p].status = pipe[p].status
  BY <1>2, <1>3 DEF Guests
<1>5. Only(p)
  BY <1>1, OnlyOneSameTasks DEF server, session
<1>6. pipe[p].service = "none" /\ ServicePart(p)
  BY <1>1 DEF Named, Unnamed, DataInv, OrderInv, ServiceInv
<1>7. /\ pipe[p].written = 0 /\ pipe[p].unread = <<>> /\ pipe[p].got = <<>>
      /\ adb[p].buffer = <<>> /\ adb[p].expected_command = accept_command
      /\ Quiet(p) /\ ~Advancing(p)
      /\ \A h \in Hosts : <<p, h>> \notin host_reads
      /\ adb[p].state \notin {"waiting_for_guest_start_command", "proxying_data"}
  BY <1>6 DEF ServicePart
<1>8. Pending(p) = <<>>
  <2>1. p \notin conns
    BY <1>1, <1>6 DEF ServicePart
  <2> QED BY <2>1, NothingPending
<1>9. /\ Pending(p)' = Pending(p) /\ Advancing(p)' = Advancing(p) /\ ForHost(p)' = ForHost(p)
  BY <1>1 DEF Pending, Advancing, ForHost, At
<1>10. adb' = adb /\ host_reads' = host_reads
  BY <1>1 DEF session
<1>11. ReadOf(p)' = 0 /\ Handled(p)' = 0 /\ First(p)' = 0
  <2>1. Len(<<>>) = 0 /\ Sent(0) = 0
    BY DEF Sent
  <2>2. ReadOf(p)' = 0
    BY <1>4, <1>7, <2>1 DEF ReadOf
  <2>3. Handled(p)' = 0
    <3>1. Pending(p)' = <<>>
      BY <1>8, <1>9
    <3>2. Len(Pending(p)') = 0
      BY <2>1, <3>1, Zenon
    <3> QED BY <2>2, <3>2 DEF Handled
  <2> QED BY <1>7, <1>10, <2>1, <2>2, <2>3 DEF First
<1>12. Aligned(p)'
  <2>1. \A n : IsRun(<<>>, n)
    BY DEF IsRun
  <2> QED BY <1>4, <1>7, <1>8, <1>9, <1>10, <1>11, <2>1 DEF Aligned
<1>13. Quiet(p)' /\ ~Advancing(p)'
  BY <1>7, <1>9, <1>10 DEF Quiet
<1>14. BeforeAccept(p)'
  BY <1>7, <1>10, <1>11, <1>13 DEF BeforeAccept
<1>15. BeforeStart(p)'
  <2>1. \A h \in Hosts : adb'[p].messenger # h
    BY <1>7, <1>10, PipeAssumption DEF Quiet
  <2>2. ~Has(pipe'[p].got, "data")
    BY <1>4, <1>7 DEF Has
  <2> QED BY <1>4, <1>7, <1>10, <2>1, <2>2 DEF BeforeStart
<1>16. Proxies(p)'
  BY <1>7, <1>10 DEF Proxies
<1>17. SessionPart(p)'
  BY <1>7, <1>10, <1>12, <1>14, <1>15, <1>16 DEF SessionPart
<1>18. PlainStep
  BY <1>1, <1>4 DEF PlainStep, session
<1> QED BY <1>1, <1>5, <1>17, <1>18, PlainSession

-----------------------------------------------------------------------------
(* The steps of the processor of adb *)

LEMMA ProcessCommandsData ==
  ASSUME DataInv, NEW w \in Workers, ProcessCommands(w)
  PROVE  DataParts'
<1> Typed /\ LockInv /\ OrderInv
  BY DEF DataInv, OrderInv
<1>1. Typed'
  BY ProcessCommandsOrder
<1>2. PICK p \in Pipes : p = task[w].pipe /\ At(w, "process") /\ pipe[p].service = "qemud"
  BY DEF ProcessCommands, At, Typed, TaskTyped
<1>3. /\ \E b : adb' = [adb EXCEPT ![p].buffer = b]
      /\ \E c : commands' = [commands EXCEPT ![p] = c]
      /\ Goes(w, "read_next")
      /\ UNCHANGED <<server, owner, ends, host_reads>>
  BY <1>2 DEF ProcessCommands
<1>4. /\ task'[w].at = "read_next" /\ task'[w].pipe = p
      /\ \A v \in Workers \ {w} : task'[v] = task[v]
  BY <1>2, <1>3, GoesDoes DEF Labels
<1>5. adb \in [Pipes -> Processors] /\ adb[p] \in Processors /\ commands \in [Pipes -> Seq(Commands)]
  BY DEF Typed, Shapes
<1>6. /\ adb'[p].messenger = adb[p].messenger
      /\ \A q \in Pipes \ {p} : adb'[q] = adb[q]
  BY <1>3, <1>5 DEF Processors
<1>7. \A q \in Pipes \ {p} : commands'[q] = commands[q]
  BY <1>3, <1>5
<1>8. Only(p)
  BY <1>2, <1>3, <1>4, <1>6, <1>7, OnlyOne DEF server, ends
<1>9. SessionPart(p)'
  <2>1. pipe'[p].service = "qemud"
    BY <1>2, <1>3 DEF ends
  <2> QED BY <2>1 DEF SessionPart
<1>10. PlainStep
  BY <1>3, <1>4, <1>6 DEF PlainStep, ends
<1> QED BY <1>1, <1>8, <1>9, <1>10, PlainSession

\* A session that proxies has handled its commands, and its buffer is empty.
LEMMA ProxyingHandled ==
  ASSUME DataInv, NEW p \in Pipes, pipe[p].service = "adb", adb[p].state = "proxying_data"
  PROVE  /\ adb[p].buffer = <<>> /\ ~Advancing(p)
         /\ First(p) \in Int /\ First(p) >= 4 /\ Handled(p) = First(p)
         /\ adb[p].expected_command # accept_command
<1> Typed /\ LockInv
  BY DEF DataInv, OrderInv
<1>1. Aligned(p) /\ BeforeAccept(p) /\ BeforeStart(p) /\ Proxies(p)
  BY DEF DataInv, SessionInv, SessionPart
<1>2. adb[p].buffer = <<>> /\ ~Unstarted(p)
  BY <1>1 DEF Proxies, BeforeStart
<1>3. First(p) \in Int /\ Handled(p) \in Int /\ Len(adb[p].buffer) = 0
  BY <1>2, PendingTyped, Counts
<1>4. First(p) >= 4 /\ ~Advancing(p)
  BY <1>2, <1>3 DEF Unstarted
<1>5. Handled(p) = First(p)
  BY <1>3 DEF First
<1>6. adb[p].expected_command # accept_command
  BY <1>1 DEF BeforeAccept
<1> QED BY <1>2, <1>3, <1>4, <1>5, <1>6

\* What such a session reads goes on: all of it is handled.
LEMMA ProxyingGoesOn ==
  ASSUME DataInv, NEW w \in Workers, NEW p \in Pipes, p = task[w].pipe, At(w, "process"),
         pipe[p].service = "adb", adb[p].state = "proxying_data",
         task'[w].at \in {"idle", "read_next"},
         \A v \in Workers \ {w} : task'[v] = task[v],
         task'[w].pipe \in {p, NoPipe},
         UNCHANGED <<adb, pipe, reading, host_reads>>
  PROVE  /\ task[w].data \in Seq(Token) /\ task[w].data # <<>>
         /\ IsRun(task[w].data, Handled(p))
         /\ Handled(p)' = Handled(p) + Len(task[w].data)
         /\ Aligned(p)' /\ BeforeAccept(p)' /\ BeforeStart(p)'
         /\ ~Begun(p)' => ~Begun(p)
<1> Typed /\ LockInv
  BY DEF DataInv, OrderInv
<1> DEFINE d == task[w].data
<1>1. d \in Seq(Token) /\ d # <<>>
  BY DEF Typed, Shapes, Tasks, TaskTyped, At
<1>2. Pending(p) = d /\ Pending(p)' = <<>>
  BY PendingGone DEF Processing, At
<1>3. /\ adb[p].buffer = <<>> /\ ~Advancing(p)
      /\ First(p) \in Int /\ First(p) >= 4 /\ Handled(p) = First(p)
      /\ adb[p].expected_command # accept_command
  BY ProxyingHandled
<1>4. Aligned(p)
  BY DEF DataInv, SessionInv, SessionPart
<1>5. IsRun(d, Handled(p))
  BY <1>2, <1>4 DEF Aligned
<1>6. ReadOf(p) \in Int /\ Len(d) \in Nat /\ Handled(p) = ReadOf(p) - Len(d)
  BY <1>1, <1>2, Counts DEF Handled
<1> HIDE DEF d
<1>7. ReadOf(p)' = ReadOf(p)
  BY DEF ReadOf
<1>8. Handled(p)' = Handled(p) + Len(d)
  <2>1. Len(Pending(p)') = 0
    BY <1>2
  <2>2. Handled(p)' = ReadOf(p)
    BY <1>6, <1>7, <2>1 DEF Handled
  <2> QED BY <1>3, <1>6, <2>2
<1>9. First(p)' = Handled(p)' /\ First(p)' >= 4 /\ First(p)' = ReadOf(p)'
  <2>1. Len(adb'[p].buffer) = 0
    BY <1>3
  <2>2. First(p)' = Handled(p)'
    BY <1>3, <1>6, <1>8, <2>1 DEF First
  <2> QED BY <1>3, <1>6, <1>7, <1>8, <2>2
<1>10. Aligned(p)'
  <2>1. \A n : IsRun(<<>>, n)
    BY DEF IsRun
  <2> QED BY <1>2, <1>3, <1>4, <1>7, <1>9, <2>1 DEF Aligned
<1>11. ~Advancing(p)'
  BY <1>3, CalmTask DEF HostLabels
<1>12. BeforeAccept(p)'
  BY <1>3, <1>11 DEF BeforeAccept
<1>13. ~Unstarted(p)'
  BY <1>3, <1>6, <1>8, <1>9, <1>11 DEF Unstarted
<1>14. BeforeStart(p)'
  BY <1>13 DEF BeforeStart
<1>15. ~Begun(p)' => ~Begun(p)
  BY DEF Begun
<1> QED BY <1>1, <1>5, <1>8, <1>10, <1>12, <1>14, <1>15 DEF d

LEMMA ProxyThrowsData ==
  ASSUME DataInv, NEW w \in Workers, NEW p \in Pipes, ProxyThrows(w, p)
  PROVE  DataParts'
<1> Typed /\ LockInv
  BY DEF DataInv, OrderInv
<1>1. /\ Typed'
      /\ p = task[w].pipe /\ At(w, "process") /\ pipe[p].service = "adb"
      /\ adb[p].state = "proxying_data"
      /\ task'[w] = Idle
      /\ \A v \in Workers \ {w} : task'[v] = task[v]
      /\ UNCHANGED <<server, session, ends, host_reads>>
  BY ProxyThrowsDoes
<1>2. /\ task'[w].at = "idle" /\ task'[w].pipe = NoPipe
      /\ UNCHANGED <<adb, pipe, host, reading, conns, commands, host_reads>>
  BY <1>1 DEF Idle, server, session, ends
<1>3. Only(p)
  BY <1>1, <1>2, OnlyOne
<1>4. Aligned(p)' /\ BeforeAccept(p)' /\ BeforeStart(p)' /\ (~Begun(p)' => ~Begun(p))
  BY <1>1, <1>2, ProxyingGoesOn
<1>5. adb[p].buffer = <<>>
  BY <1>1, ProxyingHandled
<1>6. ~Live(p)'
  BY <1>1, <1>2, ProcessesAlone DEF Live, Busy, Processing, At
<1>7. Proxies(p)'
  BY <1>2, <1>5, <1>6 DEF Proxies
<1>8. SessionPart(p)'
  BY <1>1, <1>2, <1>4, <1>7 DEF SessionPart, DataInv, SessionInv
<1>9. PlainStep
  BY <1>1, <1>2 DEF PlainStep
<1> QED BY <1>1, <1>3, <1>8, <1>9, PlainSession

DataOnly(got) ==
  \A i \in 1 .. Len(got) :
    /\ IsData(got[i])
    /\ i > 1 => got[i][3] = got[i - 1][3] + 1

LEMMA DataTokens ==
  ASSUME NEW j \in Int, j > 4
  PROVE  AdbToken(j) = Data(0, j - 4) /\ IsData(AdbToken(j)) /\ AdbToken(j)[3] = j - 4
<1>1. AdbToken(j) = Data(0, j - 4)
  BY DEF AdbToken
<1> QED BY <1>1 DEF Data, IsData

\* The fourth token is the last one of the commands.
LEMMA NoData == ~IsData(AdbToken(4))
  BY DEF AdbToken, IsData

LEMMA DataGoesOn ==
  ASSUME NEW got \in Seq(Token), DataOnly(got), NEW d \in Seq(Token), d # <<>>,
         NEW n \in Int, n >= 4, IsRun(d, n), got = <<>> \/ got[Len(got)] = AdbToken(n),
         NEW r, r = got \o d
  PROVE  /\ DataOnly(r)
         /\ r[Len(r)] = AdbToken(n + Len(d))
<1> DEFINE l == Len(got)
           k == Len(d)
<1>1. /\ l \in Nat /\ k \in Nat /\ Len(r) = l + k
      /\ \A i \in 1 .. l : r[i] = got[i]
      /\ \A i \in l + 1 .. l + k : r[i] = d[i - l]
  BY ConcatParts
<1>2. k >= 1
  BY <1>1
<1> HIDE DEF l, k
<1>3. ASSUME NEW i \in 1 .. k
      PROVE  /\ r[l + i] = AdbToken(n + i) /\ IsData(r[l + i]) /\ r[l + i][3] = (n + i) - 4
  <2>1. /\ l + i \in l + 1 .. l + k /\ (l + i) - l = i /\ n + i \in Int /\ n + i > 4
    BY <1>1
  <2>2. r[l + i] = d[i]
    BY <1>1, <2>1
  <2>3. d[i] = AdbToken(n + i)
    BY DEF IsRun, k
  <2> QED BY <2>1, <2>2, <2>3, DataTokens
<1>4. ASSUME NEW i \in 1 .. l
      PROVE  r[i] = got[i] /\ IsData(r[i]) /\ (i > 1 => r[i][3] = r[i - 1][3] + 1)
  <2>1. r[i] = got[i] /\ IsData(got[i]) /\ (i > 1 => got[i][3] = got[i - 1][3] + 1)
    BY <1>1 DEF DataOnly, l
  <2>2. i > 1 => i - 1 \in 1 .. l
    BY <1>1
  <2>3. i > 1 => r[i - 1] = got[i - 1]
    BY <1>1, <2>2
  <2> QED BY <2>1, <2>3
<1>5. l > 0 => r[l][3] = n - 4
  <2> SUFFICES ASSUME l > 0 PROVE r[l][3] = n - 4
    OBVIOUS
  <2>1. l \in 1 .. l /\ got # <<>>
    BY <1>1 DEF l
  <2>2. got[l] = AdbToken(n)
    BY <2>1 DEF l
  <2>3. r[l] = AdbToken(n) /\ IsData(AdbToken(n))
    BY <1>4, <2>1, <2>2
  <2>4. n > 4
    BY <2>3, NoData
  <2> QED BY <2>3, <2>4, DataTokens
<1>6. ASSUME NEW i \in 1 .. k
      PROVE  l + i > 1 => r[l + i][3] = r[(l + i) - 1][3] + 1
  <2>1. CASE i = 1
    <3>1. (l + i) - 1 = l
      BY <1>1, <2>1
    <3>2. r[l + i][3] = (n + 1) - 4
      BY <1>3, <2>1
    <3>3. l + i > 1 => l > 0
      BY <1>1, <2>1
    <3>4. r[(l + i) - 1] = r[l]
      BY <3>1
    <3>5. (n + 1) - 4 = (n - 4) + 1
      OBVIOUS
    <3> QED BY <1>5, <3>2, <3>3, <3>4, <3>5, Zenon
  <2>2. CASE i > 1
    <3>1. i - 1 \in 1 .. k /\ (l + i) - 1 = l + (i - 1)
      BY <1>1, <2>2
    <3>2. r[l + (i - 1)][3] = (n + (i - 1)) - 4
      BY <1>3, <3>1
    <3>3. r[l + i][3] = (n + i) - 4
      BY <1>3
    <3>4. (n + i) - 4 = ((n + (i - 1)) - 4) + 1
      BY <1>1
    <3> QED BY <3>1, <3>2, <3>3, <3>4, Zenon
  <2>3. i = 1 \/ i > 1
    BY <1>1
  <2> QED BY <2>1, <2>2, <2>3
<1>7. ASSUME NEW i \in 1 .. Len(r)
      PROVE  IsData(r[i]) /\ (i > 1 => r[i][3] = r[i - 1][3] + 1)
  <2>1. CASE i \in 1 .. l
    BY <1>4, <2>1
  <2>2. CASE i \notin 1 .. l
    <3>1. PICK j \in 1 .. k : i = l + j
      <4>1. i - l \in 1 .. k /\ i = l + (i - l)
        BY <1>1, <2>2
      <4> QED BY <4>1
    <3> QED BY <1>3, <1>6, <3>1
  <2> QED BY <2>1, <2>2
<1>8. DataOnly(r)
  BY <1>7 DEF DataOnly
<1>9. k \in 1 .. k /\ Len(r) = l + k
  BY <1>1, <1>2
<1> QED BY <1>3, <1>8, <1>9 DEF k

\* A host that has just connected, and that the step has nothing to do with.
LEMMA ArrivingKept ==
  ASSUME Typed, NEW w \in Workers, Arriving(w), task'[w] = task[w],
         \A h \in Hosts : At(w, "host_connection") /\ task[w].host = h =>
           /\ host'[h].status # "none" /\ (Fresh(h) => Fresh(h)')
           /\ \A p \in Pipes : adb[p].messenger # h => adb'[p].messenger # h
           /\ \A v \in Workers : At(v, "host_connection")' /\ task'[v].host = h =>
                At(v, "host_connection") /\ task[v].host = h
  PROVE  Arriving(w)'
<1> SUFFICES ASSUME At(w, "host_connection") PROVE Arriving(w)'
  BY DEF Arriving, At
<1>1. PICK h \in Hosts : h = task[w].host
  BY DEF At, Typed, TaskTyped
<1>2. /\ Fresh(h)
      /\ \A p \in Pipes : adb[p].messenger # h
      /\ \A v \in Workers : At(v, "host_connection") /\ task[v].host = h => v = w
  BY <1>1 DEF Arriving
<1>3. /\ host'[h].status # "none" /\ Fresh(h)'
      /\ \A p \in Pipes : adb'[p].messenger # h
      /\ \A v \in Workers : At(v, "host_connection")' /\ task'[v].host = h => v = w
  BY <1>1, <1>2
<1>4. task'[w].host = h
  BY <1>1
<1> QED BY <1>3, <1>4 DEF Arriving, Fresh, Read

LEMMA HostTyped ==
  ASSUME Typed, NEW h \in Hosts
  PROVE  /\ host[h] \in HostEnds /\ host[h].written \in Nat
         /\ host[h].unread \in Seq(Token) /\ Len(host[h].unread) \in Nat
         /\ host[h].got \in Seq(Token) /\ Len(host[h].got) \in Nat
         /\ Read(h) \in Int
<1>1. host[h] \in HostEnds
  BY DEF Typed, Shapes
<1>2. host[h].written \in Nat /\ host[h].unread \in Seq(Token) /\ host[h].got \in Seq(Token)
  BY <1>1 DEF HostEnds
<1>3. Len(host[h].unread) \in Nat /\ Len(host[h].got) \in Nat
  BY <1>2
<1> QED BY <1>1, <1>2, <1>3 DEF Read

LEMMA HostGets ==
  ASSUME Typed
  PROVE  HostGetsData <=> \A h \in Hosts : DataOnly(host[h].got)
<1>1. \A h \in Hosts : DOMAIN host[h].got = 1 .. Len(host[h].got)
  BY HostTyped
<1> QED BY <1>1 DEF HostGetsData, DataOnly

\* The same after a step.
LEMMA HostGetsNext ==
  ASSUME Typed', \A h \in Hosts : DataOnly(host'[h].got)
  PROVE  HostGetsData'
<1>1. \A h \in Hosts : host'[h].got \in Seq(Token)
  BY DEF Typed, Shapes, HostEnds
<1>2. \A h \in Hosts : DOMAIN host'[h].got = 1 .. Len(host'[h].got)
  BY <1>1
<1> QED BY <1>2 DEF HostGetsData, DataOnly

LEMMA ProxyDataData ==
  ASSUME DataInv, NEW w \in Workers, NEW p \in Pipes, ProxyData(w, p)
  PROVE  DataParts'
<1> Typed /\ LockInv
  BY DEF DataInv, OrderInv
<1>0. PICK m : m = adb[p].messenger
  OBVIOUS
<1>1. /\ Typed'
      /\ p = task[w].pipe /\ At(w, "process") /\ pipe[p].service = "adb"
      /\ adb[p].state = "proxying_data" /\ m \in Hosts
      /\ host'[m] = [host[m] EXCEPT !.got = @ \o task[w].data]
      /\ \A h \in Hosts \ {m} : host'[h] = host[h]
      /\ task'[w] = [task[w] EXCEPT !.at = "read_next"]
      /\ \A v \in Workers \ {w} : task'[v] = task[v]
      /\ UNCHANGED <<server, session, pipe, host_reads>>
  BY <1>0, ProxyDataDoes
<1>2. /\ task'[w].at = "read_next" /\ task'[w].pipe = p
      /\ UNCHANGED <<adb, pipe, reading, conns, commands, host_reads>>
  BY <1>1 DEF Typed, Shapes, Tasks, server, session
<1>3. Only(p)
  BY <1>1, <1>2, OnlyOne
<1> DEFINE d == task[w].data
           got == host[m].got
<1>4. /\ host'[m].got = got \o d /\ host'[m].written = host[m].written
      /\ host'[m].unread = host[m].unread /\ host'[m].status = host[m].status
      /\ got \in Seq(Token)
  BY <1>1, HostTyped DEF HostEnds
<1>5. /\ d \in Seq(Token) /\ d # <<>> /\ IsRun(d, Handled(p))
      /\ Handled(p)' = Handled(p) + Len(d)
      /\ Aligned(p)' /\ BeforeAccept(p)' /\ BeforeStart(p)'
      /\ ~Begun(p)' => ~Begun(p)
  BY <1>1, <1>2, ProxyingGoesOn
<1>6. Handled(p) \in Int /\ Handled(p) >= 4 /\ adb[p].buffer = <<>>
  BY <1>1, ProxyingHandled
<1>7. got = <<>> \/ got[Len(got)] = AdbToken(Handled(p))
  <2>1. Proxies(p)
    BY <1>1 DEF DataInv, SessionInv, SessionPart
  <2>2. Live(p)
    BY <1>1 DEF Live, Busy, At
  <2> QED BY <1>0, <1>1, <2>1, <2>2 DEF Proxies
<1> HIDE DEF d
<1>8. DataOnly(host'[m].got) /\ host'[m].got[Len(host'[m].got)] = AdbToken(Handled(p)')
  <2>1. DataOnly(got)
    BY <1>1, HostGets DEF DataInv
  <2> HIDE DEF got
  <2>2. PICK r : r = got \o d
    OBVIOUS
  <2>3. DataOnly(r) /\ r[Len(r)] = AdbToken(Handled(p) + Len(d))
    BY <1>4, <1>5, <1>6, <1>7, <2>1, <2>2, DataGoesOn
  <2> QED BY <1>4, <1>5, <2>2, <2>3
<1>9. HostGetsData'
  <2>1. \A h \in Hosts : DataOnly(host'[h].got)
    BY <1>1, <1>8, HostGets DEF DataInv
  <2> QED BY <1>1, <2>1, HostGetsNext
<1>10. \A h \in Hosts : Read(h)' = Read(h) /\ host'[h].status = host[h].status
  BY <1>1, <1>4 DEF Read
<1>11. \A h \in Hosts : Messenger(p, h) /\ (adb[p].messenger = h => h = m)
  BY <1>0 DEF DataInv, HostInv
<1>12. ASSUME NEW h \in Hosts PROVE HostSends(h)'
  <2>1. CASE h = m
    <3>1. host[m].status # "none"
      BY <1>0, <1>1, <1>11 DEF Messenger
    <3>2. HostSends(m)
      BY <1>1 DEF DataInv, HostInv
    <3> QED BY <1>4, <1>10, <2>1, <3>1, <3>2 DEF HostSends
  <2>2. CASE h # m
    BY <1>1, <2>2, HostSendsKept DEF DataInv, HostInv
  <2> QED BY <2>1, <2>2
<1>13. ASSUME NEW q \in Pipes, NEW h \in Hosts PROVE Messenger(q, h)'
  BY <1>2, <1>10 DEF Messenger, DataInv, HostInv
<1>14. ASSUME NEW v \in Workers PROVE Arriving(v)'
  <2>1. CASE v = w
    BY <1>2, <2>1 DEF Arriving, At
  <2>2. CASE v # w
    <3>1. Arriving(v) /\ task'[v] = task[v]
      BY <1>1, <2>2 DEF DataInv, HostInv
    <3>2. ASSUME NEW h \in Hosts, At(v, "host_connection"), task[v].host = h
          PROVE  host'[h] = host[h] /\ host[h].status # "none"
      BY <1>0, <1>1, <3>1, <3>2 DEF Arriving
    <3>3. ASSUME NEW h \in Hosts, At(v, "host_connection"), task[v].host = h
          PROVE  /\ host'[h].status # "none" /\ (Fresh(h) => Fresh(h)')
      BY <3>2, <3>3 DEF Fresh, Read
    <3>4. \A u \in Workers : At(u, "host_connection")' => task'[u] = task[u]
      BY <1>1, <1>2 DEF At
    <3> QED BY <1>2, <3>1, <3>3, <3>4, ArrivingKept DEF At
  <2> QED BY <2>1, <2>2
<1>15. HostInv'
  BY <1>12, <1>13, <1>14 DEF HostInv
<1>16. GotInv'
  <2>1. \A q \in Pipes : GotOf(q)'
    BY <1>2, GotOfKept DEF DataInv, GotInv
  <2>2. \A q \in Pipes, h \in Hosts : GotRead(q, h)'
    BY <1>2, <1>10, GotReadKept DEF DataInv, GotInv
  <2> QED BY <2>1, <2>2 DEF GotInv
<1>17. SessionPart(p)'
  <2>1. Proxies(p)'
    BY <1>0, <1>2, <1>6, <1>8 DEF Proxies
  <2> QED BY <1>1, <1>2, <1>5, <2>1 DEF SessionPart, DataInv, SessionInv
<1>18. ASSUME NEW q \in Pipes \ {p}, adb[q].messenger \in Hosts
       PROVE  SameHost(adb[q].messenger)
  <2>1. adb[q].messenger # m
    BY <1>0, <1>1, <1>11 DEF Messenger
  <2>2. PICK h \in Hosts \ {m} : h = adb[q].messenger
    BY <1>18, <2>1
  <2>3. SameHost(h)
    BY <1>1, <1>10 DEF SameHost
  <2> QED BY <2>2, <2>3
<1>19. SessionInv'
  BY <1>1, <1>3, <1>17, <1>18, OtherSessions
<1> QED BY <1>9, <1>15, <1>16, <1>19 DEF DataParts

\* A connection that a worker handles has been created.
LEMMA BusyBegun ==
  ASSUME LockInv, NEW p \in Pipes, NEW w \in Workers, Busy(w), task[w].pipe = p
  PROVE  Begun(p)
<1>1. p \in conns
  BY DEF LockInv, BusyInv
<1> QED BY <1>1 DEF LockInv, CreatingInv, Seen, Creating, Begun

\* A connection stays created when a worker does something else than creating one.
LEMMA BegunKept ==
  ASSUME NEW p \in Pipes, NEW w \in Workers, pipe'[p].status = pipe[p].status,
         task'[w].at \notin {"identify", "add"},
         \A v \in Workers \ {w} : task'[v] = task[v]
  PROVE  Begun(p) => Begun(p)'
  BY DEF Begun

\* The first byte that comes is the first one of the command.
LEMMA NoMismatch ==
  ASSUME NEW s \in Seq(Token), NEW e \in Seq(Token), NEW n \in Nat, n > 0, n <= Len(s),
         ~Mismatch(s, e, n)
  PROVE  n <= Len(e) /\ s[1] = e[1]
<1>1. n \in 1 .. Len(s) /\ n \in 1 .. Len(e) /\ SubSeq(s, 1, n) = SubSeq(e, 1, n)
  BY DEF Mismatch
<1>2. 1 \in 1 .. n
  OBVIOUS
<1>3. SubSeq(s, 1, n)[1] = s[1]
  BY <1>1, <1>2, CutIn
<1>4. SubSeq(e, 1, n)[1] = e[1]
  BY <1>1, <1>2, CutIn
<1> QED BY <1>1, <1>3, <1>4

\* What is left of a stream once its first command is taken out.
LEMMA CutLength ==
  ASSUME NEW s \in Seq(Token), 2 \in 1 .. Len(s)
  PROVE  Len(SubSeq(s, 2 + 1, Len(s))) = Len(s) - 2
<1>1. \A k \in 1 .. Len(s) : Len(SubSeq(s, k + 1, Len(s))) = Len(s) - k
  BY CutIn
<1> QED BY <1>1, Zenon

\* Which token of the guest is the first one of a command.
LEMMA FirstTokens ==
  /\ accept_command # start_command /\ accept_command # <<>> /\ start_command # <<>>
  /\ Len(accept_command) = 2 /\ Len(start_command) = 2
  /\ start_command[1] = <<"start", 0, 1>>
  /\ \A j \in Int : AdbToken(j) = <<"start", 0, 1>> => j = 3
<1>1. /\ Len(accept_command) = 2 /\ Len(start_command) = 2
      /\ accept_command[1] = <<"accept", 0, 1>> /\ start_command[1] = <<"start", 0, 1>>
  BY DEF accept_command, start_command, Command
<1>2. accept_command # start_command
  BY <1>1
<1>3. accept_command # <<>> /\ start_command # <<>>
  BY DEF accept_command, start_command, Command
<1>4. ASSUME NEW j \in Int, AdbToken(j) = <<"start", 0, 1>> PROVE j = 3
  <2>1. CASE j <= 2
    BY <1>4, <2>1 DEF AdbToken
  <2>2. CASE j > 2 /\ j <= 4
    BY <1>4, <2>2 DEF AdbToken
  <2>3. CASE j > 4
    BY <1>4, <2>3, DataTokens DEF Data
  <2> QED BY <2>1, <2>2, <2>3
<1> QED BY <1>1, <1>2, <1>3, <1>4

\* What has been collected is what the guest has sent from the first token that is not handled.
LEMMA Collected ==
  ASSUME DataInv, NEW w \in Workers, NEW p \in Pipes, p = task[w].pipe, At(w, "process"),
         pipe[p].service = "adb", NEW s, s = adb[p].buffer \o task[w].data
  PROVE  /\ s \in Seq(Token) /\ Len(s) = Len(adb[p].buffer) + Len(task[w].data)
         /\ IsRun(s, First(p))
         /\ task[w].data \in Seq(Token) /\ task[w].data # <<>>
         /\ adb[p].buffer \in Seq(Token) /\ First(p) \in Int
<1> DEFINE d == task[w].data
           b == adb[p].buffer
<1>1. Typed /\ LockInv /\ Aligned(p)
  BY DEF DataInv, OrderInv, SessionInv, SessionPart
<1>2. Pending(p) = d
  BY <1>1, PendingOf
<1>3. d \in Seq(Token) /\ d # <<>>
  BY <1>1 DEF Typed, Shapes, Tasks, TaskTyped, At
<1>4. b \in Seq(Token) /\ Len(b) \in Nat /\ Handled(p) \in Int /\ First(p) \in Int
  BY <1>1, <1>2, <1>3, Counts
<1>5. First(p) = Handled(p) - Len(b)
  BY DEF First
<1>6. IsRun(b, First(p)) /\ IsRun(d, Handled(p))
  BY <1>1, <1>2 DEF Aligned
<1>7. s = b \o d
  OBVIOUS
<1> HIDE DEF d, b
<1>8. Handled(p) = First(p) + Len(b)
  BY <1>4, <1>5
<1>9. IsRun(s, First(p))
  BY <1>3, <1>4, <1>6, <1>7, <1>8, RunJoined
<1>10. s \in Seq(Token) /\ Len(s) = Len(b) + Len(d)
  BY <1>3, <1>4, <1>7
<1> QED BY <1>3, <1>4, <1>9, <1>10 DEF b, d

\* How far the stream has come once n tokens of what was collected are taken out.
LEMMA CollectCounts ==
  ASSUME Typed, LockInv, NEW w \in Workers, NEW p \in Pipes, Processing(task, w, p),
         ~Processing(task', w, p), \A v \in Workers \ {w} : task'[v] = task[v],
         NEW n \in Nat, Len(adb'[p].buffer) = Len(adb[p].buffer) + Len(task[w].data) - n,
         UNCHANGED pipe
  PROVE  /\ Pending(p)' = <<>>
         /\ ReadOf(p)' = ReadOf(p) /\ Handled(p)' = ReadOf(p)
         /\ First(p)' = First(p) + n /\ First(p) \in Int
<1> DEFINE d == Len(task[w].data)
           b == Len(adb[p].buffer)
           c == Len(adb'[p].buffer)
<1>1. Pending(p) = task[w].data /\ Pending(p)' = <<>>
  BY PendingGone
<1>2. ReadOf(p) \in Int /\ First(p) \in Int /\ d \in Nat /\ b \in Nat
  BY <1>1, PendingTyped, Counts
<1>3. First(p) = (ReadOf(p) - d) - b
  BY <1>1 DEF First, Handled
<1>4. ReadOf(p)' = ReadOf(p)
  BY DEF ReadOf
<1>5. Handled(p)' = ReadOf(p)
  <2>1. Len(Pending(p)') = 0
    BY <1>1
  <2> QED BY <1>2, <1>4, <2>1 DEF Handled
<1>6. First(p)' = ReadOf(p) - c
  BY <1>5 DEF First
<1>7. c = (b + d) - n
  OBVIOUS
<1> HIDE DEF d, b, c
<1>8. First(p)' = First(p) + n
  BY <1>2, <1>3, <1>6, <1>7
<1> QED BY <1>1, <1>2, <1>4, <1>5, <1>8

\* The processor keeps what has come, or gives the connection up.
LEMMA CollectKept ==
  ASSUME DataInv, NEW w \in Workers, NEW p \in Pipes, p = task[w].pipe, At(w, "process"),
         pipe[p].service = "adb", adb[p].state # "proxying_data",
         task'[w].at \in {"read_next", "remove"}, task'[w].pipe = p,
         \A v \in Workers \ {w} : task'[v] = task[v],
         First(p)' = First(p), ReadOf(p)' = ReadOf(p), Pending(p)' = <<>>,
         IsRun(adb'[p].buffer, First(p)),
         adb'[p].state = adb[p].state, adb'[p].expected_command = adb[p].expected_command,
         adb'[p].connector = adb[p].connector, adb'[p].messenger = adb[p].messenger,
         UNCHANGED <<reading, pipe, host, host_reads>>
  PROVE  SessionPart(p)'
<1>1. Typed /\ LockInv /\ Aligned(p) /\ BeforeAccept(p) /\ BeforeStart(p)
  BY DEF DataInv, OrderInv, SessionInv, SessionPart
<1>2. Aligned(p)'
  <2>1. IsRun(Pending(p), Handled(p))'
    <3>1. Len(<<>>) = 0
      OBVIOUS
    <3> QED BY <3>1 DEF IsRun
  <2> QED BY <1>1, <2>1 DEF Aligned
<1>3. ~Advancing(p)' /\ (ForHost(p)' => ForHost(p))
  <2>1. ~Advancing(p)
    BY <1>1, ProcessesAlone DEF Advancing, Processing, At, Busy
  <2> QED BY <1>1, <2>1, CalmTask DEF HostLabels
<1>4. BeforeAccept(p)'
  BY <1>1, <1>3 DEF BeforeAccept, Quiet
<1>5. BeforeStart(p)'
  <2>1. Unstarted(p)' => Unstarted(p)
    BY <1>3 DEF Unstarted
  <2>2. \A h \in Hosts : Fresh(h)' = Fresh(h)
    BY DEF Fresh, Read
  <2> QED BY <1>1, <2>1, <2>2 DEF BeforeStart
<1>6. Proxies(p)'
  BY DEF Proxies
<1>7. Begun(p)'
  <2>1. Begun(p)
    BY <1>1, BusyBegun DEF Busy, At
  <2> QED BY <2>1, BegunKept
<1> QED BY <1>2, <1>4, <1>5, <1>6, <1>7 DEF SessionPart

\* The command is there: it is the next one, and the rest follows it.
LEMMA CommandCollected ==
  ASSUME DataInv, NEW w \in Workers, NEW p \in Pipes, p = task[w].pipe, At(w, "process"),
         pipe[p].service = "adb", adb[p].state # "proxying_data",
         task'[w].at = "advance", task'[w].pipe = p,
         \A v \in Workers \ {w} : task'[v] = task[v],
         NEW e, e = adb[p].expected_command, e \in {accept_command, start_command},
         e[1] = AdbToken(First(p) + 1), First(p) \in Int,
         First(p)' = First(p) + 2, ReadOf(p)' = ReadOf(p), Pending(p)' = <<>>,
         IsRun(adb'[p].buffer, First(p) + 2),
         adb'[p].state = adb[p].state, adb'[p].expected_command = <<>>,
         adb'[p].connector = adb[p].connector, adb'[p].messenger = adb[p].messenger,
         UNCHANGED <<reading, pipe, host, host_reads>>
  PROVE  SessionPart(p)'
<1>1. Typed /\ LockInv /\ Aligned(p) /\ BeforeAccept(p) /\ BeforeStart(p)
  BY DEF DataInv, OrderInv, SessionInv, SessionPart
<1>2. e = start_command => First(p) = 2
  <2> SUFFICES ASSUME e = start_command PROVE First(p) = 2
    OBVIOUS
  <2>1. AdbToken(First(p) + 1) = <<"start", 0, 1>>
    BY FirstTokens, Zenon
  <2>2. First(p) + 1 \in Int
    OBVIOUS
  <2>3. First(p) + 1 = 3
    BY <2>1, <2>2, FirstTokens, Zenon
  <2> QED BY <2>3
<1>3. e = accept_command =>
        /\ First(p) = 0 /\ Quiet(p)
        /\ adb[p].state \notin {"waiting_for_guest_start_command", "proxying_data"}
  BY <1>1 DEF BeforeAccept
<1>4. First(p) \in {0, 2}
  BY <1>2, <1>3
<1>5. Unstarted(p)
  BY <1>4 DEF Unstarted
<1>6. Aligned(p)'
  <2>1. IsRun(Pending(p), Handled(p))'
    <3>1. Len(<<>>) = 0
      OBVIOUS
    <3> QED BY <3>1 DEF IsRun
  <2>2. First(p)' \in {0, 2} \/ First(p)' >= 4
    BY <1>4
  <2> QED BY <1>1, <2>1, <2>2 DEF Aligned
<1>7. BeforeAccept(p)'
  <2> SUFFICES ASSUME First(p)' < 4 PROVE BeforeAccept(p)'
    BY FirstTokens DEF BeforeAccept
  <2>1. e = accept_command
    BY <1>2
  <2>2. ForHost(p)' => ForHost(p)
    BY DEF ForHost, HostLabels
  <2> QED BY <1>3, <2>1, <2>2, FirstTokens DEF BeforeAccept, Quiet
<1>8. BeforeStart(p)'
  <2>1. \A h \in Hosts : Fresh(h)' = Fresh(h)
    BY DEF Fresh, Read
  <2> QED BY <1>1, <1>5, <2>1 DEF BeforeStart
<1>9. Proxies(p)'
  BY DEF Proxies
<1>10. Begun(p)'
  <2>1. Begun(p)
    BY <1>1, BusyBegun DEF Busy, At
  <2> QED BY <2>1, BegunKept
<1> QED BY <1>6, <1>7, <1>8, <1>9, <1>10 DEF SessionPart

LEMMA CollectCommandData ==
  ASSUME DataInv, NEW w \in Workers, NEW p \in Pipes, CollectCommand(w, p)
  PROVE  DataParts'
<1> Typed /\ LockInv
  BY DEF DataInv, OrderInv
<1>1. /\ Typed'
      /\ p = task[w].pipe /\ At(w, "process") /\ pipe[p].service = "adb"
      /\ adb[p].state # "proxying_data"
      /\ \A q \in Pipes \ {p} : adb'[q] = adb[q]
      /\ \A v \in Workers \ {w} : task'[v] = task[v]
      /\ UNCHANGED <<server, commands, owner, ends, host_reads>>
  BY CollectCommandDoes
<1>2. PICK label \in {"read_next", "remove", "advance"} :
        /\ task'[w] = [task[w] EXCEPT !.at = label]
        /\ Collects(p, task[w].data, label)
  BY CollectCommandDoes, Zenon
<1>3. task'[w].at = label /\ task'[w].pipe = p
  BY <1>1, <1>2 DEF Typed, Shapes, Tasks
<1>4. UNCHANGED <<reading, conns, pipe, host, host_reads, commands>>
  BY <1>1 DEF server, ends
<1>5. Only(p)
  BY <1>1, <1>3, <1>4, OnlyOne
<1>6. adb[p] \in Processors
  BY DEF Typed, Shapes
<1>7. SessionPart(p)'
  <2> DEFINE s == adb[p].buffer \o task[w].data
             e == adb[p].expected_command
  <2>1. /\ s \in Seq(Token) /\ Len(s) = Len(adb[p].buffer) + Len(task[w].data)
        /\ IsRun(s, First(p))
        /\ task[w].data \in Seq(Token) /\ task[w].data # <<>>
        /\ adb[p].buffer \in Seq(Token) /\ First(p) \in Int
    BY <1>1, Collected
  <2>2. Processing(task, w, p) /\ ~Processing(task', w, p)
    BY <1>1, <1>2, <1>3 DEF Processing, At
  <2>3. /\ Len(adb[p].buffer) \in Nat /\ Len(task[w].data) \in Nat /\ Len(task[w].data) > 0
        /\ Len(s) = Len(adb[p].buffer) + Len(task[w].data)
    <3>1. /\ task[w].data \in Seq(Token) /\ task[w].data # <<>>
          /\ adb[p].buffer \in Seq(Token)
      BY <2>1
    <3> QED BY <2>1, <3>1
  <2>4. /\ Len(s) \in Nat /\ Len(task[w].data) <= Len(s)
        /\ Len(s) = Len(adb[p].buffer) + Len(task[w].data) - 0
        /\ Len(s) - 2 = Len(adb[p].buffer) + Len(task[w].data) - 2
    <3> HIDE DEF s
    <3> DEFINE x == Len(adb[p].buffer)
               y == Len(task[w].data)
    <3>1. x \in Nat /\ y \in Nat /\ Len(s) = x + y
      BY <2>3
    <3> HIDE DEF x, y
    <3>2. /\ x + y \in Nat /\ y <= x + y /\ x + y = x + y - 0
          /\ (x + y) - 2 = x + y - 2
      BY <3>1
    <3>3. /\ Len(s) \in Nat /\ y <= Len(s) /\ Len(s) = x + y - 0 /\ Len(s) - 2 = x + y - 2
      BY <3>1, <3>2, Zenon
    <3> QED BY <3>3, Zenon DEF x, y
  <2>5. CASE label \in {"read_next", "remove"}
    <3>1. adb'[p] = [adb[p] EXCEPT !.buffer = s]
      BY <1>2, <2>5 DEF Collects
    <3> HIDE DEF s
    <3>2. /\ adb'[p].buffer = s /\ adb'[p].state = adb[p].state
          /\ adb'[p].expected_command = adb[p].expected_command
          /\ adb'[p].connector = adb[p].connector /\ adb'[p].messenger = adb[p].messenger
      BY <1>6, <3>1 DEF Processors
    <3>3. Len(adb'[p].buffer) = Len(adb[p].buffer) + Len(task[w].data) - 0
      BY <2>4, <3>2, Zenon
    <3>4. /\ Pending(p)' = <<>> /\ ReadOf(p)' = ReadOf(p)
          /\ First(p)' = First(p) + 0 /\ First(p) \in Int
      BY <1>1, <1>4, <2>2, <3>3, CollectCounts
    <3>5. First(p)' = First(p)
      BY <3>4
    <3> QED BY <1>1, <1>3, <1>4, <2>1, <2>5, <3>2, <3>4, <3>5, CollectKept
  <2>6. CASE label = "advance"
    <3>1. /\ Len(e) > 0 /\ Len(s) >= Len(e)
          /\ ~Mismatch(s, e, Len(task[w].data))
          /\ adb'[p] = [adb[p] EXCEPT !.buffer = SubSeq(s, Len(e) + 1, Len(s)),
                                      !.expected_command = <<>>]
      BY <1>2, <2>6 DEF Collects
    <3>2. e \in {accept_command, start_command} /\ Len(e) = 2 /\ e \in Seq(Token)
      <4>1. Aligned(p)
        BY <1>1 DEF DataInv, SessionInv, SessionPart
      <4>2. e \in {accept_command, <<>>, start_command}
        BY <4>1 DEF Aligned
      <4> QED BY <3>1, <4>2, FirstTokens, TokensOk
    <3>3. e = adb[p].expected_command
      OBVIOUS
    <3> DEFINE r == SubSeq(s, 2 + 1, Len(s))
    <3> HIDE DEF s, e
    <3>4. /\ adb'[p].buffer = r /\ adb'[p].state = adb[p].state
          /\ adb'[p].expected_command = <<>>
          /\ adb'[p].connector = adb[p].connector /\ adb'[p].messenger = adb[p].messenger
      <4>1. adb'[p] = [adb[p] EXCEPT !.buffer = r, !.expected_command = <<>>]
        BY <3>1, <3>2
      <4> HIDE DEF r
      <4> QED BY <1>6, <4>1 DEF Processors
    <3>5. 2 \in 1 .. Len(s) /\ 1 \in 1 .. Len(s)
      <4>1. Len(s) \in Nat
        BY <2>4
      <4>2. Len(s) >= 2
        BY <3>1, <3>2, Zenon
      <4> HIDE DEF s
      <4> QED BY <4>1, <4>2
    <3>6. Len(r) = Len(s) - 2 /\ IsRun(r, First(p) + 2)
      <4>1. s \in Seq(Token) /\ IsRun(s, First(p)) /\ First(p) \in Int
        BY <2>1
      <4>2. Len(r) = Len(s) - 2
        BY <3>5, <4>1, CutLength, Zenon
      <4>3. IsRun(r, First(p) + 2)
        BY <3>5, <4>1, RunCut
      <4> QED BY <4>2, <4>3
    <3> HIDE DEF r
    <3>7. e[1] = AdbToken(First(p) + 1)
      <4>3. s[1] = e[1]
        BY <2>1, <2>3, <2>4, <3>1, <3>2, NoMismatch, Zenon
      <4> QED BY <2>1, <3>5, <4>3 DEF IsRun
    <3>8. Len(adb'[p].buffer) = Len(adb[p].buffer) + Len(task[w].data) - 2
      <4>1. Len(adb'[p].buffer) = Len(s) - 2
        BY <3>4, <3>6
      <4> QED BY <2>4, <4>1, Zenon
    <3>9. /\ Pending(p)' = <<>> /\ ReadOf(p)' = ReadOf(p) /\ First(p)' = First(p) + 2
      BY <1>1, <1>4, <2>2, <3>8, CollectCounts
    <3> QED BY <1>1, <1>3, <1>4, <2>1, <2>6, <3>2, <3>3, <3>4, <3>6, <3>7, <3>9, CommandCollected
  <2> QED BY <2>5, <2>6
<1>8. PlainStep
  <2>1. adb'[p].messenger = adb[p].messenger
    BY <1>2, <1>6 DEF Collects, Processors
  <2> QED BY <1>1, <1>3, <1>4, <2>1 DEF PlainStep
<1> QED BY <1>1, <1>5, <1>7, <1>8, PlainSession

-----------------------------------------------------------------------------
(* The steps for a host *)

\* What the guest of p has sent stays where it is.
LEMMA StreamStays ==
  ASSUME NEW p \in Pipes, Aligned(p), Pending(p)' = Pending(p),
         pipe'[p].written = pipe[p].written, pipe'[p].unread = pipe[p].unread,
         adb'[p].buffer = adb[p].buffer,
         adb'[p].expected_command \in {accept_command, <<>>, start_command}
  PROVE  Aligned(p)' /\ First(p)' = First(p) /\ Handled(p)' = Handled(p)
<1>1. ReadOf(p)' = ReadOf(p)
  BY DEF ReadOf
<1>2. Handled(p)' = Handled(p)
  BY <1>1 DEF Handled
<1>3. First(p)' = First(p)
  BY <1>2 DEF First
<1> QED BY <1>1, <1>2, <1>3 DEF Aligned

LEMMA SetStateData ==
  ASSUME DataInv, NEW w \in Workers, SetState(w)
  PROVE  DataParts'
<1> Typed /\ LockInv
  BY DEF DataInv, OrderInv
<1>1. PICK p \in Pipes : p = task[w].pipe
  BY SetStateDoes
<1>2. /\ Typed' /\ At(w, "host_state")
      /\ adb'[p] = [adb[p] EXCEPT !.state = "waiting_for_guest_start_command"]
      /\ \A q \in Pipes \ {p} : adb'[q] = adb[q]
      /\ task'[w] = [task[w] EXCEPT !.at = "host_expected"]
      /\ \A v \in Workers \ {w} : task'[v] = task[v]
      /\ UNCHANGED <<server, commands, owner, ends, host_reads>>
  BY <1>1, SetStateDoes
<1>3. task[w].at = "host_state" /\ task'[w].at = "host_expected" /\ task'[w].pipe = p
  BY <1>1, <1>2 DEF At, Typed, Shapes, Tasks
<1>4. UNCHANGED <<conns, reading, pipe, host, commands, host_reads>>
  BY <1>2 DEF server, ends
<1>5. Only(p)
  BY <1>1, <1>2, <1>3, <1>4, OnlyOne
<1>6. Pending(p)' = Pending(p)
  BY <1>2, <1>3, PendingKept DEF Processing
<1>7. adb[p] \in Processors
  BY DEF Typed, Shapes
<1>8. /\ adb'[p].buffer = adb[p].buffer /\ adb'[p].messenger = adb[p].messenger
      /\ adb'[p].expected_command = adb[p].expected_command
      /\ adb'[p].connector = adb[p].connector
      /\ adb'[p].state = "waiting_for_guest_start_command"
  BY <1>2, <1>7 DEF Processors
<1>9. (Advancing(p)' => Advancing(p)) /\ ForHost(p)
  <2>1. Advancing(p)' => Advancing(p)
    BY <1>1, <1>2, <1>3 DEF Advancing, At
  <2>2. ForHost(p)
    BY <1>1, <1>3 DEF ForHost, HostLabels
  <2> QED BY <2>1, <2>2
<1>10. PlainStep
  BY <1>2, <1>3, <1>4, <1>8 DEF PlainStep
<1>11. SessionPart(p)'
  <2> SUFFICES ASSUME pipe[p].service = "adb" PROVE SessionPart(p)'
    BY <1>4 DEF SessionPart
  <2>1. Aligned(p) /\ BeforeAccept(p) /\ BeforeStart(p)
        /\ (~Begun(p) => adb[p].expected_command = accept_command)
    BY DEF DataInv, SessionInv, SessionPart
  <2>2. Aligned(p)' /\ First(p)' = First(p)
    <3>1. adb'[p].expected_command \in {accept_command, <<>>, start_command}
      BY <1>8, <2>1 DEF Aligned
    <3> QED BY <1>4, <1>6, <1>8, <2>1, <3>1, StreamStays
  <2>3. BeforeAccept(p)'
    BY <1>8, <1>9, <2>1, <2>2 DEF BeforeAccept, Quiet
  <2>4. BeforeStart(p)'
    <3>1. Unstarted(p)' => Unstarted(p)
      BY <1>9, <2>2 DEF Unstarted
    <3>2. \A h \in Hosts : Fresh(h)' = Fresh(h)
      BY <1>4 DEF Fresh, Read
    <3> QED BY <1>4, <1>8, <2>1, <3>1, <3>2 DEF BeforeStart
  <2>5. Proxies(p)'
    BY <1>8 DEF Proxies
  <2>6. ~Begun(p)' => ~Begun(p)
    BY <1>2, <1>3, <1>4, BegunKept
  <2> QED BY <1>8, <2>1, <2>2, <2>3, <2>4, <2>5, <2>6 DEF SessionPart
<1> QED BY <1>2, <1>5, <1>10, <1>11, PlainSession

LEMMA SetExpectedData ==
  ASSUME DataInv, NEW w \in Workers, SetExpected(w)
  PROVE  DataParts'
<1> Typed /\ LockInv
  BY DEF DataInv, OrderInv
<1>1. PICK p \in Pipes : p = task[w].pipe
  BY SetExpectedDoes
<1>2. /\ Typed' /\ At(w, "host_expected")
      /\ \E c \in {"none", "listening"} :
           adb'[p] = [adb[p] EXCEPT !.expected_command = start_command, !.connector = c]
      /\ \A q \in Pipes \ {p} : adb'[q] = adb[q]
      /\ task'[w] = Idle
      /\ \A v \in Workers \ {w} : task'[v] = task[v]
      /\ UNCHANGED <<server, commands, owner, ends, host_reads>>
  BY <1>1, SetExpectedDoes
<1>3. task[w].at = "host_expected" /\ task'[w].at = "idle" /\ task'[w].pipe = NoPipe
  BY <1>2 DEF At, Idle
<1>4. UNCHANGED <<conns, reading, pipe, host, commands, host_reads>>
  BY <1>2 DEF server, ends
<1>5. Only(p)
  BY <1>1, <1>2, <1>4, OnlyOne
<1>6. Pending(p)' = Pending(p)
  BY <1>2, <1>3, PendingKept DEF Processing
<1>7. adb[p] \in Processors
  BY DEF Typed, Shapes
<1>8. /\ adb'[p].buffer = adb[p].buffer /\ adb'[p].messenger = adb[p].messenger
      /\ adb'[p].expected_command = start_command /\ adb'[p].state = adb[p].state
  BY <1>2, <1>7 DEF Processors
<1>9. (Advancing(p)' => Advancing(p)) /\ ForHost(p)
  <2>1. Advancing(p)' => Advancing(p)
    BY <1>1, <1>2, <1>3 DEF Advancing, At
  <2>2. ForHost(p)
    BY <1>1, <1>3 DEF ForHost, HostLabels
  <2> QED BY <2>1, <2>2
<1>10. PlainStep
  BY <1>2, <1>3, <1>4, <1>8 DEF PlainStep
<1>11. SessionPart(p)'
  <2> SUFFICES ASSUME pipe[p].service = "adb" PROVE SessionPart(p)'
    BY <1>4 DEF SessionPart
  <2>1. Aligned(p) /\ BeforeAccept(p) /\ BeforeStart(p) /\ Proxies(p)
        /\ (~Begun(p) => adb[p].expected_command = accept_command)
    BY DEF DataInv, SessionInv, SessionPart
  <2>2. Aligned(p)' /\ First(p)' = First(p) /\ Handled(p)' = Handled(p)
    BY <1>4, <1>6, <1>8, <2>1, StreamStays
  <2>3. BeforeAccept(p)'
    BY <1>8, <1>9, <2>1, <2>2, FirstTokens DEF BeforeAccept, Quiet
  <2>4. BeforeStart(p)'
    <3>1. Unstarted(p)' => Unstarted(p)
      BY <1>9, <2>2 DEF Unstarted
    <3>2. \A h \in Hosts : Fresh(h)' = Fresh(h)
      BY <1>4 DEF Fresh, Read
    <3> QED BY <1>4, <1>8, <2>1, <3>1, <3>2 DEF BeforeStart
  <2>5. Proxies(p)'
    <3>1. Live(p)' => Live(p)
      BY <1>2, <1>3, <1>4 DEF Live, Busy
    <3> QED BY <1>4, <1>8, <2>1, <2>2, <3>1 DEF Proxies
  <2>6. Begun(p)'
    <3>1. Begun(p)
      BY <1>9, <2>1 DEF BeforeAccept, Quiet
    <3> QED BY <1>2, <1>3, <1>4, <3>1, BegunKept
  <2> QED BY <1>8, <2>1, <2>2, <2>3, <2>4, <2>5, <2>6 DEF SessionPart
<1> QED BY <1>2, <1>5, <1>10, <1>11, PlainSession

LEMMA WaitForHostConnectionData ==
  ASSUME DataInv, NEW w \in Workers, NEW p \in Pipes, WaitForHostConnection(w, p)
  PROVE  DataParts'
<1> Typed /\ LockInv
  BY DEF DataInv, OrderInv
<1>1. /\ Typed'
      /\ p = task[w].pipe /\ At(w, "advance")
      /\ adb[p].state = "waiting_for_guest_accept_command"
      /\ adb'[p] = [adb[p] EXCEPT !.connector = "listening"]
      /\ \A q \in Pipes \ {p} : adb'[q] = adb[q]
      /\ task'[w] = [task[w] EXCEPT !.at = "read_next"]
      /\ \A v \in Workers \ {w} : task'[v] = task[v]
      /\ UNCHANGED <<server, commands, ends, host_reads>>
  BY WaitForHostConnectionDoes
<1>2. task[w].at = "advance" /\ task'[w].at = "read_next" /\ task'[w].pipe = p
  BY <1>1 DEF At, Typed, Shapes, Tasks
<1>3. UNCHANGED <<conns, reading, pipe, host, commands, host_reads>>
  BY <1>1 DEF server, ends
<1>4. Only(p)
  BY <1>1, <1>2, <1>3, OnlyOne
<1>5. Pending(p)' = Pending(p)
  BY <1>1, <1>2, PendingKept DEF Processing
<1>6. adb[p] \in Processors
  BY DEF Typed, Shapes
<1>7. /\ adb'[p].buffer = adb[p].buffer /\ adb'[p].messenger = adb[p].messenger
      /\ adb'[p].expected_command = adb[p].expected_command
      /\ adb'[p].state = "waiting_for_guest_accept_command"
  BY <1>1, <1>6 DEF Processors
<1>8. Advancing(p) /\ ~Advancing(p)'
  <2>1. Advancing(p)
    BY <1>1 DEF Advancing
  <2>2. \A v \in Workers : At(v, "advance") /\ task[v].pipe = p => v = w
    BY <1>1, ProcessesAlone DEF Busy, At
  <2>3. ~Advancing(p)'
    <3>1. \A v \in Workers : task'[v].at = "advance" => v # w /\ task'[v] = task[v]
      BY <1>1, <1>2
    <3> QED BY <2>2, <3>1 DEF Advancing, At
  <2> QED BY <2>1, <2>3
<1>9. PlainStep
  BY <1>1, <1>2, <1>3, <1>7 DEF PlainStep
<1>10. SessionPart(p)'
  <2> SUFFICES ASSUME pipe[p].service = "adb" PROVE SessionPart(p)'
    BY <1>3 DEF SessionPart
  <2>1. Aligned(p) /\ BeforeAccept(p) /\ BeforeStart(p)
    BY DEF DataInv, SessionInv, SessionPart
  <2>2. Aligned(p)' /\ First(p)' = First(p)
    <3>1. adb'[p].expected_command \in {accept_command, <<>>, start_command}
      BY <1>7, <2>1 DEF Aligned
    <3> QED BY <1>3, <1>5, <1>7, <2>1, <3>1, StreamStays
  <2>3. BeforeAccept(p)'
    BY <1>7, <1>8, <2>1 DEF BeforeAccept
  <2>4. BeforeStart(p)'
    <3>1. Unstarted(p)
      BY <1>8 DEF Unstarted
    <3>2. \A h \in Hosts : Fresh(h)' = Fresh(h)
      BY <1>3 DEF Fresh, Read
    <3> QED BY <1>3, <1>7, <2>1, <3>1, <3>2 DEF BeforeStart
  <2>5. Proxies(p)'
    BY <1>7 DEF Proxies
  <2>6. Begun(p)'
    <3>1. Begun(p)
      BY <1>1, BusyBegun DEF Busy, At
    <3> QED BY <1>1, <1>2, <1>3, <3>1, BegunKept
  <2> QED BY <2>2, <2>3, <2>4, <2>5, <2>6 DEF SessionPart
<1> QED BY <1>1, <1>4, <1>9, <1>10, PlainSession

LEMMA GotFromNat ==
  ASSUME NEW p, NEW h, NEW n \in Nat
  PROVE  GotFrom(p, h, n) \in Nat
<1>1. IsFiniteSet(1 .. n)
  BY FS_Interval
<1>2. IsFiniteSet({i \in 1 .. n : pipe[p].got[i][2] = h})
  BY <1>1, FS_Subset
<1> QED BY <1>2, FS_CardinalityType DEF GotFrom

\* No more is handled than is sent: once the start command is, the guest has written it, and
\* if it has written nothing more, all it wrote is handled.
LEMMA StartHandled ==
  ASSUME Typed, LockInv, NEW p \in Pipes, First(p) >= 4
  PROVE  /\ pipe[p].written > 1
         /\ pipe[p].written <= 2 => adb[p].buffer = <<>>
<1>1. Pending(p) \in Seq(Token)
  BY PendingTyped
<1>2. /\ pipe[p].written \in Nat /\ Sent(pipe[p].written) \in Nat
      /\ Len(pipe[p].unread) \in Nat
      /\ adb[p].buffer \in Seq(Token) /\ Len(adb[p].buffer) \in Nat
      /\ Len(Pending(p)) \in Nat
      /\ First(p) \in Int
  BY <1>1, Counts
<1> DEFINE n == pipe[p].written
           u == Len(pipe[p].unread)
           d == Len(Pending(p))
           b == Len(adb[p].buffer)
<1>3. First(p) = Sent(n) - u - d - b
  BY DEF First, Handled, ReadOf
<1>4. n \in Nat /\ Sent(n) \in Nat /\ u \in Nat /\ d \in Nat /\ b \in Nat
  BY <1>2
<1> HIDE DEF n, u, d, b
<1>5. n <= 2 => Sent(n) = 2 * n
  BY DEF Sent
<1>6. n > 1
  BY <1>3, <1>4, <1>5
<1>7. n <= 2 => b = 0
  BY <1>3, <1>4, <1>5
<1>8. n <= 2 => adb[p].buffer = <<>>
  BY <1>2, <1>7 DEF b
<1> QED BY <1>6, <1>8 DEF n

LEMMA StartProxyingData ==
  ASSUME DataInv, NEW w \in Workers, NEW p \in Pipes, StartProxying(w, p)
  PROVE  DataParts'
<1> Typed /\ LockInv
  BY DEF DataInv, OrderInv
<1>1. /\ Typed'
      /\ p = task[w].pipe /\ At(w, "advance")
      /\ adb[p].state = "waiting_for_guest_start_command" /\ adb[p].messenger \in Hosts
      /\ adb'[p] = [adb[p] EXCEPT !.state = "proxying_data"]
      /\ \A q \in Pipes \ {p} : adb'[q] = adb[q]
      /\ host_reads' = host_reads \cup {<<p, adb[p].messenger>>}
      /\ task'[w] = [task[w] EXCEPT !.at = "read_next"]
      /\ \A v \in Workers \ {w} : task'[v] = task[v]
      /\ UNCHANGED <<server, commands, owner, ends>>
  BY StartProxyingDoes
<1>2. task[w].at = "advance" /\ task'[w].at = "read_next" /\ task'[w].pipe = p
  BY <1>1 DEF At, Typed, Shapes, Tasks
<1>3. UNCHANGED <<conns, reading, pipe, host, commands>>
  BY <1>1 DEF server, ends
<1>4. Only(p)
  BY <1>1, <1>2, <1>3, OnlyOne
<1>5. Pending(p)' = Pending(p)
  BY <1>1, <1>2, PendingKept DEF Processing
<1>6. adb[p] \in Processors
  BY DEF Typed, Shapes
<1>7. /\ adb'[p].buffer = adb[p].buffer /\ adb'[p].messenger = adb[p].messenger
      /\ adb'[p].expected_command = adb[p].expected_command
      /\ adb'[p].state = "proxying_data"
  BY <1>1, <1>6 DEF Processors
<1>8. Advancing(p) /\ ~Advancing(p)'
  <2>1. Advancing(p)
    BY <1>1 DEF Advancing
  <2>2. \A v \in Workers : At(v, "advance") /\ task[v].pipe = p => v = w
    BY <1>1, ProcessesAlone DEF Busy, At
  <2>3. ~Advancing(p)'
    BY <1>1, <1>2, <2>2 DEF Advancing, At
  <2> QED BY <2>1, <2>3
<1>9. pipe[p].service = "adb"
  <2>1. OrderInv
    BY DEF DataInv
  <2> QED BY <1>8, <2>1, AdbOnly
<1>10. Aligned(p) /\ BeforeAccept(p) /\ BeforeStart(p)
  BY <1>9 DEF DataInv, SessionInv, SessionPart
<1>11. PICK h \in Hosts : h = adb[p].messenger
  BY <1>1
<1>12. Fresh(h) /\ pipe[p].written <= 2
  BY <1>8, <1>10, <1>11 DEF BeforeStart, Unstarted
<1>13. First(p) >= 4
  <2>1. ~(First(p) < 4)
    BY <1>1, <1>8, <1>10 DEF BeforeAccept
  <2>2. First(p) \in Int
    BY PendingTyped, Counts
  <2> QED BY <2>1, <2>2
<1>14. pipe[p].written > 1 /\ adb[p].buffer = <<>>
  BY <1>12, <1>13, StartHandled
<1>15. \A g \in Hosts : SameHost(g) /\ (Fresh(g)' <=> Fresh(g))
  BY <1>3 DEF SameHost, Fresh, Read
<1>16. SessionPart(p)'
  <2>1. Aligned(p)' /\ First(p)' = First(p)
    <3>1. adb'[p].expected_command \in {accept_command, <<>>, start_command}
      BY <1>7, <1>10 DEF Aligned
    <3> QED BY <1>3, <1>5, <1>7, <1>10, <3>1, StreamStays
  <2>2. BeforeAccept(p)'
    BY <1>7, <1>8, <1>10 DEF BeforeAccept
  <2>3. BeforeStart(p)'
    <3>1. ~(First(p) < 4)
      BY <1>1, <1>8, <1>10 DEF BeforeAccept
    <3> QED BY <1>8, <2>1, <3>1 DEF BeforeStart, Unstarted
  <2>4. Proxies(p)'
    <3>1. host'[h].got = <<>> /\ adb'[p].messenger = h
      BY <1>3, <1>7, <1>11, <1>12 DEF Fresh
    <3> QED BY <1>7, <1>14, <3>1 DEF Proxies
  <2>5. Begun(p)'
    <3>1. Begun(p)
      BY <1>1, BusyBegun DEF Busy, At
    <3>2. task'[w].at \notin {"identify", "add"} /\ pipe'[p].status = pipe[p].status
      BY <1>2, <1>3
    <3> QED BY <1>1, <3>1, <3>2, BegunKept
  <2> QED BY <2>1, <2>2, <2>3, <2>4, <2>5 DEF SessionPart
<1>17. SessionInv'
  BY <1>1, <1>4, <1>15, <1>16, OtherSessions
<1>18. ASSUME NEW g \in Hosts PROVE HostSends(g)'
  <2>1. HostSends(g)
    BY DEF DataInv, HostInv
  <2> QED BY <1>3, <2>1 DEF HostSends, Fresh, Read
<1>19. ASSUME NEW q \in Pipes, NEW g \in Hosts PROVE Messenger(q, g)'
  <2>1. \A r \in Pipes : adb'[r].messenger = adb[r].messenger
    BY <1>1, <1>7
  <2>2. Messenger(q, g)
    BY DEF DataInv, HostInv
  <2>3. <<q, g>> \in host_reads' => adb[q].messenger = g
    BY <1>1, <2>2 DEF Messenger
  <2> QED BY <1>3, <2>1, <2>2, <2>3 DEF Messenger
<1>20. ASSUME NEW v \in Workers PROVE Arriving(v)'
  <2>1. CASE v = w
    BY <1>2, <2>1 DEF Arriving, At
  <2>2. CASE v # w
    <3>1. Arriving(v)
      BY DEF DataInv, HostInv
    <3>2. \A r \in Pipes : adb'[r].messenger = adb[r].messenger
      BY <1>1, <1>7
    <3>3. \A g \in Hosts : At(v, "host_connection") /\ task[v].host = g => host[g].status # "none"
      BY <3>1 DEF Arriving
    <3>4. \A u \in Workers : At(u, "host_connection")' => task'[u] = task[u]
      BY <1>1, <1>2 DEF At
    <3> QED BY <1>1, <1>3, <1>15, <2>2, <3>1, <3>2, <3>3, <3>4, ArrivingKept DEF At
  <2> QED BY <2>1, <2>2
<1>21. ASSUME NEW q \in Pipes PROVE GotOf(q)'
  BY <1>3, GotOfKept DEF DataInv, GotInv
<1>22. ASSUME NEW q \in Pipes, NEW g \in Hosts PROVE GotRead(q, g)'
  <2>1. GotRead(q, g) /\ Read(g)' = Read(g)
    BY <1>15 DEF DataInv, GotInv, SameHost
  <2>2. CASE q = p /\ g = h
    <3>1. PICK n \in Nat : n = Len(pipe[q].got)
      BY DEF Typed, Shapes, Guests
    <3>2. GotFrom(q, g, n) \in Nat
      BY GotFromNat
    <3>3. Read(g) = 0 /\ GotFrom(q, g, n) <= Read(g)
      BY <1>12, <2>1, <2>2, <3>1 DEF Fresh, GotRead
    <3>4. GotFrom(q, g, n) = Read(g)
      BY <3>2, <3>3
    <3>5. GotFrom(q, g, n)' = GotFrom(q, g, n)
      BY <1>3, GotKept
    <3>6. GotFrom(q, g, n)' = Read(g)' /\ Read(g)' <= Read(g)' /\ n = Len(pipe'[q].got)
      BY <1>3, <2>1, <3>1, <3>3, <3>4, <3>5
    <3> QED BY <3>6 DEF GotRead
  <2>3. CASE ~(q = p /\ g = h)
    <3>1. <<q, g>> \in host_reads' => <<q, g>> \in host_reads
      BY <1>1, <1>11, <2>3
    <3> QED BY <1>3, <2>1, <3>1, GotReadKept
  <2> QED BY <2>2, <2>3
<1>23. HostGetsData'
  BY <1>3 DEF DataInv, HostGetsData
<1> QED BY <1>17, <1>18, <1>19, <1>20, <1>21, <1>22, <1>23 DEF DataParts, HostInv, GotInv

LEMMA AcceptHostData ==
  ASSUME DataInv, NEW w \in Workers, NEW p \in Pipes, NEW h \in Hosts, AcceptHost(w, p, h)
  PROVE  DataParts'
<1> Typed /\ LockInv
  BY DEF DataInv, OrderInv
<1>1. /\ Typed'
      /\ adb[p].connector = "listening"
      /\ host[h].status = "none"
      /\ host'[h] = [host[h] EXCEPT !.status = "open"]
      /\ \A g \in Hosts \ {h} : host'[g] = host[g]
      /\ adb'[p] = [adb[p] EXCEPT !.connector = "busy"]
      /\ \A q \in Pipes \ {p} : adb'[q] = adb[q]
      /\ task[w] = Idle
      /\ task'[w].at = "host_connection" /\ task'[w].pipe = p /\ task'[w].host = h
      /\ \A v \in Workers \ {w} : task'[v] = task[v]
      /\ UNCHANGED <<server, commands, owner, pipe, host_reads>>
  BY AcceptHostDoes
<1>2. task[w].at = "idle"
  BY <1>1 DEF Idle
<1>3. UNCHANGED <<conns, reading, pipe, commands, host_reads>>
  BY <1>1 DEF server
<1>4. Only(p)
  BY <1>1, <1>3, OnlyOne
<1>5. Pending(p)' = Pending(p)
  BY <1>1, <1>2, PendingKept DEF Processing
<1>6. adb[p] \in Processors
  BY DEF Typed, Shapes
<1>7. /\ adb'[p].buffer = adb[p].buffer /\ adb'[p].messenger = adb[p].messenger
      /\ adb'[p].expected_command = adb[p].expected_command
      /\ adb'[p].state = adb[p].state
  BY <1>1, <1>6 DEF Processors
<1>8. /\ \A g \in Hosts : /\ host'[g].written = host[g].written
                          /\ host'[g].unread = host[g].unread
                          /\ host'[g].got = host[g].got
                          /\ host'[g].status = "none" => host[g].status = "none"
                          /\ host[g].status # "none" => host'[g].status # "none"
      /\ host'[h].status # "none"
  <2>1. host[h] \in HostEnds
    BY HostTyped
  <2>2. /\ host'[h].written = host[h].written /\ host'[h].unread = host[h].unread
        /\ host'[h].got = host[h].got /\ host'[h].status = "open"
    BY <1>1, <2>1 DEF HostEnds
  <2>3. ASSUME NEW g \in Hosts
        PROVE  /\ host'[g].written = host[g].written /\ host'[g].unread = host[g].unread
               /\ host'[g].got = host[g].got
               /\ host'[g].status = "none" => host[g].status = "none"
               /\ host[g].status # "none" => host'[g].status # "none"
    <3>1. CASE g = h
      BY <1>1, <2>2, <3>1
    <3>2. CASE g # h
      BY <1>1, <3>2
    <3> QED BY <3>1, <3>2
  <2> QED BY <2>2, <2>3
<1>9. \A g \in Hosts : HostSends(g)' /\ SameHost(g) /\ (Fresh(g)' <=> Fresh(g))
  BY <1>8, HostSendsKept DEF DataInv, HostInv
<1>10. SessionPart(p)'
  <2>1. SessionPart(p) /\ HasMessenger(adb[p]) /\ adb[p].messenger \in Hosts \cup {NoHost}
    BY <1>6 DEF DataInv, SessionInv, Typed, Processors
  <2>2. ~Quiet(p)
    BY <1>1 DEF Quiet
  <2>3. Advancing(p)' => Advancing(p)
    BY <1>1, <1>2 DEF Advancing, At
  <2>4. Live(p)' => Live(p)
    BY <1>1, <1>2, <1>3 DEF Live, Busy
  <2>5. ~Begun(p)' => ~Begun(p)
    BY <1>1, <1>2, <1>3 DEF Begun
  <2>6. /\ pipe'[p] = pipe[p]
        /\ \A g \in Hosts : <<p, g>> \in host_reads' => <<p, g>> \in host_reads
    BY <1>3
  <2>7. adb[p].messenger \in Hosts => SameHost(adb[p].messenger)
    BY <1>9
  <2> QED BY <1>5, <1>7, <2>1, <2>2, <2>3, <2>4, <2>5, <2>6, <2>7, SessionKept
<1>11. SessionInv'
  BY <1>1, <1>4, <1>9, <1>10, OtherSessions
<1>12. \A q \in Pipes : adb'[q].messenger = adb[q].messenger
  BY <1>1, <1>7
<1>13. ASSUME NEW q \in Pipes, NEW g \in Hosts PROVE Messenger(q, g)'
  <2>1. Messenger(q, g)
    BY DEF DataInv, HostInv
  <2> QED BY <1>3, <1>8, <1>12, <2>1 DEF Messenger
<1>14. ASSUME NEW v \in Workers PROVE Arriving(v) /\ (At(v, "host_connection") => task[v].host # h)
  <2>1. Arriving(v)
    BY DEF DataInv, HostInv
  <2> QED BY <1>1, <2>1 DEF Arriving
<1>15. ASSUME NEW v \in Workers PROVE Arriving(v)'
  <2>1. CASE v = w
    <3>1. Fresh(h)
      BY <1>1 DEF DataInv, HostInv, HostSends
    <3>2. Fresh(h)' /\ host'[h].status # "none"
      BY <1>8, <1>9, <3>1
    <3>3. \A q \in Pipes : adb'[q].messenger # h
      <4>1. \A q \in Pipes : adb[q].messenger # h
        BY <1>1 DEF DataInv, HostInv, Messenger
      <4> QED BY <1>12, <4>1
    <3>4. \A u \in Workers : At(u, "host_connection")' /\ task'[u].host = h => u = w
      BY <1>1, <1>14 DEF At
    <3>5. task'[v].host = h
      BY <1>1, <2>1
    <3> QED BY <2>1, <3>2, <3>3, <3>4, <3>5 DEF Arriving, Fresh, Read
  <2>2. CASE v # w
    <3>1. \A g \in Hosts : At(v, "host_connection") /\ task[v].host = g => host[g].status # "none"
      BY <1>14 DEF Arriving
    <3>2. \A g \in Hosts : At(v, "host_connection") /\ task[v].host = g => g # h
      BY <1>14
    <3>3. \A u \in Workers, g \in Hosts \ {h} :
            At(u, "host_connection")' /\ task'[u].host = g =>
              At(u, "host_connection") /\ task[u].host = g
      BY <1>1 DEF At
    <3>4. task'[v] = task[v]
      BY <1>1, <2>2
    <3>5. ASSUME NEW g \in Hosts, At(v, "host_connection"), task[v].host = g
          PROVE  /\ host'[g].status # "none" /\ (Fresh(g) => Fresh(g)')
                 /\ \A q \in Pipes : adb[q].messenger # g => adb'[q].messenger # g
                 /\ \A u \in Workers : At(u, "host_connection")' /\ task'[u].host = g =>
                      At(u, "host_connection") /\ task[u].host = g
      <4>1. g # h /\ host[g].status # "none"
        BY <3>1, <3>2, <3>5
      <4> QED BY <1>8, <1>9, <1>12, <3>3, <4>1
    <3> QED BY <1>14, <3>4, <3>5, ArrivingKept
  <2> QED BY <2>1, <2>2
<1>16. ASSUME NEW q \in Pipes PROVE GotOf(q)'
  BY <1>3, GotOfKept DEF DataInv, GotInv
<1>17. ASSUME NEW q \in Pipes, NEW g \in Hosts PROVE GotRead(q, g)'
  <2>1. GotRead(q, g) /\ Read(g)' = Read(g)
    BY <1>9 DEF DataInv, GotInv, SameHost
  <2> QED BY <1>3, <2>1, GotReadKept
<1>18. HostGetsData'
  BY <1>8 DEF DataInv, HostGetsData
<1> QED BY <1>9, <1>11, <1>13, <1>15, <1>16, <1>17, <1>18 DEF DataParts, HostInv, GotInv

\* What a host sends joins what of it is unread.
LEMMA SendsNext ==
  ASSUME NEW h, NEW s \in Seq(Token), NEW n \in Nat, NEW m \in Int, m = n - Len(s),
         \A i \in 1 .. Len(s) : s[i] = Data(h, m + i),
         NEW t, t = Append(s, Data(h, n + 1))
  PROVE  /\ Len(t) = Len(s) + 1 /\ n + 1 - Len(t) = m
         /\ \A i \in 1 .. Len(t) : t[i] = Data(h, m + i)
<1>1. Len(s) \in Nat /\ Len(t) = Len(s) + 1
      /\ t[Len(s) + 1] = Data(h, n + 1)
      /\ \A i \in 1 .. Len(s) : t[i] = s[i]
  OBVIOUS
<1>2. ASSUME NEW i \in 1 .. Len(t) PROVE t[i] = Data(h, m + i)
  <2>1. CASE i \in 1 .. Len(s)
    BY <1>1, <2>1
  <2>2. CASE i = Len(s) + 1
    <3>1. m + i = n + 1
      BY <1>1, <2>2
    <3> QED BY <1>1, <2>2, <3>1
  <2>3. i \in 1 .. Len(s) \/ i = Len(s) + 1
    BY <1>1
  <2> QED BY <2>1, <2>2, <2>3
<1>3. n + 1 - Len(t) = m
  BY <1>1
<1> QED BY <1>1, <1>2, <1>3

LEMMA HostWritesData ==
  ASSUME DataInv, NEW h \in Hosts, HostWrites(h)
  PROVE  DataParts'
<1> Typed /\ LockInv
  BY DEF DataInv, OrderInv
<1>1. /\ Typed'
      /\ host[h].status = "open"
      /\ host'[h] = [host[h] EXCEPT !.written = @ + 1,
                                    !.unread = Append(@, Data(h, host[h].written + 1))]
      /\ \A g \in Hosts \ {h} : host'[g] = host[g]
      /\ UNCHANGED <<server, task, session, pipe, host_reads>>
  BY HostWritesDoes
<1>2. UNCHANGED <<conns, reading, task, adb, pipe, commands, host_reads>>
  BY <1>1 DEF server, session
<1>3. /\ host[h] \in HostEnds /\ host[h].written \in Nat
      /\ host[h].unread \in Seq(Token) /\ Len(host[h].unread) \in Nat
      /\ Read(h) \in Int
  BY HostTyped
<1>4. /\ host'[h].written = host[h].written + 1
      /\ host'[h].unread = Append(host[h].unread, Data(h, host[h].written + 1))
      /\ host'[h].got = host[h].got /\ host'[h].status = "open"
  BY <1>1, <1>3 DEF HostEnds
<1>5. Read(h) = host[h].written - Len(host[h].unread) /\ HostSends(h)
  BY DEF Read, DataInv, HostInv
<1>6. /\ Len(host'[h].unread) = Len(host[h].unread) + 1
      /\ host'[h].written - Len(host'[h].unread) = Read(h)
      /\ \A i \in 1 .. Len(host'[h].unread) : host'[h].unread[i] = Data(h, Read(h) + i)
  <2> DEFINE s == host[h].unread
             n == host[h].written
             m == Read(h)
             t == host'[h].unread
  <2>1. /\ s \in Seq(Token) /\ n \in Nat /\ m \in Int /\ m = n - Len(s)
        /\ \A i \in 1 .. Len(s) : s[i] = Data(h, m + i)
        /\ t = Append(s, Data(h, n + 1))
    BY <1>3, <1>4, <1>5 DEF HostSends
  <2>2. host'[h].written = n + 1
    BY <1>4
  <2> HIDE DEF s, n, m, t
  <2>3. /\ Len(t) = Len(s) + 1 /\ n + 1 - Len(t) = m
        /\ \A i \in 1 .. Len(t) : t[i] = Data(h, m + i)
    BY <2>1, SendsNext
  <2>4. Len(s) \in Nat
    BY <2>1
  <2>5. host'[h].written - Len(t) = m
    BY <2>1, <2>2, <2>3, <2>4
  <2> QED BY <2>3, <2>5 DEF s, m, t
<1>7. Read(h)' = Read(h)
  <2>1. Read(h)' = host'[h].written - Len(host'[h].unread)
    BY DEF Read
  <2> QED BY <1>6, <2>1
<1>8. HostSends(h)' /\ SameHost(h) /\ (Fresh(h)' <=> Fresh(h))
  <2>1. Len(host'[h].unread) <= host'[h].written
    BY <1>3, <1>4, <1>5, <1>6 DEF HostSends
  <2> QED BY <1>4, <1>6, <1>7, <2>1 DEF HostSends, SameHost, Fresh
<1>9. ASSUME NEW g \in Hosts PROVE HostSends(g)' /\ SameHost(g) /\ (Fresh(g)' <=> Fresh(g))
  <2>1. CASE g = h
    BY <1>8, <2>1
  <2>2. CASE g # h
    <3>1. HostSends(g)
      BY DEF DataInv, HostInv
    <3> QED BY <1>1, <2>2, <3>1, HostSendsKept
  <2> QED BY <2>1, <2>2
<1>10. \A g \in Hosts : host'[g].status # "none" <=> host[g].status # "none"
  BY <1>1, <1>4
<1>11. ASSUME NEW q \in Pipes PROVE SessionPart(q)'
  <2>1. SamePipe(q)
    BY <1>2 DEF SamePipe
  <2> QED BY <1>1, <1>9, <2>1, SameSession
<1>12. ASSUME NEW q \in Pipes, NEW g \in Hosts PROVE Messenger(q, g)'
  <2>1. Messenger(q, g)
    BY DEF DataInv, HostInv
  <2> QED BY <1>2, <1>10, <2>1 DEF Messenger
<1>13. ASSUME NEW v \in Workers PROVE Arriving(v)'
  <2>1. Arriving(v)
    BY DEF DataInv, HostInv
  <2>2. \A g \in Hosts : At(v, "host_connection") /\ task[v].host = g => host[g].status # "none"
    BY <2>1 DEF Arriving
  <2> QED BY <1>2, <1>9, <1>10, <2>1, <2>2, ArrivingKept DEF At
<1>14. ASSUME NEW q \in Pipes PROVE GotOf(q)'
  BY <1>2, GotOfKept DEF DataInv, GotInv
<1>15. ASSUME NEW q \in Pipes, NEW g \in Hosts PROVE GotRead(q, g)'
  <2>1. GotRead(q, g) /\ Read(g)' = Read(g)
    BY <1>9 DEF DataInv, GotInv, SameHost
  <2> QED BY <1>2, <2>1, GotReadKept
<1>16. HostGetsData'
  <2>1. \A g \in Hosts : host'[g].got = host[g].got
    BY <1>9 DEF SameHost
  <2> QED BY <2>1 DEF DataInv, HostGetsData
<1> QED BY <1>9, <1>11, <1>12, <1>13, <1>14, <1>15, <1>16 DEF DataParts, SessionInv, HostInv, GotInv

-----------------------------------------------------------------------------
(* What the guest gets *)

CountFrom(s, h, n) == Cardinality({i \in 1 .. n : s[i][2] = h})

LEMMA CountSame ==
  ASSUME NEW s, NEW r, NEW h, NEW n \in Nat, \A i \in 1 .. n : r[i] = s[i]
  PROVE  CountFrom(r, h, n) = CountFrom(s, h, n)
<1>1. {i \in 1 .. n : r[i][2] = h} = {i \in 1 .. n : s[i][2] = h}
  OBVIOUS
<1> QED BY <1>1 DEF CountFrom

\* No token after the first l ones is from h.
LEMMA CountNone ==
  ASSUME NEW r, NEW h, NEW l \in Nat, NEW j \in Nat,
         \A i \in l + 1 .. l + j : r[i][2] # h
  PROVE  CountFrom(r, h, l + j) = CountFrom(r, h, l)
<1>1. {i \in 1 .. l + j : r[i][2] = h} = {i \in 1 .. l : r[i][2] = h}
  <2>1. \A i \in 1 .. l + j : i \in 1 .. l \/ i \in l + 1 .. l + j
    OBVIOUS
  <2>2. \A i \in 1 .. l : i \in 1 .. l + j
    OBVIOUS
  <2> QED BY <2>1, <2>2
<1> QED BY <1>1 DEF CountFrom

\* All of them are.
LEMMA CountAll ==
  ASSUME NEW r, NEW h, NEW l \in Nat, NEW j \in Nat,
         \A i \in l + 1 .. l + j : r[i][2] = h
  PROVE  CountFrom(r, h, l + j) = CountFrom(r, h, l) + j
<1> DEFINE S == {i \in 1 .. l : r[i][2] = h}
           T == l + 1 .. l + j
<1>1. {i \in 1 .. l + j : r[i][2] = h} = S \cup T
  <2>1. \A i \in 1 .. l + j : i \in 1 .. l \/ i \in l + 1 .. l + j
    OBVIOUS
  <2>2. \A i \in 1 .. l : i \in 1 .. l + j
    OBVIOUS
  <2>3. \A i \in l + 1 .. l + j : i \in 1 .. l + j
    OBVIOUS
  <2> QED BY <2>1, <2>2, <2>3
<1>2. S \cap T = {}
  OBVIOUS
<1>3. IsFiniteSet(S)
  <2>1. IsFiniteSet(1 .. l) /\ S \in SUBSET (1 .. l)
    BY FS_Interval
  <2> HIDE DEF S
  <2> QED BY <2>1, FS_Subset
<1>4. IsFiniteSet(T) /\ Cardinality(T) = j
  <2>1. IsFiniteSet(T) /\ Cardinality(T) = IF l + 1 > l + j THEN 0 ELSE (l + j) - (l + 1) + 1
    BY FS_Interval
  <2> QED BY <2>1
<1> HIDE DEF S, T
<1>5. Cardinality(S \cup T) = Cardinality(S) + Cardinality(T) - Cardinality({})
  BY <1>2, <1>3, <1>4, FS_Union
<1>6. Cardinality(S) \in Nat /\ Cardinality({}) = 0
  BY <1>3, FS_CardinalityType, FS_EmptySet
<1>7. Cardinality(S \cup T) = Cardinality(S) + j
  BY <1>4, <1>5, <1>6
<1> QED BY <1>1, <1>7 DEF CountFrom, S

\* The tokens of data come after those of got.
Continues(r, got, data) ==
  /\ Len(r) = Len(got) + Len(data)
  /\ \A i \in 1 .. Len(got) : r[i] = got[i]
  /\ \A j \in 1 .. Len(data) : r[Len(got) + j] = data[j]

LEMMA Continued ==
  ASSUME NEW got \in Seq(Token), NEW data \in Seq(Token)
  PROVE  Continues(got \o data, got, data)
<1> DEFINE l == Len(got)
           k == Len(data)
           r == got \o data
<1>1. /\ l \in Nat /\ k \in Nat /\ Len(r) = l + k
      /\ \A i \in 1 .. l : r[i] = got[i]
      /\ \A i \in l + 1 .. l + k : r[i] = data[i - l]
  BY ConcatParts
<1> HIDE DEF l, k, r
<1>2. ASSUME NEW j \in 1 .. k PROVE r[l + j] = data[j]
  <2>1. l + j \in l + 1 .. l + k /\ (l + j) - l = j
    BY <1>1
  <2> QED BY <1>1, <2>1
<1>3. Continues(r, got, data)
  BY <1>1, <1>2 DEF Continues, l, k
<1> QED BY <1>3 DEF r

\* How many of the tokens are from h, when those of data all are, or none is.
Counted(r, got, data, h) ==
  /\ \A i \in 0 .. Len(got) : CountFrom(r, h, i) = CountFrom(got, h, i)
  /\ (\A j \in 1 .. Len(data) : data[j][2] # h) =>
       CountFrom(r, h, Len(r)) = CountFrom(got, h, Len(got))
  /\ (\A j \in 1 .. Len(data) : data[j][2] = h) =>
       \A j \in 0 .. Len(data) : CountFrom(r, h, Len(got) + j) = CountFrom(got, h, Len(got)) + j

LEMMA CountContinues ==
  ASSUME NEW r, NEW got, NEW data, Continues(r, got, data),
         Len(got) \in Nat, Len(data) \in Nat, NEW h
  PROVE  Counted(r, got, data, h)
<1> DEFINE l == Len(got)
           k == Len(data)
<1>0. l \in Nat /\ k \in Nat /\ Len(r) = l + k
  BY DEF Continues
<1>1. /\ \A i \in 1 .. l : r[i] = got[i]
      /\ \A j \in 1 .. k : r[l + j] = data[j]
  BY DEF Continues
<1> HIDE DEF l, k
<1>2. ASSUME NEW i \in 0 .. l PROVE CountFrom(r, h, i) = CountFrom(got, h, i)
  <2>1. i \in Nat /\ \A m \in 1 .. i : m \in 1 .. l
    BY <1>0
  <2> QED BY <1>1, <2>1, CountSame
<1>3. CountFrom(r, h, l) = CountFrom(got, h, l)
  <2>1. l \in 0 .. l
    BY <1>0
  <2> QED BY <1>2, <2>1
<1>4. ASSUME NEW i \in l + 1 .. l + k PROVE r[i] = data[i - l] /\ i - l \in 1 .. k
  <2>1. i - l \in 1 .. k /\ l + (i - l) = i
    BY <1>0
  <2> QED BY <1>1, <2>1
<1>5. ASSUME \A j \in 1 .. k : data[j][2] # h
      PROVE  CountFrom(r, h, l + k) = CountFrom(got, h, l)
  <2>1. \A i \in l + 1 .. l + k : r[i][2] # h
    BY <1>4, <1>5
  <2> QED BY <1>0, <1>3, <2>1, CountNone
<1>6. ASSUME \A j \in 1 .. k : data[j][2] = h, NEW j \in 0 .. k
      PROVE  CountFrom(r, h, l + j) = CountFrom(got, h, l) + j
  <2>1. \A i \in l + 1 .. l + j : i \in l + 1 .. l + k
    BY <1>0
  <2>2. \A i \in l + 1 .. l + j : r[i][2] = h
    BY <1>4, <1>6, <2>1
  <2>3. j \in Nat
    BY <1>0
  <2> QED BY <1>0, <1>3, <2>2, <2>3, CountAll
<1> QED BY <1>0, <1>2, <1>5, <1>6 DEF Counted, l, k

\* What the guest has got from each host is the data of the host, in order.
HostsInOrder(s) ==
  \A i \in 1 .. Len(s) : s[i][2] \in Hosts => s[i] = Data(s[i][2], CountFrom(s, s[i][2], i))

\* The guest is told what a host sends next.
Sends(data, h, n) == \A j \in 1 .. Len(data) : data[j] = Data(h, n + j)

Grows(r, got, data, h) ==
  /\ HostsInOrder(r)
  /\ CountFrom(r, h, Len(r)) = CountFrom(got, h, Len(got)) + Len(data)
  /\ \A g : g # h => CountFrom(r, g, Len(r)) = CountFrom(got, g, Len(got))

LEMMA ToldData ==
  ASSUME NEW r, NEW got, NEW data, Continues(r, got, data), HostsInOrder(got),
         Len(got) \in Nat, Len(data) \in Nat,
         NEW h, NEW n \in Int, CountFrom(got, h, Len(got)) = n, Sends(data, h, n)
  PROVE  Grows(r, got, data, h)
<1> DEFINE l == Len(got)
           k == Len(data)
<1>1. /\ Len(r) = l + k
      /\ \A i \in 1 .. l : r[i] = got[i]
      /\ \A j \in 1 .. k : r[l + j] = data[j]
  BY DEF Continues
<1>2. \A j \in 1 .. k : data[j] = Data(h, n + j) /\ data[j][2] = h
  BY DEF Sends, Data
<1>0. ASSUME NEW g PROVE Counted(r, got, data, g)
  BY CountContinues, Zenon
<1>3. \A g : \A i \in 0 .. l : CountFrom(r, g, i) = CountFrom(got, g, i)
  BY <1>0 DEF Counted
<1>4. \A j \in 0 .. k : CountFrom(r, h, l + j) = n + j
  BY <1>0, <1>2 DEF Counted
<1>5. ASSUME NEW g, g # h PROVE CountFrom(r, g, Len(r)) = CountFrom(got, g, l)
  <2>1. \A j \in 1 .. k : data[j][2] # g
    BY <1>2, <1>5
  <2> QED BY <1>0, <2>1 DEF Counted
<1> l \in Nat /\ k \in Nat
  OBVIOUS
<1> HIDE DEF l, k
<1>6. ASSUME NEW i \in 1 .. Len(r), r[i][2] \in Hosts
      PROVE  r[i] = Data(r[i][2], CountFrom(r, r[i][2], i))
  <2>1. CASE i <= l
    <3>1. i \in 1 .. l /\ i \in 0 .. l
      BY <2>1
    <3>2. r[i] = got[i]
      BY <1>1, <3>1
    <3>3. CountFrom(r, got[i][2], i) = CountFrom(got, got[i][2], i)
      BY <1>3, <3>1
    <3> QED BY <1>6, <3>1, <3>2, <3>3 DEF HostsInOrder, l
  <2>2. CASE i > l
    <3>1. PICK j \in 1 .. k : i = l + j
      <4>1. i - l \in 1 .. k /\ i = l + (i - l)
        BY <1>1, <2>2
      <4> QED BY <4>1
    <3>2. j \in 0 .. k
      OBVIOUS
    <3>3. r[i] = Data(h, n + j) /\ r[i][2] = h
      BY <1>1, <1>2, <3>1
    <3>4. CountFrom(r, h, i) = n + j
      BY <1>4, <3>1, <3>2
    <3> QED BY <3>3, <3>4
  <2> QED BY <1>1, <2>1, <2>2
<1>7. CountFrom(r, h, Len(r)) = n + k
  <2>1. k \in 0 .. k
    OBVIOUS
  <2> QED BY <1>1, <1>4, <2>1
<1> QED BY <1>5, <1>6, <1>7 DEF Grows, HostsInOrder, l, k

\* The guest is told that a host has connected.
LEMMA ToldOk ==
  ASSUME NEW r, NEW got, Continues(r, got, <<Ok>>), HostsInOrder(got),
         NEW l \in Nat, l = Len(got)
  PROVE  /\ HostsInOrder(r)
         /\ \A h \in Hosts : CountFrom(r, h, Len(r)) = CountFrom(got, h, l)
<1>1. Len(<<Ok>>) = 1 /\ <<Ok>>[1] = Ok
  OBVIOUS
<1>2. Ok[2] \notin Hosts
  BY PipeAssumption DEF Ok, NoHost
<1>3. /\ Len(r) = l + 1
      /\ \A i \in 1 .. l : r[i] = got[i]
      /\ r[l + 1] = Ok
  BY <1>1 DEF Continues
<1>0. ASSUME NEW g PROVE Counted(r, got, <<Ok>>, g)
  <2>1. Len(got) \in Nat /\ Len(<<Ok>>) \in Nat
    BY <1>1
  <2> QED BY <2>1, CountContinues, Zenon
<1>4. \A g : \A i \in 0 .. l : CountFrom(r, g, i) = CountFrom(got, g, i)
  BY <1>0 DEF Counted
<1>5. ASSUME NEW h \in Hosts PROVE CountFrom(r, h, Len(r)) = CountFrom(got, h, l)
  <2>1. \A j \in 1 .. 1 : <<Ok>>[j][2] # h
    BY <1>1, <1>2
  <2> QED BY <1>0, <1>1, <2>1 DEF Counted
<1>6. ASSUME NEW i \in 1 .. Len(r), r[i][2] \in Hosts
      PROVE  r[i] = Data(r[i][2], CountFrom(r, r[i][2], i))
  <2>1. i # l + 1
    BY <1>2, <1>3, <1>6
  <2>2. i \in 1 .. l /\ i \in 0 .. l
    BY <1>3, <2>1
  <2>3. r[i] = got[i]
    BY <1>3, <2>2
  <2>4. CountFrom(r, got[i][2], i) = CountFrom(got, got[i][2], i)
    BY <1>4, <2>2
  <2> QED BY <1>6, <2>2, <2>3, <2>4 DEF HostsInOrder
<1> QED BY <1>5, <1>6 DEF HostsInOrder

LEMMA GotMeans ==
  ASSUME NEW p \in Pipes, GotOf(p)
  PROVE  /\ HostsInOrder(pipe[p].got)
         /\ \A h, n : GotFrom(p, h, n) = CountFrom(pipe[p].got, h, n)
         /\ \A h, n : GotFrom(p, h, n)' = CountFrom(pipe'[p].got, h, n)
  BY DEF GotOf, GotFrom, HostsInOrder, CountFrom

LEMMA GotNext ==
  ASSUME NEW p \in Pipes, HostsInOrder(pipe'[p].got),
         \A i \in 1 .. Len(pipe'[p].got) : pipe'[p].got[i][2] \in Hosts => pipe'[p].written > 1
  PROVE  GotOf(p)'
  BY DEF GotOf, GotFrom, HostsInOrder, CountFrom

LEMMA OnHostConnectionData ==
  ASSUME DataInv, NEW w \in Workers, OnHostConnection(w)
  PROVE  DataParts'
<1> Typed /\ LockInv
  BY DEF DataInv, OrderInv
<1>1. PICK p \in Pipes : p = task[w].pipe
  BY OnHostConnectionDoes
<1>2. PICK h \in Hosts : h = task[w].host
  BY OnHostConnectionDoes
<1>3. /\ Typed' /\ At(w, "host_connection")
      /\ adb'[p] = [adb[p] EXCEPT !.messenger = task[w].host]
      /\ \A q \in Pipes \ {p} : adb'[q] = adb[q] /\ pipe'[q] = pipe[q]
      /\ \A g \in Hosts : \/ host'[g] = host[g]
                          \/ g = adb[p].messenger /\ host'[g] = [host[g] EXCEPT !.status = "closed"]
      /\ host_reads' = host_reads \ {<<p, adb[p].messenger>>}
      /\ \/ /\ pipe[p].status = "open"
            /\ pipe'[p] = [pipe[p] EXCEPT !.got = @ \o <<Ok>>]
            /\ task'[w] = [task[w] EXCEPT !.at = "host_state"]
         \/ /\ pipe[p].status # "open"
            /\ pipe'[p] = pipe[p]
            /\ task'[w] = Idle
      /\ \A v \in Workers \ {w} : task'[v] = task[v]
      /\ UNCHANGED <<server, commands, owner>>
  BY <1>1, OnHostConnectionDoes
<1>4. UNCHANGED <<conns, reading, commands>>
  BY <1>3 DEF server
<1>5. /\ task[w].at = "host_connection" /\ task'[w].at \in {"host_state", "idle"}
      /\ task'[w].pipe = p \/ task'[w] = Idle
  <2>1. task[w] \in Tasks
    BY DEF Typed, Shapes
  <2>2. task[w].at = "host_connection" /\ task[w].pipe = p
    BY <1>1, <1>3 DEF At
  <2>3. task'[w] = [task[w] EXCEPT !.at = "host_state"] \/ task'[w] = Idle
    BY <1>3
  <2>4. task'[w] = Idle => task'[w].at = "idle"
    BY DEF Idle
  <2>5. task'[w] = [task[w] EXCEPT !.at = "host_state"] =>
          task'[w].at = "host_state" /\ task'[w].pipe = p
    BY <2>1, <2>2 DEF Tasks
  <2>6. task'[w].at \in {"host_state", "idle"}
    BY <2>3, <2>4, <2>5, Zenon
  <2>7. task'[w].pipe = p \/ task'[w] = Idle
    BY <2>3, <2>5, Zenon
  <2> QED BY <2>2, <2>6, <2>7, Zenon
<1>6. Only(p)
  BY <1>1, <1>3, <1>4, <1>5, OnlyOne
<1>7. Pending(p)' = Pending(p)
  BY <1>3, <1>5, PendingKept DEF Processing
<1>8. adb[p] \in Processors /\ pipe[p] \in Guests
  BY DEF Typed, Shapes
<1>9. /\ adb'[p].buffer = adb[p].buffer /\ adb'[p].messenger = h
      /\ adb'[p].expected_command = adb[p].expected_command
      /\ adb'[p].connector = adb[p].connector /\ adb'[p].state = adb[p].state
  BY <1>2, <1>3, <1>8 DEF Processors
<1> DEFINE got == pipe[p].got
           r == pipe'[p].got
<1>10. got \in Seq(Token) /\ Len(got) \in Nat
  BY <1>8 DEF Guests
<1>11. /\ pipe'[p].service = pipe[p].service /\ pipe'[p].written = pipe[p].written
       /\ pipe'[p].unread = pipe[p].unread /\ pipe'[p].status = pipe[p].status
       /\ r = got \o <<Ok>> \/ r = got
  BY <1>3, <1>8 DEF Guests
<1>12. /\ Fresh(h) /\ host[h].status # "none"
       /\ \A q \in Pipes : adb[q].messenger # h
       /\ \A v \in Workers : At(v, "host_connection") /\ task[v].host = h => v = w
  BY <1>2, <1>3 DEF DataInv, HostInv, Arriving
<1>13. ASSUME NEW g \in Hosts
       PROVE  /\ host'[g].written = host[g].written /\ host'[g].unread = host[g].unread
              /\ host'[g].got = host[g].got
              /\ host'[g].status = "none" <=> host[g].status = "none"
  <2>1. host[g] \in HostEnds
    BY DEF Typed, Shapes
  <2>2. g = adb[p].messenger => host[g].status # "none"
    BY DEF DataInv, HostInv, Messenger
  <2>3. CASE host'[g] = host[g]
    BY <2>3
  <2>4. CASE g = adb[p].messenger /\ host'[g] = [host[g] EXCEPT !.status = "closed"]
    BY <2>1, <2>2, <2>4 DEF HostEnds
  <2> QED BY <1>3, <2>3, <2>4
<1>14. \A g \in Hosts : HostSends(g)' /\ SameHost(g) /\ (Fresh(g)' <=> Fresh(g))
  BY <1>13, HostSendsKept DEF DataInv, HostInv
<1>15. /\ HostsInOrder(got)
       /\ \A g, n : GotFrom(p, g, n) = CountFrom(got, g, n)
       /\ \A g, n : GotFrom(p, g, n)' = CountFrom(r, g, n)
  BY GotMeans DEF DataInv, GotInv
<1>16. /\ HostsInOrder(r)
       /\ \A g \in Hosts : CountFrom(r, g, Len(r)) = CountFrom(got, g, Len(got))
  <2>1. CASE r = got
    BY <1>15, <2>1
  <2>2. CASE r = got \o <<Ok>>
    <3>1. <<Ok>> \in Seq(Token)
      BY TokensOk
    <3>2. Continues(got \o <<Ok>>, got, <<Ok>>)
      BY <1>10, <3>1, Continued
    <3>3. Continues(r, got, <<Ok>>)
      BY <2>2, <3>2
    <3> HIDE DEF r, got
    <3> QED BY <1>10, <1>15, <3>3, ToldOk
  <2> QED BY <1>11, <2>1, <2>2
<1>17. \A i \in 1 .. Len(r) : r[i] # Ok => i \in 1 .. Len(got) /\ r[i] = got[i]
  <2>1. CASE r = got
    BY <2>1
  <2>2. CASE r = got \o <<Ok>>
    BY <1>10, <2>2
  <2> QED BY <1>11, <2>1, <2>2
<1>18. pipe[p].service = "adb"
  <2>1. ForHost(p) /\ OrderInv
    BY <1>1, <1>5 DEF ForHost, HostLabels, DataInv
  <2> QED BY <2>1, AdbOnly
<1>19. Aligned(p) /\ BeforeAccept(p) /\ BeforeStart(p) /\ Proxies(p)
       /\ (~Begun(p) => adb[p].expected_command = accept_command)
  BY <1>18 DEF DataInv, SessionInv, SessionPart
<1> HIDE DEF r, got
<1>20. SessionPart(p)'
  <2>1. Aligned(p)' /\ First(p)' = First(p) /\ Handled(p)' = Handled(p)
    <3>1. adb'[p].expected_command \in {accept_command, <<>>, start_command}
      BY <1>9, <1>19 DEF Aligned
    <3> QED BY <1>7, <1>9, <1>11, <1>19, <3>1, StreamStays
  <2>2. (Advancing(p)' => Advancing(p)) /\ ForHost(p)
    <3>1. Advancing(p)' => Advancing(p)
      BY <1>3, <1>5 DEF Advancing, At
    <3>2. ForHost(p)
      BY <1>1, <1>5 DEF ForHost, HostLabels
    <3> QED BY <3>1, <3>2
  <2>3. BeforeAccept(p)'
    BY <1>9, <1>19, <2>1, <2>2 DEF BeforeAccept, Quiet
  <2>4. BeforeStart(p)'
    <3> SUFFICES ASSUME Unstarted(p)' PROVE BeforeStart(p)'
      BY DEF BeforeStart
    <3>1. Unstarted(p)
      BY <2>1, <2>2 DEF Unstarted
    <3>2. ~Has(r, "data")
      <4>1. ~Has(got, "data")
        BY <1>19, <3>1 DEF BeforeStart, got
      <4>2. r \in Seq(Token)
        BY <1>3 DEF Typed, Shapes, Guests, r
      <4>3. DOMAIN r = 1 .. Len(r) /\ DOMAIN got = 1 .. Len(got)
        BY <1>10, <4>2
      <4>4. Ok[1] # "data"
        BY DEF Ok
      <4> QED BY <1>17, <4>1, <4>3, <4>4 DEF Has
    <3>3. Fresh(h)'
      BY <1>12, <1>14
    <3>4. \A g \in Hosts : <<p, g>> \notin host_reads'
      BY <1>3, <1>19, <3>1 DEF BeforeStart
    <3>5. \A g \in Hosts : adb'[p].messenger = g => g = h
      BY <1>9
    <3>6. \A g \in Hosts : adb'[p].messenger = g => Fresh(g)'
      <4>1. ASSUME NEW g \in Hosts, adb'[p].messenger = g PROVE Fresh(g)'
        <5>1. Fresh(g)
          BY <1>12, <3>5, <4>1
        <5> QED BY <1>14, <5>1
      <4> QED BY <4>1
    <3> QED BY <1>9, <1>11, <1>19, <3>1, <3>2, <3>4, <3>6 DEF BeforeStart, r
  <2>5. Proxies(p)'
    <3>1. host'[h].got = <<>>
      BY <1>12, <1>13 DEF Fresh
    <3> QED BY <1>9, <1>19, <3>1 DEF Proxies
  <2>6. Begun(p)'
    <3>1. Begun(p)
      BY <1>19, <2>2 DEF BeforeAccept, Quiet
    <3> QED BY <1>3, <1>5, <1>11, <3>1 DEF Begun
  <2> QED BY <2>1, <2>3, <2>4, <2>5, <2>6 DEF SessionPart
<1>21. SessionInv'
  BY <1>3, <1>6, <1>14, <1>20, OtherSessions
<1>22. ASSUME NEW q \in Pipes, NEW g \in Hosts PROVE Messenger(q, g)'
  <2>1. /\ \A o \in Pipes, f \in Hosts : Messenger(o, f)
        /\ host'[g].status = "none" <=> host[g].status = "none"
    BY <1>13 DEF DataInv, HostInv
  <2>2. CASE q = p
    <3>1. \A o \in Pipes \ {p} : adb'[o].messenger # h
      BY <1>3, <1>12
    <3>2. <<p, g>> \notin host_reads'
      BY <1>3, <2>1 DEF Messenger
    <3> QED BY <1>9, <1>12, <2>1, <2>2, <3>1, <3>2 DEF Messenger
  <2>3. CASE q # p
    <3>1. adb'[q].messenger = adb[q].messenger /\ (<<q, g>> \in host_reads' => <<q, g>> \in host_reads)
      BY <1>3, <2>3
    <3>2. adb'[q].messenger = g => g # h
      BY <1>12, <3>1
    <3>3. ASSUME adb'[q].messenger = g, NEW o \in Pipes, adb'[o].messenger = g PROVE o = q
      <4>1. o # p
        BY <1>9, <3>2, <3>3
      <4>2. adb[o].messenger = g /\ adb[q].messenger = g
        BY <1>3, <3>1, <3>3, <4>1
      <4> QED BY <2>1, <4>2 DEF Messenger
    <3>4. Messenger(q, g)
      BY <2>1
    <3> QED BY <2>1, <3>1, <3>3, <3>4 DEF Messenger
  <2> QED BY <2>2, <2>3
<1>23. ASSUME NEW v \in Workers PROVE Arriving(v)'
  <2>1. CASE v = w
    BY <1>5, <2>1 DEF Arriving, At
  <2>2. CASE v # w
    <3>1. Arriving(v) /\ task'[v] = task[v]
      BY <1>3, <2>2 DEF DataInv, HostInv
    <3>2. ASSUME NEW g \in Hosts, At(v, "host_connection"), task[v].host = g
          PROVE  /\ host'[g].status # "none" /\ (Fresh(g) => Fresh(g)')
                 /\ \A q \in Pipes : adb[q].messenger # g => adb'[q].messenger # g
                 /\ \A u \in Workers : At(u, "host_connection")' /\ task'[u].host = g =>
                      At(u, "host_connection") /\ task[u].host = g
      <4>1. g # h
        BY <1>12, <2>2, <3>2
      <4>2. host[g].status # "none"
        BY <3>1, <3>2 DEF Arriving
      <4>3. \A q \in Pipes : adb[q].messenger # g => adb'[q].messenger # g
        BY <1>3, <1>9, <4>1
      <4>4. \A u \in Workers : At(u, "host_connection")' => task'[u] = task[u]
        BY <1>3, <1>5 DEF At
      <4> QED BY <1>13, <1>14, <4>2, <4>3, <4>4 DEF At
    <3> QED BY <3>1, <3>2, ArrivingKept
  <2> QED BY <2>1, <2>2
<1>24. ASSUME NEW q \in Pipes PROVE GotOf(q)'
  <2>1. CASE q = p
    <3>1. GotOf(p)
      BY DEF DataInv, GotInv
    <3>2. ASSUME NEW i \in 1 .. Len(r), r[i][2] \in Hosts PROVE pipe[p].written > 1
      <4>1. Ok[2] \notin Hosts
        BY PipeAssumption DEF Ok, NoHost
      <4>2. i \in 1 .. Len(got) /\ got[i][2] \in Hosts
        BY <1>17, <3>2, <4>1
      <4> QED BY <3>1, <4>2 DEF GotOf, got
    <3>3. HostsInOrder(pipe'[p].got)
      BY <1>16 DEF r
    <3>4. \A i \in 1 .. Len(pipe'[p].got) :
            pipe'[p].got[i][2] \in Hosts => pipe'[p].written > 1
      BY <1>11, <3>2 DEF r
    <3> QED BY <2>1, <3>3, <3>4, GotNext
  <2>2. CASE q # p
    <3>1. GotOf(q) /\ pipe'[q] = pipe[q]
      BY <1>3, <2>2 DEF DataInv, GotInv
    <3> QED BY <3>1, GotOfKept
  <2> QED BY <2>1, <2>2
<1>25. ASSUME NEW q \in Pipes, NEW g \in Hosts PROVE GotRead(q, g)'
  <2>1. GotRead(q, g) /\ Read(g)' = Read(g)
    BY <1>14 DEF DataInv, GotInv, SameHost
  <2>2. CASE q = p
    <3>1. <<p, g>> \in host_reads' => <<p, g>> \in host_reads
      BY <1>3
    <3>2. PICK n, m : n = GotFrom(p, g, Len(pipe[p].got)) /\ m = Len(pipe'[p].got)
      OBVIOUS
    <3>3. GotFrom(p, g, m)' = n
      BY <1>15, <1>16, <3>2 DEF r, got
    <3>4. n <= Read(g) /\ (<<p, g>> \in host_reads /\ pipe[p].status = "open" => n = Read(g))
      BY <2>1, <2>2, <3>2 DEF GotRead
    <3> QED BY <1>11, <2>1, <2>2, <3>1, <3>2, <3>3, <3>4 DEF GotRead
  <2>3. CASE q # p
    <3>1. pipe'[q] = pipe[q] /\ (<<q, g>> \in host_reads' => <<q, g>> \in host_reads)
      BY <1>3, <2>3
    <3> QED BY <2>1, <3>1, GotReadKept
  <2> QED BY <2>2, <2>3
<1>26. HostGetsData'
  <2>1. \A g \in Hosts : host'[g].got = host[g].got
    BY <1>13
  <2> QED BY <2>1 DEF DataInv, HostGetsData
<1> QED BY <1>14, <1>21, <1>22, <1>23, <1>24, <1>25, <1>26 DEF DataParts, HostInv, GotInv

\* What is read of a host is taken from the front of what it has sent.
LEMMA SendsCut ==
  ASSUME NEW h, NEW s \in Seq(Token), NEW k \in 1 .. Len(s), NEW m \in Int,
         \A i \in 1 .. Len(s) : s[i] = Data(h, m + i)
  PROVE  /\ SubSeq(s, 1, k) \in Seq(Token) /\ Len(SubSeq(s, 1, k)) = k
         /\ \A j \in 1 .. k : SubSeq(s, 1, k)[j] = Data(h, m + j)
         /\ Len(SubSeq(s, k + 1, Len(s))) = Len(s) - k
         /\ \A i \in 1 .. Len(s) - k : SubSeq(s, k + 1, Len(s))[i] = Data(h, (m + k) + i)
<1>1. Len(s) \in Nat /\ k \in Nat /\ k >= 1 /\ k <= Len(s)
  OBVIOUS
<1>2. SubSeq(s, 1, k) \in Seq(Token) /\ Len(SubSeq(s, 1, k)) = k
  BY <1>1
<1>3. ASSUME NEW j \in 1 .. k PROVE SubSeq(s, 1, k)[j] = Data(h, m + j)
  <2>1. j \in 1 .. Len(s)
    BY <1>1
  <2>2. SubSeq(s, 1, k)[j] = s[j]
    BY <1>1
  <2> QED BY <2>1, <2>2
<1>4. Len(SubSeq(s, k + 1, Len(s))) = Len(s) - k
  BY <1>1
<1>5. ASSUME NEW i \in 1 .. Len(s) - k
      PROVE  SubSeq(s, k + 1, Len(s))[i] = Data(h, (m + k) + i)
  <2>1. k + i \in 1 .. Len(s) /\ m + (k + i) = (m + k) + i
    BY <1>1
  <2>2. SubSeq(s, k + 1, Len(s))[i] = s[k + i]
    BY <1>1
  <2>3. s[k + i] = Data(h, m + (k + i))
    BY <2>1
  <2> QED BY <2>1, <2>2, <2>3
<1> QED BY <1>2, <1>3, <1>4, <1>5

LEMMA OnHostReadData ==
  ASSUME DataInv, NEW w \in Workers, NEW p \in Pipes, NEW h \in Hosts, OnHostRead(w, p, h)
  PROVE  DataParts'
<1> Typed /\ LockInv
  BY DEF DataInv, OrderInv
<1>1. /\ Typed'
      /\ <<p, h>> \in host_reads
      /\ \A g \in Hosts \ {h} : host'[g] = host[g]
      /\ \A q \in Pipes \ {p} : pipe'[q] = pipe[q]
      /\ UNCHANGED <<server, task, session>>
  BY OnHostReadDoes
<1>2. PICK k \in 1 .. Len(host[h].unread) :
        /\ host'[h] = [host[h] EXCEPT !.unread = SubSeq(@, k + 1, Len(@))]
        /\ \/ /\ pipe[p].status = "open" /\ UNCHANGED host_reads
              /\ pipe'[p] = [pipe[p] EXCEPT !.got = @ \o SubSeq(host[h].unread, 1, k)]
           \/ /\ pipe[p].status # "open"
              /\ host_reads' = host_reads \ {<<p, h>>}
              /\ pipe'[p] = pipe[p]
  BY OnHostReadDoes, Zenon
<1>3. UNCHANGED <<conns, reading, task, adb, commands>>
  BY <1>1 DEF server, session
<1>4. /\ host[h] \in HostEnds /\ host[h].written \in Nat
      /\ host[h].unread \in Seq(Token) /\ Len(host[h].unread) \in Nat
      /\ Read(h) \in Int
  BY HostTyped
<1>5. pipe[p] \in Guests /\ pipe[p].got \in Seq(Token) /\ Len(pipe[p].got) \in Nat
  BY DEF Typed, Shapes, Guests
<1>6. HostSends(h) /\ Read(h) = host[h].written - Len(host[h].unread)
  BY DEF DataInv, HostInv, Read
<1> DEFINE data == SubSeq(host[h].unread, 1, k)
           rest == SubSeq(host[h].unread, k + 1, Len(host[h].unread))
           got == pipe[p].got
           r == pipe'[p].got
           m == Read(h)
           l == Len(got)
<1>7. /\ data \in Seq(Token) /\ Len(data) = k
      /\ \A j \in 1 .. k : data[j] = Data(h, m + j)
      /\ Len(rest) = Len(host[h].unread) - k
      /\ \A i \in 1 .. Len(host[h].unread) - k : rest[i] = Data(h, (m + k) + i)
  <2> DEFINE s == host[h].unread
  <2>1. s \in Seq(Token) /\ k \in 1 .. Len(s) /\ m \in Int
        /\ \A i \in 1 .. Len(s) : s[i] = Data(h, m + i)
    BY <1>4, <1>6 DEF HostSends
  <2> HIDE DEF s, m
  <2>2. /\ SubSeq(s, 1, k) \in Seq(Token) /\ Len(SubSeq(s, 1, k)) = k
        /\ \A j \in 1 .. k : SubSeq(s, 1, k)[j] = Data(h, m + j)
        /\ Len(SubSeq(s, k + 1, Len(s))) = Len(s) - k
        /\ \A i \in 1 .. Len(s) - k : SubSeq(s, k + 1, Len(s))[i] = Data(h, (m + k) + i)
    BY <2>1, SendsCut
  <2> QED BY <2>2 DEF s, m
<1>8. k \in Nat /\ m \in Int /\ l \in Nat /\ got \in Seq(Token)
  BY <1>4, <1>5
<1>9. /\ host'[h].written = host[h].written /\ host'[h].unread = rest
      /\ host'[h].got = host[h].got /\ host'[h].status = host[h].status
  BY <1>2, <1>4 DEF HostEnds
<1>10. /\ pipe'[p].service = pipe[p].service /\ pipe'[p].written = pipe[p].written
       /\ pipe'[p].unread = pipe[p].unread /\ pipe'[p].status = pipe[p].status
       /\ \/ pipe[p].status = "open" /\ r = got \o data /\ host_reads' = host_reads
          \/ pipe[p].status # "open" /\ r = got /\ host_reads' = host_reads \ {<<p, h>>}
  BY <1>2, <1>5 DEF Guests
<1> HIDE DEF data, rest, got, r, m, l
<1>11. Read(h)' = m + k
  <2>1. Read(h)' = host'[h].written - Len(rest)
    BY <1>9 DEF Read
  <2>2. host'[h].written \in Nat /\ Len(host[h].unread) \in Nat
        /\ m = host'[h].written - Len(host[h].unread)
    BY <1>4, <1>6, <1>9 DEF m
  <2>3. PICK x, y \in Int : x = host'[h].written /\ y = Len(host[h].unread)
    BY <2>2
  <2>4. Len(rest) = y - k
    BY <1>7, <2>3
  <2>5. m = x - y /\ Read(h)' = x - (y - k)
    BY <2>1, <2>2, <2>3, <2>4, Zenon
  <2>6. x - (y - k) = (x - y) + k
    BY <1>8
  <2> QED BY <2>5, <2>6, Zenon
<1>12. adb[p].messenger = h /\ host[h].status # "none"
       /\ \A q \in Pipes \ {p} : adb[q].messenger # h
  <2>1. adb[p].messenger = h
    BY <1>1 DEF DataInv, HostInv, Messenger
  <2> QED BY <2>1 DEF DataInv, HostInv, Messenger
<1>13. ASSUME NEW g \in Hosts \ {h}
       PROVE  HostSends(g)' /\ SameHost(g) /\ (Fresh(g)' <=> Fresh(g))
  <2>1. HostSends(g) /\ host'[g] = host[g]
    BY <1>1 DEF DataInv, HostInv
  <2> QED BY <2>1, HostSendsKept
<1>14. HostSends(h)'
  <2>1. Len(host'[h].unread) <= host'[h].written
    <3>1. Len(rest) <= Len(host[h].unread) /\ Len(rest) \in Int
      BY <1>4, <1>7, <1>8
    <3> QED BY <1>4, <1>6, <1>9, <3>1 DEF HostSends
  <2>2. \A i \in 1 .. Len(host'[h].unread) : host'[h].unread[i] = Data(h, Read(h)' + i)
    BY <1>7, <1>9, <1>11
  <2> QED BY <1>9, <1>12, <2>1, <2>2 DEF HostSends
<1>15. \A g \in Hosts : host'[g].got = host[g].got /\ host'[g].status = host[g].status
  BY <1>1, <1>9
<1>16. pipe[p].service = "adb"
  <2>1. OrderInv /\ \E g \in Hosts : <<p, g>> \in host_reads
    BY <1>1 DEF DataInv
  <2> QED BY <2>1, AdbOnly
<1>17. Aligned(p) /\ BeforeAccept(p) /\ BeforeStart(p) /\ Proxies(p)
       /\ (~Begun(p) => adb[p].expected_command = accept_command)
  BY <1>16 DEF DataInv, SessionInv, SessionPart
<1>18. ~Unstarted(p) /\ pipe[p].written > 1
  <2>1. ~Unstarted(p)
    BY <1>1, <1>17 DEF BeforeStart
  <2>2. ~(First(p) < 4) /\ First(p) \in Int
    BY <2>1, PendingTyped, Counts DEF Unstarted
  <2>3. First(p) >= 4
    BY <2>2
  <2> QED BY <2>1, <2>3, StartHandled
<1>19. Pending(p)' = Pending(p) /\ Advancing(p)' = Advancing(p) /\ ForHost(p)' = ForHost(p)
  BY <1>3 DEF Pending, Advancing, ForHost, At
<1>20. SessionPart(p)'
  <2>1. Aligned(p)' /\ First(p)' = First(p) /\ Handled(p)' = Handled(p)
    <3>1. adb'[p].expected_command \in {accept_command, <<>>, start_command}
      BY <1>3, <1>17 DEF Aligned
    <3> QED BY <1>3, <1>10, <1>17, <1>19, <3>1, StreamStays
  <2>2. BeforeAccept(p)'
    BY <1>3, <1>17, <1>19, <2>1 DEF BeforeAccept, Quiet
  <2>3. BeforeStart(p)'
    BY <1>18, <1>19, <2>1 DEF BeforeStart, Unstarted
  <2>4. Proxies(p)'
    <3>1. Live(p)' <=> Live(p)
      BY <1>3 DEF Live, Busy
    <3>2. adb[p].messenger \in Hosts /\ host'[adb[p].messenger].got = host[adb[p].messenger].got
      BY <1>12, <1>15
    <3> QED BY <1>3, <1>17, <2>1, <3>1, <3>2 DEF Proxies
  <2>5. ~Begun(p)' => adb'[p].expected_command = accept_command
    BY <1>3, <1>10, <1>17 DEF Begun
  <2> QED BY <2>1, <2>2, <2>3, <2>4, <2>5 DEF SessionPart
<1>21. SessionInv'
  <2>1. \A q \in Pipes \ {p} : \A g \in Hosts : <<q, g>> \in host_reads' <=> <<q, g>> \in host_reads
    BY <1>10
  <2>2. Only(p)
    BY <1>1, <1>3, <2>1, OnlyOneSameTasks
  <2>3. \A q \in Pipes \ {p} : adb[q].messenger \in Hosts => SameHost(adb[q].messenger)
    BY <1>12, <1>13
  <2> QED BY <1>1, <1>20, <2>2, <2>3, OtherSessions
<1>22. ASSUME NEW q \in Pipes, NEW g \in Hosts PROVE Messenger(q, g)'
  <2>1. Messenger(q, g)
    BY DEF DataInv, HostInv
  <2> QED BY <1>3, <1>10, <1>15, <2>1 DEF Messenger
<1>23. ASSUME NEW v \in Workers PROVE Arriving(v)'
  <2>1. Arriving(v)
    BY DEF DataInv, HostInv
  <2>2. ASSUME NEW g \in Hosts, At(v, "host_connection"), task[v].host = g
        PROVE  host'[g].status # "none" /\ (Fresh(g) => Fresh(g)')
    <3>1. g # h /\ host[g].status # "none"
      BY <1>12, <2>1, <2>2 DEF Arriving
    <3> QED BY <1>13, <1>15, <3>1
  <2> QED BY <1>3, <2>1, <2>2, ArrivingKept DEF At
<1>24. /\ HostsInOrder(got)
       /\ \A g, n : GotFrom(p, g, n) = CountFrom(got, g, n)
       /\ \A g, n : GotFrom(p, g, n)' = CountFrom(r, g, n)
  BY GotMeans DEF DataInv, GotInv, got, r
<1>25. \A g \in Hosts :
         /\ CountFrom(got, g, l) <= Read(g)
         /\ <<p, g>> \in host_reads /\ pipe[p].status = "open" => CountFrom(got, g, l) = Read(g)
  BY <1>24 DEF DataInv, GotInv, GotRead, got, l
<1>26. /\ HostsInOrder(r)
       /\ \A g \in Hosts \ {h} : CountFrom(r, g, Len(r)) = CountFrom(got, g, l)
       /\ CountFrom(r, h, Len(r)) <= m + k
       /\ <<p, h>> \in host_reads' /\ pipe'[p].status = "open" => CountFrom(r, h, Len(r)) = m + k
  <2>1. CASE pipe[p].status = "open" /\ r = got \o data
    <3>1. Continues(r, got, data)
      <4>1. Continues(got \o data, got, data)
        BY <1>7, <1>8, Continued
      <4> QED BY <2>1, <4>1
    <3>2. CountFrom(got, h, l) = m
      BY <1>1, <1>25, <2>1 DEF m
    <3>3. Sends(data, h, m) /\ Len(data) \in Nat /\ Len(got) \in Nat
      BY <1>7, <1>8 DEF Sends, l
    <3>4. Grows(r, got, data, h)
      <4>1. m \in Int /\ CountFrom(got, h, Len(got)) = m /\ HostsInOrder(got)
        BY <1>8, <1>24, <3>2 DEF l
      <4> QED BY <3>1, <3>3, <4>1, ToldData, Zenon
    <3>5. /\ HostsInOrder(r)
          /\ CountFrom(r, h, Len(r)) = m + k
          /\ \A g \in Hosts \ {h} : CountFrom(r, g, Len(r)) = CountFrom(got, g, l)
      BY <1>7, <3>2, <3>4 DEF Grows, l
    <3> QED BY <1>8, <3>5
  <2>2. CASE pipe[p].status # "open" /\ r = got
    <3>1. CountFrom(r, h, Len(r)) <= m /\ CountFrom(r, h, Len(r)) \in Nat
      <4>1. CountFrom(got, h, l) <= m
        BY <1>25 DEF m
      <4>2. GotFrom(p, h, l) \in Nat
        BY <1>8, GotFromNat
      <4> QED BY <1>24, <2>2, <4>1, <4>2 DEF l
    <3>2. CountFrom(r, h, Len(r)) <= m + k
      BY <1>8, <3>1
    <3> QED BY <1>10, <1>24, <2>2, <3>2 DEF l
  <2> QED BY <1>10, <2>1, <2>2
<1>27. ASSUME NEW q \in Pipes PROVE GotOf(q)'
  <2>1. CASE q = p
    <3>1. HostsInOrder(pipe'[p].got) /\ pipe'[p].written > 1
      BY <1>10, <1>18, <1>26 DEF r
    <3> QED BY <2>1, <3>1, GotNext
  <2>2. CASE q # p
    <3>1. GotOf(q) /\ pipe'[q] = pipe[q]
      BY <1>1, <2>2 DEF DataInv, GotInv
    <3> QED BY <3>1, GotOfKept
  <2> QED BY <2>1, <2>2
<1>28. ASSUME NEW q \in Pipes, NEW g \in Hosts PROVE GotRead(q, g)'
  <2>1. CASE q = p
    <3>1. PICK n : n = Len(r)
      OBVIOUS
    <3>2. GotFrom(p, g, n)' = CountFrom(r, g, n) /\ n = Len(pipe'[p].got)
      BY <1>24, <3>1 DEF r
    <3>3. CASE g = h
      <4>1. CountFrom(r, h, n) <= Read(h)'
            /\ (<<p, h>> \in host_reads' /\ pipe'[p].status = "open" => CountFrom(r, h, n) = Read(h)')
        BY <1>11, <1>26, <3>1
      <4> QED BY <2>1, <3>2, <3>3, <4>1 DEF GotRead
    <3>4. CASE g # h
      <4>1. Read(g)' = Read(g)
        BY <1>13, <3>4 DEF SameHost
      <4>2. CountFrom(r, g, n) = CountFrom(got, g, l)
        BY <1>26, <3>1, <3>4
      <4>3. <<p, g>> \in host_reads' => <<p, g>> \in host_reads
        BY <1>10
      <4> QED BY <1>10, <1>25, <2>1, <3>2, <4>1, <4>2, <4>3 DEF GotRead
    <3> QED BY <3>3, <3>4
  <2>2. CASE q # p
    <3>1. /\ GotRead(q, g) /\ pipe'[q] = pipe[q]
          /\ <<q, g>> \in host_reads' => <<q, g>> \in host_reads
      BY <1>1, <1>10, <2>2 DEF DataInv, GotInv
    <3>2. CASE g = h
      <4>1. <<q, h>> \notin host_reads
        BY <1>12, <2>2 DEF DataInv, HostInv, Messenger
      <4>2. PICK n \in Nat : n = Len(pipe[q].got)
        BY DEF Typed, Shapes, Guests
      <4>3. GotFrom(q, h, n)' = GotFrom(q, h, n) /\ GotFrom(q, h, n) \in Nat
        BY <3>1, GotKept, GotFromNat
      <4>4. GotFrom(q, h, n) <= m
        BY <3>1, <3>2, <4>2 DEF GotRead, m
      <4>5. GotFrom(q, h, n)' <= Read(h)'
        BY <1>8, <1>11, <4>3, <4>4
      <4> QED BY <3>1, <3>2, <4>1, <4>2, <4>5 DEF GotRead
    <3>3. CASE g # h
      <4>1. Read(g)' = Read(g)
        BY <1>13, <3>3 DEF SameHost
      <4> QED BY <3>1, <4>1, GotReadKept
    <3> QED BY <3>2, <3>3
  <2> QED BY <2>1, <2>2
<1>29. HostGetsData'
  BY <1>15 DEF DataInv, HostGetsData
<1>30. \A g \in Hosts : HostSends(g)'
  BY <1>13, <1>14
<1> QED BY <1>21, <1>22, <1>23, <1>27, <1>28, <1>29, <1>30 DEF DataParts, HostInv, GotInv

-----------------------------------------------------------------------------
(* The theorem *)

LEMMA DataInit == Init => DataInv
<1> SUFFICES ASSUME Init PROVE DataInv
  OBVIOUS
<1>1. OrderInv
  BY OrderInit
<1>2. ASSUME NEW p \in Pipes
      PROVE  /\ pipe[p].status = "none" /\ pipe[p].service = "none"
             /\ pipe[p].got = <<>> /\ adb[p].messenger = NoHost
  BY DEF Init, Unnamed
<1>3. ASSUME NEW h \in Hosts
      PROVE  /\ host[h].status = "none" /\ host[h].written = 0
             /\ host[h].unread = <<>> /\ host[h].got = <<>>
  BY DEF Init
<1>4. \A w \in Workers : ~At(w, "host_connection")
  BY DEF Init, Idle, At
<1>5. SessionInv
  BY <1>2 DEF SessionInv, SessionPart
<1>6. Len(<<>>) = 0
  OBVIOUS
<1>7. ASSUME NEW h \in Hosts PROVE HostSends(h) /\ Read(h) = 0
  BY <1>3, <1>6 DEF HostSends, Fresh, Read
<1>8. \A p \in Pipes, h \in Hosts : Messenger(p, h)
  BY <1>2, PipeAssumption DEF Messenger, Init
<1>9. \A p \in Pipes : GotOf(p)
  BY <1>2, <1>6 DEF GotOf
<1>10. ASSUME NEW p \in Pipes, NEW h \in Hosts PROVE GotRead(p, h)
  <2>1. 1 .. 0 = {}
    OBVIOUS
  <2>2. GotFrom(p, h, 0) = 0
    BY <2>1, FS_EmptySet DEF GotFrom
  <2> QED BY <1>2, <1>6, <1>7, <2>2 DEF GotRead
<1>11. HostGetsData
  BY <1>3 DEF HostGetsData
<1> QED BY <1>1, <1>4, <1>5, <1>7, <1>8, <1>9, <1>10, <1>11 DEF DataInv, HostInv, GotInv, Arriving

LEMMA DataStep == DataInv /\ [Next]_vars => DataInv'
<1> SUFFICES ASSUME DataInv, [Next]_vars PROVE DataInv'
  OBVIOUS
<1>1. OrderInv'
  BY OrderStep DEF DataInv
<1>2. CASE UNCHANGED vars
  <2>1. \A p \in Pipes : SamePipe(p)
    BY <1>2 DEF vars, server, session, ends, SamePipe
  <2>2. UNCHANGED <<task, pipe, adb, host, host_reads>> /\ Typed'
    BY <1>1, <1>2 DEF vars, server, session, ends, OrderInv
  <2>3. PlainStep
    BY <2>2 DEF PlainStep
  <2>4. \A h \in Hosts : SameHost(h)
    BY <2>2 DEF SameHost, Read
  <2>5. SessionInv'
    BY <2>1, <2>2, <2>4, SameSession DEF SessionInv
  <2> QED BY <1>1, <2>2, <2>3, <2>5, PlainKeeps DEF DataInv
<1>3. ASSUME NEW w \in Workers, Handles(w) PROVE DataParts'
  <2>1. CASE IdentifyClient(w) \/ AddConnection(w) \/ ReadNextMessage(w) \/ RemoveConnection(w)
    BY <2>1, IdentifyClientData, AddConnectionData, ReadNextMessageData, RemoveConnectionData
  <2>2. CASE ProcessCommands(w) \/ OnHostConnection(w) \/ SetState(w) \/ SetExpected(w)
    BY <2>2, ProcessCommandsData, OnHostConnectionData, SetStateData, SetExpectedData
  <2>3. ASSUME NEW p \in Pipes,
               \/ ReadSome(w, p) \/ ReadError(w, p)
               \/ ProxyData(w, p) \/ ProxyThrows(w, p) \/ CollectCommand(w, p)
               \/ WaitForHostConnection(w, p) \/ StartProxying(w, p)
        PROVE  DataParts'
    BY <2>3, ReadSomeData, ReadErrorData, ProxyDataData, ProxyThrowsData,
       CollectCommandData, WaitForHostConnectionData, StartProxyingData
  <2>4. ASSUME NEW p \in Pipes, NEW h \in Hosts, OnHostRead(w, p, h) \/ OnHostReadError(w, p, h)
        PROVE  DataParts'
    BY <2>4, OnHostReadData, OnHostReadErrorData
  <2> QED BY <1>3, <2>1, <2>2, <2>3, <2>4 DEF Handles
<1>4. ASSUME NEW w \in Workers, NEW p \in Pipes,
             Accept(w, p) \/ \E h \in Hosts : AcceptHost(w, p, h)
      PROVE  DataParts'
  BY <1>4, AcceptData, AcceptHostData
<1>5. ASSUME NEW p \in Pipes, GuestNames(p) \/ GuestWritesNext(p) \/ GuestLeaves(p)
      PROVE  DataParts'
  BY <1>5, GuestNamesData, GuestWritesNextData, GuestLeavesData
<1>6. ASSUME NEW h \in Hosts, HostWrites(h) \/ HostLeaves(h)
      PROVE  DataParts'
  BY <1>6, HostWritesData, HostLeavesData
<1>7. CASE Next
  <2>1. DataParts'
    BY <1>3, <1>4, <1>5, <1>6, <1>7 DEF Next
  <2> QED BY <1>1, <2>1 DEF DataInv, DataParts
<1> QED BY <1>2, <1>7

LEMMA DataMeans == DataInv => DataGoesThrough
<1> SUFFICES ASSUME DataInv PROVE DataGoesThrough
  OBVIOUS
<1>1. ASSUME NEW p \in Pipes PROVE DOMAIN pipe[p].got = 1 .. Len(pipe[p].got)
  <2>1. pipe[p].got \in Seq(Token)
    BY DEF DataInv, OrderInv, Typed, Shapes, Guests
  <2> QED BY <2>1
<1>2. \A p \in Pipes : GotOf(p)
  BY DEF DataInv, GotInv
<1>3. GuestGetsData
  BY <1>1, <1>2 DEF GotOf, GuestGetsData
<1> QED BY <1>3 DEF DataInv, DataGoesThrough

\* Each end of an adb session gets exactly what the other one sends, in order and without a
\* gap, for any number of connections, hosts and workers: also when the guest's commands come
\* in pieces, when a second host replaces the messenger, and while connections are removed.
THEOREM JoinsGuestAndHost == Spec => []DataGoesThrough
  BY DataInit, DataStep, DataMeans, PTL DEF Spec

=============================================================================
