------------------------------ MODULE QemuPipe ------------------------------
(***************************************************************************)
(* The pipe the guest's services connect to: qemu/pipe_connection_creator, *)
(* network/socket_connection and two of the processors behind them, the    *)
(* one that frames qemud commands and the one that joins the guest's adbd  *)
(* to an adb host.  The io_service workers run the handlers.               *)
(*                                                                         *)
(* The bytes of a command of adbd are two tokens; its data, and that of    *)
(* the host, are numbered tokens.  The steps of a handler that another one *)
(* can fall between are steps of their own.                                *)
(*                                                                         *)
(* A definition named F_Word is a plausible slip in the definition F that  *)
(* follows it, put in its place to show that a property notices.           *)
(***************************************************************************)
EXTENDS QemudMessageProcessor, Connections

CONSTANTS
  Workers,  \* the worker threads of the Runtime
  Pipes,    \* bound: the connections of guests
  Hosts,    \* bound: the connections of adb hosts
  MaxData   \* bound: tokens of data each end of an adb session sends

NoPipe == 0
NoHost == 0

ASSUME PipeAssumption ==
  /\ NoPipe \notin Pipes
  /\ NoHost \notin Hosts
  /\ MaxData \in Nat

\* A token is what it is part of, who sent it (0 for the guest) and its number.
Command(word) == <<<<word, 0, 1>>, <<word, 0, 2>>>>
accept_command == Command("accept")
start_command == Command("start")
Ok == <<"ok", 0, 1>>
Data(h, i) == <<"data", h, i>>

Services == {"adb", "qemud"}
Unnamed == "none"

States ==
  {"waiting_for_guest_accept_command", "waiting_for_guest_start_command",
   "proxying_data", "closed_by_host"}

Labels ==
  {"idle", "identify", "add", "first_read", "read_next", "process", "advance", "remove",
   "host_connection", "host_state", "host_expected"}

VARIABLES
  accepting,  \* the pipe's async_accept is outstanding
  conns,      \* the keys of connections_
  reading,    \* pipes with an async_read_some outstanding
  task,       \* what each worker runs: where it is, for which pipe, on what
  pipe,       \* the guest's end of each pipe
  adb,        \* the fields of each pipe's AdbMessageProcessor
  commands,   \* the commands each pipe's qemud processor has handled
  owner,      \* the pipe whose processor holds active_instance_, or NoPipe
  host,       \* the adb hosts' ends of their connections
  host_reads  \* <<pipe, host>> with an async_read_some of the host outstanding

server == <<accepting, conns, reading>>
session == <<adb, commands, owner>>
ends == <<pipe, host>>
vars == <<server, task, session, ends, host_reads>>

Named(p) == pipe[p].service # Unnamed

Idle == [at |-> "idle", pipe |-> NoPipe, data |-> <<>>, host |-> NoHost]

At(w, label) == task[w].at = label

Goes(w, label) == task' = [task EXCEPT ![w].at = label]

Ends(w) == task' = [task EXCEPT ![w] = Idle]

Begins(w, label, p, data, h) ==
  /\ At(w, "idle")
  /\ task' = [task EXCEPT ![w] = [at |-> label, pipe |-> p, data |-> data, host |-> h]]

-----------------------------------------------------------------------------
(* PipeConnectionCreator::create_connection_for *)

Accept(w, p) ==
  /\ accepting
  /\ pipe[p].status = "none"
  /\ accepting' = FALSE
  /\ pipe' = [pipe EXCEPT ![p].status = "open"]
  /\ Begins(w, "identify", p, <<>>, NoHost)
  /\ UNCHANGED <<conns, reading, session, host, host_reads>>

\* The worker waits for the name of the service.
IdentifyClient(w) ==
  /\ At(w, "identify")
  /\ Named(task[w].pipe)
  /\ Goes(w, "add")
  /\ UNCHANGED <<server, session, ends, host_reads>>

AddConnection(w) ==
  /\ At(w, "add")
  /\ conns' = Added(conns, task[w].pipe)
  /\ Goes(w, "first_read")
  /\ UNCHANGED <<accepting, reading, session, ends, host_reads>>

-----------------------------------------------------------------------------
(* SocketConnection *)

\* After the first one the connection is complete, and the acceptor goes on.
ReadNextMessage(w) ==
  /\ At(w, "read_next") \/ At(w, "first_read")
  /\ reading' = reading \cup {task[w].pipe}
  /\ accepting' = (accepting \/ At(w, "first_read"))
  /\ Ends(w)
  /\ UNCHANGED <<conns, session, ends, host_reads>>

ReadSome(w, p) ==
  /\ p \in reading
  /\ pipe[p].status # "closed"
  /\ \E k \in 1 .. Len(pipe[p].unread) :
       /\ Begins(w, "process", p, SubSeq(pipe[p].unread, 1, k), NoHost)
       /\ pipe' = [pipe EXCEPT ![p].unread = SubSeq(@, k + 1, Len(@))]
  /\ reading' = reading \ {p}
  /\ UNCHANGED <<accepting, conns, session, host, host_reads>>

\* The processor has closed the socket, or the guest has left and all it wrote is read.
Closed(p) ==
  \/ pipe[p].status = "closed"
  \/ pipe[p].status = "left" /\ pipe[p].unread = <<>>

ReadError(w, p) ==
  /\ p \in reading
  /\ Closed(p)
  /\ Begins(w, "remove", p, <<>>, NoHost)
  /\ reading' = reading \ {p}
  /\ UNCHANGED <<accepting, conns, session, ends, host_reads>>

Unlocked_Kept(p) == owner
Unlocked(p) == IF owner = p THEN NoPipe ELSE owner

(***************************************************************************)
(* With the connection its processor goes: the connector is dropped, the   *)
(* lock is released, and the connection to the host is closed.             *)
(***************************************************************************)
RemoveConnection(w) ==
  /\ At(w, "remove")
  /\ LET p == task[w].pipe IN
       /\ conns' = Removed(conns, p)
       /\ adb' = [adb EXCEPT ![p].state = "closed_by_host", ![p].connector = "none"]
       /\ owner' = Unlocked(p)
       /\ host_reads' = host_reads \ ({p} \X Hosts)
       /\ host' = [h \in Hosts |->
            IF h = adb[p].messenger THEN [host[h] EXCEPT !.status = "closed"] ELSE host[h]]
       /\ pipe' = [pipe EXCEPT ![p].status = "closed"]
  /\ Ends(w)
  /\ UNCHANGED <<accepting, reading, commands>>

-----------------------------------------------------------------------------
(* QemudMessageProcessor::process_data *)

ProcessCommands(w) ==
  /\ At(w, "process")
  /\ LET p == task[w].pipe
         result == process_commands[adb[p].buffer \o task[w].data] IN
       /\ pipe[p].service = "qemud"
       /\ commands' = [commands EXCEPT ![p] = @ \o result.handled]
       /\ adb' = [adb EXCEPT ![p].buffer = result.buffer]
  /\ Goes(w, "read_next")
  /\ UNCHANGED <<server, owner, ends, host_reads>>

-----------------------------------------------------------------------------
(* AdbMessageProcessor::process_data and advance_state *)

Processes(w, p) == At(w, "process") /\ p = task[w].pipe /\ pipe[p].service = "adb"

ProxyData(w, p) ==
  /\ Processes(w, p)
  /\ adb[p].state = "proxying_data"
  /\ \E h \in Hosts :
       /\ h = adb[p].messenger
       /\ host[h].status # "closed"
       /\ host' = [host EXCEPT ![h].got = @ \o task[w].data]
  /\ Goes(w, "read_next")
  /\ UNCHANGED <<server, session, pipe, host_reads>>

\* The send to a host that has left throws; no read is posted.
ProxyThrows(w, p) ==
  /\ Processes(w, p)
  /\ adb[p].state = "proxying_data"
  /\ host[adb[p].messenger].status # "open"
  /\ Ends(w)
  /\ UNCHANGED <<server, session, ends, host_reads>>

\* memcmp of as many bytes as have just come, from the start of the buffer.
Mismatch(buffer, expected, n) ==
  n > Len(expected) \/ SubSeq(buffer, 1, n) # SubSeq(expected, 1, n)

CollectCommand(w, p) ==
  /\ Processes(w, p)
  /\ adb[p].state # "proxying_data"
  /\ LET buffer == adb[p].buffer \o task[w].data
         expected == adb[p].expected_command
         enough == Len(expected) > 0 /\ Len(buffer) >= Len(expected)
         mismatch == Mismatch(buffer, expected, Len(task[w].data)) IN
       \/ /\ ~enough
          /\ adb' = [adb EXCEPT ![p].buffer = buffer]
          /\ Goes(w, "read_next")
       \/ /\ enough /\ mismatch
          /\ adb' = [adb EXCEPT ![p].buffer = buffer]
          /\ Goes(w, "remove")
       \/ /\ enough /\ ~mismatch
          /\ adb' = [adb EXCEPT ![p].buffer = SubSeq(buffer, Len(expected) + 1, Len(buffer)),
                                ![p].expected_command = <<>>]
          /\ Goes(w, "advance")
  /\ UNCHANGED <<server, commands, owner, ends, host_reads>>

Advances(w, p, state) == At(w, "advance") /\ p = task[w].pipe /\ adb[p].state = state

LockFree_Always == TRUE
LockFree == owner = NoPipe

\* The worker waits for the lock, and then listens for a host.
WaitForHostConnection(w, p) ==
  /\ Advances(w, p, "waiting_for_guest_accept_command")
  /\ LockFree
  /\ owner' = p
  /\ adb' = [adb EXCEPT ![p].connector = "listening"]
  /\ Goes(w, "read_next")
  /\ UNCHANGED <<server, commands, ends, host_reads>>

StartProxying(w, p) ==
  /\ Advances(w, p, "waiting_for_guest_start_command")
  /\ adb' = [adb EXCEPT ![p].state = "proxying_data"]
  /\ host_reads' = host_reads \cup {<<p, adb[p].messenger>>}
  /\ Goes(w, "read_next")
  /\ UNCHANGED <<server, commands, owner, ends>>

-----------------------------------------------------------------------------
(* AdbMessageProcessor::on_host_connection and on_host_read_size *)

AcceptHost(w, p, h) ==
  /\ adb[p].connector = "listening"
  /\ host[h].status = "none"
  /\ host' = [host EXCEPT ![h].status = "open"]
  /\ adb' = [adb EXCEPT ![p].connector = "busy"]
  /\ Begins(w, "host_connection", p, <<>>, h)
  /\ UNCHANGED <<server, commands, owner, pipe, host_reads>>

Told(p, data) == pipe' = [pipe EXCEPT ![p].got = @ \o data]

\* The guest is told before the state changes.  A messenger that is replaced is closed.
OnHostConnection(w) ==
  /\ At(w, "host_connection")
  /\ LET p == task[w].pipe
         old == adb[p].messenger IN
       /\ adb' = [adb EXCEPT ![p].messenger = task[w].host]
       /\ host' = [h \in Hosts |->
            IF h = old THEN [host[h] EXCEPT !.status = "closed"] ELSE host[h]]
       /\ host_reads' = host_reads \ {<<p, old>>}
       /\ \/ pipe[p].status = "open" /\ Told(p, <<Ok>>) /\ Goes(w, "host_state")
          \/ pipe[p].status # "open" /\ UNCHANGED pipe /\ Ends(w)
  /\ UNCHANGED <<server, commands, owner>>

AfterHostConnection_Proxying == "proxying_data"

AfterHostConnection == "waiting_for_guest_start_command"

SetState(w) ==
  /\ At(w, "host_state")
  /\ adb' = [adb EXCEPT ![task[w].pipe].state = AfterHostConnection]
  /\ Goes(w, "host_expected")
  /\ UNCHANGED <<server, commands, owner, ends, host_reads>>

SetExpected(w) ==
  /\ At(w, "host_expected")
  /\ LET p == task[w].pipe IN
       adb' = [adb EXCEPT ![p].expected_command = start_command,
                          ![p].connector = IF @ = "busy" THEN "listening" ELSE @]
  /\ Ends(w)
  /\ UNCHANGED <<server, commands, owner, ends, host_reads>>

Rearmed_Twice(p, h, data) == host[h].unread
Rearmed(p, h, data) == SubSeq(host[h].unread, Len(data) + 1, Len(host[h].unread))

\* A send to a guest that has left throws: then no read of the host is posted.
OnHostRead(w, p, h) ==
  /\ At(w, "idle")
  /\ <<p, h>> \in host_reads
  /\ \E k \in 1 .. Len(host[h].unread) :
       LET data == SubSeq(host[h].unread, 1, k) IN
       /\ host' = [host EXCEPT ![h].unread = Rearmed(p, h, data)]
       /\ \/ pipe[p].status = "open" /\ Told(p, data) /\ UNCHANGED host_reads
          \/ /\ pipe[p].status # "open"
             /\ host_reads' = host_reads \ {<<p, h>>}
             /\ UNCHANGED pipe
  /\ UNCHANGED <<server, task, session>>

OnHostReadError(w, p, h) ==
  /\ At(w, "idle")
  /\ <<p, h>> \in host_reads
  /\ host[h].status = "left" /\ host[h].unread = <<>>
  /\ host_reads' = host_reads \ {<<p, h>>}
  /\ adb' = [adb EXCEPT ![p].state = "closed_by_host"]
  /\ pipe' = [pipe EXCEPT ![p].status = "closed"]
  /\ UNCHANGED <<server, task, commands, owner, host>>

-----------------------------------------------------------------------------
(* The guest and the adb hosts *)

Guest(p, end) ==
  /\ pipe[p].status = "open"
  /\ pipe' = [pipe EXCEPT ![p] = end]
  /\ UNCHANGED <<server, task, session, host, host_reads>>

GuestNames(p) ==
  /\ ~Named(p)
  /\ \E service \in Services : Guest(p, [pipe[p] EXCEPT !.service = service])

GuestWrites(p, bytes) ==
  /\ Named(p)
  /\ Guest(p, [pipe[p] EXCEPT !.written = @ + 1, !.unread = @ \o bytes])

Has(received, word) == \E i \in DOMAIN received : received[i][1] = word

\* adbd says start once it was told ok, and answers what the host says.
GuestWritesNext(p) ==
  LET n == pipe[p].written IN
  IF pipe[p].service = "qemud"
  THEN n + 1 \in Commands /\ GuestWrites(p, BytesOf(n + 1))
  ELSE \/ n = 0 /\ GuestWrites(p, accept_command)
       \/ n = 1 /\ Has(pipe[p].got, "ok") /\ GuestWrites(p, start_command)
       \/ /\ n > 1 /\ n < 2 + MaxData
          /\ Has(pipe[p].got, "data")
          /\ GuestWrites(p, <<Data(0, n - 1)>>)

\* A guest that leaves without its name makes the code read beyond a vector, or take the
\* string of a null pointer; no such guest here.
GuestLeaves(p) == Named(p) /\ Guest(p, [pipe[p] EXCEPT !.status = "left"])

Host(h, end) ==
  /\ host[h].status = "open"
  /\ host' = [host EXCEPT ![h] = end]
  /\ UNCHANGED <<server, task, session, pipe, host_reads>>

HostWrites(h) ==
  /\ host[h].written < MaxData
  /\ Host(h, [host[h] EXCEPT !.written = @ + 1, !.unread = Append(@, Data(h, host[h].written + 1))])

HostLeaves(h) == Host(h, [host[h] EXCEPT !.status = "left"])

-----------------------------------------------------------------------------
Init ==
  /\ accepting = TRUE
  /\ conns = {} /\ reading = {}
  /\ task = [w \in Workers |-> Idle]
  /\ pipe = [p \in Pipes |-> [status |-> "none", service |-> Unnamed, written |-> 0,
                              unread |-> <<>>, got |-> <<>>]]
  /\ adb = [p \in Pipes |->
       [state |-> "waiting_for_guest_accept_command", expected_command |-> accept_command,
        buffer |-> <<>>, connector |-> "none", messenger |-> NoHost]]
  /\ commands = [p \in Pipes |-> <<>>]
  /\ owner = NoPipe
  /\ host = [h \in Hosts |-> [status |-> "none", written |-> 0, unread |-> <<>>, got |-> <<>>]]
  /\ host_reads = {}

Handles(w) ==
  \/ IdentifyClient(w) \/ AddConnection(w) \/ ReadNextMessage(w) \/ RemoveConnection(w)
  \/ ProcessCommands(w) \/ OnHostConnection(w) \/ SetState(w) \/ SetExpected(w)
  \/ \E p \in Pipes :
       \/ ReadSome(w, p) \/ ReadError(w, p)
       \/ ProxyData(w, p) \/ ProxyThrows(w, p) \/ CollectCommand(w, p)
       \/ WaitForHostConnection(w, p) \/ StartProxying(w, p)
       \/ \E h \in Hosts : OnHostRead(w, p, h) \/ OnHostReadError(w, p, h)

Next ==
  \/ \E w \in Workers :
       \/ Handles(w)
       \/ \E p \in Pipes : Accept(w, p) \/ \E h \in Hosts : AcceptHost(w, p, h)
  \/ \E p \in Pipes : GuestNames(p) \/ GuestWritesNext(p) \/ GuestLeaves(p)
  \/ \E h \in Hosts : HostWrites(h) \/ HostLeaves(h)

Spec == Init /\ [][Next]_vars

-----------------------------------------------------------------------------
(* Properties *)

\* The type invariant.
TypeOK ==
  /\ accepting \in BOOLEAN
  /\ conns \subseteq Pipes /\ reading \subseteq conns
  /\ \A w \in Workers : task[w].at \in Labels /\ task[w].pipe \in Pipes \cup {NoPipe}
  /\ \A p \in Pipes :
       /\ pipe[p].status \in {"none", "open", "left", "closed"}
       /\ adb[p].state \in States
       /\ adb[p].connector \in {"none", "listening", "busy"}
       /\ adb[p].messenger \in Hosts \cup {NoHost}
       /\ adb[p].state = "proxying_data" => adb[p].messenger # NoHost
  /\ owner \in Pipes \cup {NoPipe}
  /\ host_reads \subseteq Pipes \X Hosts

\* However many connections adbd opens, only the processor that holds active_instance_
\* listens on the port of the emulator.
OneListener == \A p \in Pipes : adb[p].connector # "none" => owner = p

IsData(token) == token[1] = "data"

\* A host gets the guest's data in order and nothing else: no part of a command, also
\* when commands come in pieces or a second host connects.
HostGetsData ==
  \A h \in Hosts : \A i \in DOMAIN host[h].got :
    /\ IsData(host[h].got[i])
    /\ i > 1 => host[h].got[i][3] = host[h].got[i - 1][3] + 1

\* How many of the first n tokens the guest got are from host h.
GotFrom(p, h, n) == Cardinality({i \in 1 .. n : pipe[p].got[i][2] = h})

\* The guest gets the data of a host in order, without a gap, and not before its start.
GuestGetsData ==
  \A p \in Pipes : \A i \in DOMAIN pipe[p].got :
    LET token == pipe[p].got[i] IN
    token[2] \in Hosts =>
      /\ token = Data(token[2], GotFrom(p, token[2], i))
      /\ pipe[p].written > 1

\* Each end gets exactly what the other one sends, while hosts come, go and compete and
\* the guest's commands arrive in pieces.
DataGoesThrough == HostGetsData /\ GuestGetsData

\* However the bytes of the guest are cut into pieces, its commands are handled whole,
\* once, and in order.
CommandsInOrder ==
  \A p \in Pipes :
    /\ Len(commands[p]) <= pipe[p].written
    /\ \A i \in DOMAIN commands[p] : commands[p][i] = i

\* The lock never outlives the connection whose processor holds it, so the processor that
\* waits for it waits for a guest or a host that is still there.
LockIsConnected == owner \in conns \cup {NoPipe}
=============================================================================
