---------------------------- MODULE AdbForwarder ----------------------------
(***************************************************************************)
(* server/adb_forwarder.cpp: TCP connections forwarded to the adbd socket  *)
(* in the container, each by a thread of its own, and the end of the       *)
(* server as far as it concerns them (the last lines of main).             *)
(*                                                                         *)
(* The acceptor has one accept outstanding, so one worker at a time runs   *)
(* on_new_connection.  A thread takes bytes from either end and writes     *)
(* them to the other: "up" is towards adbd, "down" towards the adb client. *)
(* The bytes of each direction are numbered.                               *)
(***************************************************************************)
EXTENDS Integers, Sequences, FiniteSets

CONSTANTS
  MaxConns,  \* bound: connections accepted
  MaxBytes,  \* bound: bytes sent in each direction of each connection
  Chunk,     \* bytes one read takes, FORWARD_BUFFER_SIZE
  Window,    \* bytes a socket holds unread
  MayStop    \* whether main leaves its loop

Conns == 0 .. MaxConns - 1
Ways == {"up", "down"}

ASSUME ForwarderAssumption ==
  /\ MaxConns \in Nat
  /\ MaxBytes \in [Conns -> [Ways -> Nat]]
  /\ Chunk \in Nat \ {0}
  /\ Window \in Nat
  /\ MayStop \in BOOLEAN

Nobody == "nobody"

MainLabels ==
  {"serve", "stop_lock", "join", "clear", "reset", "runtime", "destroy", "exited"}
WorkerLabels == {"idle", "connect", "count", "emplace", "accept"}
ThreadLabels ==
  {"none", "poll", "polled", "write_up", "read_down", "write_down", "cleanup", "done"}

VARIABLES
  dead,          \* the process was killed, or called std::terminate
  main, worker,  \* where main and the worker are
  running,       \* running_
  connector,     \* connector_ is there
  accepting,     \* its async_accept is outstanding
  mutex,         \* the owner of mutex_
  next_id,       \* next_id_
  client_count,  \* client_count_
  threads,       \* forward_threads_, by connection
  fwd,           \* where each forwarding thread is
  revents,       \* the ends that poll saw readable
  buffer,        \* what a thread has read and not yet written
  ends,          \* the ends of each connection that are open: Ways of sending
  sent,          \* how many bytes were sent each way
  taken,         \* how many of them the thread has read
  out,           \* the bytes it has written each way
  unread         \* how many of those the receiver has yet to read

lifeVars == <<main, running, connector>>
acceptVars == <<worker, accepting, next_id>>
threadVars == <<client_count, threads>>
forwardVars == <<fwd, revents, buffer, taken, out>>
endVars == <<ends, sent, unread>>
vars == <<dead, lifeVars, acceptVars, mutex, threadVars, forwardVars, endVars>>

\* The client sends up and receives down, adbd the other way round.
Opposite(way) == IF way = "up" THEN "down" ELSE "up"
Receiver(c, way) == Opposite(way) \in ends[c]
Sender(c, way) == way \in ends[c]

-----------------------------------------------------------------------------
(* The two ends *)

EndSends(c, way) ==
  /\ ~dead
  /\ Sender(c, way)
  /\ sent[c][way] < MaxBytes[c][way]
  /\ sent' = [sent EXCEPT ![c][way] = @ + 1]
  /\ UNCHANGED <<dead, lifeVars, acceptVars, mutex, threadVars, forwardVars, ends, unread>>

EndReads(c, way) ==
  /\ ~dead
  /\ Receiver(c, way)
  /\ unread[c][way] > 0
  /\ unread' = [unread EXCEPT ![c][way] = @ - 1]
  /\ UNCHANGED <<dead, lifeVars, acceptVars, mutex, threadVars, forwardVars, ends, sent>>

EndCloses(c, way) ==
  /\ ~dead
  /\ Sender(c, way)
  /\ ends' = [ends EXCEPT ![c] = @ \ {way}]
  /\ UNCHANGED <<dead, lifeVars, acceptVars, mutex, threadVars, forwardVars, sent, unread>>

-----------------------------------------------------------------------------
(* on_new_connection, and the accept that follows it *)

Work(from, to) == ~dead /\ worker = from /\ worker' = to /\ UNCHANGED dead

Accept ==
  /\ accepting
  /\ next_id < MaxConns
  /\ Work("idle", "connect")
  /\ accepting' = FALSE
  /\ next_id' = next_id + 1
  /\ ends' = [ends EXCEPT ![next_id] = {"up"}]
  /\ UNCHANGED <<lifeVars, mutex, threadVars, forwardVars, sent, unread>>

conn == next_id - 1

\* With no adbd behind the path the client's socket is closed.
Connect ==
  /\ \/ Work("connect", "count") /\ ends' = [ends EXCEPT ![conn] = @ \cup {"down"}]
     \/ Work("connect", "accept") /\ ends' = [ends EXCEPT ![conn] = {}]
  /\ UNCHANGED <<lifeVars, accepting, next_id, mutex, threadVars, forwardVars, sent,
                 unread>>

CountClient ==
  /\ Work("count", "emplace")
  /\ client_count' = client_count + 1
  /\ UNCHANGED <<lifeVars, accepting, next_id, mutex, threads, forwardVars, endVars>>

MayEmplace_Unlocked == TRUE

MayEmplace == mutex = Nobody

EmplaceThread ==
  /\ MayEmplace
  /\ Work("emplace", "accept")
  /\ threads' = threads \cup {conn}
  /\ fwd' = [fwd EXCEPT ![conn] = "poll"]
  /\ UNCHANGED <<lifeVars, accepting, next_id, mutex, client_count, revents, buffer,
                 taken, out, endVars>>

\* start_accept, which after connector_.reset() runs on a destroyed connector.
AcceptAgain ==
  /\ IF connector
     THEN Work("accept", "idle") /\ accepting' = TRUE
     ELSE /\ ~dead /\ worker = "accept" /\ worker' = "idle"
          /\ dead' \in BOOLEAN
          /\ UNCHANGED accepting
  /\ UNCHANGED <<lifeVars, next_id, mutex, threadVars, forwardVars, endVars>>

-----------------------------------------------------------------------------
(* main: stop(), Runtime::stop and the destructor *)

Main(from, to) == ~dead /\ main = from /\ main' = to

StopBegins ==
  /\ MayStop
  /\ Main("serve", "stop_lock")
  /\ running' = FALSE
  /\ UNCHANGED <<dead, connector, acceptVars, mutex, threadVars, forwardVars, endVars>>

StopLocks ==
  /\ mutex = Nobody
  /\ Main("stop_lock", "join")
  /\ mutex' = "main"
  /\ UNCHANGED <<dead, running, connector, acceptVars, threadVars, forwardVars, endVars>>

StopJoins ==
  /\ \A c \in threads : fwd[c] = "done"
  /\ Main("join", "clear")
  /\ UNCHANGED <<dead, running, connector, acceptVars, mutex, threadVars, forwardVars,
                 endVars>>

StopClears ==
  /\ Main("clear", "reset")
  /\ threads' = {}
  /\ UNCHANGED <<dead, running, connector, acceptVars, mutex, client_count, forwardVars,
                 endVars>>

StopResets ==
  /\ Main("reset", "runtime")
  /\ connector' = FALSE
  /\ accepting' = FALSE
  /\ mutex' = Nobody
  /\ UNCHANGED <<dead, running, worker, next_id, threadVars, forwardVars, endVars>>

\* Runtime::stop joins the workers.
RuntimeStops ==
  /\ worker = "idle"
  /\ Main("runtime", "destroy")
  /\ UNCHANGED <<dead, running, connector, acceptVars, mutex, threadVars, forwardVars,
                 endVars>>

\* The destructor's stop() returns at once; a vector with a thread that was not
\* joined ends the process by std::terminate.
Destroy ==
  /\ Main("destroy", "exited")
  /\ dead' = (threads # {})
  /\ UNCHANGED <<running, connector, acceptVars, mutex, threadVars, forwardVars, endVars>>

-----------------------------------------------------------------------------
(* forward_data *)

Step(c, from, to) == ~dead /\ fwd[c] = from /\ fwd' = [fwd EXCEPT ![c] = to]

Readable_Up(c, way) == way = "up" /\ (taken[c][way] < sent[c][way] \/ ~Sender(c, way))

Readable(c, way) == taken[c][way] < sent[c][way] \/ ~Sender(c, way)

\* A local socket reports POLLHUP as soon as its peer has closed; a TCP socket
\* may, if it was reset, and need not.
HangsUp(c) == {~Sender(c, "down")} \cup (IF Sender(c, "up") THEN {} ELSE {TRUE})

\* While there is nothing to read poll goes round once a second.
Poll(c) ==
  /\ running
  /\ \E way \in Ways : Readable(c, way)
  /\ \E hup \in HangsUp(c) : Step(c, "poll", IF hup THEN "cleanup" ELSE "polled")
  /\ revents' = [revents EXCEPT ![c] = {way \in Ways : Readable(c, way)}]
  /\ UNCHANGED <<dead, lifeVars, acceptVars, mutex, threadVars, buffer, taken, out, endVars>>

LeavesLoop_Never(c) == FALSE

LeavesLoop(c) ==
  /\ ~running
  /\ Step(c, "poll", "cleanup")
  /\ UNCHANGED <<dead, lifeVars, acceptVars, mutex, threadVars, revents, buffer, taken,
                 out, endVars>>

Takes_Again(c, way, n) == [k \in 1 .. n |-> taken[c][way] + k - 1]

\* The bytes a read of n returns.
Takes(c, way, n) == [k \in 1 .. n |-> taken[c][way] + k]

\* The read that goes one way: n bytes, or at the end of what a closed end has
\* sent, cleanup.
Read(c, way, from, to) ==
  \/ \E n \in 1 .. Chunk :
       /\ n <= sent[c][way] - taken[c][way]
       /\ Step(c, from, to)
       /\ buffer' = [buffer EXCEPT ![c] = Takes(c, way, n)]
       /\ taken' = [taken EXCEPT ![c][way] = @ + n]
  \/ /\ ~Sender(c, way)
     /\ taken[c][way] = sent[c][way]
     /\ Step(c, from, "cleanup")
     /\ UNCHANGED <<buffer, taken>>

ReadUp(c) ==
  /\ \/ "up" \in revents[c] /\ Read(c, "up", "polled", "write_up")
     \/ "up" \notin revents[c] /\ Step(c, "polled", "read_down") /\ UNCHANGED <<buffer, taken>>
  /\ UNCHANGED <<dead, lifeVars, acceptVars, mutex, threadVars, revents, out, endVars>>

ReadDown(c) ==
  /\ \/ "down" \in revents[c] /\ Read(c, "down", "read_down", "write_down")
     \/ "down" \notin revents[c] /\ Step(c, "read_down", "poll") /\ UNCHANGED <<buffer, taken>>
  /\ UNCHANGED <<dead, lifeVars, acceptVars, mutex, threadVars, revents, out, endVars>>

Unwritten_All(c, n) == buffer[c]

\* What is left of the buffer when n more bytes are written.
Unwritten(c, n) == SubSeq(buffer[c], n + 1, Len(buffer[c]))

Write(c, way, from) ==
  /\ Step(c, from, from)
  /\ Receiver(c, way)
  /\ \E n \in 1 .. Len(buffer[c]) :
       /\ unread[c][way] + n <= Window
       /\ out' = [out EXCEPT ![c][way] = @ \o SubSeq(buffer[c], 1, n)]
       /\ unread' = [unread EXCEPT ![c][way] = @ + n]
       /\ buffer' = [buffer EXCEPT ![c] = Unwritten(c, n)]
  /\ UNCHANGED <<dead, lifeVars, acceptVars, mutex, threadVars, revents, taken, ends,
                 sent>>

\* The write is tried again a millisecond later, whether or not running_ still holds.
WriteBlocks(c, way, from) ==
  /\ Receiver(c, way)
  /\ buffer[c] # <<>>
  /\ unread[c][way] >= Window
  /\ Step(c, from, from)
  /\ UNCHANGED <<dead, lifeVars, acceptVars, mutex, threadVars, revents, buffer, taken,
                 out, endVars>>

\* The receiver has closed.  SIGPIPE has its default action and kills the server;
\* a TCP socket may instead take the bytes and lose them, or report a reset.
WriteBreaks(c, way, from) ==
  /\ ~Receiver(c, way)
  /\ buffer[c] # <<>>
  /\ \/ Step(c, from, from) /\ dead' = TRUE
     \/ way = "down" /\ Step(c, from, "cleanup") /\ UNCHANGED dead
     \/ way = "down" /\ Step(c, from, "poll") /\ UNCHANGED dead
  /\ buffer' = [buffer EXCEPT ![c] = <<>>]
  /\ UNCHANGED <<lifeVars, acceptVars, mutex, threadVars, revents, taken, out, endVars>>

WriteEnds(c, from, to) ==
  /\ buffer[c] = <<>>
  /\ Step(c, from, to)
  /\ UNCHANGED <<dead, lifeVars, acceptVars, mutex, threadVars, revents, buffer, taken,
                 out, endVars>>

Cleanup(c) ==
  /\ Step(c, "cleanup", "done")
  /\ ends' = [ends EXCEPT ![c] = {}]
  /\ client_count' = client_count - 1
  /\ UNCHANGED <<dead, lifeVars, acceptVars, mutex, threads, revents, buffer, taken, out,
                 sent, unread>>

-----------------------------------------------------------------------------
Init ==
  /\ dead = FALSE
  /\ main = "serve"
  /\ worker = "idle"
  /\ running = TRUE
  /\ connector = TRUE
  /\ accepting = TRUE
  /\ mutex = Nobody
  /\ next_id = 0
  /\ client_count = 0
  /\ threads = {}
  /\ fwd = [c \in Conns |-> "none"]
  /\ revents = [c \in Conns |-> {}]
  /\ buffer = [c \in Conns |-> <<>>]
  /\ ends = [c \in Conns |-> {}]
  /\ sent = [c \in Conns |-> [way \in Ways |-> 0]]
  /\ taken = [c \in Conns |-> [way \in Ways |-> 0]]
  /\ out = [c \in Conns |-> [way \in Ways |-> <<>>]]
  /\ unread = [c \in Conns |-> [way \in Ways |-> 0]]

Ends(c) == \E way \in Ways : EndSends(c, way) \/ EndReads(c, way) \/ EndCloses(c, way)

Connecting == Connect \/ CountClient \/ EmplaceThread \/ AcceptAgain

Stopping ==
  StopLocks \/ StopJoins \/ StopClears \/ StopResets \/ RuntimeStops \/ Destroy

Forward(c) ==
  \/ Poll(c) \/ LeavesLoop(c) \/ ReadUp(c) \/ ReadDown(c) \/ Cleanup(c)
  \/ Write(c, "up", "write_up") \/ WriteBlocks(c, "up", "write_up")
  \/ WriteBreaks(c, "up", "write_up") \/ WriteEnds(c, "write_up", "read_down")
  \/ Write(c, "down", "write_down") \/ WriteBlocks(c, "down", "write_down")
  \/ WriteBreaks(c, "down", "write_down") \/ WriteEnds(c, "write_down", "poll")

Next ==
  \/ Accept \/ Connecting \/ StopBegins \/ Stopping
  \/ \E c \in Conns : Ends(c) \/ Forward(c)

Spec == Init /\ [][Next]_vars

(***************************************************************************)
(* The scheduler runs every thread that can go on, and both ends read what *)
(* they are sent as long as they are open: an end that never reads again   *)
(* blocks its thread for good, and stop() with it.                         *)
(***************************************************************************)
Fairness ==
  /\ WF_vars(Connecting)
  /\ WF_vars(Stopping)
  /\ \A c \in Conns : WF_vars(Forward(c))
  /\ \A c \in Conns : \A way \in Ways : WF_vars(EndReads(c, way))

FairSpec == Spec /\ Fairness

-----------------------------------------------------------------------------
(* Properties *)

Counts == [Conns -> [Ways -> Nat]]

\* The type invariant: among others the client count never goes below zero.
TypeOK ==
  /\ dead \in BOOLEAN /\ running \in BOOLEAN /\ connector \in BOOLEAN
  /\ accepting \in BOOLEAN
  /\ main \in MainLabels
  /\ worker \in WorkerLabels
  /\ mutex \in {Nobody, "main"}
  /\ next_id \in 0 .. MaxConns
  /\ client_count \in 0 .. MaxConns
  /\ threads \subseteq Conns
  /\ fwd \in [Conns -> ThreadLabels]
  /\ revents \in [Conns -> SUBSET Ways]
  /\ buffer \in [Conns -> Seq(Nat \ {0})]
  /\ ends \in [Conns -> SUBSET Ways]
  /\ sent \in Counts /\ taken \in Counts /\ unread \in Counts
  /\ out \in [Conns -> [Ways -> Seq(Nat \ {0})]]

\* What is written to an end is what the other end sent, in order, no byte twice and
\* none left out in between, whatever part of a buffer each write takes.
BytesInOrder ==
  \A c \in Conns : \A way \in Ways :
    /\ Len(out[c][way]) <= sent[c][way]
    /\ \A k \in DOMAIN out[c][way] : out[c][way][k] = k

\* A forwarding thread that runs can still be joined.
LiveThreadsJoinable ==
  \A c \in Conns : fwd[c] \notin {"none", "done"} => c \in threads

\* What either end sends reaches the other one, as long as both are open.
EverythingForwarded ==
  \A c \in Conns : \A way \in Ways : \A n \in 1 .. MaxBytes[c][way] :
    (sent[c][way] >= n)
      ~> (Len(out[c][way]) >= n \/ ends[c] # Ways \/ ~running \/ dead)

\* main leaves stop(), Runtime::stop and the destructor.
StopEnds == (main = "stop_lock") ~> (main = "exited" \/ dead)
=============================================================================
