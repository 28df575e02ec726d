-------------------------- MODULE StreamingClient --------------------------
(***************************************************************************)
(* StreamingClient.kt, the app's end of the streaming protocol: one object *)
(* whose methods run on the UI thread, on the threads RendererActivity     *)
(* starts to connect, and on a sending and a receiving thread for every    *)
(* connection.  Its fields have no lock; only sendMessageDirect holds the  *)
(* object's monitor.                                                       *)
(*                                                                         *)
(* A thread is the list of the steps it has yet to take: a call puts the   *)
(* steps of the callee in front.  A step reads or writes the fields once,  *)
(* except that the three closes, and the three assignments of null, of     *)
(* cleanup are one step each.  What the listener shows is left out.        *)
(*                                                                         *)
(* A definition named F_Word is a plausible slip in the definition F that  *)
(* follows it, put in its place to show that a property notices.           *)
(***************************************************************************)
EXTENDS Integers, Sequences

CONSTANTS
  MaxConnects,     \* bound: calls of connect
  MaxDisconnects,  \* bound: surfaces destroyed
  MaxTouches,      \* bound: touch events
  MaxReplies,      \* bound: messages the server sends on a connection
  Window           \* bound: headers and payloads a connection holds unread

ASSUME ClientAssumption ==
  /\ MaxConnects \in Nat
  /\ MaxDisconnects \in Nat
  /\ MaxTouches \in Nat
  /\ MaxReplies \in Nat
  /\ Window \in Nat

Sockets == 1 .. MaxConnects

\* The value of a field that is null, and a stream made from a null.
Null == 0
StreamOfNull == -1

Ui == <<"ui", 0>>
NoThread == <<"none", 0>>
Connector(k) == <<"connect", k>>
Sender(k) == <<"send", k>>
Receiver(k) == <<"receive", k>>
Threads == {Ui} \cup ({"connect", "send", "receive"} \X Sockets)

\* A touch event is its number.
Handshake == 0
Bye == -1
Messages == {Handshake, Bye} \cup 1 .. MaxTouches
HasPayload(m) == m # Bye

\* What a server sends that the object reacts to: a response with a result other than 0,
\* and DISCONNECT.  The rest only goes to the listener.  The server of this repository
\* sends neither, but the protocol has both.
Replies == {"refused", "disconnect"}

-----------------------------------------------------------------------------
(* The methods, as lists of steps *)

Cleanup == <<"stop", "clear_queue", "close", "forget", "interrupt">>

HandleDisconnect == <<"stop">> \o Cleanup

SendMessageDirect_KeepsMonitor == <<"lock", "header">>

SendMessageDirect == <<"lock", "header", "unlock">>

Disconnect == <<"stop", "say_bye">> \o Cleanup

Connect ==
  <<"check", "dial", "reach", "take_input", "take_output", "run", "clear_queue",
    "start_sender", "handshake", "start_receiver">>

Steps ==
  {Cleanup[i] : i \in DOMAIN Cleanup}
    \cup {SendMessageDirect[i] : i \in DOMAIN SendMessageDirect}
    \cup {Connect[i] : i \in DOMAIN Connect}
    \cup {"say_bye", "payload", "offer", "send_loop", "poll", "receive_loop", "look",
          "read"}

VARIABLES
  obj,         \* the object's fields
  monitor,     \* the thread that holds the object's monitor
  todo,        \* the steps each thread has yet to take
  msg,         \* the message a thread queues or sends
  stream,      \* the stream a thread has taken from its field
  interrupted, \* the senders whose interrupt is pending
  net,         \* the connection behind each socket
  touches,     \* the touch events so far
  disconnects, \* the surfaces destroyed so far
  crashed,     \* an exception nobody caught has ended the app
  overlapped   \* a connect has run beside a disconnect or another connect (history)

locals == <<msg, stream, interrupted>>
user == <<touches, disconnects, crashed, overlapped>>
vars == <<obj, monitor, todo, locals, net, user>>

\* sendThread is the socket the thread was started for, or Null.
NoFields ==
  [running |-> FALSE, socket |-> Null, input |-> Null, output |-> Null,
   sendThread |-> Null, queue |-> <<>>, sequence |-> 0]

\* wire is what has been written, consumed how much of it the server has read, inbox
\* what the server has sent and the client not read, replies how much it has sent.
NoConnection ==
  [status |-> "none", wire |-> <<>>, consumed |-> 0, inbox |-> <<>>, replies |-> 0,
   hungup |-> FALSE]

At(t, step) == ~crashed /\ todo[t] # <<>> /\ Head(todo[t]) = step

\* t goes on with steps, and then with what follows its present step.
GoesOn(t, steps) == todo' = [todo EXCEPT ![t] = steps \o Tail(@)]

Goes(t, steps) ==
  GoesOn(t, steps) /\ UNCHANGED <<obj, monitor, locals, net, user>>

Sets(t, step, fields) ==
  /\ At(t, step)
  /\ GoesOn(t, <<>>)
  /\ obj' = fields
  /\ UNCHANGED <<monitor, locals, net, user>>

Says(t, m, steps) ==
  /\ GoesOn(t, steps)
  /\ msg' = [msg EXCEPT ![t] = m]
  /\ UNCHANGED <<obj, monitor, stream, interrupted, net, user>>

-----------------------------------------------------------------------------
(* cleanup and disconnect *)

Stop(t) == Sets(t, "stop", [obj EXCEPT !.running = FALSE])

ClearQueue(t) == Sets(t, "clear_queue", [obj EXCEPT !.queue = <<>>])

Forget(t) ==
  Sets(t, "forget", [obj EXCEPT !.socket = Null, !.input = Null, !.output = Null])

ToClose_None == {}

\* Closing a stream closes its socket.
ToClose == {obj.input, obj.output, obj.socket} \cap Sockets

Close(t) ==
  /\ At(t, "close")
  /\ GoesOn(t, <<>>)
  /\ net' = [k \in Sockets |->
       IF k \in ToClose THEN [net[k] EXCEPT !.status = "closed"] ELSE net[k]]
  /\ UNCHANGED <<obj, monitor, locals, user>>

ToInterrupt_Null == {obj.sendThread}

ToInterrupt == {obj.sendThread} \ {Null}

\* Nothing the receiving thread waits in can be interrupted.
Interrupt(t) ==
  /\ At(t, "interrupt")
  /\ GoesOn(t, <<>>)
  /\ interrupted' = interrupted \cup ToInterrupt
  /\ obj' = [obj EXCEPT !.sendThread = Null]
  /\ UNCHANGED <<monitor, msg, stream, net, user>>

SayBye(t) == At(t, "say_bye") /\ Says(t, Bye, SendMessageDirect)

-----------------------------------------------------------------------------
(* sendMessageDirect *)

Free_Always == TRUE

Free == monitor = NoThread

Lock(t) ==
  /\ At(t, "lock")
  /\ Free
  /\ monitor' = t
  /\ GoesOn(t, <<>>)
  /\ UNCHANGED <<obj, locals, net, user>>

Unlock(t) ==
  /\ At(t, "unlock")
  /\ monitor' = NoThread
  /\ GoesOn(t, <<>>)
  /\ UNCHANGED <<obj, locals, net, user>>

Writes(k, chunk) ==
  /\ net[k].status = "open"
  /\ Len(net[k].wire) - net[k].consumed < Window
  /\ net' = [net EXCEPT ![k].wire = Append(@, chunk)]

\* An IOException, handled with the monitor held.
WriteFails(t, k) ==
  /\ net[k].status = "closed" \/ net[k].hungup
  /\ Goes(t, HandleDisconnect)

(***************************************************************************)
(* There is no stream, or it throws what is no IOException: the UI thread  *)
(* may not write to the network, and a stream of null has none.  Only      *)
(* disconnect catches that.                                                *)
(***************************************************************************)
NotWritten(t) ==
  /\ obj.output \in {Null, StreamOfNull} \/ t = Ui
  /\ crashed' = (obj.output = StreamOfNull /\ t[1] = "send")
  /\ GoesOn(t, <<>>)
  /\ UNCHANGED <<obj, monitor, locals, net, touches, disconnects, overlapped>>

WriteHeader(t) ==
  /\ Writes(obj.output, <<"header", msg[t], obj.sequence>>)
  /\ obj' = [obj EXCEPT !.sequence = @ + 1]
  /\ stream' = [stream EXCEPT ![t] = obj.output]
  /\ GoesOn(t, IF HasPayload(msg[t]) THEN <<"payload">> ELSE <<>>)
  /\ UNCHANGED <<monitor, msg, interrupted, user>>

Header(t) ==
  /\ At(t, "header")
  /\ \/ NotWritten(t)
     \/ /\ t # Ui
        /\ obj.output \in Sockets
        /\ WriteFails(t, obj.output) \/ WriteHeader(t)

WritePayload(t) ==
  /\ Writes(stream[t], <<"payload", msg[t], 0>>)
  /\ GoesOn(t, <<>>)
  /\ UNCHANGED <<obj, monitor, locals, user>>

Payload(t) == At(t, "payload") /\ (WriteFails(t, stream[t]) \/ WritePayload(t))

-----------------------------------------------------------------------------
(* sendLoop *)

SendLoop(t) == At(t, "send_loop") /\ Goes(t, IF obj.running THEN <<"poll">> ELSE <<>>)

\* An interrupt ends the thread, even if there are messages.
PollInterrupted(t) ==
  /\ At(t, "poll")
  /\ t[2] \in interrupted
  /\ interrupted' = interrupted \ {t[2]}
  /\ GoesOn(t, <<>>)
  /\ UNCHANGED <<obj, monitor, msg, stream, net, user>>

PollTimesOut(t) ==
  /\ At(t, "poll")
  /\ t[2] \notin interrupted /\ obj.queue = <<>>
  /\ Goes(t, <<"send_loop">>)

Poll(t) ==
  /\ At(t, "poll")
  /\ t[2] \notin interrupted /\ obj.queue # <<>>
  /\ msg' = [msg EXCEPT ![t] = Head(obj.queue)]
  /\ obj' = [obj EXCEPT !.queue = Tail(@)]
  /\ GoesOn(t, SendMessageDirect \o <<"send_loop">>)
  /\ UNCHANGED <<monitor, stream, interrupted, net, user>>

-----------------------------------------------------------------------------
(* receiveLoop *)

ReceiveLoop(t) ==
  At(t, "receive_loop") /\ Goes(t, IF obj.running THEN <<"look">> ELSE <<>>)

Look(t) ==
  /\ At(t, "look")
  /\ stream' = [stream EXCEPT ![t] = obj.input]
  /\ GoesOn(t, IF obj.input = Null THEN <<>> ELSE <<"read">>)
  /\ UNCHANGED <<obj, monitor, msg, interrupted, net, user>>

\* A NullPointerException is logged, and the loop goes on.
ReadOfNull(t) ==
  At(t, "read") /\ stream[t] = StreamOfNull /\ Goes(t, <<"receive_loop">>)

\* The connection has come to its end, or the socket was closed here.
ReadFails(t) ==
  /\ At(t, "read")
  /\ LET k == stream[t] IN
       /\ k \in Sockets
       /\ net[k].status = "closed" \/ (net[k].hungup /\ net[k].inbox = <<>>)
  /\ Goes(t, IF obj.running THEN HandleDisconnect ELSE <<>>)

AfterReply(reply) == IF reply = "refused" THEN Disconnect ELSE HandleDisconnect

Read(t) ==
  /\ At(t, "read")
  /\ LET k == stream[t] IN
       /\ k \in Sockets
       /\ net[k].status = "open"
       /\ net[k].inbox # <<>>
       /\ net' = [net EXCEPT ![k].inbox = Tail(@)]
       /\ GoesOn(t, AfterReply(Head(net[k].inbox)) \o <<"receive_loop">>)
  /\ UNCHANGED <<obj, monitor, locals, user>>

-----------------------------------------------------------------------------
(* connect *)

Check(t) == At(t, "check") /\ Goes(t, IF obj.running THEN Disconnect ELSE <<>>)

Dial(t) ==
  /\ At(t, "dial")
  /\ obj' = [obj EXCEPT !.socket = t[2]]
  /\ net' = [net EXCEPT ![t[2]].status = "made"]
  /\ GoesOn(t, <<>>)
  /\ UNCHANGED <<monitor, locals, user>>

\* Any exception of connect: what was done is cleaned up, and it returns false.
ConnectFails(t) ==
  /\ todo' = [todo EXCEPT ![t] = Cleanup]
  /\ UNCHANGED <<obj, monitor, locals, net, user>>

\* socket?.connect
Reach(t) ==
  /\ At(t, "reach")
  /\ \/ obj.socket = Null /\ Goes(t, <<>>)
     \/ obj.socket # Null /\ ConnectFails(t)
     \/ /\ obj.socket # Null
        /\ net[obj.socket].status = "made"
        /\ net' = [net EXCEPT ![obj.socket].status = "open"]
        /\ GoesOn(t, <<>>)
        /\ UNCHANGED <<obj, monitor, locals, user>>

StreamOf(k) == IF k = Null THEN StreamOfNull ELSE k

HasStream(k) == k # Null => net[k].status = "open"

TakeInput(t) ==
  HasStream(obj.socket) /\ Sets(t, "take_input", [obj EXCEPT !.input = StreamOf(obj.socket)])

TakeOutput(t) ==
  HasStream(obj.socket) /\ Sets(t, "take_output", [obj EXCEPT !.output = StreamOf(obj.socket)])

NoStream(t) ==
  /\ At(t, "take_input") \/ At(t, "take_output")
  /\ ~HasStream(obj.socket)
  /\ ConnectFails(t)

Run(t) == Sets(t, "run", [obj EXCEPT !.running = TRUE])

StartSender(t) ==
  /\ At(t, "start_sender")
  /\ obj' = [obj EXCEPT !.sendThread = t[2]]
  /\ todo' = [todo EXCEPT ![t] = Tail(@), ![Sender(t[2])] = <<"send_loop">>]
  /\ UNCHANGED <<monitor, locals, net, user>>

StartReceiver(t) ==
  /\ At(t, "start_receiver")
  /\ todo' = [todo EXCEPT ![t] = Tail(@), ![Receiver(t[2])] = <<"receive_loop">>]
  /\ UNCHANGED <<obj, monitor, locals, net, user>>

\* queueMessage: a look at running, and then the offer.
SendHandshake(t) ==
  At(t, "handshake") /\ Says(t, Handshake, IF obj.running THEN <<"offer">> ELSE <<>>)

Offer(t) == Sets(t, "offer", [obj EXCEPT !.queue = Append(@, msg[t])])

-----------------------------------------------------------------------------
(* The user, on the UI thread *)

Begins(t, steps) ==
  /\ ~crashed
  /\ todo[Ui] = <<>>
  /\ todo' = [todo EXCEPT ![t] = steps]
  /\ UNCHANGED <<obj, monitor, stream, interrupted, net, crashed>>

Begun(k) == net[k].status # "none" \/ todo[Connector(k)] # <<>>

SurfaceCreated(k) ==
  /\ ~Begun(k)
  /\ k > 1 => Begun(k - 1)
  /\ Begins(Connector(k), Connect)
  /\ overlapped' = (overlapped \/ \E t \in Threads : todo[t] # <<>>)
  /\ UNCHANGED <<msg, touches, disconnects>>

SurfaceDestroyed ==
  /\ Begun(1)
  /\ disconnects < MaxDisconnects
  /\ disconnects' = disconnects + 1
  /\ Begins(Ui, Disconnect)
  /\ overlapped' = (overlapped \/ \E k \in Sockets : todo[Connector(k)] # <<>>)
  /\ UNCHANGED <<msg, touches>>

SendTouchEvent ==
  /\ obj.running
  /\ touches < MaxTouches
  /\ touches' = touches + 1
  /\ msg' = [msg EXCEPT ![Ui] = touches + 1]
  /\ Begins(Ui, <<"offer">>)
  /\ UNCHANGED <<disconnects, overlapped>>

-----------------------------------------------------------------------------
(* The server *)

Serves(k, connection) ==
  /\ net[k].status = "open" /\ ~net[k].hungup
  /\ net' = [net EXCEPT ![k] = connection]
  /\ UNCHANGED <<obj, monitor, todo, locals, user>>

ServerReads(k) ==
  /\ net[k].consumed < Len(net[k].wire)
  /\ Serves(k, [net[k] EXCEPT !.consumed = @ + 1])

ServerSends(k, reply) ==
  /\ net[k].replies < MaxReplies
  /\ Serves(k, [net[k] EXCEPT !.replies = @ + 1, !.inbox = Append(@, reply)])

ServerCloses(k) == Serves(k, [net[k] EXCEPT !.hungup = TRUE])

-----------------------------------------------------------------------------
Init ==
  /\ obj = NoFields
  /\ monitor = NoThread
  /\ todo = [t \in Threads |-> <<>>]
  /\ msg = [t \in Threads |-> Bye]
  /\ stream = [t \in Threads |-> Null]
  /\ interrupted = {}
  /\ net = [k \in Sockets |-> NoConnection]
  /\ touches = 0 /\ disconnects = 0
  /\ crashed = FALSE /\ overlapped = FALSE

CleanupSteps(t) ==
  Stop(t) \/ ClearQueue(t) \/ Close(t) \/ Forget(t) \/ Interrupt(t) \/ SayBye(t)

SendSteps(t) ==
  \/ Lock(t) \/ Header(t) \/ Payload(t) \/ Unlock(t)
  \/ SendLoop(t) \/ PollInterrupted(t) \/ PollTimesOut(t) \/ Poll(t)

ReceiveSteps(t) ==
  ReceiveLoop(t) \/ Look(t) \/ ReadOfNull(t) \/ ReadFails(t) \/ Read(t)

ConnectSteps(t) ==
  \/ Check(t) \/ Dial(t) \/ Reach(t) \/ TakeInput(t) \/ TakeOutput(t) \/ NoStream(t)
  \/ Run(t) \/ StartSender(t) \/ StartReceiver(t) \/ SendHandshake(t) \/ Offer(t)

ThreadSteps(t) == CleanupSteps(t) \/ SendSteps(t) \/ ReceiveSteps(t) \/ ConnectSteps(t)

Next ==
  \/ SurfaceDestroyed \/ SendTouchEvent
  \/ \E k \in Sockets :
       \/ SurfaceCreated(k) \/ ServerReads(k) \/ ServerCloses(k)
       \/ \E reply \in Replies : ServerSends(k, reply)
  \/ \E t \in Threads : ThreadSteps(t)

Spec == Init /\ [][Next]_vars

(***************************************************************************)
(* Threads go on, and the server reads what it is sent (it posts a read as *)
(* soon as it has handled one).  The user and the network owe nothing.     *)
(***************************************************************************)
FairSpec ==
  /\ Spec
  /\ \A t \in Threads : WF_vars(ThreadSteps(t))
  /\ \A k \in Sockets : WF_vars(ServerReads(k))

-----------------------------------------------------------------------------
(* Properties *)

\* The type invariant.
TypeOK ==
  /\ obj \in [running : BOOLEAN, socket : Sockets \cup {Null},
              input : Sockets \cup {Null, StreamOfNull},
              output : Sockets \cup {Null, StreamOfNull},
              sendThread : Sockets \cup {Null}, queue : Seq(Messages), sequence : Nat]
  /\ monitor \in Threads \cup {NoThread}
  /\ todo \in [Threads -> Seq(Steps)]
  /\ msg \in [Threads -> Messages]
  /\ stream \in [Threads -> Sockets \cup {Null, StreamOfNull}]
  /\ interrupted \subseteq Sockets
  /\ net \in [Sockets ->
       [status : {"none", "made", "open", "closed"},
        wire : Seq({"header", "payload"} \X Messages \X Nat), consumed : Nat,
        inbox : Seq(Replies), replies : 0 .. MaxReplies, hungup : BOOLEAN]]
  /\ touches \in 0 .. MaxTouches /\ disconnects \in 0 .. MaxDisconnects
  /\ crashed \in BOOLEAN /\ overlapped \in BOOLEAN

\* Whatever thread sends, and whatever goes wrong on the way, a header on the wire is
\* followed by its own payload, and the sequence numbers of a connection grow.
MessagesWhole ==
  \A k \in Sockets : \A i \in DOMAIN net[k].wire :
    LET wire == net[k].wire
        IsHeader(j) == wire[j][1] = "header" IN
      /\ ~IsHeader(i) => i > 1 /\ IsHeader(i - 1) /\ wire[i - 1][2] = wire[i][2]
      /\ IsHeader(i) /\ HasPayload(wire[i][2]) /\ i < Len(wire) => ~IsHeader(i + 1)
      /\ \A j \in 1 .. i - 1 : IsHeader(i) /\ IsHeader(j) => wire[j][3] < wire[i][3]

AllEnded == \A t \in Threads : todo[t] = <<>>

\* Whichever thread was the first to see a connection end, and whether the user or the
\* server ended it: when the threads of a client have ended, no socket is left open.
NoSocketLeft ==
  AllEnded /\ ~overlapped => \A k \in Sockets : net[k].status # "open"

\* The UI thread is never stuck in disconnect, although it waits there for the
\* monitor a thread holds while it writes.
UiReturns == todo[Ui] # <<>> ~> (todo[Ui] = <<>> \/ crashed)

\* Once nobody connects any more, a client that is not running ends its threads.
StoppedEnds ==
  <>[](~obj.running /\ \A k \in Sockets : todo[Connector(k)] = <<>>) => <>[](AllEnded \/ crashed)
=============================================================================
