------------------------ MODULE StreamingClient_proofs ------------------------
(***************************************************************************)
(* For any numbers of connects, disconnects, touches and replies: types,   *)
(* messages stay whole, and no socket is left open.                        *)
(*                                                                         *)
(* A thread is the list of the steps it has yet to take, so the invariants *)
(* say which lists there are.  ListInv gives the order of their steps,     *)
(* StartInv what has begun for a connection, and MonitorInv that the steps *)
(* of sendMessageDirect come together, but in the list of the thread that  *)
(* has the monitor.                                                        *)
(*                                                                         *)
(* MessageInv: on a wire only the last message may lack its payload, and   *)
(* then nothing else is written there (Excused): the thread with the       *)
(* monitor is about to write it, or it could not and closes the sockets    *)
(* before it leaves, or nobody can reach the connection any more.          *)
(*                                                                         *)
(* AloneInv: as long as nothing has overlapped, an open socket is in the   *)
(* object's field, and somebody is on the way to close it: who cleans up,  *)
(* or the threads of its connection, which notice that it ends.            *)
(***************************************************************************)
EXTENDS StreamingClient, SequenceTheorems, TLAPS

LEMMA StepNames ==
  {"stop", "clear_queue", "close", "forget", "interrupt", "say_bye", "lock", "header",
   "payload", "unlock", "offer", "send_loop", "poll", "receive_loop", "look", "read",
   "check", "dial", "reach", "take_input", "take_output", "run", "start_sender",
   "handshake", "start_receiver"} \subseteq Steps
<1>1. {Cleanup[i] : i \in 1 .. 5} \subseteq Steps
  BY DEF Steps, Cleanup
<1>2. {SendMessageDirect[i] : i \in 1 .. 3} \subseteq Steps
  BY DEF Steps, SendMessageDirect
<1>3. {Connect[i] : i \in 1 .. 10} \subseteq Steps
  BY DEF Steps, Connect
<1>4. {"stop", "clear_queue", "close", "forget", "interrupt"} \subseteq Steps
  BY <1>1 DEF Cleanup
<1>5. {"lock", "header", "unlock"} \subseteq Steps
  BY <1>2 DEF SendMessageDirect
<1>6. {"check", "dial", "reach", "take_input", "take_output"} \subseteq Steps
  BY <1>3 DEF Connect
<1>7. {"run", "start_sender", "handshake", "start_receiver"} \subseteq Steps
  BY <1>3 DEF Connect
<1>8. {"say_bye", "payload", "offer", "send_loop", "poll", "receive_loop", "look", "read"}
        \subseteq Steps
  BY DEF Steps
<1> QED
  BY <1>4, <1>5, <1>6, <1>7, <1>8

\* What a step puts in front of the steps that follow it.
Inserted(x) ==
  CASE x = "say_bye" -> {SendMessageDirect}
    [] x = "header" -> {<<>>, <<"payload">>, HandleDisconnect}
    [] x = "payload" -> {<<>>, HandleDisconnect}
    [] x = "send_loop" -> {<<>>, <<"poll">>}
    [] x = "poll" -> {<<>>, <<"send_loop">>, SendMessageDirect \o <<"send_loop">>}
    [] x = "receive_loop" -> {<<>>, <<"look">>}
    [] x = "look" -> {<<>>, <<"read">>}
    [] x = "read" -> {<<>>, <<"receive_loop">>, HandleDisconnect,
                      HandleDisconnect \o <<"receive_loop">>,
                      Disconnect \o <<"receive_loop">>}
    [] x = "check" -> {<<>>, Disconnect}
    [] x = "handshake" -> {<<>>, <<"offer">>}
    [] OTHER -> {<<>>}

LEMMA ListTypes ==
  /\ Connect \in Seq(Steps) /\ Cleanup \in Seq(Steps) /\ SendMessageDirect \in Seq(Steps)
  /\ HandleDisconnect \in Seq(Steps) /\ Disconnect \in Seq(Steps)
  /\ \A x : \A a \in Inserted(x) : a \in Seq(Steps)
<1>1. /\ Connect \in Seq(Steps) /\ Cleanup \in Seq(Steps)
      /\ SendMessageDirect \in Seq(Steps) /\ <<"stop">> \in Seq(Steps)
      /\ <<"stop", "say_bye">> \in Seq(Steps)
  BY StepNames DEF Connect, Cleanup, SendMessageDirect
<1>2. HandleDisconnect \in Seq(Steps) /\ Disconnect \in Seq(Steps)
  BY <1>1 DEF HandleDisconnect, Disconnect
<1>3. /\ <<"payload">> \in Seq(Steps) /\ <<"poll">> \in Seq(Steps)
      /\ <<"send_loop">> \in Seq(Steps) /\ <<"look">> \in Seq(Steps)
      /\ <<"read">> \in Seq(Steps) /\ <<"receive_loop">> \in Seq(Steps)
      /\ <<"offer">> \in Seq(Steps) /\ <<>> \in Seq(Steps)
  BY StepNames
<1>4. /\ SendMessageDirect \o <<"send_loop">> \in Seq(Steps)
      /\ HandleDisconnect \o <<"receive_loop">> \in Seq(Steps)
      /\ Disconnect \o <<"receive_loop">> \in Seq(Steps)
  BY <1>1, <1>2, <1>3
<1> QED
  BY <1>1, <1>2, <1>3, <1>4, Zenon DEF Inserted

\* How a thread goes on.
Pushes(t) == \E a \in Inserted(Head(todo[t])) : GoesOn(t, a)

Abandons(t) ==
  /\ Head(todo[t]) \in {"reach", "take_input", "take_output"}
  /\ ConnectFails(t)

LEMMA ThreadMoves ==
  ASSUME NEW t \in Threads, ThreadSteps(t)
  PROVE  /\ todo[t] # <<>>
         /\ Pushes(t) \/ Abandons(t) \/ StartSender(t) \/ StartReceiver(t)
<1> USE DEF At, Pushes, Inserted, Sets, Goes, Says
<1>1. CASE CleanupSteps(t)
  BY <1>1 DEF CleanupSteps, Stop, ClearQueue, Close, Forget, Interrupt, SayBye
<1>2. CASE Lock(t) \/ Unlock(t)
  BY <1>2 DEF Lock, Unlock
<1>3. CASE Header(t)
  BY <1>3 DEF Header, NotWritten, WriteFails, WriteHeader
<1>4. CASE Payload(t)
  BY <1>4 DEF Payload, WriteFails, WritePayload
<1>5. CASE SendLoop(t) \/ PollInterrupted(t) \/ PollTimesOut(t) \/ Poll(t)
  BY <1>5 DEF SendLoop, PollInterrupted, PollTimesOut, Poll
<1>6. CASE ReceiveSteps(t)
  BY <1>6 DEF ReceiveSteps, ReceiveLoop, Look, ReadOfNull, ReadFails, Read, AfterReply
<1>7. CASE Check(t) \/ Dial(t) \/ Run(t) \/ SendHandshake(t) \/ Offer(t)
  BY <1>7 DEF Check, Dial, Run, SendHandshake, Offer
<1>8. CASE Reach(t) \/ TakeInput(t) \/ TakeOutput(t) \/ NoStream(t)
  BY <1>8 DEF Reach, TakeInput, TakeOutput, NoStream, Abandons
<1>9. CASE StartSender(t) \/ StartReceiver(t)
  BY <1>9 DEF StartSender, StartReceiver
<1> QED
  BY <1>1, <1>2, <1>3, <1>4, <1>5, <1>6, <1>7, <1>8, <1>9
  DEF ThreadSteps, SendSteps, ConnectSteps

-----------------------------------------------------------------------------
(* Types *)

Fields ==
  [running : BOOLEAN, socket : Sockets \cup {Null},
   input : Sockets \cup {Null, StreamOfNull}, output : Sockets \cup {Null, StreamOfNull},
   sendThread : Sockets \cup {Null}, queue : Seq(Messages), sequence : Nat]

Chunks == {"header", "payload"} \X Messages \X Nat

Connections ==
  [status : {"none", "made", "open", "closed"}, wire : Seq(Chunks), consumed : Nat,
   inbox : Seq(Replies), replies : 0 .. MaxReplies, hungup : BOOLEAN]

TodoTypes == todo \in [Threads -> Seq(Steps)]
LocalTypes ==
  /\ monitor \in Threads \cup {NoThread}
  /\ msg \in [Threads -> Messages]
  /\ stream \in [Threads -> Sockets \cup {Null, StreamOfNull}]
  /\ interrupted \subseteq Sockets
UserTypes ==
  /\ touches \in 0 .. MaxTouches /\ disconnects \in 0 .. MaxDisconnects
  /\ crashed \in BOOLEAN /\ overlapped \in BOOLEAN
ObjTypes == obj \in Fields
NetTypes == net \in [Sockets -> Connections]

LEMMA Parts ==
  /\ TypeOK <=> TodoTypes /\ LocalTypes /\ UserTypes /\ ObjTypes /\ NetTypes
  /\ TypeOK' <=> TodoTypes' /\ LocalTypes' /\ UserTypes' /\ ObjTypes' /\ NetTypes'
BY DEF TypeOK, TodoTypes, LocalTypes, UserTypes, ObjTypes, NetTypes, Fields, Chunks,
       Connections

\* The kinds of threads, and the number of the connection each is for.
LEMMA ThreadKinds ==
  /\ Ui \in Threads /\ NoThread \notin Threads
  /\ \A k \in Sockets : /\ Connector(k) \in Threads /\ Connector(k) # Ui
                        /\ Sender(k) \in Threads /\ Receiver(k) \in Threads
                        /\ Sender(k) # Ui /\ Receiver(k) # Ui
                        /\ Connector(k) # Sender(k) /\ Connector(k) # Receiver(k)
                        /\ Sender(k) # Receiver(k)
                        /\ Connector(k)[2] = k /\ Connector(k)[1] = "connect"
  /\ \A t \in Threads : /\ t = Ui \/ (t # Ui /\ t[2] \in Sockets)
                        /\ t[2] \in Sockets \cup {Null}
                        /\ t[1] = "connect" => t = Connector(t[2]) /\ t[2] \in Sockets
<1> USE DEF Ui, NoThread, Threads, Connector, Sender, Receiver, Null
<1>1. Ui \in Threads /\ NoThread \notin Threads
  OBVIOUS
<1>2. ASSUME NEW k \in Sockets
      PROVE  /\ Connector(k) \in Threads /\ Connector(k) # Ui
             /\ Sender(k) \in Threads /\ Receiver(k) \in Threads
             /\ Sender(k) # Ui /\ Receiver(k) # Ui
             /\ Connector(k) # Sender(k) /\ Connector(k) # Receiver(k)
             /\ Sender(k) # Receiver(k)
             /\ Connector(k)[2] = k /\ Connector(k)[1] = "connect"
  OBVIOUS
<1>3. ASSUME NEW t \in Threads
      PROVE  /\ t = Ui \/ (t # Ui /\ t[2] \in Sockets)
             /\ t[2] \in Sockets \cup {Null}
             /\ t[1] = "connect" => t = Connector(t[2]) /\ t[2] \in Sockets
  <2>1. CASE t = Ui
    BY <2>1
  <2>2. CASE t \in {"connect", "send", "receive"} \X Sockets
    BY <2>2
  <2> QED
    BY <1>3, <2>1, <2>2
<1> QED
  BY <1>1, <1>2, <1>3

LEMMA InitTypes == Init => TypeOK
<1> SUFFICES ASSUME Init
             PROVE  TypeOK
  OBVIOUS
<1>1. TodoTypes
  BY DEF Init, TodoTypes
<1>2. LocalTypes
  BY DEF Init, LocalTypes, Messages, Null
<1>3. UserTypes
  <2>1. crashed \in BOOLEAN /\ overlapped \in BOOLEAN
    BY DEF Init
  <2>2. touches \in 0 .. MaxTouches /\ disconnects \in 0 .. MaxDisconnects
    BY ClientAssumption DEF Init
  <2> QED
    BY <2>1, <2>2 DEF UserTypes
<1>4. ObjTypes
  BY DEF Init, ObjTypes, Fields, NoFields, Null
<1>5. NetTypes
  <2>1. NoConnection \in Connections
    BY ClientAssumption DEF NoConnection, Connections
  <2> QED
    BY <2>1 DEF Init, NetTypes
<1> QED
  BY <1>1, <1>2, <1>3, <1>4, <1>5, Parts

\* A thread goes on with some steps, and then with what followed its present step.
LEMMA Went ==
  ASSUME TodoTypes, NEW t \in Threads, todo[t] # <<>>, NEW a \in Seq(Steps), GoesOn(t, a)
  PROVE  /\ TodoTypes'
         /\ todo'[t] = a \o Tail(todo[t]) /\ Tail(todo[t]) \in Seq(Steps)
         /\ \A u \in Threads \ {t} : todo'[u] = todo[u]
BY DEF TodoTypes, GoesOn

LEMMA TodoOfThread ==
  ASSUME TodoTypes, NEW t \in Threads, ThreadSteps(t)
  PROVE  TodoTypes'
<1>1. todo[t] # <<>>
  BY ThreadMoves
<1>2. CASE Pushes(t)
  BY <1>1, <1>2, ListTypes, Went DEF Pushes
<1>3. CASE Abandons(t)
  BY <1>3, ListTypes DEF Abandons, ConnectFails, TodoTypes
<1>4. CASE StartSender(t)
  <2>1. Tail(todo[t]) \in Seq(Steps) /\ <<"send_loop">> \in Seq(Steps)
    BY <1>1, StepNames DEF TodoTypes
  <2> QED
    BY <1>4, <2>1 DEF StartSender, TodoTypes
<1>5. CASE StartReceiver(t)
  <2>1. Tail(todo[t]) \in Seq(Steps) /\ <<"receive_loop">> \in Seq(Steps)
    BY <1>1, StepNames DEF TodoTypes
  <2> QED
    BY <1>5, <2>1 DEF StartReceiver, TodoTypes
<1> QED
  BY <1>2, <1>3, <1>4, <1>5, ThreadMoves

\* What the steps of a thread do to the fields.
LEMMA ObjOfThread ==
  ASSUME TypeOK, NEW t \in Threads, ThreadSteps(t)
  PROVE  ObjTypes'
<1>0. ObjTypes /\ LocalTypes /\ t[2] \in Sockets \cup {Null}
  BY Parts, ThreadKinds
<1> USE DEF ObjTypes, Fields, Null, StreamOfNull
<1>1. CASE UNCHANGED obj
  BY <1>0, <1>1
<1>2. CASE Stop(t) \/ ClearQueue(t) \/ Forget(t)
  <2>1. <<>> \in Seq(Messages)
    OBVIOUS
  <2> QED
    BY <1>0, <1>2, <2>1 DEF Stop, ClearQueue, Forget, Sets
<1>3. CASE Interrupt(t)
  BY <1>0, <1>3 DEF Interrupt
<1>4. CASE Header(t)
  BY <1>0, <1>1, <1>4 DEF Header, NotWritten, WriteFails, WriteHeader, Goes
<1>5. CASE Poll(t)
  <2>1. obj.queue \in Seq(Messages) /\ obj.queue # <<>>
    BY <1>0, <1>5 DEF Poll
  <2>2. Tail(obj.queue) \in Seq(Messages)
    BY <2>1
  <2>3. obj' = [obj EXCEPT !.queue = Tail(obj.queue)]
    BY <1>5 DEF Poll
  <2> QED
    BY <1>0, <2>2, <2>3
<1>6. CASE Dial(t)
  BY <1>0, <1>6 DEF Dial
<1>7. CASE TakeInput(t) \/ TakeOutput(t)
  <2>1. StreamOf(obj.socket) \in Sockets \cup {StreamOfNull}
    BY <1>0 DEF StreamOf
  <2> QED
    BY <1>0, <1>7, <2>1 DEF TakeInput, TakeOutput, Sets
<1>8. CASE Run(t)
  BY <1>0, <1>8 DEF Run, Sets
<1>9. CASE StartSender(t)
  BY <1>0, <1>9 DEF StartSender
<1>10. CASE Offer(t)
  <2>1. Append(obj.queue, msg[t]) \in Seq(Messages)
    BY <1>0 DEF LocalTypes
  <2>2. obj' = [obj EXCEPT !.queue = Append(obj.queue, msg[t])]
    BY <1>10 DEF Offer, Sets
  <2> QED
    BY <1>0, <2>1, <2>2
<1>11. CASE Close(t) \/ SayBye(t) \/ Lock(t) \/ Payload(t) \/ Unlock(t) \/ SendLoop(t)
            \/ PollInterrupted(t) \/ PollTimesOut(t) \/ ReceiveSteps(t) \/ Check(t)
            \/ Reach(t) \/ NoStream(t) \/ StartReceiver(t) \/ SendHandshake(t)
  <2>1. UNCHANGED obj
    BY <1>11
    DEF Close, SayBye, Lock, Payload, Unlock, SendLoop, PollInterrupted, PollTimesOut,
        ReceiveSteps, Check, Reach, NoStream, StartReceiver, SendHandshake, ReceiveLoop, Look,
        ReadOfNull, ReadFails, Read, Goes, Says, WriteFails, WritePayload, ConnectFails
  <2> QED
    BY <1>1, <2>1
<1> QED
  BY <1>2, <1>3, <1>4, <1>5, <1>6, <1>7, <1>8, <1>9, <1>10, <1>11
  DEF ThreadSteps, CleanupSteps, SendSteps, ConnectSteps

\* What the steps of a thread do to its own variables, and what they leave alone.
LEMMA LocalOfThread ==
  ASSUME TypeOK, NEW t \in Threads, ThreadSteps(t)
  PROVE  LocalTypes' /\ UserTypes'
<1>0. ObjTypes /\ LocalTypes /\ UserTypes
  BY Parts
<1>b. {Bye, Handshake} \subseteq Messages
  BY DEF Messages
<1> USE DEF LocalTypes, locals, user
<1>1. UserTypes'
  <2>1. UNCHANGED <<touches, disconnects, overlapped>>
    BY DEF ThreadSteps, CleanupSteps, SendSteps, ConnectSteps, ReceiveSteps, Stop, ClearQueue,
       Forget, Interrupt, Header, NotWritten, WriteHeader, Poll, Dial, TakeInput, TakeOutput,
       Run, StartSender, Offer, Sets, Close, SayBye, Lock, Payload, Unlock, SendLoop,
       PollInterrupted, PollTimesOut, Check, Reach, NoStream, StartReceiver, SendHandshake,
       ReceiveLoop, Look, ReadOfNull, ReadFails, Read, Goes, Says, WriteFails, WritePayload,
       ConnectFails
  <2>2. crashed' \in BOOLEAN
    <3>1. crashed' = crashed \/ Header(t)
      BY DEF ThreadSteps, CleanupSteps, SendSteps, ConnectSteps, ReceiveSteps, Stop, ClearQueue,
         Forget, Interrupt, Poll, Dial, TakeInput, TakeOutput,
         Run, StartSender, Offer, Sets, Close, SayBye, Lock, Payload, Unlock, SendLoop,
         PollInterrupted, PollTimesOut, Check, Reach, NoStream, StartReceiver, SendHandshake,
         ReceiveLoop, Look, ReadOfNull, ReadFails, Read, Goes, Says, WriteFails, WritePayload,
         ConnectFails
    <3>2. CASE Header(t)
      BY <1>0, <3>2 DEF Header, NotWritten, WriteHeader, WriteFails, Goes, UserTypes
    <3> QED
      BY <1>0, <3>1, <3>2 DEF UserTypes
  <2> QED
    BY <1>0, <2>1, <2>2 DEF UserTypes
<1>2. CASE Stop(t) \/ ClearQueue(t) \/ Close(t) \/ Forget(t)
  BY <1>0, <1>1, <1>2 DEF Stop, ClearQueue, Close, Forget, Sets
<1>3. CASE Interrupt(t)
  <2>1. ToInterrupt \subseteq Sockets
    BY <1>0 DEF ToInterrupt, ObjTypes, Fields
  <2> QED
    BY <1>0, <1>1, <1>3, <2>1 DEF Interrupt
<1>4. CASE SayBye(t) \/ SendHandshake(t)
  BY <1>0, <1>1, <1>b, <1>4 DEF SayBye, SendHandshake, Says
<1>5. CASE Lock(t) \/ Unlock(t) \/ Payload(t)
  BY <1>0, <1>1, <1>5 DEF Lock, Unlock, Payload, WriteFails, WritePayload, Goes
<1>6. CASE Header(t)
  <2>1. obj.output \in Sockets \cup {Null, StreamOfNull}
    BY <1>0 DEF ObjTypes, Fields
  <2> QED
    BY <1>0, <1>1, <1>6, <2>1 DEF Header, NotWritten, WriteFails, WriteHeader, Goes
<1>7. CASE SendLoop(t) \/ PollInterrupted(t) \/ PollTimesOut(t)
  BY <1>0, <1>1, <1>7 DEF SendLoop, PollInterrupted, PollTimesOut, Goes
<1>8. CASE Poll(t)
  <2>1. obj.queue \in Seq(Messages) /\ obj.queue # <<>>
    BY <1>0, <1>8 DEF Poll, ObjTypes, Fields
  <2>2. Head(obj.queue) \in Messages
    BY <2>1
  <2>3. /\ msg' = [msg EXCEPT ![t] = Head(obj.queue)]
        /\ UNCHANGED <<monitor, stream, interrupted>>
    BY <1>8 DEF Poll
  <2> QED
    BY <1>0, <1>1, <2>2, <2>3
<1>9. CASE ReceiveSteps(t)
  <2>1. obj.input \in Sockets \cup {Null, StreamOfNull}
    BY <1>0 DEF ObjTypes, Fields
  <2> QED
    BY <1>0, <1>1, <1>9, <2>1
    DEF ReceiveSteps, ReceiveLoop, Look, ReadOfNull, ReadFails, Read, Goes
<1>10. CASE Check(t) \/ Dial(t) \/ Reach(t) \/ TakeInput(t) \/ TakeOutput(t) \/ NoStream(t)
            \/ Run(t) \/ StartSender(t) \/ StartReceiver(t) \/ Offer(t)
  <2>1. UNCHANGED <<monitor, msg, stream, interrupted>>
    BY <1>10
    DEF Check, Dial, Reach, TakeInput, TakeOutput, NoStream, Run, StartSender, StartReceiver,
        Offer, Goes, Sets, ConnectFails
  <2> QED
    BY <1>0, <1>1, <2>1
<1> QED
  BY <1>2, <1>3, <1>4, <1>5, <1>6, <1>7, <1>8, <1>9, <1>10
  DEF ThreadSteps, CleanupSteps, SendSteps, ConnectSteps

\* One connection changes, and stays one.
LEMMA NetSet ==
  ASSUME NetTypes, NEW k, NEW c, k \in Sockets => c \in Connections,
         net' = [net EXCEPT ![k] = c]
  PROVE  NetTypes'
BY DEF NetTypes

LEMMA ConnectionOf ==
  ASSUME NetTypes, NEW k \in Sockets
  PROVE  /\ net[k] \in Connections
         /\ net[k].wire \in Seq(Chunks) /\ net[k].inbox \in Seq(Replies)
         /\ net[k].consumed \in Nat /\ net[k].replies \in 0 .. MaxReplies
         /\ net[k].status \in {"none", "made", "open", "closed"}
         /\ net[k].hungup \in BOOLEAN
BY DEF NetTypes, Connections

\* Writing puts a chunk at the end of what is on the wire, and does nothing else.
LEMMA WritesTypes ==
  ASSUME NetTypes, NEW k \in Sockets, NEW chunk \in Chunks, Writes(k, chunk)
  PROVE  /\ NetTypes'
         /\ net'[k] = [net[k] EXCEPT !.wire = Append(net[k].wire, chunk)]
         /\ \A j \in Sockets \ {k} : net'[j] = net[j]
<1>1. net[k] \in Connections /\ net[k].wire \in Seq(Chunks)
  BY ConnectionOf
<1>2. Append(net[k].wire, chunk) \in Seq(Chunks)
  BY <1>1
<1>3. net' = [net EXCEPT ![k] = [net[k] EXCEPT !.wire = Append(net[k].wire, chunk)]]
  BY DEF Writes
<1>4. [net[k] EXCEPT !.wire = Append(net[k].wire, chunk)] \in Connections
  BY <1>1, <1>2 DEF Connections
<1> QED
  BY <1>3, <1>4 DEF NetTypes

LEMMA NetOfThread ==
  ASSUME TypeOK, NEW t \in Threads, ThreadSteps(t)
  PROVE  NetTypes'
<1>0. NetTypes /\ ObjTypes /\ LocalTypes
  BY Parts
<1>1. CASE UNCHANGED net
  BY <1>0, <1>1 DEF NetTypes
<1>2. CASE Close(t)
  <2>1. net' = [k \in Sockets |->
                  IF k \in ToClose THEN [net[k] EXCEPT !.status = "closed"] ELSE net[k]]
    BY <1>2 DEF Close
  <2>2. \A k \in Sockets : [net[k] EXCEPT !.status = "closed"] \in Connections
    BY <1>0, ConnectionOf DEF Connections
  <2> QED
    BY <1>0, <2>1, <2>2 DEF NetTypes
<1>3. CASE Header(t)
  <2>1. CASE \E k \in Sockets : Writes(k, <<"header", msg[t], obj.sequence>>)
    <3>1. <<"header", msg[t], obj.sequence>> \in Chunks
      BY <1>0 DEF Chunks, LocalTypes, ObjTypes, Fields
    <3> QED
      BY <1>0, <2>1, <3>1, WritesTypes
  <2> QED
    BY <1>1, <1>3, <2>1 DEF Header, NotWritten, WriteFails, WriteHeader, Goes
<1>4. CASE Payload(t)
  <2>1. CASE Writes(stream[t], <<"payload", msg[t], 0>>)
    <3>1. <<"payload", msg[t], 0>> \in Chunks
      BY <1>0 DEF Chunks, LocalTypes
    <3>2. CASE stream[t] \in Sockets
      BY <1>0, <2>1, <3>1, <3>2, WritesTypes
    <3>3. CASE stream[t] \notin Sockets
      <4>1. net' = net
        BY <1>0, <2>1, <3>3 DEF Writes, NetTypes
      <4> QED
        BY <1>1, <4>1
    <3> QED
      BY <3>2, <3>3
  <2> QED
    BY <1>1, <1>4, <2>1 DEF Payload, WriteFails, WritePayload, Goes
<1>5. CASE Read(t)
  <2>1. PICK k \in Sockets :
          net[k].inbox # <<>> /\ net' = [net EXCEPT ![k].inbox = Tail(@)]
    BY <1>5 DEF Read
  <2>2. net[k] \in Connections /\ net[k].inbox \in Seq(Replies)
    BY <1>0, ConnectionOf
  <2>3. Tail(net[k].inbox) \in Seq(Replies)
    BY <2>1, <2>2
  <2>4. [net[k] EXCEPT !.inbox = Tail(net[k].inbox)] \in Connections
    BY <2>2, <2>3 DEF Connections
  <2>5. net' = [net EXCEPT ![k] = [net[k] EXCEPT !.inbox = Tail(net[k].inbox)]]
    BY <2>1
  <2> QED
    BY <1>0, <2>4, <2>5, NetSet
<1>6. CASE Dial(t)
  <2>1. net' = [net EXCEPT ![t[2]] = [net[t[2]] EXCEPT !.status = "made"]]
    BY <1>6 DEF Dial
  <2>2. t[2] \in Sockets => [net[t[2]] EXCEPT !.status = "made"] \in Connections
    BY <1>0, ConnectionOf DEF Connections
  <2> QED
    BY <1>0, <2>1, <2>2, NetSet
<1>7. CASE Reach(t)
  <2>1. CASE net' = [net EXCEPT ![obj.socket].status = "open"]
    <3>1. obj.socket \in Sockets => [net[obj.socket] EXCEPT !.status = "open"] \in Connections
      BY <1>0, ConnectionOf DEF Connections
    <3> QED
      BY <1>0, <2>1, <3>1, NetSet
  <2> QED
    BY <1>1, <1>7, <2>1 DEF Reach, Goes, ConnectFails
<1>8. CASE Stop(t) \/ ClearQueue(t) \/ Forget(t) \/ Interrupt(t) \/ SayBye(t) \/ Lock(t)
           \/ Unlock(t) \/ SendLoop(t) \/ PollInterrupted(t) \/ PollTimesOut(t) \/ Poll(t)
           \/ ReceiveLoop(t) \/ Look(t) \/ ReadOfNull(t) \/ ReadFails(t) \/ Check(t)
           \/ TakeInput(t) \/ TakeOutput(t) \/ NoStream(t) \/ Run(t) \/ StartSender(t)
           \/ StartReceiver(t) \/ SendHandshake(t) \/ Offer(t)
  <2>1. UNCHANGED net
    BY <1>8
    DEF Stop, ClearQueue, Forget, Interrupt, SayBye, Lock, Unlock, SendLoop, PollInterrupted,
        PollTimesOut, Poll, ReceiveLoop, Look, ReadOfNull, ReadFails, Check, TakeInput,
        TakeOutput, NoStream, Run, StartSender, StartReceiver, SendHandshake, Offer, Goes,
        Says, Sets, ConnectFails
  <2> QED
    BY <1>1, <2>1
<1> QED
  BY <1>2, <1>3, <1>4, <1>5, <1>6, <1>7, <1>8
  DEF ThreadSteps, CleanupSteps, SendSteps, ConnectSteps, ReceiveSteps

\* The user begins a list of steps on a thread that has none.
LEMMA BeginsTypes ==
  ASSUME TypeOK, NEW t \in Threads, NEW a \in Seq(Steps), Begins(t, a)
  PROVE  /\ TodoTypes' /\ ObjTypes' /\ NetTypes'
         /\ UNCHANGED <<monitor, stream, interrupted, crashed>>
<1>1. TodoTypes /\ ObjTypes /\ NetTypes
  BY Parts
<1>2. /\ todo' = [todo EXCEPT ![t] = a]
      /\ UNCHANGED <<obj, monitor, stream, interrupted, net, crashed>>
  BY DEF Begins
<1> QED
  BY <1>1, <1>2 DEF TodoTypes, ObjTypes, NetTypes

LEMMA UserStepTypes ==
  ASSUME TypeOK, \/ SurfaceDestroyed \/ SendTouchEvent
                 \/ \E k \in Sockets : SurfaceCreated(k)
  PROVE  TypeOK'
<1>0. LocalTypes /\ UserTypes
  BY Parts
<1>l. /\ Connect \in Seq(Steps) /\ Disconnect \in Seq(Steps) /\ <<"offer">> \in Seq(Steps)
  BY ListTypes, StepNames
<1>1. CASE SurfaceDestroyed
  <2>1. Begins(Ui, Disconnect)
    BY <1>1 DEF SurfaceDestroyed
  <2>2. /\ TodoTypes' /\ ObjTypes' /\ NetTypes'
        /\ UNCHANGED <<monitor, stream, interrupted, crashed>>
    BY <1>l, <2>1, BeginsTypes, ThreadKinds
  <2>3. /\ UNCHANGED <<msg, touches>>
        /\ disconnects' = disconnects + 1 /\ disconnects < MaxDisconnects
        /\ overlapped' = (overlapped \/ \E k \in Sockets : todo[Connector(k)] # <<>>)
    BY <1>1 DEF SurfaceDestroyed
  <2>4. LocalTypes'
    BY <1>0, <2>2, <2>3 DEF LocalTypes
  <2>5. overlapped' \in BOOLEAN /\ crashed' \in BOOLEAN
    BY <1>0, <2>2, <2>3 DEF UserTypes
  <2>6. touches' \in 0 .. MaxTouches /\ disconnects' \in 0 .. MaxDisconnects
    BY <1>0, <2>3, ClientAssumption DEF UserTypes
  <2> QED
    BY <2>2, <2>4, <2>5, <2>6, Parts DEF UserTypes
<1>2. CASE SendTouchEvent
  <2>1. Begins(Ui, <<"offer">>)
    BY <1>2 DEF SendTouchEvent
  <2>2. /\ TodoTypes' /\ ObjTypes' /\ NetTypes'
        /\ UNCHANGED <<monitor, stream, interrupted, crashed>>
    BY <1>l, <2>1, BeginsTypes, ThreadKinds
  <2>3. /\ UNCHANGED <<disconnects, overlapped>>
        /\ touches' = touches + 1 /\ touches < MaxTouches
        /\ msg' = [msg EXCEPT ![Ui] = touches + 1]
    BY <1>2 DEF SendTouchEvent
  <2>4. LocalTypes'
    <3>1. touches + 1 \in Messages
      BY <1>0, <2>3, ClientAssumption DEF UserTypes, Messages
    <3> QED
      BY <1>0, <2>2, <2>3, <3>1 DEF LocalTypes
  <2>5. overlapped' \in BOOLEAN /\ crashed' \in BOOLEAN
    BY <1>0, <2>2, <2>3 DEF UserTypes
  <2>6. touches' \in 0 .. MaxTouches /\ disconnects' \in 0 .. MaxDisconnects
    BY <1>0, <2>3, ClientAssumption DEF UserTypes
  <2> QED
    BY <2>2, <2>4, <2>5, <2>6, Parts DEF UserTypes
<1>3. ASSUME NEW k \in Sockets, SurfaceCreated(k)
      PROVE  TypeOK'
  <2>1. Begins(Connector(k), Connect)
    BY <1>3 DEF SurfaceCreated
  <2>2. /\ TodoTypes' /\ ObjTypes' /\ NetTypes'
        /\ UNCHANGED <<monitor, stream, interrupted, crashed>>
    BY <1>l, <2>1, BeginsTypes, ThreadKinds
  <2>3. /\ UNCHANGED <<msg, touches, disconnects>>
        /\ overlapped' = (overlapped \/ \E t \in Threads : todo[t] # <<>>)
    BY <1>3 DEF SurfaceCreated
  <2>4. LocalTypes'
    BY <1>0, <2>2, <2>3 DEF LocalTypes
  <2>5. overlapped' \in BOOLEAN /\ crashed' \in BOOLEAN
    BY <1>0, <2>2, <2>3 DEF UserTypes
  <2>6. touches' \in 0 .. MaxTouches /\ disconnects' \in 0 .. MaxDisconnects
    BY <1>0, <2>3 DEF UserTypes
  <2> QED
    BY <2>2, <2>4, <2>5, <2>6, Parts DEF UserTypes
<1> QED
  BY <1>1, <1>2, <1>3

ServerStep ==
  \E k \in Sockets : \/ ServerReads(k) \/ ServerCloses(k)
                     \/ \E reply \in Replies : ServerSends(k, reply)

LEMMA ServerMoves ==
  ASSUME TypeOK, ServerStep
  PROVE  /\ NetTypes' /\ UNCHANGED <<obj, monitor, todo, locals, user>>
         /\ \A j \in Sockets : net'[j].status = net[j].status /\ net'[j].wire = net[j].wire
<1>0. NetTypes
  BY Parts
<1>1. ASSUME NEW k \in Sockets, NEW c \in Connections, Serves(k, c),
             c.status = net[k].status, c.wire = net[k].wire
      PROVE  /\ NetTypes' /\ UNCHANGED <<obj, monitor, todo, locals, user>>
             /\ \A j \in Sockets : net'[j].status = net[j].status /\ net'[j].wire = net[j].wire
  BY <1>0, <1>1 DEF Serves, NetTypes
<1>2. PICK k \in Sockets : \/ ServerReads(k) \/ ServerCloses(k)
                           \/ \E reply \in Replies : ServerSends(k, reply)
  BY DEF ServerStep
<1>3. net[k] \in Connections
  BY <1>0, ConnectionOf
<1>4. CASE ServerReads(k)
  <2>1. /\ [net[k] EXCEPT !.consumed = @ + 1] \in Connections
        /\ [net[k] EXCEPT !.consumed = @ + 1].status = net[k].status
        /\ [net[k] EXCEPT !.consumed = @ + 1].wire = net[k].wire
    BY <1>3 DEF Connections
  <2> QED
    BY <1>1, <1>4, <2>1 DEF ServerReads
<1>5. CASE ServerCloses(k)
  <2>1. /\ [net[k] EXCEPT !.hungup = TRUE] \in Connections
        /\ [net[k] EXCEPT !.hungup = TRUE].status = net[k].status
        /\ [net[k] EXCEPT !.hungup = TRUE].wire = net[k].wire
    BY <1>3 DEF Connections
  <2> QED
    BY <1>1, <1>5, <2>1 DEF ServerCloses
<1>6. ASSUME NEW reply \in Replies, ServerSends(k, reply)
      PROVE  /\ NetTypes' /\ UNCHANGED <<obj, monitor, todo, locals, user>>
             /\ \A j \in Sockets : net'[j].status = net[j].status /\ net'[j].wire = net[j].wire
  <2> DEFINE c == [net[k] EXCEPT !.replies = @ + 1, !.inbox = Append(@, reply)]
  <2>1. Append(net[k].inbox, reply) \in Seq(Replies)
    BY <1>0, ConnectionOf
  <2>2. net[k].replies + 1 \in 0 .. MaxReplies
    <3>1. net[k].replies \in 0 .. MaxReplies /\ net[k].replies < MaxReplies
      BY <1>0, <1>6, ConnectionOf DEF ServerSends
    <3> QED
      BY <3>1, ClientAssumption
  <2>3. c \in Connections /\ c.status = net[k].status /\ c.wire = net[k].wire
    BY <1>3, <2>1, <2>2 DEF Connections
  <2>4. Serves(k, c)
    BY <1>6 DEF ServerSends
  <2> HIDE DEF c
  <2> QED
    BY <1>1, <2>3, <2>4
<1> QED
  BY <1>2, <1>4, <1>5, <1>6

LEMMA NextTypes == TypeOK /\ [Next]_vars => TypeOK'
<1> SUFFICES ASSUME TypeOK, [Next]_vars
             PROVE  TypeOK'
  OBVIOUS
<1>1. ASSUME NEW t \in Threads, ThreadSteps(t)
      PROVE  TypeOK'
  BY <1>1, Parts, TodoOfThread, ObjOfThread, LocalOfThread, NetOfThread
<1>2. CASE SurfaceDestroyed \/ SendTouchEvent \/ \E k \in Sockets : SurfaceCreated(k)
  BY <1>2, UserStepTypes
<1>3. CASE ServerStep
  <2>1. NetTypes' /\ UNCHANGED <<obj, monitor, todo, locals, user>>
    BY <1>3, ServerMoves
  <2> QED
    BY <2>1, Parts DEF TodoTypes, LocalTypes, UserTypes, ObjTypes, locals, user
<1>4. CASE UNCHANGED vars
  BY <1>4 DEF vars, locals, user, TypeOK
<1> QED
  BY <1>1, <1>2, <1>3, <1>4 DEF Next, ServerStep

\* Every field, list of steps and connection of StreamingClient.kt keeps its type: a sending
\* thread that is interrupted is always that of a connection, and what is on a wire are headers
\* and payloads of messages.
THEOREM WellTyped == Spec => []TypeOK
BY InitTypes, NextTypes, PTL DEF Spec

-----------------------------------------------------------------------------
(* Lists of steps *)

Has(s, x) == \E i \in 1 .. Len(s) : s[i] = x
Later(s, i, x) == \E j \in 1 .. Len(s) : i < j /\ s[j] = x

LEMMA HasConcat ==
  ASSUME NEW a \in Seq(Steps), NEW b \in Seq(Steps), NEW x
  PROVE  Has(a \o b, x) <=> Has(a, x) \/ Has(b, x)
<1> DEFINE m == Len(a)
           n == Len(b)
           s == a \o b
<1>1. /\ m \in Nat /\ n \in Nat /\ Len(s) = m + n
      /\ \A i \in 1 .. m : s[i] = a[i]
      /\ \A i \in 1 .. n : s[m + i] = b[i]
  OBVIOUS
<1> HIDE DEF m, n, s
<1>2. ASSUME NEW i \in 1 .. m + n, s[i] = x
      PROVE  (\E j \in 1 .. m : a[j] = x) \/ (\E j \in 1 .. n : b[j] = x)
  <2>1. CASE i <= m
    BY <1>1, <1>2, <2>1
  <2>2. CASE ~(i <= m)
    <3>1. i - m \in 1 .. n /\ s[m + (i - m)] = s[i]
      BY <1>1, <2>2
    <3> QED
      BY <1>1, <1>2, <3>1
  <2> QED
    BY <2>1, <2>2
<1>3. ASSUME NEW i \in 1 .. m, a[i] = x
      PROVE  \E j \in 1 .. m + n : s[j] = x
  BY <1>1, <1>3
<1>4. ASSUME NEW i \in 1 .. n, b[i] = x
      PROVE  \E j \in 1 .. m + n : s[j] = x
  <2>1. m + i \in 1 .. m + n /\ s[m + i] = x
    BY <1>1, <1>4
  <2> QED
    BY <2>1
<1>5. (\E i \in 1 .. Len(s) : s[i] = x)
        <=> (\E j \in 1 .. m : a[j] = x) \/ (\E j \in 1 .. n : b[j] = x)
  BY <1>1, <1>2, <1>3, <1>4
<1> QED
  BY <1>5 DEF Has, m, n, s

\* The head of a list, and what comes after it.
LEMMA TailParts ==
  ASSUME NEW s \in Seq(Steps), s # <<>>
  PROVE  /\ Tail(s) \in Seq(Steps) /\ Head(s) = s[1] /\ Head(s) \in Steps
         /\ Len(s) \in Nat \ {0} /\ Len(Tail(s)) = Len(s) - 1
         /\ \A i \in 1 .. Len(Tail(s)) : Tail(s)[i] = s[i + 1]
OBVIOUS

LEMMA LaterTail ==
  ASSUME NEW s \in Seq(Steps), s # <<>>, NEW x
  PROVE  /\ \A i \in 1 .. Len(Tail(s)) : Later(Tail(s), i, x) <=> Later(s, i + 1, x)
         /\ Later(s, 1, x) <=> Has(Tail(s), x)
         /\ Has(s, x) <=> Head(s) = x \/ Has(Tail(s), x)
<1> DEFINE m == Len(s)
           r == Tail(s)
<1>1. /\ m \in Nat \ {0} /\ Len(r) = m - 1 /\ Head(s) = s[1]
      /\ \A i \in 1 .. m - 1 : r[i] = s[i + 1]
  BY TailParts
<1> HIDE DEF m, r
<1>2. \A j \in 1 .. m : j > 1 => j - 1 \in 1 .. m - 1 /\ r[j - 1] = s[j]
  <2> SUFFICES ASSUME NEW j \in 1 .. m, j > 1
               PROVE  j - 1 \in 1 .. m - 1 /\ r[j - 1] = s[j]
    OBVIOUS
  <2>1. j - 1 \in 1 .. m - 1 /\ (j - 1) + 1 = j
    BY <1>1
  <2>2. r[j - 1] = s[(j - 1) + 1]
    BY <1>1, <2>1
  <2> QED
    BY <2>1, <2>2
<1>3. ASSUME NEW i \in 1 .. m - 1
      PROVE  (\E j \in 1 .. m - 1 : i < j /\ r[j] = x) <=> \E j \in 1 .. m : i + 1 < j /\ s[j] = x
  <2>1. ASSUME NEW j \in 1 .. m - 1, i < j, r[j] = x
        PROVE  \E l \in 1 .. m : i + 1 < l /\ s[l] = x
    <3>1. j + 1 \in 1 .. m /\ i + 1 < j + 1 /\ s[j + 1] = x
      BY <1>1, <2>1
    <3> QED
      BY <3>1
  <2>2. ASSUME NEW j \in 1 .. m, i + 1 < j, s[j] = x
        PROVE  \E l \in 1 .. m - 1 : i < l /\ r[l] = x
    <3>1. j - 1 \in 1 .. m - 1 /\ i < j - 1 /\ r[j - 1] = x
      BY <1>1, <1>2, <2>2
    <3> QED
      BY <3>1
  <2> QED
    BY <2>1, <2>2
<1>4. (\E j \in 1 .. m : 1 < j /\ s[j] = x) <=> \E j \in 1 .. m - 1 : r[j] = x
  <2>1. ASSUME NEW j \in 1 .. m - 1, r[j] = x
        PROVE  \E l \in 1 .. m : 1 < l /\ s[l] = x
    <3>1. j + 1 \in 1 .. m /\ 1 < j + 1 /\ s[j + 1] = x
      BY <1>1, <2>1
    <3> QED
      BY <3>1
  <2> QED
    BY <1>2, <2>1
<1>5. (\E j \in 1 .. m : s[j] = x) <=> s[1] = x \/ \E j \in 1 .. m : 1 < j /\ s[j] = x
  BY <1>1
<1>6. Len(s) = m /\ Len(r) = m - 1
  BY <1>1 DEF m
<1>7. \A i \in 1 .. Len(r) : Later(r, i, x) <=> Later(s, i + 1, x)
  BY <1>3, <1>6 DEF Later
<1>8. /\ Later(s, 1, x) <=> Has(r, x)
      /\ Has(s, x) <=> s[1] = x \/ Has(r, x)
  BY <1>4, <1>5, <1>6 DEF Later, Has
<1> QED
  BY <1>1, <1>7, <1>8 DEF r

LEMMA LaterConcat ==
  ASSUME NEW a \in Seq(Steps), NEW b \in Seq(Steps), NEW x
  PROVE  /\ \A i \in 1 .. Len(a) : Later(a \o b, i, x) <=> Later(a, i, x) \/ Has(b, x)
         /\ \A i \in 1 .. Len(b) : Later(a \o b, Len(a) + i, x) <=> Later(b, i, x)
<1> DEFINE m == Len(a)
           n == Len(b)
           s == a \o b
<1>1. /\ m \in Nat /\ n \in Nat /\ Len(s) = m + n
      /\ \A i \in 1 .. m : s[i] = a[i]
      /\ \A i \in 1 .. n : s[m + i] = b[i]
  OBVIOUS
<1> HIDE DEF m, n, s
<1>2. ASSUME NEW j \in 1 .. m + n
      PROVE  \/ j \in 1 .. m /\ s[j] = a[j]
             \/ j - m \in 1 .. n /\ s[j] = b[j - m]
  <2>1. CASE j <= m
    BY <1>1, <2>1
  <2>2. CASE ~(j <= m)
    <3>1. j - m \in 1 .. n /\ s[m + (j - m)] = s[j]
      BY <1>1, <2>2
    <3> QED
      BY <1>1, <3>1
  <2> QED
    BY <2>1, <2>2
<1>3. ASSUME NEW i \in 1 .. m
      PROVE  (\E j \in 1 .. m + n : i < j /\ s[j] = x)
               <=> (\E j \in 1 .. m : i < j /\ a[j] = x) \/ \E j \in 1 .. n : b[j] = x
  <2>1. ASSUME NEW j \in 1 .. m + n, i < j, s[j] = x
        PROVE  (\E l \in 1 .. m : i < l /\ a[l] = x) \/ \E l \in 1 .. n : b[l] = x
    BY <1>2, <2>1
  <2>2. ASSUME NEW j \in 1 .. m, i < j, a[j] = x
        PROVE  \E l \in 1 .. m + n : i < l /\ s[l] = x
    BY <1>1, <2>2
  <2>3. ASSUME NEW j \in 1 .. n, b[j] = x
        PROVE  \E l \in 1 .. m + n : i < l /\ s[l] = x
    <3>1. m + j \in 1 .. m + n /\ i < m + j /\ s[m + j] = x
      BY <1>1, <2>3
    <3> QED
      BY <3>1
  <2> QED
    BY <2>1, <2>2, <2>3
<1>4. ASSUME NEW i \in 1 .. n
      PROVE  (\E j \in 1 .. m + n : m + i < j /\ s[j] = x) <=> \E j \in 1 .. n : i < j /\ b[j] = x
  <2>1. ASSUME NEW j \in 1 .. m + n, m + i < j, s[j] = x
        PROVE  \E l \in 1 .. n : i < l /\ b[l] = x
    <3>1. j - m \in 1 .. n /\ i < j - m /\ b[j - m] = x
      BY <1>1, <1>2, <2>1
    <3> QED
      BY <3>1
  <2>2. ASSUME NEW j \in 1 .. n, i < j, b[j] = x
        PROVE  \E l \in 1 .. m + n : m + i < l /\ s[l] = x
    <3>1. m + j \in 1 .. m + n /\ m + i < m + j /\ s[m + j] = x
      BY <1>1, <2>2
    <3> QED
      BY <3>1
  <2> QED
    BY <2>1, <2>2
<1>5. \A i \in 1 .. m : Later(s, i, x) <=> Later(a, i, x) \/ Has(b, x)
  BY <1>1, <1>3 DEF Later, Has, m, n
<1>6. \A i \in 1 .. n : Later(s, m + i, x) <=> Later(b, i, x)
  BY <1>1, <1>4 DEF Later, m, n
<1> QED
  BY <1>5, <1>6 DEF m, n, s

\* The steps of connect that only connect has, and those it takes without a call.
OfConnect ==
  {"check", "dial", "reach", "take_input", "take_output", "run", "start_sender",
   "start_receiver"}
Straight ==
  {"dial", "reach", "take_input", "take_output", "run", "clear_queue", "start_sender"}

\* The steps that have to come after the step x, and those that may not.
Needs(x) ==
  CASE x = "stop" -> {"close"}
    [] x = "dial" -> {"reach", "take_input", "start_sender"}
    [] x = "reach" -> {"run", "start_sender", "start_receiver"}
    [] x \in {"take_input", "take_output"} -> {"run", "start_sender"}
    [] x = "run" -> {"start_sender"}
    [] x = "start_sender" -> {"start_receiver"}
    [] OTHER -> {}

Bars(x) ==
  CASE x \in {"dial", "reach", "take_input", "take_output"} -> {"dial", "close", "forget"}
    [] x = "run" -> {"dial", "close", "forget", "take_input"}
    [] x = "start_sender" -> {"dial", "start_sender"}
    [] x = "start_receiver" -> {"dial", "start_sender", "run", "start_receiver"}
    [] OTHER -> {}

\* connect disconnects before it dials, and from then on only calls one step after the
\* other; whoever stops the object goes on to close its sockets.
Ordered(s) ==
  \A i \in 1 .. Len(s) :
    /\ \A y \in Needs(s[i]) : Later(s, i, y)
    /\ \A y \in Bars(s[i]) : ~Later(s, i, y)
    /\ s[i] \notin Straight /\ Later(s, i, "start_sender") => Later(s, i, "dial")

\* A list without the steps of connect.
Simple(s) ==
  \A i \in 1 .. Len(s) : s[i] \notin OfConnect /\ (s[i] = "stop" => Later(s, i, "close"))

LEMMA OrderedHead ==
  ASSUME NEW s \in Seq(Steps), s # <<>>, Ordered(s)
  PROVE  /\ Ordered(Tail(s))
         /\ \A y \in Needs(Head(s)) : Has(Tail(s), y)
         /\ \A y \in Bars(Head(s)) : ~Has(Tail(s), y)
         /\ Head(s) \notin Straight /\ Has(Tail(s), "start_sender") => Has(Tail(s), "dial")
<1>1. /\ Head(s) = s[1] /\ Len(s) \in Nat \ {0} /\ Len(Tail(s)) = Len(s) - 1
      /\ \A i \in 1 .. Len(Tail(s)) : Tail(s)[i] = s[i + 1]
  BY TailParts
<1>2. \A x : /\ \A i \in 1 .. Len(Tail(s)) : Later(Tail(s), i, x) <=> Later(s, i + 1, x)
             /\ Later(s, 1, x) <=> Has(Tail(s), x)
  BY LaterTail
<1>3. 1 \in 1 .. Len(s) /\ \A i \in 1 .. Len(Tail(s)) : i + 1 \in 1 .. Len(s)
  BY <1>1
<1>4. /\ \A y \in Needs(s[1]) : Later(s, 1, y)
      /\ \A y \in Bars(s[1]) : ~Later(s, 1, y)
      /\ s[1] \notin Straight /\ Later(s, 1, "start_sender") => Later(s, 1, "dial")
  BY <1>3, Zenon DEF Ordered
<1>5. ASSUME NEW i \in 1 .. Len(Tail(s))
      PROVE  /\ \A y \in Needs(Tail(s)[i]) : Later(Tail(s), i, y)
             /\ \A y \in Bars(Tail(s)[i]) : ~Later(Tail(s), i, y)
             /\ Tail(s)[i] \notin Straight /\ Later(Tail(s), i, "start_sender")
                  => Later(Tail(s), i, "dial")
  <2>1. i + 1 \in 1 .. Len(s)
    BY <1>3
  <2>2. PICK j \in 1 .. Len(s) : j = i + 1
    BY <2>1
  <2>3. /\ \A y \in Needs(s[j]) : Later(s, j, y)
        /\ \A y \in Bars(s[j]) : ~Later(s, j, y)
        /\ s[j] \notin Straight /\ Later(s, j, "start_sender") => Later(s, j, "dial")
    BY DEF Ordered
  <2>4. Tail(s)[i] = s[j] /\ \A x : Later(Tail(s), i, x) <=> Later(s, j, x)
    BY <1>1, <1>2, <2>2
  <2> QED
    BY <2>3, <2>4, Zenon
<1>6. Ordered(Tail(s))
  BY <1>5 DEF Ordered
<1> QED
  BY <1>1, <1>2, <1>4, <1>6, Zenon

LEMMA SimpleNeeds ==
  \A x : x \notin OfConnect => /\ Needs(x) \subseteq {"close"} /\ Bars(x) = {}
                               /\ Needs(x) # {} => x = "stop"
BY DEF OfConnect, Needs, Bars

\* A simple list may come before the steps of connect, unless they have begun.
LEMMA OrderedPush ==
  ASSUME NEW a \in Seq(Steps), NEW b \in Seq(Steps), Simple(a), Ordered(b),
         Has(b, "start_sender") => Has(b, "dial")
  PROVE  Ordered(a \o b)
<1>1. /\ Len(a) \in Nat /\ Len(b) \in Nat /\ Len(a \o b) = Len(a) + Len(b)
      /\ \A i \in 1 .. Len(a) : (a \o b)[i] = a[i]
      /\ \A i \in 1 .. Len(b) : (a \o b)[Len(a) + i] = b[i]
  OBVIOUS
<1>2. \A x : /\ \A i \in 1 .. Len(a) : Later(a \o b, i, x) <=> Later(a, i, x) \/ Has(b, x)
             /\ \A i \in 1 .. Len(b) : Later(a \o b, Len(a) + i, x) <=> Later(b, i, x)
  BY LaterConcat
<1> DEFINE s == a \o b
           OrderedAt(i) ==
             /\ \A y \in Needs(s[i]) : Later(s, i, y)
             /\ \A y \in Bars(s[i]) : ~Later(s, i, y)
             /\ s[i] \notin Straight /\ Later(s, i, "start_sender") => Later(s, i, "dial")
<1>3. ASSUME NEW i \in 1 .. Len(a)
      PROVE  OrderedAt(i)
  <2>1. s[i] = a[i] /\ \A x : Later(s, i, x) <=> Later(a, i, x) \/ Has(b, x)
    BY <1>1, <1>2
  <2>2. /\ a[i] \notin OfConnect /\ (a[i] = "stop" => Later(a, i, "close"))
        /\ ~Later(a, i, "start_sender")
    BY DEF Simple, Later, OfConnect
  <2> HIDE DEF s
  <2>3. /\ \A y \in Needs(s[i]) : Later(s, i, y)
        /\ \A y \in Bars(s[i]) : ~Later(s, i, y)
    BY <2>1, <2>2, SimpleNeeds
  <2>4. Later(s, i, "start_sender") => Later(s, i, "dial")
    BY <2>1, <2>2
  <2> QED
    BY <2>3, <2>4
<1>4. ASSUME NEW i \in 1 .. Len(b), NEW j, j = Len(a) + i
      PROVE  OrderedAt(j)
  <2>1. s[j] = b[i] /\ \A x : Later(s, j, x) <=> Later(b, i, x)
    BY <1>1, <1>2, <1>4
  <2>2. /\ \A y \in Needs(b[i]) : Later(b, i, y)
        /\ \A y \in Bars(b[i]) : ~Later(b, i, y)
        /\ b[i] \notin Straight /\ Later(b, i, "start_sender") => Later(b, i, "dial")
    BY DEF Ordered
  <2> HIDE DEF s
  <2> QED
    BY <2>1, <2>2, Zenon
<1>5. ASSUME NEW i \in 1 .. Len(s)
      PROVE  OrderedAt(i)
  <2> HIDE DEF OrderedAt
  <2>1. CASE i \in 1 .. Len(a)
    BY <1>3, <2>1
  <2>2. CASE i \notin 1 .. Len(a)
    <3>1. i - Len(a) \in 1 .. Len(b) /\ i = Len(a) + (i - Len(a))
      BY <1>1, <2>2
    <3> QED
      BY <1>4, <3>1
  <2> QED
    BY <2>1, <2>2
<1> QED
  BY <1>5 DEF Ordered

LEMMA SimpleConcat ==
  ASSUME NEW a \in Seq(Steps), NEW b \in Seq(Steps), Simple(b),
         Simple(a) \/ (Has(b, "close") /\ \A i \in 1 .. Len(a) : a[i] \notin OfConnect)
  PROVE  Simple(a \o b)
<1>1. /\ Len(a) \in Nat /\ Len(b) \in Nat /\ Len(a \o b) = Len(a) + Len(b)
      /\ \A i \in 1 .. Len(a) : (a \o b)[i] = a[i]
      /\ \A i \in 1 .. Len(b) : (a \o b)[Len(a) + i] = b[i]
  OBVIOUS
<1>2. /\ \A i \in 1 .. Len(a) :
           Later(a, i, "close") \/ Has(b, "close") => Later(a \o b, i, "close")
      /\ \A i \in 1 .. Len(b) : Later(a \o b, Len(a) + i, "close") <=> Later(b, i, "close")
  BY LaterConcat
<1> DEFINE s == a \o b
<1>3. ASSUME NEW i \in 1 .. Len(s)
      PROVE  s[i] \notin OfConnect /\ (s[i] = "stop" => Later(s, i, "close"))
  <2>1. CASE i \in 1 .. Len(a)
    <3>1. s[i] = a[i] /\ (Later(a, i, "close") \/ Has(b, "close") => Later(s, i, "close"))
      BY <1>1, <1>2, <2>1
    <3> HIDE DEF s
    <3> QED
      BY <2>1, <3>1 DEF Simple
  <2>2. CASE i \notin 1 .. Len(a)
    <3>1. PICK j \in 1 .. Len(b) : i = Len(a) + j
      <4>1. i - Len(a) \in 1 .. Len(b) /\ i = Len(a) + (i - Len(a))
        BY <1>1, <2>2
      <4> QED
        BY <4>1
    <3>2. s[i] = b[j] /\ (Later(b, j, "close") => Later(s, i, "close"))
      BY <1>1, <1>2, <3>1
    <3> HIDE DEF s
    <3> QED
      BY <3>2 DEF Simple
  <2> QED
    BY <2>1, <2>2
<1> QED
  BY <1>3 DEF Simple

LEMMA SimpleOrdered ==
  ASSUME NEW a \in Seq(Steps), Simple(a)
  PROVE  Ordered(a)
<1>1. ASSUME NEW i \in 1 .. Len(a)
      PROVE  /\ \A y \in Needs(a[i]) : Later(a, i, y)
             /\ \A y \in Bars(a[i]) : ~Later(a, i, y)
             /\ ~Later(a, i, "start_sender")
  <2>1. /\ a[i] \notin OfConnect /\ (a[i] = "stop" => Later(a, i, "close"))
        /\ ~Later(a, i, "start_sender")
    BY DEF Simple, Later, OfConnect
  <2> QED
    BY <2>1, SimpleNeeds
<1> QED
  BY <1>1 DEF Ordered

\* One step that is neither of connect nor stop.
LEMMA SimpleStep ==
  ASSUME NEW x, x \notin OfConnect, x # "stop"
  PROVE  Simple(<<x>>)
BY DEF Simple

LEMMA SimpleLists ==
  /\ Simple(<<>>) /\ Simple(Cleanup) /\ Simple(SendMessageDirect)
  /\ Simple(HandleDisconnect) /\ Simple(Disconnect)
<1>1. Simple(<<>>) /\ Simple(SendMessageDirect)
  BY DEF Simple, SendMessageDirect, OfConnect
<1>2. Simple(Cleanup)
  <2>1. Len(Cleanup) = 5 /\ Cleanup[3] = "close"
    BY DEF Cleanup
  <2>2. Later(Cleanup, 1, "close")
    BY <2>1 DEF Later
  <2>3. \A i \in 1 .. 5 : Cleanup[i] \notin OfConnect /\ (Cleanup[i] = "stop" => i = 1)
    BY DEF Cleanup, OfConnect
  <2> QED
    BY <2>1, <2>2, <2>3 DEF Simple
<1>3. Has(Cleanup, "close") /\ Cleanup \in Seq(Steps)
  BY ListTypes DEF Has, Cleanup
<1>4. /\ <<"stop">> \in Seq(Steps) /\ <<"stop", "say_bye">> \in Seq(Steps)
      /\ \A i \in 1 .. Len(<<"stop">>) : <<"stop">>[i] \notin OfConnect
      /\ \A i \in 1 .. Len(<<"stop", "say_bye">>) :
           <<"stop", "say_bye">>[i] \notin OfConnect
  BY StepNames DEF OfConnect
<1>5. Simple(<<"stop">> \o Cleanup) /\ Simple(<<"stop", "say_bye">> \o Cleanup)
  BY <1>2, <1>3, <1>4, SimpleConcat, Zenon
<1> QED
  BY <1>1, <1>2, <1>5 DEF HandleDisconnect, Disconnect

LEMMA InsertedSimple ==
  ASSUME NEW x, NEW a \in Inserted(x)
  PROVE  Simple(a) /\ (x \in Straight => a = <<>>)
<1>1. /\ Simple(<<"payload">>) /\ Simple(<<"poll">>) /\ Simple(<<"send_loop">>)
      /\ Simple(<<"look">>) /\ Simple(<<"read">>) /\ Simple(<<"receive_loop">>)
      /\ Simple(<<"offer">>)
  BY SimpleStep DEF OfConnect
<1>2. /\ SendMessageDirect \in Seq(Steps) /\ HandleDisconnect \in Seq(Steps)
      /\ Disconnect \in Seq(Steps) /\ <<"send_loop">> \in Seq(Steps)
      /\ <<"receive_loop">> \in Seq(Steps)
  BY ListTypes, StepNames
<1>3. /\ Simple(SendMessageDirect \o <<"send_loop">>)
      /\ Simple(HandleDisconnect \o <<"receive_loop">>)
      /\ Simple(Disconnect \o <<"receive_loop">>)
  BY <1>1, <1>2, SimpleLists, SimpleConcat
<1>4. Simple(a)
  BY <1>1, <1>3, SimpleLists, Zenon DEF Inserted
<1>5. x \in Straight => a = <<>>
  BY DEF Inserted, Straight
<1> QED
  BY <1>4, <1>5

LEMMA ConnectOrdered == Ordered(Connect)
<1>1. /\ Len(Connect) = 10
      /\ Connect[1] = "check" /\ Connect[2] = "dial" /\ Connect[3] = "reach"
      /\ Connect[4] = "take_input" /\ Connect[5] = "take_output" /\ Connect[6] = "run"
      /\ Connect[7] = "clear_queue" /\ Connect[8] = "start_sender"
      /\ Connect[9] = "handshake" /\ Connect[10] = "start_receiver"
  BY DEF Connect
<1>2. ASSUME NEW i \in 1 .. 10
      PROVE  /\ Later(Connect, i, "dial") <=> i < 2
             /\ Later(Connect, i, "reach") <=> i < 3
             /\ Later(Connect, i, "take_input") <=> i < 4
             /\ Later(Connect, i, "run") <=> i < 6
             /\ Later(Connect, i, "start_sender") <=> i < 8
             /\ Later(Connect, i, "start_receiver") <=> i < 10
             /\ ~Later(Connect, i, "close") /\ ~Later(Connect, i, "forget")
  <2>1. \A j \in 1 .. 10 : j \in {1, 2, 3, 4, 5, 6, 7, 8, 9, 10}
    OBVIOUS
  <2>2. \A j \in 1 .. 10 : /\ Connect[j] = "dial" <=> j = 2
                           /\ Connect[j] = "reach" <=> j = 3
                           /\ Connect[j] = "take_input" <=> j = 4
                           /\ Connect[j] = "run" <=> j = 6
                           /\ Connect[j] = "start_sender" <=> j = 8
                           /\ Connect[j] = "start_receiver" <=> j = 10
                           /\ Connect[j] # "close" /\ Connect[j] # "forget"
    BY <1>1, <2>1
  <2> QED
    BY <1>1, <2>2 DEF Later
<1>3. ASSUME NEW i \in 1 .. 10
      PROVE  /\ \A y \in Needs(Connect[i]) : Later(Connect, i, y)
             /\ \A y \in Bars(Connect[i]) : ~Later(Connect, i, y)
             /\ Connect[i] \notin Straight /\ Later(Connect, i, "start_sender")
                  => Later(Connect, i, "dial")
  <2>1. CASE i \in {1, 7, 9}
    BY <1>1, <1>2, <2>1 DEF Needs, Bars, Straight
  <2>2. CASE i \in {2, 3}
    BY <1>1, <1>2, <2>2 DEF Needs, Bars, Straight
  <2>3. CASE i \in {4, 5, 6}
    BY <1>1, <1>2, <2>3 DEF Needs, Bars, Straight
  <2>4. CASE i \in {8, 10}
    BY <1>1, <1>2, <2>4 DEF Needs, Bars, Straight
  <2> QED
    BY <2>1, <2>2, <2>3, <2>4
<1> QED
  BY <1>1, <1>3 DEF Ordered

-----------------------------------------------------------------------------
(* The object's monitor *)

LEMMA ConcatParts ==
  ASSUME NEW a \in Seq(Steps), NEW b \in Seq(Steps)
  PROVE  /\ a \o b \in Seq(Steps)
         /\ Len(a) \in Nat /\ Len(b) \in Nat /\ Len(a \o b) = Len(a) + Len(b)
         /\ \A i \in 1 .. Len(a) : (a \o b)[i] = a[i]
         /\ \A i \in 1 .. Len(b) : (a \o b)[Len(a) + i] = b[i]
OBVIOUS

\* A list of n steps has at its place i what the list of a thread has there that is
\* outside sendMessageDirect: the steps of that method come together.
CleanAt(s, n, i) ==
  /\ s[i] = "lock" => i + 2 <= n /\ s[i + 1] = "header" /\ s[i + 2] = "unlock"
  /\ s[i] = "header" => i > 1 /\ s[i - 1] = "lock"
  /\ s[i] = "unlock" => i > 2 /\ s[i - 2] = "lock"
  /\ s[i] # "payload"

Clean(s) == \A i \in 1 .. Len(s) : CleanAt(s, Len(s), i)

LEMMA CleanTail ==
  ASSUME NEW s \in Seq(Steps), s # <<>>, Clean(s), Head(s) # "lock"
  PROVE  Clean(Tail(s)) /\ Head(s) \notin {"header", "payload", "unlock"}
<1> DEFINE r == Tail(s)
           n == Len(s)
<1>1. /\ n \in Nat \ {0} /\ Len(r) = n - 1 /\ Head(s) = s[1]
      /\ \A i \in 1 .. n - 1 : r[i] = s[i + 1]
  BY TailParts
<1>2. \A i \in 1 .. n : CleanAt(s, n, i)
  BY DEF Clean
<1> HIDE DEF r, n
<1>3. 1 \in 1 .. n /\ s[1] \notin {"header", "payload", "unlock"} /\ s[1] # "lock"
  <2>1. 1 \in 1 .. n
    BY <1>1
  <2>2. CleanAt(s, n, 1)
    BY <1>2, <2>1
  <2> QED
    BY <1>1, <2>1, <2>2 DEF CleanAt
<1>4. ASSUME NEW i \in 1 .. n - 1
      PROVE  CleanAt(r, n - 1, i)
  <2>1. i + 1 \in 1 .. n
    BY <1>1
  <2>2. PICK j \in 1 .. n : j = i + 1
    BY <2>1
  <2>3. r[i] = s[j]
    BY <1>1, <2>2
  <2>4. /\ s[j] = "lock" => j + 2 <= n /\ s[j + 1] = "header" /\ s[j + 2] = "unlock"
        /\ s[j] = "header" => j > 1 /\ s[j - 1] = "lock"
        /\ s[j] = "unlock" => j > 2 /\ s[j - 2] = "lock"
        /\ s[j] # "payload"
    BY <1>2 DEF CleanAt
  <2>5. ASSUME r[i] = "lock"
        PROVE  i + 2 <= n - 1 /\ r[i + 1] = "header" /\ r[i + 2] = "unlock"
    <3>1. j + 2 <= n /\ s[j + 1] = "header" /\ s[j + 2] = "unlock"
      BY <2>3, <2>4, <2>5
    <3>2. /\ i + 1 \in 1 .. n - 1 /\ i + 2 \in 1 .. n - 1 /\ i + 2 <= n - 1
          /\ (i + 1) + 1 = j + 1 /\ (i + 2) + 1 = j + 2
      BY <1>1, <2>2, <3>1
    <3>3. r[i + 1] = s[(i + 1) + 1] /\ r[i + 2] = s[(i + 2) + 1]
      BY <1>1, <3>2
    <3> QED
      BY <3>1, <3>2, <3>3
  <2>6. ASSUME r[i] = "header"
        PROVE  i > 1 /\ r[i - 1] = "lock"
    <3>1. s[j - 1] = "lock" /\ j - 1 = i
      BY <2>2, <2>3, <2>4, <2>6
    <3>2. i > 1
      BY <1>3, <3>1
    <3>3. i - 1 \in 1 .. n - 1 /\ (i - 1) + 1 = i
      BY <1>1, <3>2
    <3>4. r[i - 1] = s[(i - 1) + 1]
      BY <1>1, <3>3
    <3> QED
      BY <3>1, <3>2, <3>3, <3>4
  <2>7. ASSUME r[i] = "unlock"
        PROVE  i > 2 /\ r[i - 2] = "lock"
    <3>1. s[j - 2] = "lock" /\ j > 2 /\ j - 2 = i - 1
      BY <2>2, <2>3, <2>4, <2>7
    <3>2. i > 2
      <4>1. i = 2 => j - 2 = 1
        BY <3>1
      <4> QED
        BY <1>1, <1>3, <2>2, <3>1, <4>1
    <3>3. i - 2 \in 1 .. n - 1 /\ (i - 2) + 1 = j - 2
      BY <1>1, <2>2, <3>2
    <3>4. r[i - 2] = s[(i - 2) + 1]
      BY <1>1, <3>3
    <3> QED
      BY <3>1, <3>2, <3>3, <3>4
  <2>8. r[i] # "payload"
    BY <2>3, <2>4
  <2> QED
    BY <2>5, <2>6, <2>7, <2>8 DEF CleanAt
<1>5. \A i \in 1 .. Len(r) : CleanAt(r, Len(r), i)
  BY <1>1, <1>4
<1>6. Clean(r)
  BY <1>5 DEF Clean
<1> QED
  BY <1>1, <1>3, <1>6 DEF r

LEMMA CleanConcat ==
  ASSUME NEW a \in Seq(Steps), NEW b \in Seq(Steps), Clean(a), Clean(b)
  PROVE  Clean(a \o b)
<1> DEFINE m == Len(a)
           n == Len(b)
           s == a \o b
<1>1. /\ m \in Nat /\ n \in Nat /\ Len(s) = m + n
      /\ \A i \in 1 .. m : s[i] = a[i]
      /\ \A i \in 1 .. n : s[m + i] = b[i]
  BY ConcatParts
<1>2. /\ \A i \in 1 .. m : CleanAt(a, m, i)
      /\ \A i \in 1 .. n : CleanAt(b, n, i)
  BY DEF Clean
<1> HIDE DEF m, n, s
<1>3. ASSUME NEW i \in 1 .. m
      PROVE  CleanAt(s, m + n, i)
  <2>1. s[i] = a[i]
    BY <1>1
  <2>2. /\ a[i] = "lock" => i + 2 <= m /\ a[i + 1] = "header" /\ a[i + 2] = "unlock"
        /\ a[i] = "header" => i > 1 /\ a[i - 1] = "lock"
        /\ a[i] = "unlock" => i > 2 /\ a[i - 2] = "lock"
        /\ a[i] # "payload"
    BY <1>2 DEF CleanAt
  <2>3. ASSUME s[i] = "lock"
        PROVE  i + 2 <= m + n /\ s[i + 1] = "header" /\ s[i + 2] = "unlock"
    <3>1. i + 1 \in 1 .. m /\ i + 2 \in 1 .. m
      BY <1>1, <2>1, <2>2, <2>3
    <3>2. s[i + 1] = a[i + 1] /\ s[i + 2] = a[i + 2] /\ i + 2 <= m + n
      BY <1>1, <3>1
    <3> QED
      BY <2>1, <2>2, <2>3, <3>2
  <2>4. ASSUME s[i] = "header"
        PROVE  i > 1 /\ s[i - 1] = "lock"
    <3>1. i - 1 \in 1 .. m
      BY <1>1, <2>1, <2>2, <2>4
    <3> QED
      BY <1>1, <2>1, <2>2, <2>4, <3>1
  <2>5. ASSUME s[i] = "unlock"
        PROVE  i > 2 /\ s[i - 2] = "lock"
    <3>1. i - 2 \in 1 .. m
      BY <1>1, <2>1, <2>2, <2>5
    <3> QED
      BY <1>1, <2>1, <2>2, <2>5, <3>1
  <2>6. s[i] # "payload"
    BY <2>1, <2>2
  <2> QED
    BY <2>3, <2>4, <2>5, <2>6 DEF CleanAt
<1>4. ASSUME NEW i \in 1 .. n, NEW j, j = m + i
      PROVE  CleanAt(s, m + n, j)
  <2>1. s[j] = b[i]
    BY <1>1, <1>4
  <2>2. /\ b[i] = "lock" => i + 2 <= n /\ b[i + 1] = "header" /\ b[i + 2] = "unlock"
        /\ b[i] = "header" => i > 1 /\ b[i - 1] = "lock"
        /\ b[i] = "unlock" => i > 2 /\ b[i - 2] = "lock"
        /\ b[i] # "payload"
    BY <1>2 DEF CleanAt
  <2>3. ASSUME s[j] = "lock"
        PROVE  j + 2 <= m + n /\ s[j + 1] = "header" /\ s[j + 2] = "unlock"
    <3>0. i + 2 <= n /\ b[i + 1] = "header" /\ b[i + 2] = "unlock"
      BY <2>1, <2>2, <2>3
    <3>1. /\ i + 1 \in 1 .. n /\ i + 2 \in 1 .. n /\ j + 2 <= m + n
          /\ j + 1 = m + (i + 1) /\ j + 2 = m + (i + 2)
      BY <1>1, <1>4, <3>0
    <3>2. s[m + (i + 1)] = b[i + 1] /\ s[m + (i + 2)] = b[i + 2]
      BY <1>1, <3>1
    <3> QED
      BY <3>0, <3>1, <3>2
  <2>4. ASSUME s[j] = "header"
        PROVE  j > 1 /\ s[j - 1] = "lock"
    <3>0. i > 1 /\ b[i - 1] = "lock"
      BY <2>1, <2>2, <2>4
    <3>1. i - 1 \in 1 .. n /\ j - 1 = m + (i - 1) /\ j > 1
      BY <1>1, <1>4, <3>0
    <3>2. s[m + (i - 1)] = b[i - 1]
      BY <1>1, <3>1
    <3> QED
      BY <3>0, <3>1, <3>2
  <2>5. ASSUME s[j] = "unlock"
        PROVE  j > 2 /\ s[j - 2] = "lock"
    <3>0. i > 2 /\ b[i - 2] = "lock"
      BY <2>1, <2>2, <2>5
    <3>1. i - 2 \in 1 .. n /\ j - 2 = m + (i - 2) /\ j > 2
      BY <1>1, <1>4, <3>0
    <3>2. s[m + (i - 2)] = b[i - 2]
      BY <1>1, <3>1
    <3> QED
      BY <3>0, <3>1, <3>2
  <2>6. s[j] # "payload"
    BY <2>1, <2>2
  <2> QED
    BY <2>3, <2>4, <2>5, <2>6 DEF CleanAt
<1>5. ASSUME NEW i \in 1 .. m + n
      PROVE  CleanAt(s, m + n, i)
  <2>1. CASE i \in 1 .. m
    BY <1>3, <2>1
  <2>2. CASE i \notin 1 .. m
    <3>1. i - m \in 1 .. n /\ i = m + (i - m)
      BY <1>1, <2>2
    <3> QED
      BY <1>4, <3>1
  <2> QED
    BY <2>1, <2>2
<1>6. \A i \in 1 .. Len(s) : CleanAt(s, Len(s), i)
  BY <1>1, <1>5
<1>7. Clean(s)
  BY <1>6 DEF Clean
<1> QED
  BY <1>7 DEF s

\* A thread that takes the monitor is about to write a header and to leave again.
LEMMA CleanLock ==
  ASSUME NEW s \in Seq(Steps), s # <<>>, Clean(s), Head(s) = "lock"
  PROVE  \E r \in Seq(Steps) : Clean(r) /\ Tail(s) = <<"header">> \o (<<"unlock">> \o r)
<1> DEFINE n == Len(s)
           r == SubSeq(s, 4, n)
<1>1. n \in Nat /\ s[1] = "lock" /\ \A i \in 1 .. n : s[i] \in Steps
  BY TailParts
<1>2. \A i \in 1 .. n : CleanAt(s, n, i)
  BY DEF Clean
<1>n. n >= 1
  BY TailParts
<1>3. n >= 3 /\ s[2] = "header" /\ s[3] = "unlock"
  <2>1. 1 \in 1 .. n /\ 1 + 2 = 3 /\ 1 + 1 = 2
    BY <1>1, <1>n
  <2> HIDE DEF n
  <2>2. 1 + 2 <= n /\ s[1 + 1] = "header" /\ s[1 + 2] = "unlock"
    BY <1>1, <1>2, <2>1 DEF CleanAt
  <2> QED
    BY <1>1, <2>1, <2>2
<1>4. r \in Seq(Steps) /\ Len(r) = n - 3 /\ \A i \in 1 .. n - 3 : r[i] = s[i + 3]
  <2>1. \A i \in 4 .. n : s[i] \in Steps
    BY <1>1
  <2>2. /\ SubSeq(s, 4, n) \in Seq(Steps)
        /\ Len(SubSeq(s, 4, n)) = IF 4 <= n THEN n - 4 + 1 ELSE 0
        /\ \A i \in 1 .. n - 4 + 1 : SubSeq(s, 4, n)[i] = s[4 + i - 1]
    <3> HIDE DEF n
    <3> QED
      BY <1>1, <2>1, SubSeqProperties
  <2> HIDE DEF n
  <2>3. n - 4 + 1 = n - 3 /\ (IF 4 <= n THEN n - 4 + 1 ELSE 0) = n - 3
    BY <1>1, <1>3
  <2>4. \A i \in 1 .. n - 3 : 4 + i - 1 = i + 3
    BY <1>1
  <2> QED
    BY <2>2, <2>3, <2>4
<1>5. Clean(r)
  <2> HIDE DEF n, r
  <2>1. ASSUME NEW i \in 1 .. n - 3
        PROVE  CleanAt(r, n - 3, i)
    <3>0. i + 3 \in 1 .. n
      BY <1>1
    <3>1. PICK j \in 1 .. n : j = i + 3
      BY <3>0
    <3>2. r[i] = s[j]
      BY <1>4, <3>1
    <3>3. /\ s[j] = "lock" => j + 2 <= n /\ s[j + 1] = "header" /\ s[j + 2] = "unlock"
          /\ s[j] = "header" => j > 1 /\ s[j - 1] = "lock"
          /\ s[j] = "unlock" => j > 2 /\ s[j - 2] = "lock"
          /\ s[j] # "payload"
      BY <1>2 DEF CleanAt
    <3>4. ASSUME r[i] = "lock"
          PROVE  i + 2 <= n - 3 /\ r[i + 1] = "header" /\ r[i + 2] = "unlock"
      <4>1. j + 2 <= n /\ s[j + 1] = "header" /\ s[j + 2] = "unlock"
        BY <3>2, <3>3, <3>4
      <4>2. /\ i + 1 \in 1 .. n - 3 /\ i + 2 \in 1 .. n - 3 /\ i + 2 <= n - 3
            /\ (i + 1) + 3 = j + 1 /\ (i + 2) + 3 = j + 2
        BY <1>1, <3>1, <4>1
      <4>3. r[i + 1] = s[(i + 1) + 3] /\ r[i + 2] = s[(i + 2) + 3]
        BY <1>4, <4>2
      <4> QED
        BY <4>1, <4>2, <4>3
    <3>5. ASSUME r[i] = "header"
          PROVE  i > 1 /\ r[i - 1] = "lock"
      <4>1. s[j - 1] = "lock"
        BY <3>2, <3>3, <3>5
      <4>2. i > 1
        <5>1. i = 1 => j - 1 = 3
          BY <3>1
        <5> QED
          BY <1>1, <1>3, <4>1, <5>1
      <4>3. i - 1 \in 1 .. n - 3 /\ (i - 1) + 3 = j - 1
        BY <1>1, <3>1, <4>2
      <4>4. r[i - 1] = s[(i - 1) + 3]
        BY <1>4, <4>3
      <4> QED
        BY <4>1, <4>2, <4>3, <4>4
    <3>6. ASSUME r[i] = "unlock"
          PROVE  i > 2 /\ r[i - 2] = "lock"
      <4>1. s[j - 2] = "lock"
        BY <3>2, <3>3, <3>6
      <4>2. i > 2
        <5>1. (i = 1 => j - 2 = 2) /\ (i = 2 => j - 2 = 3)
          BY <3>1
        <5> QED
          BY <1>1, <1>3, <4>1, <5>1
      <4>3. i - 2 \in 1 .. n - 3 /\ (i - 2) + 3 = j - 2
        BY <1>1, <3>1, <4>2
      <4>4. r[i - 2] = s[(i - 2) + 3]
        BY <1>4, <4>3
      <4> QED
        BY <4>1, <4>2, <4>3, <4>4
    <3>7. r[i] # "payload"
      BY <3>2, <3>3
    <3> QED
      BY <3>4, <3>5, <3>6, <3>7 DEF CleanAt
  <2>2. \A i \in 1 .. Len(r) : CleanAt(r, Len(r), i)
    BY <1>4, <2>1
  <2> QED
    BY <2>2 DEF Clean
<1>6. Tail(s) = <<"header">> \o (<<"unlock">> \o r)
  <2> DEFINE u == <<"unlock">> \o r
             h == <<"header">> \o u
  <2> HIDE DEF r, n
  <2>1. /\ u \in Seq(Steps) /\ Len(u) = n - 2 /\ u[1] = "unlock"
        /\ \A i \in 1 .. n - 3 : u[1 + i] = r[i]
    <3>1. <<"unlock">> \in Seq(Steps) /\ Len(<<"unlock">>) = 1
      BY StepNames
    <3> QED
      BY <1>1, <1>4, <3>1
  <2> HIDE DEF u
  <2>2. /\ h \in Seq(Steps) /\ Len(h) = n - 1 /\ h[1] = "header"
        /\ \A i \in 1 .. n - 2 : h[1 + i] = u[i]
    <3>1. <<"header">> \in Seq(Steps) /\ Len(<<"header">>) = 1
      BY StepNames
    <3> QED
      BY <1>1, <2>1, <3>1
  <2> HIDE DEF h
  <2>3. /\ Tail(s) \in Seq(Steps) /\ Len(Tail(s)) = n - 1
        /\ \A i \in 1 .. n - 1 : Tail(s)[i] = s[i + 1]
    BY TailParts DEF n
  <2>4. ASSUME NEW i \in 1 .. n - 1
        PROVE  Tail(s)[i] = h[i]
    <3>1. CASE i = 1
      BY <1>1, <1>3, <2>2, <2>3, <3>1
    <3>2. CASE i = 2
      <4>1. 1 \in 1 .. n - 2 /\ 1 + 1 = 2 /\ 2 + 1 = 3
        BY <1>1, <1>3
      <4>2. h[2] = u[1] /\ Tail(s)[2] = s[3]
        BY <2>2, <2>3, <3>2, <4>1
      <4> QED
        BY <1>3, <2>1, <3>2, <4>2
    <3>3. CASE i > 2
      <4>1. i - 1 \in 1 .. n - 2 /\ i - 2 \in 1 .. n - 3
        BY <1>1, <3>3
      <4>2. h[1 + (i - 1)] = u[i - 1] /\ u[1 + (i - 2)] = r[i - 2] /\ r[i - 2] = s[(i - 2) + 3]
        BY <1>4, <2>1, <2>2, <4>1
      <4>3. 1 + (i - 1) = i /\ 1 + (i - 2) = i - 1 /\ (i - 2) + 3 = i + 1
        OBVIOUS
      <4> QED
        BY <2>3, <4>2, <4>3
    <3>4. i = 1 \/ i = 2 \/ i > 2
      BY <1>1
    <3> QED
      BY <3>1, <3>2, <3>3, <3>4
  <2>5. Tail(s) = h
    BY <2>2, <2>3, <2>4, SeqEqual
  <2> QED
    BY <2>5 DEF h, u
<1> QED
  BY <1>4, <1>5, <1>6

LEMMA CleanLists ==
  /\ Clean(<<>>) /\ Clean(SendMessageDirect) /\ Clean(Cleanup) /\ Clean(HandleDisconnect)
  /\ Clean(Disconnect) /\ Clean(Connect)
  /\ \A y \in Steps : y \notin {"lock", "header", "unlock", "payload"} => Clean(<<y>>)
  /\ Clean(<<"poll">>) /\ Clean(<<"send_loop">>) /\ Clean(<<"look">>)
  /\ Clean(<<"read">>) /\ Clean(<<"receive_loop">>) /\ Clean(<<"offer">>)
<1>1. ASSUME NEW y, y \notin {"lock", "header", "unlock", "payload"}
      PROVE  Clean(<<y>>)
  <2>1. Len(<<y>>) = 1 /\ <<y>>[1] = y /\ \A i \in 1 .. 1 : i = 1
    OBVIOUS
  <2>2. CleanAt(<<y>>, 1, 1)
    BY <1>1, <2>1 DEF CleanAt
  <2> QED
    BY <2>1, <2>2 DEF Clean
<1>2. Clean(<<>>)
  BY DEF Clean
<1>3. Clean(SendMessageDirect)
  <2>1. /\ Len(SendMessageDirect) = 3 /\ SendMessageDirect[1] = "lock"
        /\ SendMessageDirect[2] = "header" /\ SendMessageDirect[3] = "unlock"
    BY DEF SendMessageDirect
  <2>2. \A i \in 1 .. 3 : i = 1 \/ i = 2 \/ i = 3
    OBVIOUS
  <2> QED
    BY <2>1, <2>2 DEF Clean, CleanAt
<1>4. Clean(Cleanup)
  <2>1. \A i \in 1 .. 5 : Cleanup[i] \notin {"lock", "header", "unlock", "payload"}
    BY DEF Cleanup
  <2>2. Len(Cleanup) = 5
    BY DEF Cleanup
  <2> QED
    BY <2>1, <2>2 DEF Clean, CleanAt
<1>5. Clean(<<"stop", "say_bye">>)
  <2>1. \A i \in 1 .. 2 : <<"stop", "say_bye">>[i] \notin {"lock", "header", "unlock", "payload"}
    OBVIOUS
  <2> QED
    BY <2>1 DEF Clean, CleanAt
<1>6. Clean(Connect)
  <2>1. \A i \in 1 .. 10 : Connect[i] \notin {"lock", "header", "unlock", "payload"}
    BY DEF Connect
  <2>2. Len(Connect) = 10
    BY DEF Connect
  <2> QED
    BY <2>1, <2>2 DEF Clean, CleanAt
<1>7. Clean(HandleDisconnect) /\ Clean(Disconnect)
  <2>1. <<"stop">> \in Seq(Steps) /\ <<"stop", "say_bye">> \in Seq(Steps)
    BY StepNames
  <2>2. Clean(<<"stop">> \o Cleanup) /\ Clean(<<"stop", "say_bye">> \o Cleanup)
    BY <1>1, <1>4, <1>5, <2>1, ListTypes, CleanConcat
  <2> QED
    BY <2>2 DEF HandleDisconnect, Disconnect
<1>8. /\ Clean(<<"poll">>) /\ Clean(<<"send_loop">>) /\ Clean(<<"look">>)
      /\ Clean(<<"read">>) /\ Clean(<<"receive_loop">>) /\ Clean(<<"offer">>)
  BY <1>1
<1> QED
  BY <1>1, <1>2, <1>3, <1>4, <1>6, <1>7, <1>8

LEMMA InsertedClean ==
  ASSUME NEW x, x \notin {"header", "payload"}, NEW a \in Inserted(x)
  PROVE  Clean(a)
<1>1. <<"send_loop">> \in Seq(Steps) /\ <<"receive_loop">> \in Seq(Steps)
  BY StepNames
<1>2. /\ Clean(SendMessageDirect \o <<"send_loop">>)
      /\ Clean(HandleDisconnect \o <<"receive_loop">>)
      /\ Clean(Disconnect \o <<"receive_loop">>)
  BY <1>1, ListTypes, CleanLists, CleanConcat
<1> QED
  BY <1>2, CleanLists, Zenon DEF Inserted

-----------------------------------------------------------------------------
(* What a step does, by its name *)

\* The step a thread takes is the first of its list.
LEMMA ByHead ==
  ASSUME NEW t \in Threads, ThreadSteps(t), NEW x, x = Head(todo[t])
  PROVE  /\ todo[t] # <<>> /\ ~crashed
         /\ x = "stop" => Stop(t)
         /\ x = "close" => Close(t)
         /\ x = "forget" => Forget(t)
         /\ x = "lock" => Lock(t)
         /\ x = "unlock" => Unlock(t)
         /\ x = "header" => Header(t)
         /\ x = "payload" => Payload(t)
         /\ x = "dial" => Dial(t)
         /\ x = "reach" => Reach(t)
         /\ x = "take_input" => TakeInput(t) \/ NoStream(t)
         /\ x = "take_output" => TakeOutput(t) \/ NoStream(t)
         /\ x = "run" => Run(t)
         /\ x = "start_sender" => StartSender(t)
         /\ x = "start_receiver" => StartReceiver(t)
         /\ x = "receive_loop" => ReceiveLoop(t)
         /\ x = "look" => Look(t)
         /\ x = "read" => ReadOfNull(t) \/ ReadFails(t) \/ Read(t)
         /\ x = "check" => Check(t)
BY DEF ThreadSteps, CleanupSteps, SendSteps, ConnectSteps, ReceiveSteps, Stop, ClearQueue,
   Forget, Interrupt, Header, Poll, Dial, TakeInput, TakeOutput, Run, StartSender, Offer, Sets,
   Close, SayBye, Lock, Payload, Unlock, SendLoop, PollInterrupted, PollTimesOut, Check, Reach,
   NoStream, StartReceiver, SendHandshake, ReceiveLoop, Look, ReadOfNull, ReadFails, Read, At

\* The steps that touch the fields, the connections and the monitor.
LEMMA Touches ==
  ASSUME NEW t \in Threads, ThreadSteps(t), NEW x, x = Head(todo[t])
  PROVE  /\ x \notin {"stop", "clear_queue", "forget", "interrupt", "header", "poll", "dial",
                      "take_input", "take_output", "run", "start_sender", "offer"}
              => UNCHANGED obj
         /\ x \notin {"close", "header", "payload", "read", "dial", "reach"} => UNCHANGED net
         /\ x \notin {"lock", "unlock"} => UNCHANGED monitor
         /\ x \notin {"header", "look"} => UNCHANGED stream
         /\ x \notin {"say_bye", "poll", "handshake"} => UNCHANGED msg
         /\ UNCHANGED <<touches, disconnects, overlapped>>
<1> USE DEF At, Sets, Goes, Says, locals, user
<1>1. CASE CleanupSteps(t)
  BY <1>1 DEF CleanupSteps, Stop, ClearQueue, Close, Forget, Interrupt, SayBye
<1>2. CASE Lock(t) \/ Unlock(t)
  BY <1>2 DEF Lock, Unlock
<1>3. CASE Header(t)
  BY <1>3 DEF Header, NotWritten, WriteFails, WriteHeader
<1>4. CASE Payload(t)
  BY <1>4 DEF Payload, WriteFails, WritePayload
<1>5. CASE SendLoop(t) \/ PollInterrupted(t) \/ PollTimesOut(t) \/ Poll(t)
  BY <1>5 DEF SendLoop, PollInterrupted, PollTimesOut, Poll
<1>6. CASE ReceiveSteps(t)
  BY <1>6 DEF ReceiveSteps, ReceiveLoop, Look, ReadOfNull, ReadFails, Read, AfterReply
<1>7. CASE Check(t) \/ Dial(t) \/ Run(t) \/ SendHandshake(t) \/ Offer(t)
  BY <1>7 DEF Check, Dial, Run, SendHandshake, Offer
<1>8. CASE Reach(t) \/ TakeInput(t) \/ TakeOutput(t) \/ NoStream(t)
  BY <1>8 DEF Reach, TakeInput, TakeOutput, NoStream, ConnectFails
<1>9. CASE StartSender(t) \/ StartReceiver(t)
  BY <1>9 DEF StartSender, StartReceiver
<1> QED
  BY <1>1, <1>2, <1>3, <1>4, <1>5, <1>6, <1>7, <1>8, <1>9
  DEF ThreadSteps, SendSteps, ConnectSteps

\* How the state of a connection changes.
LEMMA StatusMoves ==
  ASSUME TypeOK, NEW t \in Threads, ThreadSteps(t), NEW k \in Sockets,
         net'[k].status # net[k].status
  PROVE  \/ Head(todo[t]) = "dial" /\ t[2] = k /\ net'[k].status = "made"
         \/ Head(todo[t]) = "close" /\ k \in ToClose /\ net'[k].status = "closed"
         \/ /\ Head(todo[t]) = "reach" /\ obj.socket = k
            /\ net[k].status = "made" /\ net'[k].status = "open"
<1>0. NetTypes /\ LocalTypes /\ ObjTypes
  BY Parts
<1>1. net \in [Sockets -> Connections] /\ net[k] \in Connections
  BY <1>0, ConnectionOf DEF NetTypes
<1>2. \A j \in Sockets : \A c : [net EXCEPT ![j] = c][k] = IF j = k THEN c ELSE net[k]
  BY <1>1
<1>3. CASE Head(todo[t]) = "close"
  <2>1. net' = [j \in Sockets |->
                  IF j \in ToClose THEN [net[j] EXCEPT !.status = "closed"] ELSE net[j]]
    BY <1>3, ByHead DEF Close
  <2>2. [net[k] EXCEPT !.status = "closed"].status = "closed"
    BY <1>1 DEF Connections
  <2> QED
    BY <1>3, <2>1, <2>2
<1>4. CASE Head(todo[t]) = "dial"
  <2>1. net' = [net EXCEPT ![t[2]] = [net[t[2]] EXCEPT !.status = "made"]]
    BY <1>4, ByHead DEF Dial
  <2>2. [net[k] EXCEPT !.status = "made"].status = "made"
    BY <1>1 DEF Connections
  <2>3. CASE t[2] = k
    BY <1>1, <1>4, <2>1, <2>2, <2>3
  <2>4. CASE t[2] # k
    BY <1>1, <2>1, <2>4
  <2> QED
    BY <2>3, <2>4
<1>5. CASE Head(todo[t]) = "reach"
  <2>1. \/ UNCHANGED net
        \/ /\ net[obj.socket].status = "made"
           /\ net' = [net EXCEPT ![obj.socket] = [net[obj.socket] EXCEPT !.status = "open"]]
    BY <1>5, ByHead DEF Reach, Goes, ConnectFails
  <2>2. [net[k] EXCEPT !.status = "open"].status = "open"
    BY <1>1 DEF Connections
  <2>3. CASE obj.socket = k
    BY <1>1, <1>5, <2>1, <2>2, <2>3
  <2>4. CASE obj.socket # k
    BY <1>1, <2>1, <2>4
  <2> QED
    BY <2>3, <2>4
<1>6. CASE Head(todo[t]) = "read"
  <2>1. \/ UNCHANGED net
        \/ \E j \in Sockets : net' = [net EXCEPT ![j] = [net[j] EXCEPT !.inbox = Tail(@)]]
    BY <1>6, ByHead DEF ReadOfNull, ReadFails, Read, Goes
  <2>2. ASSUME NEW j \in Sockets,
               net' = [net EXCEPT ![j] = [net[j] EXCEPT !.inbox = Tail(net[j].inbox)]]
        PROVE  net'[k].status = net[k].status
    <3>1. [net[k] EXCEPT !.inbox = Tail(net[k].inbox)].status = net[k].status
      BY <1>1 DEF Connections
    <3> QED
      BY <1>1, <2>2, <3>1
  <2>3. UNCHANGED net => net'[k].status = net[k].status
    OBVIOUS
  <2> QED
    BY <2>1, <2>2, <2>3
<1>7. CASE Head(todo[t]) = "header" \/ Head(todo[t]) = "payload"
  <2>1. \/ UNCHANGED net
        \/ Writes(obj.output, <<"header", msg[t], obj.sequence>>)
        \/ Writes(stream[t], <<"payload", msg[t], 0>>)
    BY <1>7, ByHead DEF Header, Payload, NotWritten, WriteFails, WriteHeader, WritePayload, Goes
  <2>2. \A j : \A v : net' = [net EXCEPT ![j] = [net[j] EXCEPT !.wire = v]]
                        => net'[k].status = net[k].status
    <3>1. \A v : [net[k] EXCEPT !.wire = v].status = net[k].status
      BY <1>1 DEF Connections
    <3> QED
      BY <1>1, <3>1
  <2>3. \A j : \A c : Writes(j, c) => \E v : net' = [net EXCEPT ![j] = [net[j] EXCEPT !.wire = v]]
    <3> SUFFICES ASSUME NEW j, NEW c, Writes(j, c)
                 PROVE  net' = [net EXCEPT ![j] = [net[j] EXCEPT !.wire = Append(net[j].wire, c)]]
      OBVIOUS
    <3> QED
      BY DEF Writes
  <2>4. UNCHANGED net => net'[k].status = net[k].status
    OBVIOUS
  <2> QED
    BY <2>1, <2>2, <2>3, <2>4, Zenon
<1> QED
  BY <1>3, <1>4, <1>5, <1>6, <1>7, Touches

\* How the fields change.
LEMMA FieldMoves ==
  ASSUME TypeOK, NEW t \in Threads, ThreadSteps(t)
  PROVE  /\ \/ obj'.socket = obj.socket
            \/ Head(todo[t]) = "dial" /\ obj'.socket = t[2]
            \/ Head(todo[t]) = "forget" /\ obj'.socket = Null
         /\ \/ obj'.input = obj.input
            \/ /\ Head(todo[t]) = "take_input" /\ obj'.input = StreamOf(obj.socket)
               /\ HasStream(obj.socket)
            \/ Head(todo[t]) = "forget" /\ obj'.input = Null
         /\ \/ obj'.output = obj.output
            \/ /\ Head(todo[t]) = "take_output" /\ obj'.output = StreamOf(obj.socket)
               /\ HasStream(obj.socket)
            \/ Head(todo[t]) = "forget" /\ obj'.output = Null
         /\ \/ obj'.running = obj.running
            \/ Head(todo[t]) = "stop" /\ obj'.running = FALSE
            \/ Head(todo[t]) = "run" /\ obj'.running = TRUE
<1>0. obj \in Fields
  BY Parts DEF ObjTypes
<1> USE DEF Fields
<1>1. CASE UNCHANGED obj
  BY <1>1
<1>2. CASE Stop(t) \/ ClearQueue(t) \/ Run(t) \/ Offer(t)
  BY <1>0, <1>2 DEF Stop, ClearQueue, Run, Offer, Sets, At
<1>3. CASE Forget(t)
  BY <1>0, <1>3 DEF Forget, Sets, At
<1>4. CASE Interrupt(t) \/ Poll(t) \/ StartSender(t)
  BY <1>0, <1>4 DEF Interrupt, Poll, StartSender
<1>5. CASE Header(t)
  BY <1>0, <1>5 DEF Header, NotWritten, WriteFails, WriteHeader, Goes
<1>6. CASE Dial(t)
  BY <1>0, <1>6 DEF Dial, At
<1>7. CASE TakeInput(t) \/ TakeOutput(t)
  BY <1>0, <1>7 DEF TakeInput, TakeOutput, Sets, At
<1>11. CASE Close(t) \/ SayBye(t) \/ Lock(t) \/ Payload(t) \/ Unlock(t) \/ SendLoop(t)
            \/ PollInterrupted(t) \/ PollTimesOut(t) \/ ReceiveSteps(t) \/ Check(t)
            \/ Reach(t) \/ NoStream(t) \/ StartReceiver(t) \/ SendHandshake(t)
  <2>1. UNCHANGED obj
    BY <1>11
    DEF Close, SayBye, Lock, Payload, Unlock, SendLoop, PollInterrupted, PollTimesOut,
        ReceiveSteps, Check, Reach, NoStream, StartReceiver, SendHandshake, ReceiveLoop, Look,
        ReadOfNull, ReadFails, Read, Goes, Says, WriteFails, WritePayload, ConnectFails
  <2> QED
    BY <1>1, <2>1
<1> QED
  BY <1>2, <1>3, <1>4, <1>5, <1>6, <1>7, <1>11
  DEF ThreadSteps, CleanupSteps, SendSteps, ConnectSteps

-----------------------------------------------------------------------------
(* The lists of the threads, and the threads a connection starts *)

ListInv ==
  \A t \in Threads : /\ Ordered(todo[t])
                     /\ \A x \in OfConnect : Has(todo[t], x) => t[1] = "connect"

\* A connection that has not been dialled has no threads and nobody holds its socket, and
\* each connect starts each of its threads once.
StartOf(k) ==
  /\ net[k].status = "none" =>
       /\ todo[Sender(k)] = <<>> /\ todo[Receiver(k)] = <<>>
       /\ todo[Connector(k)] # <<>> => Has(todo[Connector(k)], "dial")
       /\ net[k].wire = <<>>
       /\ k # obj.socket /\ k # obj.input /\ k # obj.output
  /\ Has(todo[Connector(k)], "dial") => net[k].status = "none"
  /\ Has(todo[Connector(k)], "start_sender") => todo[Sender(k)] = <<>>
  /\ Has(todo[Connector(k)], "start_receiver") => todo[Receiver(k)] = <<>>

StartInv == \A k \in Sockets : StartOf(k)

\* How the lists change when a thread takes a step.
Moves(t) ==
  /\ \/ \E a \in Inserted(Head(todo[t])) : todo'[t] = a \o Tail(todo[t])
     \/ /\ Head(todo[t]) \in {"reach", "take_input", "take_output"}
        /\ todo'[t] = Cleanup
  /\ \A u \in Threads \ {t} :
       \/ todo'[u] = todo[u]
       \/ /\ Head(todo[t]) = "start_sender" /\ t[1] = "connect"
          /\ u = Sender(t[2]) /\ todo'[u] = <<"send_loop">>
       \/ /\ Head(todo[t]) = "start_receiver" /\ t[1] = "connect"
          /\ u = Receiver(t[2]) /\ todo'[u] = <<"receive_loop">>

LEMMA HasHead ==
  ASSUME NEW s \in Seq(Steps), s # <<>>, NEW x
  PROVE  /\ Tail(s) \in Seq(Steps)
         /\ Has(s, x) <=> Head(s) = x \/ Has(Tail(s), x)
BY LaterTail, TailParts

LEMMA Moved ==
  ASSUME TypeOK, ListInv, NEW t \in Threads, ThreadSteps(t)
  PROVE  /\ todo[t] \in Seq(Steps) /\ todo[t] # <<>> /\ Tail(todo[t]) \in Seq(Steps)
         /\ Moves(t)
<1>0. TodoTypes
  BY Parts
<1>1. todo[t] # <<>> /\ todo[t] \in Seq(Steps)
  BY <1>0, ThreadMoves DEF TodoTypes
<1>2. Tail(todo[t]) \in Seq(Steps)
  BY <1>1, TailParts
<1>3. CASE Pushes(t)
  <2>1. PICK a \in Inserted(Head(todo[t])) : GoesOn(t, a)
    BY <1>3 DEF Pushes
  <2>2. todo' = [todo EXCEPT ![t] = a \o Tail(todo[t])]
    BY <2>1 DEF GoesOn
  <2> QED
    BY <1>0, <1>1, <1>2, <2>1, <2>2 DEF Moves, TodoTypes
<1>4. CASE Abandons(t)
  BY <1>0, <1>1, <1>2, <1>4 DEF Moves, Abandons, ConnectFails, TodoTypes
<1>5. CASE Head(todo[t]) \in {"start_sender", "start_receiver"}
  <2>1. Has(todo[t], Head(todo[t]))
    BY <1>1, HasHead
  <2>2. t[1] = "connect"
    BY <1>5, <2>1 DEF ListInv, OfConnect
  <2>3. /\ t = Connector(t[2]) /\ t[2] \in Sockets
        /\ Sender(t[2]) \in Threads \ {t} /\ Receiver(t[2]) \in Threads \ {t}
    BY <2>2, ThreadKinds
  <2>4. <<>> \o Tail(todo[t]) = Tail(todo[t])
    BY <1>2, ConcatEmptySeq
  <2>5. <<>> \in Inserted(Head(todo[t]))
    BY <1>5 DEF Inserted
  <2>6. CASE Head(todo[t]) = "start_sender"
    <3>1. todo' = [todo EXCEPT ![t] = Tail(@), ![Sender(t[2])] = <<"send_loop">>]
      BY <2>6, ByHead DEF StartSender
    <3>2. /\ todo'[t] = Tail(todo[t]) /\ todo'[Sender(t[2])] = <<"send_loop">>
          /\ \A u \in Threads \ {t, Sender(t[2])} : todo'[u] = todo[u]
      BY <1>0, <2>3, <3>1 DEF TodoTypes
    <3>3. \E a \in Inserted(Head(todo[t])) : todo'[t] = a \o Tail(todo[t])
      BY <2>4, <2>5, <3>2
    <3>4. \A u \in Threads \ {t} : todo'[u] = todo[u]
             \/ (u = Sender(t[2]) /\ todo'[u] = <<"send_loop">>)
      BY <3>2
    <3> QED
      BY <1>1, <1>2, <2>2, <2>6, <3>3, <3>4 DEF Moves
  <2>7. CASE Head(todo[t]) = "start_receiver"
    <3>1. todo' = [todo EXCEPT ![t] = Tail(@), ![Receiver(t[2])] = <<"receive_loop">>]
      BY <2>7, ByHead DEF StartReceiver
    <3>2. /\ todo'[t] = Tail(todo[t]) /\ todo'[Receiver(t[2])] = <<"receive_loop">>
          /\ \A u \in Threads \ {t, Receiver(t[2])} : todo'[u] = todo[u]
      BY <1>0, <2>3, <3>1 DEF TodoTypes
    <3>3. \E a \in Inserted(Head(todo[t])) : todo'[t] = a \o Tail(todo[t])
      BY <2>4, <2>5, <3>2
    <3>4. \A u \in Threads \ {t} : todo'[u] = todo[u]
             \/ (u = Receiver(t[2]) /\ todo'[u] = <<"receive_loop">>)
      BY <3>2
    <3> QED
      BY <1>1, <1>2, <2>2, <2>7, <3>3, <3>4 DEF Moves
  <2> QED
    BY <1>5, <2>6, <2>7
<1>6. StartSender(t) => Head(todo[t]) = "start_sender"
  BY DEF StartSender, At
<1>7. StartReceiver(t) => Head(todo[t]) = "start_receiver"
  BY DEF StartReceiver, At
<1> QED
  BY <1>3, <1>4, <1>5, <1>6, <1>7, ThreadMoves

\* The list of the user's action goes to a thread that has none.
GivenTo(t, a) ==
  /\ todo[t] = <<>> /\ todo'[t] = a
  /\ \A u \in Threads \ {t} : todo'[u] = todo[u] /\ msg'[u] = msg[u]
  /\ UNCHANGED <<obj, monitor, stream, net>>

LEMMA UserMoves ==
  ASSUME TypeOK,
         SurfaceDestroyed \/ SendTouchEvent \/ \E k \in Sockets : SurfaceCreated(k)
  PROVE  \/ GivenTo(Ui, Disconnect) \/ GivenTo(Ui, <<"offer">>)
         \/ \E k \in Sockets : SurfaceCreated(k) /\ GivenTo(Connector(k), Connect)
<1>0. todo \in [Threads -> Seq(Steps)]
  BY Parts DEF TodoTypes
<1>1. Ui \in Threads /\ \A k \in Sockets : Connector(k) \in Threads
  BY ThreadKinds
<1>2. CASE SurfaceDestroyed
  <2>1. Begins(Ui, Disconnect) /\ UNCHANGED msg
    BY <1>2 DEF SurfaceDestroyed
  <2>2. GivenTo(Ui, Disconnect)
    BY <1>0, <1>1, <2>1 DEF Begins, GivenTo
  <2> QED
    BY <2>2
<1>3. CASE SendTouchEvent
  <2>1. Begins(Ui, <<"offer">>) /\ msg' = [msg EXCEPT ![Ui] = touches + 1]
    BY <1>3 DEF SendTouchEvent
  <2>2. \A u \in Threads \ {Ui} : msg'[u] = msg[u]
    BY <1>1, <2>1, Parts DEF LocalTypes
  <2>3. GivenTo(Ui, <<"offer">>)
    BY <1>0, <1>1, <2>1, <2>2 DEF Begins, GivenTo
  <2> QED
    BY <2>3
<1>4. ASSUME NEW k \in Sockets, SurfaceCreated(k)
      PROVE  GivenTo(Connector(k), Connect)
  <2>1. Begins(Connector(k), Connect) /\ ~Begun(k) /\ UNCHANGED msg
    BY <1>4 DEF SurfaceCreated
  <2> QED
    BY <1>0, <1>1, <2>1 DEF Begins, GivenTo, Begun
<1> QED
  BY <1>2, <1>3, <1>4

LEMMA SimpleHas ==
  ASSUME NEW a, Simple(a)
  PROVE  \A x \in OfConnect : ~Has(a, x)
BY DEF Simple, Has

LEMMA ListStep ==
  ASSUME TypeOK, ListInv, NEW t \in Threads, ThreadSteps(t)
  PROVE  ListInv'
<1>1. /\ todo[t] \in Seq(Steps) /\ todo[t] # <<>> /\ Tail(todo[t]) \in Seq(Steps)
      /\ Moves(t)
  BY Moved
<1>2. Ordered(todo[t]) /\ \A x \in OfConnect : Has(todo[t], x) => t[1] = "connect"
  BY DEF ListInv
<1>3. /\ Ordered(Tail(todo[t]))
      /\ Head(todo[t]) \notin Straight /\ Has(Tail(todo[t]), "start_sender")
           => Has(Tail(todo[t]), "dial")
  BY <1>1, <1>2, OrderedHead
<1>4. ASSUME NEW a \in Inserted(Head(todo[t])), todo'[t] = a \o Tail(todo[t])
      PROVE  Ordered(todo'[t]) /\ \A x \in OfConnect : Has(todo'[t], x) => t[1] = "connect"
  <2>1. a \in Seq(Steps) /\ Simple(a) /\ (Head(todo[t]) \in Straight => a = <<>>)
    BY InsertedSimple, ListTypes
  <2>2. Ordered(a \o Tail(todo[t]))
    <3>1. CASE Head(todo[t]) \in Straight
      <4>1. <<>> \o Tail(todo[t]) = Tail(todo[t])
        BY <1>1, ConcatEmptySeq
      <4> QED
        BY <1>3, <2>1, <3>1, <4>1
    <3>2. CASE Head(todo[t]) \notin Straight
      BY <1>1, <1>3, <2>1, <3>2, OrderedPush
    <3> QED
      BY <3>1, <3>2
  <2>3. ASSUME NEW x \in OfConnect, Has(todo'[t], x)
        PROVE  t[1] = "connect"
    <3>1. Has(a \o Tail(todo[t]), x) <=> Has(a, x) \/ Has(Tail(todo[t]), x)
      BY <1>1, <2>1, HasConcat
    <3>2. ~Has(a, x)
      BY <2>1, SimpleHas
    <3>3. Has(todo[t], x)
      BY <1>1, <1>4, <2>3, <3>1, <3>2, HasHead
    <3> QED
      BY <1>2, <3>3
  <2> QED
    BY <1>4, <2>2, <2>3
<1>5. ASSUME NEW s, Simple(s), s \in Seq(Steps)
      PROVE  Ordered(s) /\ \A x \in OfConnect : ~Has(s, x)
  BY <1>5, SimpleOrdered, SimpleHas
<1>6. Simple(Cleanup) /\ Cleanup \in Seq(Steps)
  BY SimpleLists, ListTypes
<1>7. /\ Simple(<<"send_loop">>) /\ <<"send_loop">> \in Seq(Steps)
      /\ Simple(<<"receive_loop">>) /\ <<"receive_loop">> \in Seq(Steps)
  BY SimpleStep, StepNames DEF OfConnect
<1>8. Ordered(todo'[t]) /\ \A x \in OfConnect : Has(todo'[t], x) => t[1] = "connect"
  BY <1>1, <1>4, <1>5, <1>6 DEF Moves
<1>9. ASSUME NEW u \in Threads \ {t}
      PROVE  Ordered(todo'[u]) /\ \A x \in OfConnect : Has(todo'[u], x) => u[1] = "connect"
  <2>1. \/ todo'[u] = todo[u] \/ todo'[u] = <<"send_loop">> \/ todo'[u] = <<"receive_loop">>
    BY <1>1 DEF Moves
  <2>2. CASE todo'[u] = todo[u]
    BY <2>2 DEF ListInv
  <2>3. CASE todo'[u] = <<"send_loop">> \/ todo'[u] = <<"receive_loop">>
    BY <1>5, <1>7, <2>3
  <2> QED
    BY <2>1, <2>2, <2>3
<1> QED
  BY <1>8, <1>9 DEF ListInv

LEMMA ListUser ==
  ASSUME ListInv, NEW t \in Threads, NEW a, GivenTo(t, a),
         \/ a \in Seq(Steps) /\ Simple(a)
         \/ a = Connect /\ t[1] = "connect"
  PROVE  ListInv'
<1>1. Ordered(a) /\ \A x \in OfConnect : Has(a, x) => t[1] = "connect"
  BY SimpleOrdered, SimpleHas, ConnectOrdered
<1>2. ASSUME NEW u \in Threads
      PROVE  Ordered(todo'[u]) /\ \A x \in OfConnect : Has(todo'[u], x) => u[1] = "connect"
  BY <1>1 DEF GivenTo, ListInv
<1> QED
  BY <1>2 DEF ListInv

LEMMA NextList ==
  ASSUME TypeOK, ListInv, [Next]_vars
  PROVE  ListInv'
<1>1. ASSUME NEW t \in Threads, ThreadSteps(t)
      PROVE  ListInv'
  BY <1>1, ListStep
<1>2. CASE SurfaceDestroyed \/ SendTouchEvent \/ \E k \in Sockets : SurfaceCreated(k)
  <2>1. /\ Simple(Disconnect) /\ Disconnect \in Seq(Steps)
        /\ Simple(<<"offer">>) /\ <<"offer">> \in Seq(Steps)
    <3>1. Simple(<<"offer">>) /\ <<"offer">> \in Seq(Steps)
      BY StepNames, SimpleStep DEF OfConnect
    <3>2. Simple(Disconnect) /\ Disconnect \in Seq(Steps)
      BY SimpleLists, ListTypes
    <3> QED
      BY <3>1, <3>2
  <2>2. Ui \in Threads
        /\ \A k \in Sockets : Connector(k) \in Threads /\ Connector(k)[1] = "connect"
    BY ThreadKinds
  <2>3. /\ GivenTo(Ui, Disconnect) => ListInv'
        /\ GivenTo(Ui, <<"offer">>) => ListInv'
    BY <2>1, <2>2, ListUser
  <2>4. ASSUME NEW k \in Sockets, GivenTo(Connector(k), Connect)
        PROVE  ListInv'
    <3>1. Connector(k) \in Threads /\ Connector(k)[1] = "connect"
      BY <2>2
    <3> QED
      BY <2>4, <3>1, ListUser
  <2> QED
    BY <1>2, <2>3, <2>4, UserMoves
<1>3. CASE UNCHANGED todo
  BY <1>3 DEF ListInv
<1>4. ServerStep => UNCHANGED todo
  BY ServerMoves
<1>5. UNCHANGED vars => UNCHANGED todo
  BY DEF vars
<1> QED
  BY <1>1, <1>2, <1>3, <1>4, <1>5 DEF Next, ServerStep

\* What a thread still has to do of connect after a step, it had to do before it.
LEMMA HasAfter ==
  ASSUME TypeOK, ListInv, NEW t \in Threads, ThreadSteps(t), NEW x \in OfConnect
  PROVE  /\ Has(todo'[t], x) => Has(todo[t], x) /\ x \notin Bars(Head(todo[t]))
         /\ Has(todo[t], x) => \/ Head(todo[t]) = x
                               \/ Has(todo'[t], x)
                               \/ /\ todo'[t] = Cleanup
                                  /\ Head(todo[t]) \in {"reach", "take_input", "take_output"}
<1>1. /\ todo[t] \in Seq(Steps) /\ todo[t] # <<>> /\ Tail(todo[t]) \in Seq(Steps)
      /\ Moves(t)
  BY Moved
<1>2. \A y \in Bars(Head(todo[t])) : ~Has(Tail(todo[t]), y)
  BY <1>1, OrderedHead DEF ListInv
<1>3. Has(todo[t], x) <=> Head(todo[t]) = x \/ Has(Tail(todo[t]), x)
  BY <1>1, HasHead
<1>4. ASSUME NEW a \in Inserted(Head(todo[t])), todo'[t] = a \o Tail(todo[t])
      PROVE  Has(todo'[t], x) <=> Has(Tail(todo[t]), x)
  <2>1. a \in Seq(Steps) /\ Simple(a)
    BY InsertedSimple, ListTypes
  <2>2. ~Has(a, x)
    BY <2>1, SimpleHas
  <2>3. Has(a \o Tail(todo[t]), x) <=> Has(a, x) \/ Has(Tail(todo[t]), x)
    BY <1>1, <2>1, HasConcat
  <2> QED
    BY <1>4, <2>2, <2>3
<1>5. ~Has(Cleanup, x)
  BY SimpleLists, SimpleHas
<1>6. CASE \E a \in Inserted(Head(todo[t])) : todo'[t] = a \o Tail(todo[t])
  BY <1>2, <1>3, <1>4, <1>6
<1>7. CASE Head(todo[t]) \in {"reach", "take_input", "take_output"} /\ todo'[t] = Cleanup
  BY <1>5, <1>7
<1> QED
  BY <1>1, <1>6, <1>7 DEF Moves

\* The thread that dials, and the one that starts threads, is a connecting one.
LEMMA ConnectingThread ==
  ASSUME TypeOK, ListInv, NEW t \in Threads, todo[t] # <<>>, Head(todo[t]) \in OfConnect
  PROVE  t = Connector(t[2]) /\ t[2] \in Sockets /\ Has(todo[t], Head(todo[t]))
<1>1. todo[t] \in Seq(Steps)
  BY Parts DEF TodoTypes
<1>2. Has(todo[t], Head(todo[t]))
  BY <1>1, HasHead
<1>3. t[1] = "connect"
  BY <1>2 DEF ListInv
<1> QED
  BY <1>2, <1>3, ThreadKinds

LEMMA WireMoves ==
  ASSUME TypeOK, NEW t \in Threads, ThreadSteps(t), NEW k \in Sockets,
         net'[k].wire # net[k].wire
  PROVE  /\ net[k].status = "open"
         /\ \/ Head(todo[t]) = "header" /\ k = obj.output /\ WriteHeader(t)
            \/ Head(todo[t]) = "payload" /\ k = stream[t] /\ WritePayload(t)
<1>0. NetTypes
  BY Parts
<1>1. net \in [Sockets -> Connections] /\ net[k] \in Connections
  BY <1>0, ConnectionOf DEF NetTypes
<1>2. CASE Head(todo[t]) = "header"
  <2>1. UNCHANGED net \/ WriteHeader(t)
    BY <1>2, ByHead DEF Header, NotWritten, WriteFails, Goes
  <2>2. CASE WriteHeader(t)
    <3>1. /\ net[obj.output].status = "open"
          /\ \E v : net' = [net EXCEPT ![obj.output] = [net[obj.output] EXCEPT !.wire = v]]
      BY <2>2 DEF WriteHeader, Writes
    <3>2. obj.output = k
      BY <1>1, <3>1
    <3> QED
      BY <1>2, <2>2, <3>1, <3>2
  <2> QED
    BY <2>1, <2>2
<1>3. CASE Head(todo[t]) = "payload"
  <2>1. UNCHANGED net \/ WritePayload(t)
    BY <1>3, ByHead DEF Payload, WriteFails, Goes
  <2>2. CASE WritePayload(t)
    <3>1. /\ net[stream[t]].status = "open"
          /\ \E v : net' = [net EXCEPT ![stream[t]] = [net[stream[t]] EXCEPT !.wire = v]]
      BY <2>2 DEF WritePayload, Writes
    <3>2. stream[t] = k
      BY <1>1, <3>1
    <3> QED
      BY <1>3, <2>2, <3>1, <3>2
  <2> QED
    BY <2>1, <2>2
<1>4. CASE Head(todo[t]) \notin {"header", "payload"}
  <2>1. ASSUME NEW j, NEW c, c.wire = net[j].wire, net' = [net EXCEPT ![j] = c]
        PROVE  net'[k].wire = net[k].wire
    BY <1>1, <2>1
  <2>2. \A j \in Sockets : \A v : /\ [net[j] EXCEPT !.status = v].wire = net[j].wire
                                  /\ [net[j] EXCEPT !.inbox = v].wire = net[j].wire
    BY <1>0 DEF NetTypes, Connections
  <2>3. CASE Head(todo[t]) = "close"
    <3>1. net' = [j \in Sockets |->
                    IF j \in ToClose THEN [net[j] EXCEPT !.status = "closed"] ELSE net[j]]
      BY <2>3, ByHead DEF Close
    <3> QED
      BY <2>2, <3>1
  <2>4. CASE Head(todo[t]) = "dial"
    <3>1. net' = [net EXCEPT ![t[2]] = [net[t[2]] EXCEPT !.status = "made"]]
      BY <2>4, ByHead DEF Dial
    <3>2. CASE t[2] = k
      <4>1. [net[k] EXCEPT !.status = "made"].wire = net[k].wire
        BY <2>2
      <4> QED
        BY <1>1, <3>1, <3>2, <4>1
    <3>3. CASE t[2] # k
      BY <1>1, <3>1, <3>3
    <3> QED
      BY <3>2, <3>3
  <2>5. CASE Head(todo[t]) = "reach"
    <3>1. \/ UNCHANGED net
          \/ net' = [net EXCEPT ![obj.socket] = [net[obj.socket] EXCEPT !.status = "open"]]
      BY <2>5, ByHead DEF Reach, Goes, ConnectFails
    <3>2. CASE obj.socket = k
      <4>1. [net[k] EXCEPT !.status = "open"].wire = net[k].wire
        BY <2>2
      <4> QED
        BY <1>1, <3>1, <3>2, <4>1
    <3>3. CASE obj.socket # k
      BY <1>1, <3>1, <3>3
    <3> QED
      BY <3>2, <3>3
  <2>6. CASE Head(todo[t]) = "read"
    <3>1. \/ UNCHANGED net
          \/ \E j \in Sockets : net' = [net EXCEPT ![j] = [net[j] EXCEPT !.inbox = Tail(@)]]
      BY <2>6, ByHead DEF ReadOfNull, ReadFails, Read, Goes
    <3>2. ASSUME NEW j \in Sockets,
                 net' = [net EXCEPT ![j] = [net[j] EXCEPT !.inbox = Tail(net[j].inbox)]]
          PROVE  net'[k].wire = net[k].wire
      BY <2>1, <2>2, <3>2
    <3> QED
      BY <3>1, <3>2
  <2> QED
    BY <1>4, <2>3, <2>4, <2>5, <2>6, Touches
<1> QED
  BY <1>2, <1>3, <1>4

LEMMA StartStep ==
  ASSUME TypeOK, ListInv, StartInv, NEW t \in Threads, ThreadSteps(t), NEW k \in Sockets
  PROVE  StartOf(k)'
<1>1. /\ todo[t] \in Seq(Steps) /\ todo[t] # <<>> /\ Tail(todo[t]) \in Seq(Steps)
      /\ Moves(t)
  BY Moved
<1>2. /\ net[k].status = "none" =>
           /\ todo[Sender(k)] = <<>> /\ todo[Receiver(k)] = <<>>
           /\ todo[Connector(k)] # <<>> => Has(todo[Connector(k)], "dial")
           /\ net[k].wire = <<>>
           /\ k # obj.socket /\ k # obj.input /\ k # obj.output
      /\ Has(todo[Connector(k)], "dial") => net[k].status = "none"
      /\ Has(todo[Connector(k)], "start_sender") => todo[Sender(k)] = <<>>
      /\ Has(todo[Connector(k)], "start_receiver") => todo[Receiver(k)] = <<>>
  BY DEF StartInv, StartOf
<1>3. /\ Connector(k) \in Threads /\ Sender(k) \in Threads /\ Receiver(k) \in Threads
      /\ Connector(k)[2] = k /\ Connector(k) # Sender(k) /\ Connector(k) # Receiver(k)
      /\ Sender(k) # Receiver(k)
  BY ThreadKinds
<1>4. Head(todo[t]) \in OfConnect => t = Connector(t[2]) /\ Has(todo[t], Head(todo[t]))
  BY <1>1, ConnectingThread
<1>n. \A i, j : (Sender(i) = Sender(j) => i = j) /\ (Receiver(i) = Receiver(j) => i = j)
  BY DEF Sender, Receiver
<1>m. \A i, j : Sender(i) # Receiver(j) /\ Sender(i) # Connector(j) /\ Receiver(i) # Connector(j)
  BY DEF Sender, Receiver, Connector
<1>5. ~(Head(todo[t]) = "dial" /\ t[2] = k) /\ net[k].status = "none"
        <=> net'[k].status = "none"
  <2>1. k \in ToClose => net[k].status # "none"
    BY <1>2 DEF ToClose
  <2>2. Head(todo[t]) = "dial" /\ t[2] = k => net'[k].status = "made"
    <3> SUFFICES ASSUME Head(todo[t]) = "dial", t[2] = k
                 PROVE  net'[k].status = "made"
      OBVIOUS
    <3>1. net' = [net EXCEPT ![k] = [net[k] EXCEPT !.status = "made"]]
      BY ByHead DEF Dial
    <3>2. net \in [Sockets -> Connections] /\ net[k] \in Connections
      BY Parts, ConnectionOf DEF NetTypes
    <3> QED
      BY <3>1, <3>2 DEF Connections
  <2>3. CASE net'[k].status = net[k].status
    BY <2>2, <2>3
  <2>4. CASE net'[k].status # net[k].status
    <3>1. \/ Head(todo[t]) = "dial" /\ t[2] = k /\ net'[k].status = "made"
          \/ Head(todo[t]) = "close" /\ k \in ToClose /\ net'[k].status = "closed"
          \/ /\ Head(todo[t]) = "reach" /\ obj.socket = k
             /\ net[k].status = "made" /\ net'[k].status = "open"
      BY <2>4, StatusMoves
    <3> QED
      BY <2>1, <3>1
  <2> QED
    BY <2>3, <2>4
<1>6. Has(todo'[Connector(k)], "dial") => net'[k].status = "none"
  <2> SUFFICES ASSUME Has(todo'[Connector(k)], "dial")
               PROVE  net'[k].status = "none"
    OBVIOUS
  <2>1. CASE t = Connector(k)
    <3>1. Has(todo[t], "dial") /\ "dial" \notin Bars(Head(todo[t]))
      BY <2>1, HasAfter DEF OfConnect
    <3>2. Head(todo[t]) # "dial"
      BY <3>1 DEF Bars
    <3> QED
      BY <1>2, <1>5, <2>1, <3>1, <3>2
  <2>2. CASE t # Connector(k)
    <3>1. todo'[Connector(k)] = todo[Connector(k)]
      BY <1>1, <1>3, <1>m, <2>2 DEF Moves
    <3>2. Head(todo[t]) = "dial" => t[2] # k
      BY <1>4, <2>2 DEF OfConnect
    <3> QED
      BY <1>2, <1>5, <3>1, <3>2
  <2> QED
    BY <2>1, <2>2
<1>7. Has(todo'[Connector(k)], "start_sender") => todo'[Sender(k)] = <<>>
  <2> SUFFICES ASSUME Has(todo'[Connector(k)], "start_sender")
               PROVE  todo'[Sender(k)] = <<>>
    OBVIOUS
  <2>1. /\ Has(todo[Connector(k)], "start_sender")
        /\ Head(todo[t]) = "start_sender" => t # Connector(k)
    <3>1. CASE t = Connector(k)
      <4>1. Has(todo[t], "start_sender") /\ "start_sender" \notin Bars(Head(todo[t]))
        BY <3>1, HasAfter DEF OfConnect
      <4> QED
        BY <3>1, <4>1 DEF Bars
    <3>2. CASE t # Connector(k)
      <4>1. todo'[Connector(k)] = todo[Connector(k)]
        BY <1>1, <1>3, <1>m, <3>2 DEF Moves
      <4> QED
        BY <3>2, <4>1
    <3> QED
      BY <3>1, <3>2
  <2>2. t # Sender(k) /\ todo[Sender(k)] = <<>>
    BY <1>1, <1>2, <2>1
  <2>3. ~(Head(todo[t]) = "start_sender" /\ Sender(k) = Sender(t[2]))
    BY <1>4, <1>n, <2>1 DEF OfConnect
  <2>4. Sender(k) \in Threads \ {t}
    BY <1>3, <2>2
  <2>5. \/ todo'[Sender(k)] = todo[Sender(k)]
        \/ Head(todo[t]) = "start_sender" /\ Sender(k) = Sender(t[2])
        \/ Head(todo[t]) = "start_receiver" /\ Sender(k) = Receiver(t[2])
    BY <1>1, <2>4 DEF Moves
  <2> QED
    BY <1>m, <2>2, <2>3, <2>5
<1>8. Has(todo'[Connector(k)], "start_receiver") => todo'[Receiver(k)] = <<>>
  <2> SUFFICES ASSUME Has(todo'[Connector(k)], "start_receiver")
               PROVE  todo'[Receiver(k)] = <<>>
    OBVIOUS
  <2>1. /\ Has(todo[Connector(k)], "start_receiver")
        /\ Head(todo[t]) = "start_receiver" => t # Connector(k)
    <3>1. CASE t = Connector(k)
      <4>1. Has(todo[t], "start_receiver") /\ "start_receiver" \notin Bars(Head(todo[t]))
        BY <3>1, HasAfter DEF OfConnect
      <4> QED
        BY <3>1, <4>1 DEF Bars
    <3>2. CASE t # Connector(k)
      <4>1. todo'[Connector(k)] = todo[Connector(k)]
        BY <1>1, <1>3, <1>m, <3>2 DEF Moves
      <4> QED
        BY <3>2, <4>1
    <3> QED
      BY <3>1, <3>2
  <2>2. t # Receiver(k) /\ todo[Receiver(k)] = <<>>
    BY <1>1, <1>2, <2>1
  <2>3. ~(Head(todo[t]) = "start_receiver" /\ Receiver(k) = Receiver(t[2]))
    BY <1>4, <1>n, <2>1 DEF OfConnect
  <2>4. Receiver(k) \in Threads \ {t}
    BY <1>3, <2>2
  <2>5. \/ todo'[Receiver(k)] = todo[Receiver(k)]
        \/ Head(todo[t]) = "start_sender" /\ Receiver(k) = Sender(t[2])
        \/ Head(todo[t]) = "start_receiver" /\ Receiver(k) = Receiver(t[2])
    BY <1>1, <2>4 DEF Moves
  <2> QED
    BY <1>m, <2>2, <2>3, <2>5
<1>9. ASSUME net'[k].status = "none"
      PROVE  /\ todo'[Sender(k)] = <<>> /\ todo'[Receiver(k)] = <<>>
             /\ todo'[Connector(k)] # <<>> => Has(todo'[Connector(k)], "dial")
             /\ net'[k].wire = <<>>
             /\ k # obj'.socket /\ k # obj'.input /\ k # obj'.output
  <2>1. net[k].status = "none" /\ ~(Head(todo[t]) = "dial" /\ t[2] = k)
    BY <1>5, <1>9
  <2>2. /\ t # Sender(k) /\ t # Receiver(k)
        /\ todo[Sender(k)] = <<>> /\ todo[Receiver(k)] = <<>>
    BY <1>1, <1>2, <2>1
  <2>3. t = Connector(k) => /\ Has(todo'[t], "dial")
                            /\ Head(todo[t]) \notin {"start_sender", "start_receiver"}
    <3> SUFFICES ASSUME t = Connector(k)
                 PROVE  /\ Has(todo'[t], "dial")
                        /\ Head(todo[t]) \notin {"start_sender", "start_receiver"}
      OBVIOUS
    <3>1. Has(todo[t], "dial") /\ Head(todo[t]) # "dial"
      BY <1>1, <1>2, <1>3, <2>1
    <3>2. \A y \in Bars(Head(todo[t])) : ~Has(Tail(todo[t]), y)
      BY <1>1, OrderedHead DEF ListInv
    <3>3. Has(Tail(todo[t]), "dial")
      BY <1>1, <3>1, HasHead
    <3>4. Head(todo[t]) \notin
            {"start_sender", "start_receiver", "reach", "take_input", "take_output"}
      BY <3>2, <3>3 DEF Bars
    <3>5. Has(todo'[t], "dial")
      BY <3>1, <3>4, HasAfter DEF OfConnect
    <3> QED
      BY <3>4, <3>5
  <2>4. /\ Head(todo[t]) = "start_sender" => t[2] # k
        /\ Head(todo[t]) = "start_receiver" => t[2] # k
    BY <1>4, <2>3 DEF OfConnect
  <2>5. todo'[Sender(k)] = <<>>
    <3>1. Sender(k) \in Threads \ {t}
      BY <1>3, <2>2
    <3>2. \/ todo'[Sender(k)] = todo[Sender(k)]
          \/ Head(todo[t]) = "start_sender" /\ Sender(k) = Sender(t[2])
          \/ Head(todo[t]) = "start_receiver" /\ Sender(k) = Receiver(t[2])
      BY <1>1, <3>1 DEF Moves
    <3> QED
      BY <1>n, <1>m, <2>2, <2>4, <3>2
  <2>6. todo'[Receiver(k)] = <<>>
    <3>1. Receiver(k) \in Threads \ {t}
      BY <1>3, <2>2
    <3>2. \/ todo'[Receiver(k)] = todo[Receiver(k)]
          \/ Head(todo[t]) = "start_sender" /\ Receiver(k) = Sender(t[2])
          \/ Head(todo[t]) = "start_receiver" /\ Receiver(k) = Receiver(t[2])
      BY <1>1, <3>1 DEF Moves
    <3> QED
      BY <1>n, <1>m, <2>2, <2>4, <3>2
  <2>7. todo'[Connector(k)] # <<>> => Has(todo'[Connector(k)], "dial")
    <3>1. CASE t = Connector(k)
      BY <2>3, <3>1
    <3>2. CASE t # Connector(k)
      <4>1. todo'[Connector(k)] = todo[Connector(k)]
        BY <1>1, <1>3, <1>m, <3>2 DEF Moves
      <4> QED
        BY <1>2, <2>1, <4>1
    <3> QED
      BY <3>1, <3>2
  <2>8. net'[k].wire = <<>>
    BY <1>2, <2>1, WireMoves
  <2>9. k # obj'.socket /\ k # obj'.input /\ k # obj'.output
    <3>1. k # obj.socket /\ k # obj.input /\ k # obj.output
      BY <1>2, <2>1
    <3>2. k # Null /\ k # StreamOfNull
      BY DEF Null, StreamOfNull, Sockets
    <3>3. k # StreamOf(obj.socket)
      BY <3>1, <3>2 DEF StreamOf
    <3> QED
      BY <2>1, <3>1, <3>2, <3>3, FieldMoves
  <2> QED
    BY <2>5, <2>6, <2>7, <2>8, <2>9
<1> QED
  BY <1>6, <1>7, <1>8, <1>9 DEF StartOf, Sender, Receiver, Connector

LEMMA StartUser ==
  ASSUME TypeOK, StartInv,
         SurfaceDestroyed \/ SendTouchEvent \/ \E k \in Sockets : SurfaceCreated(k)
  PROVE  StartInv'
<1>1. ASSUME NEW k \in Sockets, NEW j \in Sockets, SurfaceCreated(j),
             GivenTo(Connector(j), Connect)
      PROVE  StartOf(k)'
  <2>1. /\ Connector(k) \in Threads /\ Sender(k) \in Threads /\ Receiver(k) \in Threads
        /\ Connector(j) \in Threads
        /\ Connector(j) # Sender(k) /\ Connector(j) # Receiver(k)
    BY ThreadKinds DEF Connector, Sender, Receiver
  <2>2. /\ todo'[Sender(k)] = todo[Sender(k)] /\ todo'[Receiver(k)] = todo[Receiver(k)]
        /\ Connector(k) # Connector(j) => todo'[Connector(k)] = todo[Connector(k)]
        /\ todo'[Connector(j)] = Connect /\ UNCHANGED <<obj, net>>
    BY <1>1, <2>1 DEF GivenTo
  <2>3. net[j].status = "none" /\ todo[Connector(j)] = <<>>
    BY <1>1 DEF SurfaceCreated, Begun
  <2>4. Has(Connect, "dial")
    BY DEF Has, Connect
  <2>5. StartOf(k) /\ StartOf(j)
    BY DEF StartInv
  <2>6. CASE k = j
    <3>1. /\ todo[Sender(k)] = <<>> /\ todo[Receiver(k)] = <<>> /\ net[k].wire = <<>>
          /\ k # obj.socket /\ k # obj.input /\ k # obj.output
      BY <2>3, <2>5, <2>6 DEF StartOf
    <3> QED
      BY <2>2, <2>3, <2>4, <2>6, <3>1 DEF StartOf, Sender, Receiver, Connector
  <2>7. CASE k # j
    <3>1. Connector(k) # Connector(j)
      BY <2>7 DEF Connector
    <3> QED
      BY <2>2, <2>5, <3>1 DEF StartOf, Sender, Receiver, Connector
  <2> QED
    BY <2>6, <2>7
<1>2. ASSUME NEW k \in Sockets, NEW a, GivenTo(Ui, a)
      PROVE  StartOf(k)'
  <2>1. /\ Connector(k) \in Threads \ {Ui} /\ Sender(k) \in Threads \ {Ui}
        /\ Receiver(k) \in Threads \ {Ui}
    BY ThreadKinds
  <2>2. /\ todo'[Sender(k)] = todo[Sender(k)] /\ todo'[Receiver(k)] = todo[Receiver(k)]
        /\ todo'[Connector(k)] = todo[Connector(k)] /\ UNCHANGED <<obj, net>>
    BY <1>2, <2>1 DEF GivenTo
  <2>3. StartOf(k)
    BY DEF StartInv
  <2> QED
    BY <2>2, <2>3 DEF StartOf, Sender, Receiver, Connector
<1>3. \A k \in Sockets : StartOf(k)'
  BY <1>1, <1>2, UserMoves
<1> QED
  BY <1>3 DEF StartInv

LEMMA NextStart ==
  ASSUME TypeOK, ListInv, StartInv, [Next]_vars
  PROVE  StartInv'
<1>1. ASSUME NEW t \in Threads, ThreadSteps(t)
      PROVE  StartInv'
  <2>1. \A k \in Sockets : StartOf(k)'
    BY <1>1, StartStep
  <2> QED
    BY <2>1 DEF StartInv
<1>2. CASE SurfaceDestroyed \/ SendTouchEvent \/ \E k \in Sockets : SurfaceCreated(k)
  BY <1>2, StartUser
<1>3. CASE ServerStep
  <2>1. /\ UNCHANGED <<obj, todo>>
        /\ \A j \in Sockets : net'[j].status = net[j].status /\ net'[j].wire = net[j].wire
    BY <1>3, ServerMoves
  <2> QED
    BY <2>1 DEF StartInv, StartOf, Sender, Receiver, Connector
<1>4. CASE UNCHANGED vars
  BY <1>4 DEF vars, StartInv, StartOf, Sender, Receiver, Connector
<1> QED
  BY <1>1, <1>2, <1>3, <1>4 DEF Next, ServerStep

LEMMA InitStart == Init => ListInv /\ StartInv
<1> SUFFICES ASSUME Init
             PROVE  ListInv /\ StartInv
  OBVIOUS
<1>1. /\ \A t \in Threads : todo[t] = <<>>
      /\ obj.socket = Null /\ obj.input = Null /\ obj.output = Null
      /\ \A k \in Sockets : net[k].wire = <<>>
      /\ \A k \in Sockets : net[k].status = "none"
  BY DEF Init, NoFields, NoConnection
<1>2. Ordered(<<>>) /\ \A x : ~Has(<<>>, x)
  BY DEF Ordered, Has
<1>3. ListInv
  BY <1>1, <1>2 DEF ListInv
<1>4. ASSUME NEW k \in Sockets
      PROVE  StartOf(k)
  <2>1. k # Null
    BY DEF Null, Sockets
  <2>2. todo[Sender(k)] = <<>> /\ todo[Receiver(k)] = <<>> /\ todo[Connector(k)] = <<>>
    BY <1>1, ThreadKinds
  <2> QED
    BY <1>1, <1>2, <2>1, <2>2 DEF StartOf
<1> QED
  BY <1>3, <1>4 DEF StartInv

-----------------------------------------------------------------------------
(* Who holds the monitor *)

OfCleanup == {"stop", "clear_queue", "close", "forget", "interrupt"}

\* A thread with the monitor writes, or it cleans up after it could not; then it leaves.
HeldAs(s, p, r) ==
  /\ p \in Seq(Steps) /\ r \in Seq(Steps)
  /\ p \in Seq(OfCleanup) \/ p = <<"header">> \/ p = <<"payload">>
  /\ Clean(r)
  /\ s = p \o (<<"unlock">> \o r)

Held(s) == \E p, r : HeldAs(s, p, r)

MonitorInv ==
  \A t \in Threads : /\ monitor = t => Held(todo[t])
                     /\ monitor # t => Clean(todo[t])

LEMMA HeadOfConcat ==
  ASSUME NEW p \in Seq(Steps), NEW q \in Seq(Steps), p # <<>>
  PROVE  p \o q # <<>> /\ Head(p \o q) = Head(p) /\ Tail(p \o q) = Tail(p) \o q
<1> DEFINE s == p \o q
           h == Tail(p) \o q
           m == Len(p)
           n == Len(q)
<1>1. /\ s \in Seq(Steps) /\ m \in Nat /\ n \in Nat /\ Len(s) = m + n
      /\ \A i \in 1 .. m : s[i] = p[i]
      /\ \A i \in 1 .. n : s[m + i] = q[i]
  BY ConcatParts
<1>2. /\ Tail(p) \in Seq(Steps) /\ Head(p) = p[1] /\ m \in Nat \ {0} /\ Len(Tail(p)) = m - 1
      /\ \A i \in 1 .. m - 1 : Tail(p)[i] = p[i + 1]
  BY TailParts
<1>3. s # <<>>
  BY <1>1, <1>2
<1>4. /\ Tail(s) \in Seq(Steps) /\ Head(s) = s[1] /\ Len(Tail(s)) = Len(s) - 1
      /\ \A i \in 1 .. Len(s) - 1 : Tail(s)[i] = s[i + 1]
  BY <1>1, <1>3, TailParts
<1>5. /\ h \in Seq(Steps) /\ Len(h) = (m - 1) + n
      /\ \A i \in 1 .. m - 1 : h[i] = Tail(p)[i]
      /\ \A i \in 1 .. n : h[(m - 1) + i] = q[i]
  BY <1>2, ConcatParts
<1> HIDE DEF s, h, m, n
<1>6. Head(s) = Head(p)
  BY <1>1, <1>2, <1>4
<1>7. ASSUME NEW i \in 1 .. (m - 1) + n
      PROVE  Tail(s)[i] = h[i]
  <2>1. Tail(s)[i] = s[i + 1]
    BY <1>1, <1>2, <1>4
  <2>2. CASE i <= m - 1
    BY <1>1, <1>2, <1>5, <2>1, <2>2
  <2>3. CASE ~(i <= m - 1)
    <3>1. i - (m - 1) \in 1 .. n
      BY <1>1, <1>2, <2>3
    <3>2. PICK j \in 1 .. n : j = i - (m - 1)
      BY <3>1
    <3>3. (m - 1) + j = i /\ m + j = i + 1
      BY <1>1, <3>2
    <3>4. h[(m - 1) + j] = q[j] /\ s[m + j] = q[j]
      BY <1>1, <1>5
    <3> QED
      BY <2>1, <3>3, <3>4
  <2> QED
    BY <1>2, <2>2, <2>3
<1>8. Len(Tail(s)) = Len(h) /\ Len(h) = (m - 1) + n
  BY <1>1, <1>2, <1>4, <1>5
<1>9. Tail(s) = h
  BY <1>4, <1>5, <1>7, <1>8, SeqEqual
<1> QED
  BY <1>3, <1>6, <1>9 DEF s, h

LEMMA UnlockList ==
  ASSUME NEW r \in Seq(Steps)
  PROVE  /\ <<"unlock">> \o r \in Seq(Steps) /\ <<"unlock">> \o r # <<>>
         /\ Head(<<"unlock">> \o r) = "unlock" /\ Tail(<<"unlock">> \o r) = r
<1>1. /\ <<"unlock">> \in Seq(Steps) /\ <<"unlock">> # <<>>
      /\ Head(<<"unlock">>) = "unlock" /\ Tail(<<"unlock">>) = <<>>
  BY StepNames
<1>2. <<"unlock">> \o r \in Seq(Steps)
  BY <1>1
<1>3. /\ <<"unlock">> \o r # <<>> /\ Head(<<"unlock">> \o r) = Head(<<"unlock">>)
      /\ Tail(<<"unlock">> \o r) = Tail(<<"unlock">>) \o r
  BY <1>1, HeadOfConcat
<1>4. <<>> \o r = r
  BY ConcatEmptySeq
<1> QED
  BY <1>1, <1>2, <1>3, <1>4

\* How a list goes on whose thread holds the monitor.
LEMMA HeldHead ==
  ASSUME NEW s, NEW p, NEW r, HeldAs(s, p, r)
  PROVE  /\ s \in Seq(Steps) /\ s # <<>>
         /\ p = <<>> => Head(s) = "unlock" /\ Tail(s) = r
         /\ p # <<>> => /\ Head(s) = Head(p) /\ Head(s) \in OfCleanup \cup {"header", "payload"}
                        /\ Tail(s) = Tail(p) \o (<<"unlock">> \o r)
                        /\ Tail(p) \in Seq(Steps) /\ Tail(p) \in Seq(OfCleanup)
                        /\ Head(s) \in {"header", "payload"} => Tail(p) = <<>>
<1> DEFINE u == <<"unlock">> \o r
<1>1. /\ p \in Seq(Steps) /\ r \in Seq(Steps) /\ s = p \o u
      /\ p \in Seq(OfCleanup) \/ p = <<"header">> \/ p = <<"payload">>
  BY DEF HeldAs
<1>2. u \in Seq(Steps) /\ u # <<>> /\ Head(u) = "unlock" /\ Tail(u) = r
  BY <1>1, UnlockList
<1> HIDE DEF u
<1>3. s \in Seq(Steps)
  BY <1>1, <1>2
<1>4. CASE p = <<>>
  <2>1. s = u
    BY <1>1, <1>2, <1>4, ConcatEmptySeq
  <2> QED
    BY <1>2, <1>3, <1>4, <2>1
<1>5. CASE p # <<>>
  <2>1. s # <<>> /\ Head(s) = Head(p) /\ Tail(s) = Tail(p) \o u
    BY <1>1, <1>2, <1>5, HeadOfConcat
  <2>2. /\ Head(p) \in OfCleanup \cup {"header", "payload"}
        /\ Tail(p) \in Seq(OfCleanup) /\ Tail(p) \in Seq(Steps)
        /\ Head(p) \in {"header", "payload"} => Tail(p) = <<>>
    <3>1. CASE p \in Seq(OfCleanup)
      <4>1. Head(p) \in OfCleanup /\ Tail(p) \in Seq(OfCleanup) /\ Tail(p) \in Seq(Steps)
        BY <1>1, <1>5, <3>1
      <4> QED
        BY <4>1 DEF OfCleanup
    <3>2. CASE p = <<"header">> \/ p = <<"payload">>
      <4>a. /\ Head(<<"header">>) = "header" /\ Tail(<<"header">>) = <<>>
            /\ Head(<<"payload">>) = "payload" /\ Tail(<<"payload">>) = <<>>
        OBVIOUS
      <4>1. Head(p) \in {"header", "payload"} /\ Tail(p) = <<>>
        BY <3>2, <4>a, Zenon
      <4>2. <<>> \in Seq(OfCleanup) /\ <<>> \in Seq(Steps)
        OBVIOUS
      <4>3. Tail(p) \in Seq(OfCleanup) /\ Tail(p) \in Seq(Steps)
        BY <4>1, <4>2, Zenon
      <4>4. Head(p) \in OfCleanup \cup {"header", "payload"}
        BY <4>1
      <4> QED
        BY <4>1, <4>3, <4>4, Zenon
    <3> QED
      BY <1>1, <3>1, <3>2
  <2> QED
    BY <1>3, <1>5, <2>1, <2>2 DEF u
<1> QED
  BY <1>4, <1>5

LEMMA CleanupHeld ==
  /\ HandleDisconnect \in Seq(OfCleanup) /\ Has(HandleDisconnect, "close")
  /\ OfCleanup \subseteq Steps
<1>1. Cleanup \in Seq(OfCleanup) /\ <<"stop">> \in Seq(OfCleanup)
  BY DEF Cleanup, OfCleanup
<1>2. HandleDisconnect \in Seq(OfCleanup)
  BY <1>1 DEF HandleDisconnect
<1>3. Has(Cleanup, "close")
  BY DEF Has, Cleanup
<1>4. Has(<<"stop">> \o Cleanup, "close")
  <2>1. <<"stop">> \in Seq(Steps) /\ Cleanup \in Seq(Steps)
    BY ListTypes, StepNames
  <2> QED
    BY <1>3, <2>1, HasConcat
<1>5. OfCleanup \subseteq Steps
  BY StepNames DEF OfCleanup
<1> QED
  BY <1>2, <1>4, <1>5 DEF HandleDisconnect

\* Until it leaves, a thread with the monitor keeps it.
LEMMA HeldGoes ==
  ASSUME NEW s, NEW p, NEW r, HeldAs(s, p, r), p # <<>>, NEW a \in Inserted(Head(s))
  PROVE  /\ HeldAs(a \o Tail(s), a \o Tail(p), r)
         /\ Head(s) \in OfCleanup => a = <<>> /\ a \o Tail(p) = Tail(p)
         /\ Head(s) \in {"header", "payload"} => a \o Tail(p) = a
<1>1. /\ Head(s) = Head(p) /\ Head(s) \in OfCleanup \cup {"header", "payload"}
      /\ Tail(s) = Tail(p) \o (<<"unlock">> \o r)
      /\ Tail(p) \in Seq(Steps) /\ Tail(p) \in Seq(OfCleanup)
      /\ Head(s) \in {"header", "payload"} => Tail(p) = <<>>
  BY HeldHead
<1>2. r \in Seq(Steps) /\ Clean(r)
  BY DEF HeldAs
<1>3. <<"unlock">> \o r \in Seq(Steps)
  BY <1>2, UnlockList
<1>4. a \in Seq(Steps)
  BY ListTypes
<1>5. /\ Head(s) \in OfCleanup => a = <<>>
      /\ a \in {<<>>, <<"payload">>, HandleDisconnect}
  BY <1>1 DEF Inserted, OfCleanup
<1>6. a \o Tail(s) = (a \o Tail(p)) \o (<<"unlock">> \o r)
  <2>1. ASSUME NEW b \in Seq(Steps), NEW c \in Seq(Steps), NEW d \in Seq(Steps)
        PROVE  (b \o c) \o d = b \o (c \o d)
    BY ConcatAssociative
  <2>2. (a \o Tail(p)) \o (<<"unlock">> \o r) = a \o (Tail(p) \o (<<"unlock">> \o r))
    BY <1>1, <1>3, <1>4, <2>1, Zenon
  <2> QED
    BY <1>1, <2>2, Zenon
<1>7. a \o Tail(p) \in Seq(Steps)
  BY <1>1, <1>4
<1>e. <<>> \o Tail(p) = Tail(p) /\ a \o <<>> = a
  BY <1>1, <1>4, ConcatEmptySeq
<1>8. Head(s) \in OfCleanup => a \o Tail(p) = Tail(p)
  <2> SUFFICES ASSUME Head(s) \in OfCleanup
               PROVE  a \o Tail(p) = Tail(p)
    OBVIOUS
  <2>1. a = <<>>
    BY <1>5
  <2> QED
    BY <1>e, <2>1, Zenon
<1>9. Head(s) \in {"header", "payload"} => a \o Tail(p) = a
  BY <1>1, <1>e
<1>10. a \o Tail(p) \in Seq(OfCleanup) \/ a \o Tail(p) = <<"payload">>
  <2>1. CASE Head(s) \in OfCleanup
    BY <1>1, <1>8, <2>1
  <2>2. CASE Head(s) \in {"header", "payload"}
    <3>1. a \o Tail(p) = a
      BY <1>9, <2>2
    <3>2. <<>> \in Seq(OfCleanup) /\ HandleDisconnect \in Seq(OfCleanup)
      BY CleanupHeld
    <3> QED
      BY <1>5, <3>1, <3>2
  <2> QED
    BY <1>1, <2>1, <2>2
<1> QED
  BY <1>2, <1>5, <1>6, <1>7, <1>8, <1>9, <1>10 DEF HeldAs

LEMMA MonitorMoves ==
  ASSUME NEW t \in Threads, ThreadSteps(t)
  PROVE  /\ Head(todo[t]) = "lock" => monitor = NoThread /\ monitor' = t
         /\ Head(todo[t]) = "unlock" => monitor' = NoThread
         /\ Head(todo[t]) \notin {"lock", "unlock"} => monitor' = monitor
<1>1. Head(todo[t]) = "lock" => monitor = NoThread /\ monitor' = t
  BY ByHead DEF Lock, Free
<1>2. Head(todo[t]) = "unlock" => monitor' = NoThread
  BY ByHead DEF Unlock
<1> QED
  BY <1>1, <1>2, Touches

\* The thread that has the monitor takes a step.
LEMMA HolderStep ==
  ASSUME TypeOK, ListInv, MonitorInv, NEW t \in Threads, ThreadSteps(t), monitor = t
  PROVE  /\ Head(todo[t]) \in OfCleanup \cup {"header", "payload", "unlock"}
         /\ Head(todo[t]) = "unlock" => monitor' = NoThread /\ Clean(todo'[t])
         /\ Head(todo[t]) # "unlock" =>
              /\ monitor' = t
              /\ \A p, r : HeldAs(todo[t], p, r) =>
                   \E q : /\ HeldAs(todo'[t], q, r)
                          /\ Head(todo[t]) \in OfCleanup => q = Tail(p)
                          /\ Head(todo[t]) \in {"header", "payload"}
                               => q \in Inserted(Head(todo[t])) /\ todo'[t] = q \o Tail(todo[t])
<1>1. /\ todo[t] \in Seq(Steps) /\ todo[t] # <<>> /\ Tail(todo[t]) \in Seq(Steps)
      /\ Moves(t)
  BY Moved
<1>2. Held(todo[t])
  BY DEF MonitorInv
<1>3. ASSUME NEW p, NEW r, HeldAs(todo[t], p, r)
      PROVE  /\ Head(todo[t]) \in OfCleanup \cup {"header", "payload", "unlock"}
             /\ Head(todo[t]) = "unlock" => p = <<>> /\ Tail(todo[t]) = r /\ Clean(r)
             /\ Head(todo[t]) # "unlock" => p # <<>>
  <2>1. /\ p = <<>> => Head(todo[t]) = "unlock" /\ Tail(todo[t]) = r
        /\ p # <<>> => Head(todo[t]) \in OfCleanup \cup {"header", "payload"}
    BY <1>3, HeldHead
  <2>2. Clean(r)
    BY <1>3 DEF HeldAs
  <2> QED
    BY <2>1, <2>2 DEF OfCleanup
<1>4. Head(todo[t]) \in OfCleanup \cup {"header", "payload", "unlock"}
  BY <1>2, <1>3 DEF Held
<1>5. PICK a \in Inserted(Head(todo[t])) : todo'[t] = a \o Tail(todo[t])
  BY <1>1, <1>4 DEF Moves, OfCleanup
<1>6. ASSUME Head(todo[t]) = "unlock"
      PROVE  monitor' = NoThread /\ Clean(todo'[t])
  <2>1. Clean(Tail(todo[t]))
    BY <1>2, <1>3, <1>6 DEF Held
  <2>2. a = <<>>
    BY <1>5, <1>6 DEF Inserted
  <2>3. <<>> \o Tail(todo[t]) = Tail(todo[t])
    BY <1>1, ConcatEmptySeq
  <2>4. todo'[t] = Tail(todo[t])
    BY <1>5, <2>2, <2>3
  <2> QED
    BY <1>6, <2>1, <2>4, MonitorMoves
<1>7. ASSUME Head(todo[t]) # "unlock"
      PROVE  monitor' = t
  BY <1>4, <1>7, MonitorMoves DEF OfCleanup
<1>8. ASSUME Head(todo[t]) # "unlock", NEW p, NEW r, HeldAs(todo[t], p, r)
      PROVE  \E q : /\ HeldAs(todo'[t], q, r)
                    /\ Head(todo[t]) \in OfCleanup => q = Tail(p)
                    /\ Head(todo[t]) \in {"header", "payload"}
                         => q \in Inserted(Head(todo[t])) /\ todo'[t] = q \o Tail(todo[t])
  <2>1. p # <<>>
    BY <1>3, <1>8
  <2>2. /\ HeldAs(a \o Tail(todo[t]), a \o Tail(p), r)
        /\ Head(todo[t]) \in OfCleanup => a = <<>> /\ a \o Tail(p) = Tail(p)
        /\ Head(todo[t]) \in {"header", "payload"} => a \o Tail(p) = a
    BY <1>5, <1>8, <2>1, HeldGoes
  <2>3. HeldAs(todo'[t], a \o Tail(p), r)
    BY <1>5, <2>2
  <2> QED
    BY <1>5, <2>2, <2>3, Zenon
<1> QED
  BY <1>4, <1>6, <1>7, <1>8

\* A thread without the monitor takes a step.
LEMMA OutsiderStep ==
  ASSUME TypeOK, ListInv, MonitorInv, NEW t \in Threads, ThreadSteps(t), monitor # t
  PROVE  /\ Head(todo[t]) \notin {"header", "payload", "unlock"}
         /\ Head(todo[t]) = "lock" => monitor = NoThread /\ monitor' = t /\ Held(todo'[t])
         /\ Head(todo[t]) # "lock" => monitor' = monitor /\ Clean(todo'[t])
<1>1. /\ todo[t] \in Seq(Steps) /\ todo[t] # <<>> /\ Tail(todo[t]) \in Seq(Steps)
      /\ Moves(t)
  BY Moved
<1>2. Clean(todo[t])
  BY DEF MonitorInv
<1>3. Head(todo[t]) # "lock" => /\ Clean(Tail(todo[t]))
                                /\ Head(todo[t]) \notin {"header", "payload", "unlock"}
  BY <1>1, <1>2, CleanTail
<1>4. ASSUME Head(todo[t]) = "lock"
      PROVE  Held(todo'[t])
  <2>1. PICK r \in Seq(Steps) : Clean(r) /\ Tail(todo[t]) = <<"header">> \o (<<"unlock">> \o r)
    BY <1>1, <1>2, <1>4, CleanLock
  <2>2. <<"header">> \in Seq(Steps)
    BY StepNames
  <2>3. todo'[t] = Tail(todo[t])
    <3>1. PICK a \in Inserted(Head(todo[t])) : todo'[t] = a \o Tail(todo[t])
      BY <1>1, <1>4 DEF Moves
    <3>2. a = <<>>
      BY <1>4, <3>1 DEF Inserted
    <3>3. <<>> \o Tail(todo[t]) = Tail(todo[t])
      BY <1>1, ConcatEmptySeq
    <3> QED
      BY <3>1, <3>2, <3>3
  <2>4. HeldAs(todo'[t], <<"header">>, r)
    BY <2>1, <2>2, <2>3, Zenon DEF HeldAs
  <2> QED
    BY <2>4 DEF Held
<1>5. ASSUME Head(todo[t]) # "lock"
      PROVE  Clean(todo'[t])
  <2>1. CASE \E a \in Inserted(Head(todo[t])) : todo'[t] = a \o Tail(todo[t])
    <3>1. PICK a \in Inserted(Head(todo[t])) : todo'[t] = a \o Tail(todo[t])
      BY <2>1
    <3>2. a \in Seq(Steps) /\ Clean(a)
      <4>1. Head(todo[t]) \notin {"header", "payload"}
        BY <1>3, <1>5
      <4> QED
        BY <4>1, InsertedClean, ListTypes
    <3>3. Clean(a \o Tail(todo[t]))
      BY <1>1, <1>3, <1>5, <3>2, CleanConcat
    <3> QED
      BY <3>1, <3>3
  <2>2. CASE todo'[t] = Cleanup
    BY <2>2, CleanLists
  <2> QED
    BY <1>1, <2>1, <2>2 DEF Moves
<1>6. Head(todo[t]) # "lock" => monitor' = monitor
  BY <1>3, MonitorMoves
<1> QED
  BY <1>3, <1>4, <1>5, <1>6, MonitorMoves

LEMMA MonitorStep ==
  ASSUME TypeOK, ListInv, StartInv, MonitorInv, NEW t \in Threads, ThreadSteps(t)
  PROVE  MonitorInv'
<1>1. /\ todo[t] \in Seq(Steps) /\ todo[t] # <<>> /\ Moves(t)
  BY Moved
<1>2. NoThread \notin Threads
  BY ThreadKinds
<1>3. /\ monitor' = t => Held(todo'[t])
      /\ monitor' # t => Clean(todo'[t])
      /\ monitor' = monitor \/ (monitor' = t /\ monitor = NoThread)
           \/ (monitor' = NoThread /\ monitor = t)
  <2>1. CASE monitor = t
    <3>1. Held(todo[t])
      BY <2>1 DEF MonitorInv
    <3> QED
      BY <1>2, <2>1, <3>1, HolderStep DEF Held
  <2>2. CASE monitor # t
    BY <2>2, OutsiderStep
  <2> QED
    BY <2>1, <2>2
<1>4. ASSUME NEW u \in Threads \ {t}
      PROVE  /\ monitor' = u => Held(todo'[u])
             /\ monitor' # u => Clean(todo'[u])
  <2>1. monitor' = u <=> monitor = u
    BY <1>2, <1>3
  <2>2. CASE todo'[u] = todo[u]
    BY <2>1, <2>2 DEF MonitorInv
  <2>3. CASE todo'[u] # todo[u]
    <3>1. \/ /\ Head(todo[t]) = "start_sender" /\ t[1] = "connect"
             /\ u = Sender(t[2]) /\ todo'[u] = <<"send_loop">>
          \/ /\ Head(todo[t]) = "start_receiver" /\ t[1] = "connect"
             /\ u = Receiver(t[2]) /\ todo'[u] = <<"receive_loop">>
      BY <1>1, <2>3 DEF Moves
    <3>2. t = Connector(t[2]) /\ t[2] \in Sockets /\ Has(todo[t], Head(todo[t]))
      BY <1>1, <3>1, ConnectingThread DEF OfConnect
    <3>3. todo[u] = <<>>
      <4>1. StartOf(t[2])
        BY <3>2 DEF StartInv
      <4>2. /\ Has(todo[t], "start_sender") => todo[Sender(t[2])] = <<>>
            /\ Has(todo[t], "start_receiver") => todo[Receiver(t[2])] = <<>>
        BY <3>2, <4>1 DEF StartOf
      <4> QED
        BY <3>1, <3>2, <4>2
    <3>4. monitor # u
      <4>1. ~Held(<<>>)
        BY HeldHead DEF Held
      <4> QED
        BY <3>3, <4>1 DEF MonitorInv
    <3>5. Clean(<<"send_loop">>) /\ Clean(<<"receive_loop">>)
      BY CleanLists
    <3> QED
      BY <2>1, <3>1, <3>4, <3>5
  <2> QED
    BY <2>2, <2>3
<1> QED
  BY <1>3, <1>4 DEF MonitorInv

LEMMA NextMonitor ==
  ASSUME TypeOK, ListInv, StartInv, MonitorInv, [Next]_vars
  PROVE  MonitorInv'
<1>1. ASSUME NEW t \in Threads, ThreadSteps(t)
      PROVE  MonitorInv'
  BY <1>1, MonitorStep
<1>2. CASE SurfaceDestroyed \/ SendTouchEvent \/ \E k \in Sockets : SurfaceCreated(k)
  <2>1. ASSUME NEW t \in Threads, NEW a, GivenTo(t, a), Clean(a)
        PROVE  MonitorInv'
    <3>1. ~Held(<<>>)
      BY HeldHead DEF Held
    <3>2. monitor # t
      BY <2>1, <3>1 DEF GivenTo, MonitorInv
    <3> QED
      BY <2>1, <3>2 DEF GivenTo, MonitorInv
  <2>2. Clean(Disconnect) /\ Clean(<<"offer">>) /\ Clean(Connect)
    BY CleanLists
  <2>3. Ui \in Threads /\ \A k \in Sockets : Connector(k) \in Threads
    BY ThreadKinds
  <2> QED
    BY <1>2, <2>1, <2>2, <2>3, UserMoves
<1>3. CASE UNCHANGED <<todo, monitor>>
  BY <1>3 DEF MonitorInv
<1>4. ServerStep => UNCHANGED <<todo, monitor>>
  BY ServerMoves
<1>5. UNCHANGED vars => UNCHANGED <<todo, monitor>>
  BY DEF vars
<1> QED
  BY <1>1, <1>2, <1>3, <1>4, <1>5 DEF Next, ServerStep

LEMMA InitMonitor == Init => MonitorInv
<1> SUFFICES ASSUME Init
             PROVE  MonitorInv
  OBVIOUS
<1>1. monitor = NoThread /\ \A t \in Threads : todo[t] = <<>>
  BY DEF Init
<1> QED
  BY <1>1, CleanLists, ThreadKinds DEF MonitorInv

-----------------------------------------------------------------------------
(* What is on the wire *)

\* A wire holds whole messages, numbered from below s and growing.
WireOK(w, s) ==
  \A i \in 1 .. Len(w) :
    /\ w[i][1] # "header" => i > 1 /\ w[i - 1][1] = "header" /\ w[i - 1][2] = w[i][2]
    /\ w[i][1] = "header" /\ HasPayload(w[i][2]) /\ i < Len(w) => w[i + 1][1] # "header"
    /\ w[i][1] = "header" => w[i][3] < s
    /\ \A j \in 1 .. i - 1 : w[i][1] = "header" /\ w[j][1] = "header" => w[j][3] < w[i][3]

\* A wire whose last message has yet to get its payload.
LacksPayload(w) == w # <<>> /\ w[Len(w)][1] = "header" /\ HasPayload(w[Len(w)][2])

Unfinished(k) == LacksPayload(net[k].wire)

LEMMA AppendParts ==
  ASSUME NEW w \in Seq(Chunks), NEW c \in Chunks
  PROVE  /\ Len(w) \in Nat /\ (w = <<>> <=> Len(w) = 0)
         /\ Append(w, c) \in Seq(Chunks) /\ Len(Append(w, c)) = Len(w) + 1
         /\ Append(w, c)[Len(w) + 1] = c
         /\ \A i \in 1 .. Len(w) : Append(w, c)[i] = w[i] /\ w[i] \in Chunks
OBVIOUS

LEMMA ChunkParts ==
  ASSUME NEW c \in Chunks
  PROVE  c[1] \in {"header", "payload"} /\ c[2] \in Messages /\ c[3] \in Nat
BY DEF Chunks

LEMMA WireLater ==
  ASSUME NEW w \in Seq(Chunks), NEW s \in Nat, NEW u \in Nat, s <= u, WireOK(w, s)
  PROVE  WireOK(w, u)
<1>1. \A i \in 1 .. Len(w) : w[i][3] \in Nat
  BY ChunkParts
<1> QED
  BY <1>1 DEF WireOK

LEMMA WireHeader ==
  ASSUME NEW w \in Seq(Chunks), NEW s \in Nat, NEW m \in Messages, WireOK(w, s),
         ~LacksPayload(w)
  PROVE  WireOK(Append(w, <<"header", m, s>>), s + 1)
<1> DEFINE c == <<"header", m, s>>
           v == Append(w, c)
           n == Len(w)
<1>1. c \in Chunks /\ c[1] = "header" /\ c[2] = m /\ c[3] = s
  BY DEF Chunks
<1>2. /\ n \in Nat /\ (w = <<>> <=> n = 0) /\ Len(v) = n + 1 /\ v[n + 1] = c
      /\ \A i \in 1 .. n : v[i] = w[i] /\ w[i] \in Chunks
  BY <1>1, AppendParts
<1>3. \A i \in 1 .. n :
        /\ w[i][1] # "header" => i > 1 /\ w[i - 1][1] = "header" /\ w[i - 1][2] = w[i][2]
        /\ w[i][1] = "header" /\ HasPayload(w[i][2]) /\ i < n => w[i + 1][1] # "header"
        /\ w[i][1] = "header" => w[i][3] < s
        /\ \A j \in 1 .. i - 1 : w[i][1] = "header" /\ w[j][1] = "header" => w[j][3] < w[i][3]
  BY DEF WireOK
<1>4. n > 0 => ~(w[n][1] = "header" /\ HasPayload(w[n][2]))
  BY <1>2 DEF LacksPayload
<1> HIDE DEF c, v, n
<1>5. ASSUME NEW i \in 1 .. n
      PROVE  /\ v[i][1] # "header" => i > 1 /\ v[i - 1][1] = "header" /\ v[i - 1][2] = v[i][2]
             /\ v[i][1] = "header" /\ HasPayload(v[i][2]) /\ i < n + 1 => v[i + 1][1] # "header"
             /\ v[i][1] = "header" => v[i][3] < s + 1
             /\ \A j \in 1 .. i - 1 :
                  v[i][1] = "header" /\ v[j][1] = "header" => v[j][3] < v[i][3]
  <2>1. v[i] = w[i] /\ \A j \in 1 .. i - 1 : v[j] = w[j]
    BY <1>2
  <2>2. v[i][1] # "header" => i > 1 /\ v[i - 1][1] = "header" /\ v[i - 1][2] = v[i][2]
    <3> SUFFICES ASSUME v[i][1] # "header"
                 PROVE  i > 1 /\ v[i - 1][1] = "header" /\ v[i - 1][2] = v[i][2]
      OBVIOUS
    <3>1. i > 1 /\ w[i - 1][1] = "header" /\ w[i - 1][2] = w[i][2]
      BY <1>3, <2>1
    <3>2. i - 1 \in 1 .. i - 1
      BY <3>1
    <3> QED
      BY <2>1, <3>1, <3>2
  <2>3. v[i][1] = "header" /\ HasPayload(v[i][2]) => v[i + 1][1] # "header"
    <3> SUFFICES ASSUME v[i][1] = "header", HasPayload(v[i][2])
                 PROVE  v[i + 1][1] # "header"
      OBVIOUS
    <3>1. i # n
      BY <1>2, <1>4, <2>1
    <3>2. i < n /\ i + 1 \in 1 .. n
      BY <1>2, <3>1
    <3>3. w[i + 1][1] # "header" /\ v[i + 1] = w[i + 1]
      BY <1>2, <1>3, <2>1, <3>2
    <3> QED
      BY <3>3
  <2>4. v[i][1] = "header" => v[i][3] < s + 1
    <3>1. w[i][3] \in Nat
      BY <1>2, ChunkParts
    <3> QED
      BY <1>3, <2>1, <3>1
  <2>5. \A j \in 1 .. i - 1 : v[i][1] = "header" /\ v[j][1] = "header" => v[j][3] < v[i][3]
    BY <1>3, <2>1
  <2> QED
    BY <2>2, <2>3, <2>4, <2>5
<1>6. \A j \in 1 .. n : v[j][1] = "header" => v[j][3] < s
  BY <1>2, <1>3
<1>7. ASSUME NEW i \in 1 .. n + 1
      PROVE  /\ v[i][1] # "header" => i > 1 /\ v[i - 1][1] = "header" /\ v[i - 1][2] = v[i][2]
             /\ v[i][1] = "header" /\ HasPayload(v[i][2]) /\ i < n + 1 => v[i + 1][1] # "header"
             /\ v[i][1] = "header" => v[i][3] < s + 1
             /\ \A j \in 1 .. i - 1 :
                  v[i][1] = "header" /\ v[j][1] = "header" => v[j][3] < v[i][3]
  <2>1. CASE i \in 1 .. n
    BY <1>5, <2>1
  <2>2. CASE i \notin 1 .. n
    <3>1. i = n + 1 /\ ~(i < n + 1) /\ i - 1 = n
      BY <1>2, <2>2
    <3>2. v[i] = c /\ v[i][1] = "header" /\ v[i][3] = s /\ s < s + 1
      BY <1>1, <1>2, <3>1
    <3>3. \A j \in 1 .. i - 1 : v[j][1] = "header" => v[j][3] < v[i][3]
      BY <1>6, <3>1, <3>2
    <3> QED
      BY <3>1, <3>2, <3>3
  <2> QED
    BY <2>1, <2>2
<1>8. WireOK(v, s + 1)
  BY <1>2, <1>7 DEF WireOK
<1> QED
  BY <1>8 DEF v, c

LEMMA WirePayload ==
  ASSUME NEW w \in Seq(Chunks), NEW s \in Nat, NEW m \in Messages, WireOK(w, s),
         w # <<>>, w[Len(w)][1] = "header", w[Len(w)][2] = m
  PROVE  WireOK(Append(w, <<"payload", m, 0>>), s) /\ ~LacksPayload(Append(w, <<"payload", m, 0>>))
<1> DEFINE c == <<"payload", m, 0>>
           v == Append(w, c)
           n == Len(w)
<1>1. c \in Chunks /\ c[1] = "payload" /\ c[2] = m
  BY DEF Chunks
<1>2. /\ n \in Nat /\ n # 0 /\ Len(v) = n + 1 /\ v[n + 1] = c
      /\ \A i \in 1 .. n : v[i] = w[i] /\ w[i] \in Chunks
  BY <1>1, AppendParts
<1>3. \A i \in 1 .. n :
        /\ w[i][1] # "header" => i > 1 /\ w[i - 1][1] = "header" /\ w[i - 1][2] = w[i][2]
        /\ w[i][1] = "header" /\ HasPayload(w[i][2]) /\ i < n => w[i + 1][1] # "header"
        /\ w[i][1] = "header" => w[i][3] < s
        /\ \A j \in 1 .. i - 1 : w[i][1] = "header" /\ w[j][1] = "header" => w[j][3] < w[i][3]
  BY DEF WireOK
<1>4. w[n][1] = "header" /\ w[n][2] = m
  OBVIOUS
<1>p. "payload" # "header"
  OBVIOUS
<1> HIDE DEF c, v, n
<1>5. ASSUME NEW i \in 1 .. n
      PROVE  /\ v[i][1] # "header" => i > 1 /\ v[i - 1][1] = "header" /\ v[i - 1][2] = v[i][2]
             /\ v[i][1] = "header" /\ HasPayload(v[i][2]) /\ i < n + 1 => v[i + 1][1] # "header"
             /\ v[i][1] = "header" => v[i][3] < s
             /\ \A j \in 1 .. i - 1 :
                  v[i][1] = "header" /\ v[j][1] = "header" => v[j][3] < v[i][3]
  <2>1. v[i] = w[i] /\ \A j \in 1 .. i - 1 : v[j] = w[j]
    BY <1>2
  <2>2. v[i][1] # "header" => i > 1 /\ v[i - 1][1] = "header" /\ v[i - 1][2] = v[i][2]
    <3> SUFFICES ASSUME v[i][1] # "header"
                 PROVE  i > 1 /\ v[i - 1][1] = "header" /\ v[i - 1][2] = v[i][2]
      OBVIOUS
    <3>1. i > 1 /\ w[i - 1][1] = "header" /\ w[i - 1][2] = w[i][2]
      BY <1>3, <2>1
    <3>2. i - 1 \in 1 .. i - 1
      BY <3>1
    <3> QED
      BY <2>1, <3>1, <3>2
  <2>3. v[i][1] = "header" /\ HasPayload(v[i][2]) => v[i + 1][1] # "header"
    <3> SUFFICES ASSUME v[i][1] = "header", HasPayload(v[i][2])
                 PROVE  v[i + 1][1] # "header"
      OBVIOUS
    <3>1. CASE i = n
      BY <1>1, <1>2, <1>p, <3>1
    <3>2. CASE i # n
      <4>1. i < n /\ i + 1 \in 1 .. n
        BY <1>2, <3>2
      <4>2. w[i + 1][1] # "header" /\ v[i + 1] = w[i + 1]
        BY <1>2, <1>3, <2>1, <4>1
      <4> QED
        BY <4>2
    <3> QED
      BY <3>1, <3>2
  <2>5. \A j \in 1 .. i - 1 : v[i][1] = "header" /\ v[j][1] = "header" => v[j][3] < v[i][3]
    BY <1>3, <2>1
  <2> QED
    BY <1>3, <2>1, <2>2, <2>3, <2>5
<1>7. ASSUME NEW i \in 1 .. n + 1
      PROVE  /\ v[i][1] # "header" => i > 1 /\ v[i - 1][1] = "header" /\ v[i - 1][2] = v[i][2]
             /\ v[i][1] = "header" /\ HasPayload(v[i][2]) /\ i < n + 1 => v[i + 1][1] # "header"
             /\ v[i][1] = "header" => v[i][3] < s
             /\ \A j \in 1 .. i - 1 :
                  v[i][1] = "header" /\ v[j][1] = "header" => v[j][3] < v[i][3]
  <2>1. CASE i \in 1 .. n
    BY <1>5, <2>1
  <2>2. CASE i \notin 1 .. n
    <3>1. i = n + 1 /\ i - 1 = n /\ n \in 1 .. n /\ i > 1
      BY <1>2, <2>2
    <3>2. v[i] = c /\ v[n] = w[n]
      BY <1>2, <3>1
    <3> QED
      BY <1>1, <1>4, <1>p, <3>1, <3>2
  <2> QED
    BY <2>1, <2>2
<1>8. WireOK(v, s)
  BY <1>2, <1>7 DEF WireOK
<1>9. ~LacksPayload(v)
  BY <1>1, <1>2, <1>p DEF LacksPayload
<1> QED
  BY <1>8, <1>9 DEF v, c

WireInv == \A k \in Sockets : WireOK(net[k].wire, obj.sequence)

AtPayload(t) == todo[t] # <<>> /\ Head(todo[t]) = "payload"

\* A thread that is about to write a payload has just written the header.
PayloadOf(t) ==
  /\ stream[t] \in Sockets /\ Unfinished(stream[t])
  /\ net[stream[t]].wire[Len(net[stream[t]].wire)][2] = msg[t]

PayloadInv == \A t \in Threads : AtPayload(t) => PayloadOf(t)

\* A thread that failed with the monitor held is yet to close the sockets.
GivesUp(t) ==
  monitor = t /\ \E p, r : HeldAs(todo[t], p, r) /\ p \in Seq(OfCleanup) /\ Has(p, "close")

\* Why nothing else is written where a payload is missing.
Excused(k) ==
  \/ \E t \in Threads : AtPayload(t) /\ stream[t] = k
  \/ \E t \in Threads : GivesUp(t)
  \/ net[k].status = "closed"
  \/ k # obj.output /\ k # obj.socket

UnfinishedInv == \A k \in Sockets : Unfinished(k) => Excused(k)

LEMMA HeldNoPayload ==
  ASSUME NEW s, NEW p, NEW r, HeldAs(s, p, r), p \in Seq(OfCleanup)
  PROVE  s # <<>> /\ Head(s) \in OfCleanup \cup {"unlock"}
<1>1. /\ s # <<>> /\ (p = <<>> => Head(s) = "unlock")
      /\ p # <<>> => Head(s) = Head(p)
  BY HeldHead
<1>2. p # <<>> => Head(p) \in OfCleanup
  OBVIOUS
<1> QED
  BY <1>1, <1>2

\* Only the thread with the monitor is inside sendMessageDirect.
LEMMA PayloadHolds ==
  ASSUME TypeOK, MonitorInv, NEW t \in Threads, AtPayload(t)
  PROVE  monitor = t
<1>1. todo[t] \in Seq(Steps) /\ todo[t] # <<>> /\ Head(todo[t]) = "payload"
  BY Parts DEF TodoTypes, AtPayload
<1>2. ~Clean(todo[t])
  BY <1>1, CleanTail
<1> QED
  BY <1>2 DEF MonitorInv

LEMMA SequenceMoves ==
  ASSUME TypeOK, NEW t \in Threads, ThreadSteps(t)
  PROVE  /\ obj.sequence \in Nat /\ obj'.sequence \in Nat
         /\ obj.sequence <= obj'.sequence
         /\ WriteHeader(t) => obj'.sequence = obj.sequence + 1
<1>0. obj \in Fields
  BY Parts DEF ObjTypes
<1>n. obj.sequence \in Nat
  BY <1>0 DEF Fields
<1>1. CASE WriteHeader(t)
  <2>1. obj' = [obj EXCEPT !.sequence = obj.sequence + 1]
    BY <1>1 DEF WriteHeader
  <2>2. obj'.sequence = obj.sequence + 1
    BY <1>0, <2>1 DEF Fields
  <2> QED
    BY <1>n, <2>2
<1>2. CASE ~WriteHeader(t)
  <2>1. obj'.sequence = obj.sequence
    <3> USE <1>0, <1>2 DEF Fields
    <3>1. CASE UNCHANGED obj
      BY <3>1
    <3>2. CASE CleanupSteps(t)
      BY <3>2 DEF CleanupSteps, Stop, ClearQueue, Close, Forget, Interrupt, SayBye, Sets, Says
    <3>3. CASE Header(t)
      BY <3>3 DEF Header, NotWritten, WriteFails, Goes
    <3>4. CASE Poll(t) \/ StartSender(t)
      BY <3>4 DEF Poll, StartSender
    <3>5. CASE Dial(t) \/ TakeInput(t) \/ TakeOutput(t) \/ Run(t) \/ Offer(t)
      BY <3>5 DEF Dial, TakeInput, TakeOutput, Run, Offer, Sets
    <3>6. CASE Lock(t) \/ Payload(t) \/ Unlock(t) \/ SendLoop(t) \/ PollInterrupted(t)
                 \/ PollTimesOut(t) \/ ReceiveSteps(t) \/ Check(t) \/ Reach(t) \/ NoStream(t)
                 \/ StartReceiver(t) \/ SendHandshake(t)
      <4>1. UNCHANGED obj
        BY <3>6
        DEF Lock, Payload, Unlock, SendLoop, PollInterrupted, PollTimesOut, ReceiveSteps, Check,
            Reach, NoStream, StartReceiver, SendHandshake, ReceiveLoop, Look, ReadOfNull,
            ReadFails, Read, Goes, Says, WriteFails, WritePayload, ConnectFails
      <4> QED
        BY <3>1, <4>1
    <3> QED
      BY <3>2, <3>3, <3>4, <3>5, <3>6 DEF ThreadSteps, SendSteps, ConnectSteps
  <2> QED
    BY <1>n, <1>2, <2>1
<1> QED
  BY <1>1, <1>2, <1>n

\* A header is only written where no payload is missing.
LEMMA HeaderFits ==
  ASSUME TypeOK, ListInv, MonitorInv, PayloadInv, UnfinishedInv,
         NEW t \in Threads, ThreadSteps(t), Head(todo[t]) = "header",
         obj.output \in Sockets, net[obj.output].status = "open"
  PROVE  ~Unfinished(obj.output)
<1>1. monitor = t
  BY OutsiderStep
<1> SUFFICES ASSUME Excused(obj.output)
             PROVE  FALSE
  BY DEF UnfinishedInv
<1>2. ASSUME NEW u \in Threads, AtPayload(u)
      PROVE  FALSE
  BY <1>1, <1>2, PayloadHolds DEF AtPayload
<1>3. ASSUME NEW u \in Threads, GivesUp(u)
      PROVE  FALSE
  <2>1. PICK p, r : HeldAs(todo[u], p, r) /\ p \in Seq(OfCleanup)
    BY <1>3 DEF GivesUp
  <2>2. u = t
    BY <1>1, <1>3 DEF GivesUp
  <2>3. Head(todo[u]) \in OfCleanup \cup {"unlock"}
    BY <2>1, HeldNoPayload
  <2> QED
    BY <2>2, <2>3 DEF OfCleanup
<1> QED
  BY <1>2, <1>3 DEF Excused

LEMMA WriteHeaderWire ==
  ASSUME TypeOK, NEW t \in Threads, ThreadSteps(t), WriteHeader(t), obj.output \in Sockets
  PROVE  /\ net'[obj.output].wire
              = Append(net[obj.output].wire, <<"header", msg[t], obj.sequence>>)
         /\ \A j \in Sockets \ {obj.output} : net'[j].wire = net[j].wire
         /\ net[obj.output].status = "open"
<1>1. NetTypes /\ ObjTypes /\ LocalTypes
  BY Parts
<1>2. Writes(obj.output, <<"header", msg[t], obj.sequence>>)
  BY DEF WriteHeader
<1>3. <<"header", msg[t], obj.sequence>> \in Chunks
  BY <1>1 DEF Chunks, LocalTypes, ObjTypes, Fields
<1>4. net[obj.output] \in Connections
  BY <1>1, ConnectionOf
<1>5. /\ net'[obj.output] = [net[obj.output] EXCEPT !.wire =
              Append(net[obj.output].wire, <<"header", msg[t], obj.sequence>>)]
      /\ \A j \in Sockets \ {obj.output} : net'[j] = net[j]
  BY <1>1, <1>2, <1>3, WritesTypes
<1>6. net[obj.output].status = "open"
  BY <1>2 DEF Writes
<1> QED
  BY <1>4, <1>5, <1>6 DEF Connections

LEMMA WritePayloadWire ==
  ASSUME TypeOK, NEW t \in Threads, ThreadSteps(t), WritePayload(t), stream[t] \in Sockets
  PROVE  /\ net'[stream[t]].wire = Append(net[stream[t]].wire, <<"payload", msg[t], 0>>)
         /\ \A j \in Sockets \ {stream[t]} : net'[j].wire = net[j].wire
<1>1. NetTypes /\ LocalTypes
  BY Parts
<1>2. Writes(stream[t], <<"payload", msg[t], 0>>)
  BY DEF WritePayload
<1>3. <<"payload", msg[t], 0>> \in Chunks
  BY <1>1 DEF Chunks, LocalTypes
<1>4. net[stream[t]] \in Connections
  BY <1>1, ConnectionOf
<1>5. /\ net'[stream[t]] = [net[stream[t]] EXCEPT !.wire =
              Append(net[stream[t]].wire, <<"payload", msg[t], 0>>)]
      /\ \A j \in Sockets \ {stream[t]} : net'[j] = net[j]
  BY <1>1, <1>2, <1>3, WritesTypes
<1> QED
  BY <1>4, <1>5 DEF Connections

LEMMA WireStep ==
  ASSUME TypeOK, ListInv, MonitorInv, PayloadInv, UnfinishedInv, WireInv,
         NEW t \in Threads, ThreadSteps(t)
  PROVE  WireInv'
<1>1. /\ obj.sequence \in Nat /\ obj'.sequence \in Nat /\ obj.sequence <= obj'.sequence
  BY SequenceMoves
<1>2. NetTypes /\ msg[t] \in Messages
  BY Parts DEF LocalTypes
<1>3. ASSUME NEW k \in Sockets
      PROVE  WireOK(net'[k].wire, obj'.sequence)
  <2>1. net[k].wire \in Seq(Chunks) /\ WireOK(net[k].wire, obj.sequence)
    BY <1>2, ConnectionOf DEF WireInv
  <2>2. CASE net'[k].wire = net[k].wire
    <3>1. WireOK(net[k].wire, obj'.sequence)
      BY <1>1, <2>1, WireLater
    <3> QED
      BY <2>2, <3>1
  <2>3. CASE net'[k].wire # net[k].wire /\ Head(todo[t]) = "header"
    <3>1. k = obj.output /\ WriteHeader(t) /\ net[k].status = "open"
      BY <2>3, WireMoves
    <3>2. net'[k].wire = Append(net[k].wire, <<"header", msg[t], obj.sequence>>)
      BY <3>1, WriteHeaderWire
    <3>3. ~LacksPayload(net[k].wire)
      BY <2>3, <3>1, HeaderFits DEF Unfinished
    <3>4. WireOK(Append(net[k].wire, <<"header", msg[t], obj.sequence>>), obj.sequence + 1)
      BY <1>1, <1>2, <2>1, <3>3, WireHeader
    <3>5. obj'.sequence = obj.sequence + 1
      BY <3>1, SequenceMoves
    <3> QED
      BY <3>2, <3>4, <3>5
  <2>4. CASE net'[k].wire # net[k].wire /\ Head(todo[t]) = "payload"
    <3>1. k = stream[t] /\ WritePayload(t)
      BY <2>4, WireMoves
    <3>2. net'[k].wire = Append(net[k].wire, <<"payload", msg[t], 0>>)
      BY <3>1, WritePayloadWire
    <3>3. PayloadOf(t)
      BY <2>4, ByHead DEF PayloadInv, AtPayload
    <3>4. /\ net[k].wire # <<>> /\ net[k].wire[Len(net[k].wire)][1] = "header"
          /\ net[k].wire[Len(net[k].wire)][2] = msg[t]
      BY <3>1, <3>3 DEF PayloadOf, Unfinished, LacksPayload
    <3>5. WireOK(Append(net[k].wire, <<"payload", msg[t], 0>>), obj.sequence)
      BY <1>1, <1>2, <2>1, <3>4, WirePayload
    <3>6. Append(net[k].wire, <<"payload", msg[t], 0>>) \in Seq(Chunks)
      <4>1. <<"payload", msg[t], 0>> \in Chunks
        BY <1>2 DEF Chunks
      <4> QED
        BY <2>1, <4>1
    <3>7. WireOK(net'[k].wire, obj.sequence) /\ net'[k].wire \in Seq(Chunks)
      BY <3>2, <3>5, <3>6
    <3> QED
      BY <1>1, <3>7, WireLater
  <2> QED
    BY <2>2, <2>3, <2>4, WireMoves
<1> QED
  BY <1>3 DEF WireInv

\* The threads that wait, or hold the monitor, are left alone by another's step.
LEMMA OtherList ==
  ASSUME TypeOK, ListInv, StartInv, NEW t \in Threads, ThreadSteps(t), NEW u \in Threads \ {t}
  PROVE  /\ todo[u] # <<>> => todo'[u] = todo[u]
         /\ todo'[u] # todo[u] => todo'[u] = <<"send_loop">> \/ todo'[u] = <<"receive_loop">>
         /\ stream'[u] = stream[u] /\ msg'[u] = msg[u]
<1>1. /\ todo[t] \in Seq(Steps) /\ todo[t] # <<>> /\ Moves(t)
  BY Moved
<1>2. todo'[u] # todo[u] => /\ todo'[u] = <<"send_loop">> \/ todo'[u] = <<"receive_loop">>
                            /\ todo[u] = <<>>
  <2> SUFFICES ASSUME todo'[u] # todo[u]
               PROVE  /\ todo'[u] = <<"send_loop">> \/ todo'[u] = <<"receive_loop">>
                      /\ todo[u] = <<>>
    OBVIOUS
  <2>1. \/ /\ Head(todo[t]) = "start_sender" /\ t[1] = "connect"
           /\ u = Sender(t[2]) /\ todo'[u] = <<"send_loop">>
        \/ /\ Head(todo[t]) = "start_receiver" /\ t[1] = "connect"
           /\ u = Receiver(t[2]) /\ todo'[u] = <<"receive_loop">>
    BY <1>1 DEF Moves
  <2>2. t = Connector(t[2]) /\ t[2] \in Sockets /\ Has(todo[t], Head(todo[t]))
    BY <1>1, <2>1, ConnectingThread DEF OfConnect
  <2>3. StartOf(t[2])
    BY <2>2 DEF StartInv
  <2>4. /\ Has(todo[t], "start_sender") => todo[Sender(t[2])] = <<>>
        /\ Has(todo[t], "start_receiver") => todo[Receiver(t[2])] = <<>>
    BY <2>2, <2>3 DEF StartOf
  <2> QED
    BY <2>1, <2>2, <2>4
<1>3. stream'[u] = stream[u]
  <2>1. stream \in [Threads -> Sockets \cup {Null, StreamOfNull}]
    BY Parts DEF LocalTypes
  <2>2. CASE Head(todo[t]) = "header"
    <3>1. UNCHANGED stream \/ stream' = [stream EXCEPT ![t] = obj.output]
      BY <2>2, ByHead DEF Header, NotWritten, WriteFails, WriteHeader, Goes, locals
    <3> QED
      BY <2>1, <3>1
  <2>3. CASE Head(todo[t]) = "look"
    <3>1. stream' = [stream EXCEPT ![t] = obj.input]
      BY <2>3, ByHead DEF Look
    <3> QED
      BY <2>1, <3>1
  <2> QED
    BY <2>2, <2>3, Touches
<1>4. msg'[u] = msg[u]
  <2>1. msg \in [Threads -> Messages]
    BY Parts DEF LocalTypes
  <2>2. UNCHANGED msg \/ \E m : msg' = [msg EXCEPT ![t] = m]
    BY DEF ThreadSteps, CleanupSteps, SendSteps, ConnectSteps, ReceiveSteps, Stop, ClearQueue,
       Forget, Interrupt, Header, NotWritten, WriteHeader, Poll, Dial, TakeInput, TakeOutput,
       Run, StartSender, Offer, Sets, Close, SayBye, Lock, Payload, Unlock, SendLoop,
       PollInterrupted, PollTimesOut, Check, Reach, NoStream, StartReceiver, SendHandshake,
       ReceiveLoop, Look, ReadOfNull, ReadFails, Read, Goes, Says, WriteFails, WritePayload,
       ConnectFails, locals
  <2> QED
    BY <2>1, <2>2
<1> QED
  BY <1>2, <1>3, <1>4

\* A thread comes to its payload by writing the header.
LEMMA PayloadReached ==
  ASSUME TypeOK, ListInv, StartInv, MonitorInv, NEW t \in Threads, ThreadSteps(t), AtPayload(t)'
  PROVE  WriteHeader(t) /\ obj.output \in Sockets /\ HasPayload(msg[t])
<1>1. /\ todo[t] \in Seq(Steps) /\ todo[t] # <<>> /\ Tail(todo[t]) \in Seq(Steps)
  BY Moved
<1>2. todo'[t] \in Seq(Steps) /\ todo'[t] # <<>> /\ Head(todo'[t]) = "payload"
  BY Parts, NextTypes, TodoOfThread DEF AtPayload, TodoTypes
<1>3. ~Clean(todo'[t])
  BY <1>2, CleanTail
<1>4. ASSUME NEW q, NEW r, HeldAs(todo'[t], q, r)
      PROVE  q \notin Seq(OfCleanup) /\ q = <<"payload">>
  <2>1. q \notin Seq(OfCleanup)
    BY <1>2, <1>4, HeldNoPayload DEF OfCleanup
  <2>2. q # <<"header">>
    <3> SUFFICES ASSUME q = <<"header">>
                 PROVE  FALSE
      OBVIOUS
    <3>1. q # <<>> /\ Head(q) = "header"
      OBVIOUS
    <3> QED
      BY <1>2, <1>4, <3>1, HeldHead
  <2> QED
    BY <1>4, <2>1, <2>2 DEF HeldAs
<1>5. monitor = t
  <2> SUFFICES ASSUME monitor # t
               PROVE  FALSE
    OBVIOUS
  <2>1. Head(todo[t]) = "lock"
    BY <1>3, OutsiderStep
  <2>2. PICK r \in Seq(Steps) : Tail(todo[t]) = <<"header">> \o (<<"unlock">> \o r)
    BY <1>1, <2>1, CleanLock DEF MonitorInv
  <2>3. todo'[t] = Tail(todo[t])
    <3>1. todo' = [todo EXCEPT ![t] = <<>> \o Tail(todo[t])]
      BY <2>1, ByHead DEF Lock, GoesOn
    <3>2. <<>> \o Tail(todo[t]) = Tail(todo[t])
      BY <1>1, ConcatEmptySeq
    <3>3. TodoTypes
      BY Parts
    <3> QED
      BY <3>1, <3>2, <3>3 DEF TodoTypes
  <2>4. <<"header">> \in Seq(Steps) /\ <<"header">> # <<>> /\ Head(<<"header">>) = "header"
    BY StepNames
  <2>5. <<"unlock">> \o r \in Seq(Steps)
    BY UnlockList
  <2>6. Head(todo'[t]) = "header"
    BY <2>2, <2>3, <2>4, <2>5, HeadOfConcat
  <2> QED
    BY <1>2, <2>6
<1>6. PICK p, r : HeldAs(todo[t], p, r)
  BY <1>5 DEF MonitorInv, Held
<1>7. Head(todo[t]) # "unlock"
  BY <1>3, <1>5, HolderStep
<1>8. p # <<>>
  BY <1>6, <1>7, HeldHead
<1>9. /\ Head(todo[t]) \in OfCleanup \cup {"header", "payload"}
      /\ Tail(p) \in Seq(OfCleanup)
      /\ Head(todo[t]) \in {"header", "payload"} => Tail(p) = <<>>
  BY <1>6, <1>8, HeldHead
<1>10. Head(todo[t]) \notin OfCleanup
  BY <1>4, <1>5, <1>6, <1>7, <1>9, HolderStep
<1>11. ASSUME NEW a \in Inserted(Head(todo[t])), GoesOn(t, a)
       PROVE  a = <<"payload">>
  <2>1. todo'[t] = a \o Tail(todo[t])
    BY <1>11, Parts DEF GoesOn, TodoTypes
  <2>2. HeldAs(a \o Tail(todo[t]), a \o Tail(p), r) /\ a \o Tail(p) = a
    BY <1>6, <1>8, <1>9, <1>10, HeldGoes
  <2> QED
    BY <1>4, <2>1, <2>2
<1>12. /\ <<>> # <<"payload">> /\ HandleDisconnect # <<"payload">>
  <2>1. HandleDisconnect \in Seq(OfCleanup) /\ <<"payload">> \notin Seq(OfCleanup)
    BY CleanupHeld DEF OfCleanup
  <2> QED
    BY <2>1
<1>13. Head(todo[t]) # "payload"
  <2> SUFFICES ASSUME Head(todo[t]) = "payload"
               PROVE  FALSE
    OBVIOUS
  <2>1. GoesOn(t, HandleDisconnect) \/ GoesOn(t, <<>>)
    BY ByHead DEF Payload, WriteFails, WritePayload, Goes
  <2>2. HandleDisconnect \in Inserted(Head(todo[t])) /\ <<>> \in Inserted(Head(todo[t]))
    BY DEF Inserted
  <2> QED
    BY <1>11, <1>12, <2>1, <2>2
<1>14. Head(todo[t]) = "header"
  BY <1>9, <1>10, <1>13
<1>15. {<<>>, <<"payload">>, HandleDisconnect} = Inserted(Head(todo[t]))
  BY <1>14 DEF Inserted
<1>16. ~GoesOn(t, <<>>) /\ ~GoesOn(t, HandleDisconnect)
  BY <1>11, <1>12, <1>15
<1>17. Header(t)
  BY <1>14, ByHead
<1>18. WriteHeader(t) /\ obj.output \in Sockets
  BY <1>16, <1>17 DEF Header, NotWritten, WriteFails, Goes
<1>19. HasPayload(msg[t])
  BY <1>16, <1>18 DEF WriteHeader
<1> QED
  BY <1>18, <1>19

LEMMA PayloadStep ==
  ASSUME TypeOK, ListInv, StartInv, MonitorInv, PayloadInv, NEW t \in Threads, ThreadSteps(t)
  PROVE  PayloadInv'
<1>1. ASSUME AtPayload(t)'
      PROVE  PayloadOf(t)'
  <2>1. WriteHeader(t) /\ obj.output \in Sockets /\ HasPayload(msg[t])
    BY <1>1, PayloadReached
  <2>2. net'[obj.output].wire
          = Append(net[obj.output].wire, <<"header", msg[t], obj.sequence>>)
    BY <2>1, WriteHeaderWire
  <2>3. stream'[t] = obj.output /\ msg'[t] = msg[t]
    BY <2>1, Parts DEF WriteHeader, LocalTypes
  <2>4. <<"header", msg[t], obj.sequence>> \in Chunks /\ net[obj.output].wire \in Seq(Chunks)
    <3>1. NetTypes /\ ObjTypes /\ LocalTypes
      BY Parts
    <3> QED
      BY <2>1, <3>1, ConnectionOf DEF Chunks, LocalTypes, ObjTypes, Fields
  <2> DEFINE w == net[obj.output].wire
             c == <<"header", msg[t], obj.sequence>>
  <2>5. Append(w, c) # <<>> /\ Append(w, c)[Len(Append(w, c))] = c
    <3> HIDE DEF w, c
    <3>1. w \in Seq(Chunks) /\ c \in Chunks
      BY <2>4 DEF w, c
    <3>2. /\ Len(w) \in Nat /\ Append(w, c) \in Seq(Chunks)
          /\ Len(Append(w, c)) = Len(w) + 1 /\ Append(w, c)[Len(w) + 1] = c
          /\ Append(w, c) = <<>> <=> Len(Append(w, c)) = 0
      BY <3>1, AppendParts
    <3>3. Len(Append(w, c)) # 0
      BY <3>2
    <3> QED
      BY <3>2, <3>3
  <2>6. c[1] = "header" /\ c[2] = msg[t]
    OBVIOUS
  <2> HIDE DEF w, c
  <2>7. net'[obj.output].wire = Append(w, c)
    BY <2>2 DEF w, c
  <2> QED
    BY <2>1, <2>3, <2>5, <2>6, <2>7 DEF PayloadOf, Unfinished, LacksPayload
<1>2. ASSUME NEW u \in Threads \ {t}, AtPayload(u)'
      PROVE  PayloadOf(u)'
  <2>1. /\ todo'[u] # todo[u] => todo'[u] = <<"send_loop">> \/ todo'[u] = <<"receive_loop">>
        /\ stream'[u] = stream[u] /\ msg'[u] = msg[u]
    BY OtherList
  <2>2. todo'[u] = todo[u]
    BY <1>2, <2>1 DEF AtPayload
  <2>3. AtPayload(u)
    BY <1>2, <2>2 DEF AtPayload
  <2>4. PayloadOf(u) /\ monitor = u
    BY <2>3, PayloadHolds DEF PayloadInv
  <2>5. Head(todo[t]) \notin {"header", "payload"}
    BY <2>4, OutsiderStep
  <2>6. \A k \in Sockets : net'[k].wire = net[k].wire
    BY <2>5, WireMoves
  <2> QED
    BY <2>1, <2>4, <2>6 DEF PayloadOf, Unfinished
<1> QED
  BY <1>1, <1>2 DEF PayloadInv

\* A connection left with half a message stays so for a reason.
LEMMA StaysExcused ==
  ASSUME TypeOK, ListInv, StartInv, MonitorInv, PayloadInv, NEW t \in Threads, ThreadSteps(t),
         NEW k \in Sockets, Unfinished(k), Excused(k), net'[k].wire = net[k].wire
  PROVE  Excused(k)'
<1>1. /\ todo[t] \in Seq(Steps) /\ todo[t] # <<>> /\ Tail(todo[t]) \in Seq(Steps)
  BY Moved
<1>2. net[k].status # "none"
  <2>1. net[k].wire # <<>>
    BY DEF Unfinished, LacksPayload
  <2> QED
    BY <2>1 DEF StartInv, StartOf
<1>3. ~(Head(todo[t]) = "dial" /\ t[2] = k)
  <2> SUFFICES ASSUME Head(todo[t]) = "dial", t[2] = k
               PROVE  FALSE
    OBVIOUS
  <2>1. t = Connector(k) /\ Has(todo[t], "dial")
    BY <1>1, ConnectingThread DEF OfConnect
  <2> QED
    BY <1>2, <2>1 DEF StartInv, StartOf
<1>4. CASE net[k].status = "closed"
  BY <1>3, <1>4, StatusMoves DEF Excused
<1>5. CASE k # obj.output /\ k # obj.socket
  <2>1. k # Null /\ k # StreamOfNull
    BY DEF Null, StreamOfNull, Sockets
  <2>2. k # StreamOf(obj.socket)
    BY <1>5, <2>1 DEF StreamOf
  <2>3. k # obj'.output /\ k # obj'.socket
    BY <1>3, <1>5, <2>1, <2>2, FieldMoves
  <2> QED
    BY <2>3 DEF Excused
<1>6. ASSUME NEW u \in Threads, AtPayload(u), stream[u] = k
      PROVE  Excused(k)'
  <2>1. CASE u # t
    <3>1. todo'[u] = todo[u] /\ stream'[u] = stream[u]
      BY <1>6, <2>1, OtherList DEF AtPayload
    <3>2. AtPayload(u)'
      BY <1>6, <3>1 DEF AtPayload
    <3> QED
      BY <1>6, <3>1, <3>2 DEF Excused
  <2>2. CASE u = t
    <3>1. Head(todo[t]) = "payload" /\ monitor = t
      BY <1>6, <2>2, PayloadHolds DEF AtPayload
    <3>2. ~WritePayload(t)
      <4> SUFFICES ASSUME WritePayload(t)
                   PROVE  FALSE
        OBVIOUS
      <4>1. net'[k].wire = Append(net[k].wire, <<"payload", msg[t], 0>>)
        BY <1>6, <2>2, WritePayloadWire
      <4>2. <<"payload", msg[t], 0>> \in Chunks /\ net[k].wire \in Seq(Chunks)
        BY Parts, ConnectionOf DEF LocalTypes, Chunks
      <4>3. Len(Append(net[k].wire, <<"payload", msg[t], 0>>)) = Len(net[k].wire) + 1
            /\ Len(net[k].wire) \in Nat
        BY <4>2, AppendParts
      <4> QED
        BY <4>1, <4>3
    <3>3. GoesOn(t, HandleDisconnect)
      BY <3>1, <3>2, ByHead DEF Payload, WriteFails, Goes
    <3>4. todo'[t] = HandleDisconnect \o Tail(todo[t])
      BY <3>3, Parts DEF GoesOn, TodoTypes
    <3>5. PICK p, r : HeldAs(todo[t], p, r)
      BY <3>1 DEF MonitorInv, Held
    <3>6. p # <<>>
      BY <3>1, <3>5, HeldHead
    <3>7. HandleDisconnect \in Inserted(Head(todo[t]))
      BY <3>1 DEF Inserted
    <3>8. /\ HeldAs(HandleDisconnect \o Tail(todo[t]), HandleDisconnect \o Tail(p), r)
          /\ HandleDisconnect \o Tail(p) = HandleDisconnect
      BY <3>1, <3>5, <3>6, <3>7, HeldGoes
    <3>9. HeldAs(todo'[t], HandleDisconnect, r)
      BY <3>4, <3>8
    <3>10. monitor' = t
      BY <3>1, MonitorMoves
    <3>11. GivesUp(t)'
      BY <3>9, <3>10, CleanupHeld DEF GivesUp
    <3> QED
      BY <3>11 DEF Excused
  <2> QED
    BY <2>1, <2>2
<1>7. ASSUME NEW u \in Threads, GivesUp(u)
      PROVE  Excused(k)'
  <2>1. PICK p, r : HeldAs(todo[u], p, r) /\ p \in Seq(OfCleanup) /\ Has(p, "close")
    BY <1>7 DEF GivesUp
  <2>2. monitor = u
    BY <1>7 DEF GivesUp
  <2>3. p # <<>> /\ p \in Seq(Steps)
    <3>1. ~Has(<<>>, "close")
      BY DEF Has
    <3> QED
      BY <2>1, <3>1 DEF HeldAs
  <2>4. todo[u] # <<>> /\ Head(todo[u]) = Head(p)
    BY <2>1, <2>3, HeldHead
  <2>5. CASE u # t
    <3>1. todo'[u] = todo[u]
      BY <2>4, <2>5, OtherList
    <3>2. monitor' = u
      <4>1. u # NoThread
        BY ThreadKinds
      <4> QED
        BY <2>2, <2>5, <4>1, OutsiderStep
    <3>3. GivesUp(u)'
      BY <2>1, <3>1, <3>2 DEF GivesUp
    <3> QED
      BY <3>3 DEF Excused
  <2>6. CASE u = t
    <3>1. Head(p) \in OfCleanup /\ Head(p) # "unlock"
      BY <2>1, <2>3 DEF OfCleanup
    <3>2. CASE Head(p) = "close"
      <4>1. /\ obj' = obj
            /\ net' = [j \in Sockets |->
                 IF j \in ToClose THEN [net[j] EXCEPT !.status = "closed"] ELSE net[j]]
        BY <2>4, <2>6, <3>2, ByHead DEF Close
      <4>2. CASE k \in ToClose
        <5>1. net[k] \in Connections
          BY Parts, ConnectionOf
        <5>2. net'[k].status = "closed"
          BY <4>1, <4>2, <5>1 DEF Connections
        <5> QED
          BY <5>2 DEF Excused
      <4>3. CASE k \notin ToClose
        <5>1. k # obj.output /\ k # obj.socket
          BY <4>3 DEF ToClose
        <5> QED
          BY <4>1, <5>1 DEF Excused
      <4> QED
        BY <4>2, <4>3
    <3>3. CASE Head(p) # "close"
      <4>1. PICK q : HeldAs(todo'[t], q, r) /\ q = Tail(p)
        BY <2>1, <2>2, <2>4, <2>6, <3>1, HolderStep
      <4>2. Has(Tail(p), "close")
        BY <2>1, <2>3, <3>3, HasHead
      <4>3. Tail(p) \in Seq(OfCleanup)
        BY <2>1, <2>3
      <4>4. monitor' = t
        BY <2>2, <2>4, <2>6, <3>1, HolderStep
      <4>5. GivesUp(t)'
        BY <4>1, <4>2, <4>3, <4>4 DEF GivesUp
      <4> QED
        BY <4>5 DEF Excused
    <3> QED
      BY <3>2, <3>3
  <2> QED
    BY <2>5, <2>6
<1> QED
  BY <1>4, <1>5, <1>6, <1>7 DEF Excused

LEMMA UnfinishedStep ==
  ASSUME TypeOK, ListInv, StartInv, MonitorInv, PayloadInv, UnfinishedInv, WireInv,
         NEW t \in Threads, ThreadSteps(t), NEW k \in Sockets, Unfinished(k)'
  PROVE  Excused(k)'
<1>1. CASE net'[k].wire = net[k].wire
  <2>1. Unfinished(k)
    BY <1>1 DEF Unfinished
  <2>2. Excused(k)
    BY <2>1 DEF UnfinishedInv
  <2> QED
    BY <1>1, <2>1, <2>2, StaysExcused
<1>2. CASE net'[k].wire # net[k].wire /\ Head(todo[t]) = "header"
  <2>1. k = obj.output /\ WriteHeader(t)
    BY <1>2, WireMoves
  <2>2. net'[k].wire = Append(net[k].wire, <<"header", msg[t], obj.sequence>>)
    BY <2>1, WriteHeaderWire
  <2>3. NetTypes /\ ObjTypes /\ LocalTypes /\ TodoTypes
    BY Parts
  <2>4. <<"header", msg[t], obj.sequence>> \in Chunks /\ net[k].wire \in Seq(Chunks)
    BY <2>3, ConnectionOf DEF Chunks, LocalTypes, ObjTypes, Fields
  <2> DEFINE w == net[k].wire
             c == <<"header", msg[t], obj.sequence>>
  <2>5. Append(w, c)[Len(Append(w, c))] = c /\ c[2] = msg[t]
    BY <2>4
  <2> HIDE DEF w, c
  <2>6. net'[k].wire = Append(w, c)
    BY <2>2 DEF w, c
  <2>7. HasPayload(msg[t])
    BY <2>5, <2>6 DEF Unfinished, LacksPayload
  <2>8. GoesOn(t, <<"payload">>) /\ stream' = [stream EXCEPT ![t] = obj.output]
    BY <2>1, <2>7 DEF WriteHeader
  <2>9. stream'[t] = k
    BY <2>1, <2>3, <2>8 DEF LocalTypes
  <2>10. AtPayload(t)'
    <3>1. todo'[t] = <<"payload">> \o Tail(todo[t])
      BY <2>3, <2>8 DEF GoesOn, TodoTypes
    <3>2. /\ <<"payload">> \in Seq(Steps) /\ <<"payload">> # <<>>
          /\ Head(<<"payload">>) = "payload"
      BY StepNames
    <3>3. Tail(todo[t]) \in Seq(Steps)
      BY Moved
    <3>4. /\ <<"payload">> \o Tail(todo[t]) # <<>>
          /\ Head(<<"payload">> \o Tail(todo[t])) = Head(<<"payload">>)
      BY <3>2, <3>3, HeadOfConcat
    <3> QED
      BY <3>1, <3>2, <3>4 DEF AtPayload
  <2> QED
    BY <2>9, <2>10 DEF Excused
<1>3. CASE net'[k].wire # net[k].wire /\ Head(todo[t]) = "payload"
  <2>1. k = stream[t] /\ WritePayload(t)
    BY <1>3, WireMoves
  <2>2. net'[k].wire = Append(net[k].wire, <<"payload", msg[t], 0>>)
    BY <2>1, WritePayloadWire
  <2>3. PayloadOf(t)
    BY <1>3, ByHead DEF PayloadInv, AtPayload
  <2>4. /\ net[k].wire # <<>> /\ net[k].wire[Len(net[k].wire)][1] = "header"
        /\ net[k].wire[Len(net[k].wire)][2] = msg[t]
    BY <2>1, <2>3 DEF PayloadOf, Unfinished, LacksPayload
  <2>5. net[k].wire \in Seq(Chunks) /\ msg[t] \in Messages /\ obj.sequence \in Nat
    BY Parts, ConnectionOf DEF LocalTypes, ObjTypes, Fields
  <2>6. WireOK(net[k].wire, obj.sequence)
    BY DEF WireInv
  <2>7. ~LacksPayload(Append(net[k].wire, <<"payload", msg[t], 0>>))
    BY <2>4, <2>5, <2>6, WirePayload
  <2> QED
    BY <2>2, <2>7 DEF Unfinished
<1> QED
  BY <1>1, <1>2, <1>3, WireMoves

MessageInv == WireInv /\ PayloadInv /\ UnfinishedInv

LEMMA NextMessage ==
  ASSUME TypeOK, ListInv, StartInv, MonitorInv, MessageInv, [Next]_vars
  PROVE  MessageInv'
<1> USE DEF MessageInv
<1>1. ASSUME NEW t \in Threads, ThreadSteps(t)
      PROVE  MessageInv'
  <2>1. WireInv' /\ PayloadInv'
    BY <1>1, WireStep, PayloadStep
  <2>2. UnfinishedInv'
    BY <1>1, UnfinishedStep DEF UnfinishedInv
  <2> QED
    BY <2>1, <2>2
<1>2. ASSUME NEW t \in Threads, NEW a, GivenTo(t, a), a = <<>> \/ Head(a) # "payload"
      PROVE  MessageInv'
  <2>1. /\ todo[t] = <<>> /\ todo'[t] = a
        /\ \A u \in Threads \ {t} : todo'[u] = todo[u] /\ msg'[u] = msg[u]
        /\ UNCHANGED <<obj, monitor, stream, net>>
    BY <1>2 DEF GivenTo
  <2>2. WireInv'
    BY <2>1 DEF WireInv
  <2>3. \A u \in Threads : AtPayload(u)' <=> AtPayload(u)
    BY <1>2, <2>1 DEF AtPayload
  <2>4. \A u \in Threads : AtPayload(u) => u # t
    BY <2>1 DEF AtPayload
  <2>5. PayloadInv'
    BY <2>1, <2>3, <2>4 DEF PayloadInv, PayloadOf, Unfinished
  <2>6. ASSUME NEW u \in Threads, GivesUp(u)
        PROVE  GivesUp(u)'
    <3>1. PICK p, r : HeldAs(todo[u], p, r) /\ p \in Seq(OfCleanup) /\ Has(p, "close")
      BY <2>6 DEF GivesUp
    <3>2. todo[u] # <<>>
      BY <3>1, HeldHead
    <3>3. todo'[u] = todo[u] /\ monitor' = monitor
      BY <2>1, <3>2
    <3> QED
      BY <2>6, <3>3 DEF GivesUp
  <2>7. UnfinishedInv'
    <3>1. \A k \in Sockets : Excused(k) => Excused(k)'
      BY <2>1, <2>3, <2>6 DEF Excused
    <3>2. \A k \in Sockets : Unfinished(k)' <=> Unfinished(k)
      BY <2>1 DEF Unfinished
    <3> QED
      BY <3>1, <3>2 DEF UnfinishedInv
  <2> QED
    BY <2>2, <2>5, <2>7
<1>3. CASE SurfaceDestroyed \/ SendTouchEvent \/ \E k \in Sockets : SurfaceCreated(k)
  <2>1. Head(Connect) # "payload" /\ Head(<<"offer">>) # "payload"
    BY DEF Connect
  <2>2. Head(Disconnect) # "payload"
    <3>1. Clean(Disconnect) /\ Disconnect \in Seq(Steps)
      BY CleanLists, ListTypes
    <3>2. Simple(Disconnect)
      BY SimpleLists
    <3>3. Disconnect # <<>> /\ Head(Disconnect) = "stop"
      BY DEF Disconnect, Cleanup
    <3> QED
      BY <3>3
  <2>3. Ui \in Threads /\ \A k \in Sockets : Connector(k) \in Threads
    BY ThreadKinds
  <2> QED
    BY <1>2, <1>3, <2>1, <2>2, <2>3, UserMoves
<1>4. CASE /\ UNCHANGED <<obj, monitor, todo, msg, stream>>
           /\ \A j \in Sockets : net'[j].status = net[j].status /\ net'[j].wire = net[j].wire
  BY <1>4 DEF WireInv, PayloadInv, UnfinishedInv, AtPayload, PayloadOf, Unfinished, Excused,
              GivesUp
<1>5. CASE ServerStep
  BY <1>4, <1>5, ServerMoves DEF locals
<1>6. CASE UNCHANGED vars
  BY <1>4, <1>6 DEF vars, locals
<1> QED
  BY <1>1, <1>3, <1>5, <1>6 DEF Next, ServerStep

LEMMA InitMessage == Init => MessageInv
<1> SUFFICES ASSUME Init
             PROVE  MessageInv
  OBVIOUS
<1>1. \A t \in Threads : todo[t] = <<>>
  BY DEF Init
<1>2. \A k \in Sockets : net[k].wire = <<>>
  BY DEF Init, NoConnection
<1> QED
  BY <1>1, <1>2
  DEF MessageInv, WireInv, WireOK, PayloadInv, AtPayload, UnfinishedInv, Unfinished, LacksPayload

ClientInv == TypeOK /\ ListInv /\ StartInv /\ MonitorInv /\ MessageInv

LEMMA ClientInvariance == Spec => []ClientInv
<1>1. Init => ClientInv
  BY InitTypes, InitStart, InitMonitor, InitMessage DEF ClientInv
<1>2. ClientInv /\ [Next]_vars => ClientInv'
  BY NextTypes, NextList, NextStart, NextMonitor, NextMessage DEF ClientInv
<1> QED
  BY <1>1, <1>2, PTL DEF Spec

\* sendMessageDirect keeps messages whole, whoever sends beside whom and whatever fails: a header
\* is followed by its own payload, and the sequence numbers of a connection grow.
THEOREM WholeMessages == Spec => []MessagesWhole
<1>1. ClientInv => MessagesWhole
  <2> SUFFICES ASSUME ClientInv, NEW k \in Sockets, NEW i \in DOMAIN net[k].wire
               PROVE  LET wire == net[k].wire
                          IsHeader(j) == wire[j][1] = "header" IN
                        /\ ~IsHeader(i) => i > 1 /\ IsHeader(i - 1) /\ wire[i - 1][2] = wire[i][2]
                        /\ IsHeader(i) /\ HasPayload(wire[i][2]) /\ i < Len(wire)
                             => ~IsHeader(i + 1)
                        /\ \A j \in 1 .. i - 1 :
                             IsHeader(i) /\ IsHeader(j) => wire[j][3] < wire[i][3]
    BY DEF MessagesWhole
  <2>1. net[k].wire \in Seq(Chunks)
    BY Parts, ConnectionOf DEF ClientInv
  <2>2. i \in 1 .. Len(net[k].wire)
    BY <2>1
  <2>3. WireOK(net[k].wire, obj.sequence)
    BY DEF ClientInv, MessageInv, WireInv
  <2> QED
    BY <2>2, <2>3 DEF WireOK
<1> QED
  BY <1>1, ClientInvariance, PTL

\* The holder of the monitor of sendMessageDirect always has a step to take that is no wait for the
\* monitor: a failed send cleans up without sending again, so no thread waits for itself.
HolderGoesOn ==
  \A t \in Threads : monitor = t => /\ todo[t] # <<>>
                                    /\ Head(todo[t]) \in OfCleanup \cup {"header", "payload", "unlock"}

\* Whoever holds the monitor writes, cleans up or gives it back, and never calls sendMessageDirect
\* from within it or ends with it, also after an IOException.
THEOREM MonitorIsLeft == Spec => []HolderGoesOn
<1>1. MonitorInv => HolderGoesOn
  <2> SUFFICES ASSUME MonitorInv, NEW t \in Threads, monitor = t
               PROVE  /\ todo[t] # <<>>
                      /\ Head(todo[t]) \in OfCleanup \cup {"header", "payload", "unlock"}
    BY DEF HolderGoesOn
  <2>1. PICK p, r : HeldAs(todo[t], p, r)
    BY DEF MonitorInv, Held
  <2>2. /\ todo[t] # <<>>
        /\ p = <<>> => Head(todo[t]) = "unlock"
        /\ p # <<>> => Head(todo[t]) \in OfCleanup \cup {"header", "payload"}
    BY <2>1, HeldHead
  <2> QED
    BY <2>2
<1>2. ClientInv => MonitorInv
  BY DEF ClientInv
<1> QED
  BY <1>1, <1>2, ClientInvariance, PTL

-----------------------------------------------------------------------------
(* No socket is left *)

\* While a thread connects, no other has anything to do but to queue a touch.
Others(k) == \A t \in Threads \ {Connector(k)} : todo[t] \in {<<>>, <<"offer">>}
Quiet == \A k \in Sockets : Has(todo[Connector(k)], "start_sender") => Others(k)

\* The fields a connecting thread has set.
Phases ==
  \A k \in Sockets :
    /\ Has(todo[Connector(k)], "reach") /\ ~Has(todo[Connector(k)], "dial") => obj.socket = k
    /\ Has(todo[Connector(k)], "run") /\ ~Has(todo[Connector(k)], "take_input")
         => obj.input # Null

IsOpen(k) == net[k].status = "open"

\* Who forgets the sockets has closed them.
Forgets(s) == \E i \in 1 .. Len(s) : s[i] = "forget" /\ \A j \in 1 .. i - 1 : s[j] # "close"
ForgetInv == \A t \in Threads : Forgets(todo[t]) => \A k \in Sockets : ~IsOpen(k)

\* Who is going to close an open socket: somebody who cleans up, or the threads of its
\* connection once they see that it ends.
Closing == \E t \in Threads : Has(todo[t], "close")
Connects(k) ==
  /\ Has(todo[Connector(k)], "start_receiver")
  /\ Has(todo[Connector(k)], "run") \/ (obj.running /\ obj.input # Null)
Receives(k) ==
  /\ obj.running /\ obj.input # Null
  /\ \E x \in {"receive_loop", "look", "read"} : Has(todo[Receiver(k)], x)
OpenOf(k) == IsOpen(k) => obj.socket = k /\ (Closing \/ Connects(k) \/ Receives(k))
OpenInv == \A k \in Sockets : OpenOf(k)

AloneInv == ~overlapped => Quiet /\ Phases /\ ForgetInv /\ OpenInv

\* What a list has to have, and may not have, for a step in it.
LEMMA HasNeeds ==
  ASSUME NEW s, Ordered(s), NEW x, Has(s, x), NEW y \in Needs(x)
  PROVE  Has(s, y)
BY DEF Ordered, Has, Later

LEMMA NeedsStarts ==
  \A x \in {"dial", "reach", "take_input", "take_output", "run"} : "start_sender" \in Needs(x)
BY DEF Needs

LEMMA ForgetsTail ==
  ASSUME NEW s \in Seq(Steps), s # <<>>
  PROVE  /\ Forgets(Tail(s)) /\ Head(s) # "close" => Forgets(s)
         /\ Head(s) = "forget" => Forgets(s)
         /\ Forgets(s) => Has(s, "forget")
<1> DEFINE n == Len(s)
           r == Tail(s)
<1>1. /\ n \in Nat \ {0} /\ Len(r) = n - 1 /\ Head(s) = s[1]
      /\ \A i \in 1 .. n - 1 : r[i] = s[i + 1]
  BY TailParts
<1>2. ASSUME Forgets(r), Head(s) # "close"
      PROVE  Forgets(s)
  <2>1. PICK i \in 1 .. n - 1 : r[i] = "forget" /\ \A j \in 1 .. i - 1 : r[j] # "close"
    BY <1>1, <1>2 DEF Forgets
  <2> HIDE DEF n, r
  <2>2. i + 1 \in 1 .. n /\ s[i + 1] = "forget"
    BY <1>1, <2>1
  <2>3. PICK l \in 1 .. n : l = i + 1
    BY <2>2
  <2>4. ASSUME NEW j \in 1 .. l - 1
        PROVE  s[j] # "close"
    <3>1. CASE j = 1
      BY <1>1, <1>2, <3>1
    <3>2. CASE j # 1
      <4>1. j - 1 \in 1 .. i - 1 /\ j - 1 \in 1 .. n - 1 /\ (j - 1) + 1 = j
        BY <1>1, <2>3, <3>2
      <4>2. r[j - 1] = s[(j - 1) + 1] /\ r[j - 1] # "close"
        BY <1>1, <2>1, <4>1
      <4> QED
        BY <4>1, <4>2
    <3> QED
      BY <3>1, <3>2
  <2> QED
    BY <2>2, <2>3, <2>4 DEF Forgets, n
<1>3. ASSUME Head(s) = "forget"
      PROVE  Forgets(s)
  <2>1. 1 \in 1 .. Len(s) /\ s[1] = "forget" /\ \A j \in 1 .. 1 - 1 : s[j] # "close"
    BY <1>1, <1>3
  <2> QED
    BY <2>1 DEF Forgets
<1>4. Forgets(s) => Has(s, "forget")
  BY DEF Forgets, Has
<1> QED
  BY <1>2, <1>3, <1>4 DEF r

LEMMA ForgetsConcat ==
  ASSUME NEW a \in Seq(Steps), NEW b \in Seq(Steps), Forgets(a \o b)
  PROVE  Forgets(a) \/ (~Has(a, "close") /\ Forgets(b))
<1> DEFINE m == Len(a)
           n == Len(b)
           s == a \o b
<1>1. /\ m \in Nat /\ n \in Nat /\ Len(s) = m + n
      /\ \A i \in 1 .. m : s[i] = a[i]
      /\ \A i \in 1 .. n : s[m + i] = b[i]
  BY ConcatParts
<1>2. PICK i \in 1 .. m + n : s[i] = "forget" /\ \A j \in 1 .. i - 1 : s[j] # "close"
  BY <1>1 DEF Forgets
<1> HIDE DEF s, m, n
<1>3. CASE i <= m
  <2>1. i \in 1 .. m /\ a[i] = "forget" /\ \A j \in 1 .. i - 1 : a[j] # "close"
    BY <1>1, <1>2, <1>3
  <2> QED
    BY <2>1 DEF Forgets, m
<1>4. CASE ~(i <= m)
  <2>1. i - m \in 1 .. n
    BY <1>1, <1>4
  <2>2. PICK l \in 1 .. n : l = i - m
    BY <2>1
  <2>3. i = m + l
    BY <1>1, <2>2
  <2>4. b[l] = "forget"
    BY <1>1, <1>2, <2>3
  <2>5. \A j \in 1 .. m : a[j] # "close"
    <3> SUFFICES ASSUME NEW j \in 1 .. m
                 PROVE  a[j] # "close"
      OBVIOUS
    <3>1. j \in 1 .. i - 1
      BY <1>1, <2>3
    <3> QED
      BY <1>1, <1>2, <3>1
  <2>6. \A j \in 1 .. l - 1 : b[j] # "close"
    <3> SUFFICES ASSUME NEW j \in 1 .. l - 1
                 PROVE  b[j] # "close"
      OBVIOUS
    <3>1. m + j \in 1 .. i - 1 /\ j \in 1 .. n
      BY <1>1, <2>3
    <3> QED
      BY <1>1, <1>2, <3>1
  <2> QED
    BY <2>4, <2>5, <2>6 DEF Forgets, Has, m, n
<1> QED
  BY <1>3, <1>4

LEMMA NoForgets ==
  /\ ~Forgets(<<>>) /\ ~Forgets(<<"offer">>) /\ ~Forgets(<<"send_loop">>)
  /\ ~Forgets(<<"receive_loop">>) /\ ~Forgets(Cleanup) /\ ~Forgets(Disconnect)
  /\ ~Forgets(Connect)
  /\ \A x : \A a \in Inserted(x) : ~Forgets(a)
  /\ Has(HandleDisconnect, "close") /\ Has(Disconnect, "close") /\ Has(Cleanup, "close")
<1>1. ASSUME NEW x, x # "forget"
      PROVE  ~Forgets(<<x>>) /\ <<x>> # <<>>
  BY <1>1 DEF Forgets
<1>2. ~Forgets(<<>>)
  BY DEF Forgets
<1>3. ~Forgets(Cleanup) /\ Has(Cleanup, "close")
  <2>1. /\ Len(Cleanup) = 5 /\ Cleanup[3] = "close"
        /\ \A i \in 1 .. 5 : Cleanup[i] = "forget" => i = 4
    BY DEF Cleanup
  <2>2. 3 \in 1 .. 4 - 1
    OBVIOUS
  <2> QED
    BY <2>1, <2>2 DEF Forgets, Has
<1>4. ~Forgets(SendMessageDirect) /\ ~Forgets(Connect)
  BY DEF Forgets, SendMessageDirect, Connect
<1>5. /\ <<"stop">> \in Seq(Steps) /\ <<"stop", "say_bye">> \in Seq(Steps)
      /\ <<"send_loop">> \in Seq(Steps) /\ <<"receive_loop">> \in Seq(Steps)
  BY StepNames
<1>6. ~Forgets(<<"stop", "say_bye">>)
  BY DEF Forgets
<1>7. /\ ~Forgets(<<"stop">> \o Cleanup) /\ ~Forgets(<<"stop", "say_bye">> \o Cleanup)
      /\ Has(<<"stop">> \o Cleanup, "close") /\ Has(<<"stop", "say_bye">> \o Cleanup, "close")
  BY <1>1, <1>3, <1>5, <1>6, ListTypes, ForgetsConcat, HasConcat
<1>8. /\ ~Forgets(HandleDisconnect) /\ ~Forgets(Disconnect)
      /\ Has(HandleDisconnect, "close") /\ Has(Disconnect, "close")
  BY <1>7 DEF HandleDisconnect, Disconnect
<1>9. /\ ~Forgets(SendMessageDirect \o <<"send_loop">>)
      /\ ~Forgets(HandleDisconnect \o <<"receive_loop">>)
      /\ ~Forgets(Disconnect \o <<"receive_loop">>)
  BY <1>1, <1>4, <1>5, <1>8, ListTypes, ForgetsConcat
<1>10. /\ ~Forgets(<<"payload">>) /\ ~Forgets(<<"poll">>) /\ ~Forgets(<<"send_loop">>)
       /\ ~Forgets(<<"look">>) /\ ~Forgets(<<"read">>) /\ ~Forgets(<<"receive_loop">>)
       /\ ~Forgets(<<"offer">>)
  BY <1>1
<1>11. \A x : \A a \in Inserted(x) : ~Forgets(a)
  BY <1>2, <1>4, <1>8, <1>9, <1>10, Zenon DEF Inserted
<1> QED
  BY <1>2, <1>3, <1>4, <1>8, <1>10, <1>11

\* What a thread has to do of what follows its present step.
LEMMA Following ==
  ASSUME TypeOK, ListInv, NEW t \in Threads, ThreadSteps(t)
  PROVE  /\ todo[t] \in Seq(Steps) /\ todo[t] # <<>> /\ Tail(todo[t]) \in Seq(Steps)
         /\ Moves(t) /\ Ordered(todo[t])
         /\ \A y \in Needs(Head(todo[t])) : Has(Tail(todo[t]), y)
         /\ \A y \in Bars(Head(todo[t])) : ~Has(Tail(todo[t]), y)
         /\ Head(todo[t]) \notin Straight /\ Has(Tail(todo[t]), "start_sender")
              => Has(Tail(todo[t]), "dial")
         /\ \A x : Has(todo[t], x) <=> Head(todo[t]) = x \/ Has(Tail(todo[t]), x)
<1>1. /\ todo[t] \in Seq(Steps) /\ todo[t] # <<>> /\ Tail(todo[t]) \in Seq(Steps)
      /\ Moves(t)
  BY Moved
<1>2. Ordered(todo[t])
  BY DEF ListInv
<1>3. \A x : Has(todo[t], x) <=> Head(todo[t]) = x \/ Has(Tail(todo[t]), x)
  BY <1>1, HasHead
<1>4. /\ \A y \in Needs(Head(todo[t])) : Has(Tail(todo[t]), y)
      /\ \A y \in Bars(Head(todo[t])) : ~Has(Tail(todo[t]), y)
      /\ Head(todo[t]) \notin Straight /\ Has(Tail(todo[t]), "start_sender")
           => Has(Tail(todo[t]), "dial")
  BY <1>1, <1>2, OrderedHead
<1> QED
  BY <1>1, <1>2, <1>3, <1>4

\* The lists of the connecting threads change only by their own steps.
LEMMA OtherConnector ==
  ASSUME TypeOK, ListInv, NEW t \in Threads, ThreadSteps(t), NEW k \in Sockets,
         t # Connector(k)
  PROVE  todo'[Connector(k)] = todo[Connector(k)]
<1>1. Moves(t) /\ Connector(k) \in Threads \ {t}
  BY Moved, ThreadKinds
<1>2. \A j : Connector(k) # Sender(j) /\ Connector(k) # Receiver(j)
  BY DEF Connector, Sender, Receiver
<1> QED
  BY <1>1, <1>2 DEF Moves

\* A thread beside a connecting one queues a touch.
LEMMA QuietStep1 ==
  ASSUME TypeOK, ListInv, NEW t \in Threads, ThreadSteps(t), NEW k \in Sockets,
         t # Connector(k), Others(k)
  PROVE  /\ Head(todo[t]) = "offer" /\ todo'[t] = <<>>
         /\ \A u \in Threads \ {t} : todo'[u] = todo[u]
         /\ obj'.socket = obj.socket /\ obj'.input = obj.input
<1>1. todo[t] # <<>> /\ Moves(t) /\ Tail(todo[t]) \in Seq(Steps)
  BY Following
<1>2. todo[t] = <<"offer">>
  BY <1>1 DEF Others
<1>3. Head(todo[t]) = "offer" /\ Tail(todo[t]) = <<>>
  BY <1>2
<1>4. PICK a \in Inserted(Head(todo[t])) : todo'[t] = a \o Tail(todo[t])
  BY <1>1, <1>3 DEF Moves
<1>5. a = <<>>
  BY <1>3, <1>4 DEF Inserted
<1>6. <<>> \o <<>> = <<>>
  OBVIOUS
<1>7. todo'[t] = <<>>
  BY <1>3, <1>4, <1>5, <1>6
<1> QED
  BY <1>1, <1>3, <1>7, FieldMoves DEF Moves

LEMMA QuietStep ==
  ASSUME TypeOK, ListInv, NEW t \in Threads, ThreadSteps(t), Quiet
  PROVE  Quiet'
<1> SUFFICES ASSUME NEW k \in Sockets, Has(todo'[Connector(k)], "start_sender")
             PROVE  Others(k)'
  BY DEF Quiet, Connector
<1>1. /\ Has(todo[Connector(k)], "start_sender")
      /\ t = Connector(k) => Head(todo[t]) \notin {"start_sender", "start_receiver"}
  <2>1. CASE t = Connector(k)
    <3>1. Has(todo[t], "start_sender") /\ "start_sender" \notin Bars(Head(todo[t]))
      BY <2>1, HasAfter DEF OfConnect
    <3> QED
      BY <2>1, <3>1 DEF Bars
  <2>2. CASE t # Connector(k)
    BY <2>2, OtherConnector
  <2> QED
    BY <2>1, <2>2
<1>2. Others(k)
  BY <1>1 DEF Quiet
<1>3. CASE t = Connector(k)
  <2>1. \A u \in Threads \ {t} : todo'[u] = todo[u]
    BY <1>1, <1>3, Following DEF Moves
  <2> QED
    BY <1>2, <1>3, <2>1 DEF Others, Connector
<1>4. CASE t # Connector(k)
  <2>1. todo'[t] = <<>> /\ \A u \in Threads \ {t} : todo'[u] = todo[u]
    BY <1>2, <1>4, QuietStep1
  <2> QED
    BY <1>2, <2>1 DEF Others, Connector
<1> QED
  BY <1>3, <1>4

LEMMA PhasesStep ==
  ASSUME TypeOK, ListInv, NEW t \in Threads, ThreadSteps(t), Quiet, Phases
  PROVE  Phases'
<1>c. \A x \in OfConnect : ~Has(Cleanup, x)
  BY SimpleLists, SimpleHas
<1>n. \A k \in Sockets : k # Null /\ StreamOf(k) # Null
  BY DEF Null, Sockets, StreamOf, StreamOfNull
<1>o. \A k \in Sockets : \A x \in {"dial", "reach", "take_input", "take_output", "run"} :
        Has(todo[Connector(k)], x) => Has(todo[Connector(k)], "start_sender")
  BY HasNeeds, NeedsStarts, ThreadKinds DEF ListInv
<1>1. ASSUME NEW k \in Sockets, t # Connector(k)
      PROVE  /\ Has(todo'[Connector(k)], "reach") /\ ~Has(todo'[Connector(k)], "dial")
                  => obj'.socket = k
             /\ Has(todo'[Connector(k)], "run") /\ ~Has(todo'[Connector(k)], "take_input")
                  => obj'.input # Null
  <2>1. todo'[Connector(k)] = todo[Connector(k)]
    BY <1>1, OtherConnector
  <2>2. CASE Has(todo[Connector(k)], "start_sender")
    <3>1. obj'.socket = obj.socket /\ obj'.input = obj.input
      BY <1>1, <2>2, QuietStep1 DEF Quiet
    <3> QED
      BY <2>1, <3>1 DEF Phases
  <2>3. CASE ~Has(todo[Connector(k)], "start_sender")
    BY <1>o, <2>1, <2>3
  <2> QED
    BY <2>2, <2>3
<1>2. ASSUME NEW k \in Sockets, t = Connector(k), Has(todo'[t], "reach"), ~Has(todo'[t], "dial")
      PROVE  obj'.socket = k
  <2>1. Has(todo[t], "reach") /\ t[2] = k
    BY <1>2, HasAfter, ThreadKinds DEF OfConnect
  <2>2. todo'[t] # Cleanup
    BY <1>c, <1>2 DEF OfConnect
  <2>3. CASE Has(todo[t], "dial")
    <3>1. Head(todo[t]) = "dial"
      BY <1>2, <2>2, <2>3, HasAfter DEF OfConnect
    <3>2. obj' = [obj EXCEPT !.socket = t[2]]
      BY <3>1, ByHead DEF Dial
    <3>3. obj \in Fields
      BY Parts DEF ObjTypes
    <3> QED
      BY <2>1, <3>2, <3>3 DEF Fields
  <2>4. CASE ~Has(todo[t], "dial")
    <3>1. obj.socket = k
      BY <1>2, <2>1, <2>4 DEF Phases
    <3>2. Head(todo[t]) # "dial"
      BY <2>4, Following
    <3>3. Head(todo[t]) # "forget"
      <4> SUFFICES ASSUME Head(todo[t]) = "forget"
                   PROVE  FALSE
        OBVIOUS
      <4>1. Has(todo[t], "start_sender")
        BY <1>2, <1>o, <2>1
      <4>2. Has(Tail(todo[t]), "start_sender")
        BY <4>1, Following
      <4>3. Head(todo[t]) \notin Straight
        BY DEF Straight
      <4> QED
        BY <2>4, <4>2, <4>3, Following
    <3> QED
      BY <3>1, <3>2, <3>3, FieldMoves
  <2> QED
    BY <2>3, <2>4
<1>3. ASSUME NEW k \in Sockets, t = Connector(k), Has(todo'[t], "run"),
             ~Has(todo'[t], "take_input")
      PROVE  obj'.input # Null
  <2>1. Has(todo[t], "run") /\ t[2] = k
    BY <1>3, HasAfter, ThreadKinds DEF OfConnect
  <2>2. todo'[t] # Cleanup
    BY <1>c, <1>3 DEF OfConnect
  <2>3. CASE Has(todo[t], "take_input")
    <3>1. Head(todo[t]) = "take_input"
      BY <1>3, <2>2, <2>3, HasAfter DEF OfConnect
    <3>2. ~NoStream(t)
      <4>1. ConnectFails(t) => todo'[t] = Cleanup
        BY Parts DEF ConnectFails, TodoTypes
      <4> QED
        BY <2>2, <4>1 DEF NoStream
    <3>3. obj' = [obj EXCEPT !.input = StreamOf(obj.socket)]
      BY <3>1, <3>2, ByHead DEF TakeInput, Sets
    <3>4. obj \in Fields
      BY Parts DEF ObjTypes
    <3>5. StreamOf(obj.socket) # Null
      BY <1>n, <3>4 DEF Fields, StreamOf, Null, StreamOfNull
    <3> QED
      BY <3>3, <3>4, <3>5 DEF Fields
  <2>4. CASE ~Has(todo[t], "take_input")
    <3>1. obj.input # Null
      BY <1>3, <2>1, <2>4 DEF Phases
    <3>2. Head(todo[t]) # "take_input"
      BY <2>4, Following
    <3>3. Head(todo[t]) # "forget"
      <4> SUFFICES ASSUME Head(todo[t]) = "forget"
                   PROVE  FALSE
        OBVIOUS
      <4>1. Has(todo[t], "start_sender")
        BY <1>3, <1>o, <2>1
      <4>2. Has(Tail(todo[t]), "start_sender")
        BY <4>1, Following
      <4>3. Head(todo[t]) \notin Straight
        BY DEF Straight
      <4>4. Has(todo[t], "dial")
        BY <4>2, <4>3, Following
      <4>5. "take_input" \in Needs("dial")
        BY DEF Needs
      <4>6. Ordered(todo[t])
        BY Following
      <4> QED
        BY <2>4, <4>4, <4>5, <4>6, HasNeeds
    <3> QED
      BY <3>1, <3>2, <3>3, FieldMoves
  <2> QED
    BY <2>3, <2>4
<1> QED
  BY <1>1, <1>2, <1>3 DEF Phases, Connector

\* A step is taken off the list, with steps put in front of the rest, unless connect fails.
LEMMA Continues ==
  ASSUME TypeOK, ListInv, NEW t \in Threads, ThreadSteps(t)
  PROVE  \/ todo'[t] = Cleanup
         \/ \E a \in Inserted(Head(todo[t])) :
              /\ a \in Seq(Steps) /\ todo'[t] = a \o Tail(todo[t])
              /\ \A x : Has(todo'[t], x) <=> Has(a, x) \/ Has(Tail(todo[t]), x)
<1>1. Moves(t) /\ Tail(todo[t]) \in Seq(Steps)
  BY Following
<1>2. ASSUME NEW a \in Inserted(Head(todo[t])), todo'[t] = a \o Tail(todo[t])
      PROVE  /\ a \in Seq(Steps)
             /\ \A x : Has(todo'[t], x) <=> Has(a, x) \/ Has(Tail(todo[t]), x)
  <2>1. a \in Seq(Steps)
    BY ListTypes
  <2>2. \A x : Has(a \o Tail(todo[t]), x) <=> Has(a, x) \/ Has(Tail(todo[t]), x)
    BY <1>1, <2>1, HasConcat
  <2> QED
    BY <1>2, <2>1, <2>2
<1> QED
  BY <1>1, <1>2 DEF Moves

LEMMA StaysToDo ==
  ASSUME TypeOK, ListInv, NEW t \in Threads, ThreadSteps(t), NEW x, Has(Tail(todo[t]), x)
  PROVE  Has(todo'[t], x) \/ todo'[t] = Cleanup
BY Continues

\* A socket is opened by the thread that made it.
LEMMA Opens ==
  ASSUME TypeOK, ListInv, NEW t \in Threads, ThreadSteps(t), Phases,
         NEW k \in Sockets, ~IsOpen(k), IsOpen(k)'
  PROVE  /\ t = Connector(k) /\ Head(todo[t]) = "reach" /\ obj.socket = k
         /\ Has(todo[t], "start_sender")
<1>1. Head(todo[t]) = "reach" /\ obj.socket = k
  BY StatusMoves DEF IsOpen
<1>2. t = Connector(t[2]) /\ t[2] \in Sockets
  BY <1>1, ConnectingThread, Following DEF OfConnect
<1>3. Has(todo[t], "reach") /\ ~Has(todo[t], "dial") /\ Has(todo[t], "start_sender")
  <2>1. "dial" \in Bars("reach") /\ "start_sender" \in Needs("reach")
    BY DEF Bars, Needs
  <2> QED
    BY <1>1, <2>1, Following
<1>4. obj.socket = t[2]
  BY <1>2, <1>3 DEF Phases
<1> QED
  BY <1>1, <1>2, <1>3, <1>4

LEMMA ForgetStep ==
  ASSUME TypeOK, ListInv, StartInv, NEW t \in Threads, ThreadSteps(t), Quiet, Phases,
         ForgetInv, OpenInv
  PROVE  ForgetInv'
<1> SUFFICES ASSUME NEW u \in Threads, Forgets(todo'[u]), NEW k \in Sockets, IsOpen(k)'
             PROVE  FALSE
  BY DEF ForgetInv
<1>1. CASE u # t
  <2>1. todo'[u] = todo[u]
    BY <1>1, OtherList, NoForgets
  <2>2. ~IsOpen(k)
    BY <2>1 DEF ForgetInv
  <2>3. t = Connector(k) /\ Has(todo[t], "start_sender")
    BY <2>2, Opens
  <2>4. todo[u] \in {<<>>, <<"offer">>}
    BY <1>1, <2>3 DEF Quiet, Others
  <2> QED
    BY <2>1, <2>4, NoForgets
<1>2. CASE u = t
  <2>1. todo'[t] # Cleanup
    BY <1>2, NoForgets
  <2>2. PICK a \in Inserted(Head(todo[t])) : a \in Seq(Steps) /\ todo'[t] = a \o Tail(todo[t])
    BY <2>1, Continues
  <2>3. todo[t] \in Seq(Steps) /\ todo[t] # <<>> /\ Tail(todo[t]) \in Seq(Steps)
    BY Following
  <2>4. Forgets(a \o Tail(todo[t])) /\ ~Forgets(a)
    BY <1>2, <2>2, NoForgets
  <2>5. Forgets(Tail(todo[t]))
    BY <2>2, <2>3, <2>4, ForgetsConcat
  <2>6. CASE IsOpen(k) /\ Head(todo[t]) # "close"
    <3>1. Forgets(todo[t])
      BY <2>3, <2>5, <2>6, ForgetsTail
    <3> QED
      BY <2>6, <3>1 DEF ForgetInv
  <2>7. CASE IsOpen(k) /\ Head(todo[t]) = "close"
    <3>1. obj.socket = k
      BY <2>7 DEF OpenInv, OpenOf
    <3>2. k \in ToClose
      BY <3>1 DEF ToClose
    <3>3. net' = [j \in Sockets |->
            IF j \in ToClose THEN [net[j] EXCEPT !.status = "closed"] ELSE net[j]]
      BY <2>7, ByHead DEF Close
    <3>4. net'[k] = [net[k] EXCEPT !.status = "closed"]
      BY <3>2, <3>3
    <3>5. net[k] \in Connections
      BY Parts, ConnectionOf
    <3>6. net'[k].status = "closed"
      BY <3>4, <3>5 DEF Connections
    <3> QED
      BY <3>6 DEF IsOpen
  <2>8. CASE ~IsOpen(k)
    <3>1. Head(todo[t]) = "reach"
      BY <2>8, Opens
    <3>2. "forget" \in Bars("reach")
      BY DEF Bars
    <3>3. ~Has(Tail(todo[t]), "forget")
      BY <3>1, <3>2, Following
    <3> QED
      BY <2>5, <3>3 DEF Forgets, Has
  <2> QED
    BY <2>6, <2>7, <2>8
<1> QED
  BY <1>1, <1>2

\* A socket that stays open stays the one in the object's field.
LEMMA StaysOpen ==
  ASSUME TypeOK, ListInv, StartInv, NEW t \in Threads, ThreadSteps(t), Quiet, ForgetInv,
         OpenInv, NEW k \in Sockets, IsOpen(k)
  PROVE  obj'.socket = k /\ Head(todo[t]) # "forget"
<1>1. obj.socket = k
  BY DEF OpenInv, OpenOf
<1>2. Head(todo[t]) # "forget"
  BY Following, ForgetsTail DEF ForgetInv
<1>3. ASSUME Head(todo[t]) = "dial"
      PROVE  FALSE
  <2>1. t = Connector(t[2]) /\ t[2] \in Sockets /\ Has(todo[t], "dial")
    BY <1>3, ConnectingThread, Following DEF OfConnect
  <2>2. Has(todo[t], "start_sender") /\ ~Has(todo[t], "close")
    <3>1. "close" \in Bars("dial") /\ "start_sender" \in Needs("dial")
      BY DEF Bars, Needs
    <3> QED
      BY <1>3, <3>1, Following
  <2>3. Others(t[2])
    BY <2>1, <2>2 DEF Quiet
  <2>4. k # t[2]
    BY <2>1 DEF StartInv, StartOf, IsOpen
  <2>5. \A u \in Threads \ {t} : \A x : Has(todo[u], x) => x = "offer"
    BY <2>1, <2>3 DEF Others, Has
  <2>6. Connector(k) \in Threads \ {t} /\ Receiver(k) \in Threads \ {t}
    BY <2>1, <2>4, ThreadKinds DEF Connector, Receiver
  <2>7. ~Closing
    BY <2>2, <2>5 DEF Closing
  <2>8. ~Connects(k) /\ ~Receives(k)
    BY <2>5, <2>6 DEF Connects, Receives
  <2> QED
    BY <2>7, <2>8 DEF OpenInv, OpenOf
<1> QED
  BY <1>1, <1>2, <1>3, FieldMoves

\* Who was going to close it still is, for the socket has not been closed.
LEMMA StaysClosing ==
  ASSUME TypeOK, ListInv, StartInv, NEW t \in Threads, ThreadSteps(t), OpenInv, Closing,
         NEW k \in Sockets, IsOpen(k), IsOpen(k)'
  PROVE  Closing'
<1>1. PICK u \in Threads : Has(todo[u], "close")
  BY DEF Closing
<1>2. CASE u # t
  <2>1. todo[u] # <<>>
    BY <1>1 DEF Has
  <2>2. todo'[u] = todo[u]
    BY <1>2, <2>1, OtherList
  <2> QED
    BY <1>1, <2>2 DEF Closing
<1>3. CASE u = t
  <2>1. Head(todo[t]) # "close"
    <3> SUFFICES ASSUME Head(todo[t]) = "close"
                 PROVE  FALSE
      OBVIOUS
    <3>1. obj.socket = k
      BY DEF OpenInv, OpenOf
    <3>2. k \in ToClose
      BY <3>1 DEF ToClose
    <3>3. net' = [j \in Sockets |->
            IF j \in ToClose THEN [net[j] EXCEPT !.status = "closed"] ELSE net[j]]
      BY ByHead DEF Close
    <3>4. net'[k] = [net[k] EXCEPT !.status = "closed"]
      BY <3>2, <3>3
    <3>5. net[k] \in Connections
      BY Parts, ConnectionOf
    <3>6. net'[k].status = "closed"
      BY <3>4, <3>5 DEF Connections
    <3> QED
      BY <3>6 DEF IsOpen
  <2>2. Has(Tail(todo[t]), "close")
    BY <1>1, <1>3, <2>1, Following
  <2>3. Has(todo'[t], "close")
    BY <2>2, StaysToDo, NoForgets
  <2> QED
    BY <2>3 DEF Closing
<1> QED
  BY <1>2, <1>3

\* The object goes on running, or who stopped it is going to close the sockets.
LEMMA KeepsRunning ==
  ASSUME TypeOK, ListInv, StartInv, NEW t \in Threads, ThreadSteps(t), Quiet, ForgetInv,
         OpenInv, NEW k \in Sockets, IsOpen(k), obj.running, obj.input # Null
  PROVE  Closing' \/ (obj'.running /\ obj'.input # Null)
<1>1. CASE Head(todo[t]) = "stop"
  <2>1. "close" \in Needs("stop")
    BY DEF Needs
  <2>2. Has(Tail(todo[t]), "close")
    BY <1>1, <2>1, Following
  <2>3. Has(todo'[t], "close")
    BY <2>2, StaysToDo, NoForgets
  <2> QED
    BY <2>3 DEF Closing
<1>2. CASE Head(todo[t]) # "stop"
  <2>1. obj'.running
    BY <1>2, FieldMoves
  <2>2. obj'.input = obj.input \/ obj'.input = StreamOf(obj.socket)
    BY FieldMoves, StaysOpen
  <2>3. StreamOf(obj.socket) # Null
    BY Parts DEF ObjTypes, Fields, StreamOf, StreamOfNull, Null, Sockets
  <2> QED
    BY <2>1, <2>2, <2>3
<1> QED
  BY <1>1, <1>2

\* A connecting thread comes to starting the receiving thread, or it cleans up.
LEMMA ConnectsStays ==
  ASSUME TypeOK, ListInv, StartInv, NEW t \in Threads, ThreadSteps(t), Quiet, Phases, ForgetInv,
         OpenInv, NEW k \in Sockets, IsOpen(k), Connects(k)
  PROVE  Closing' \/ Connects(k)' \/ Receives(k)'
<1> DEFINE c == Connector(k)
<1>k. c \in Threads /\ Receiver(k) \in Threads /\ Receiver(k) # c /\ c[2] = k
  BY ThreadKinds
<1>c. ASSUME todo'[t] = Cleanup
      PROVE  Closing'
  BY <1>c, NoForgets DEF Closing
<1>r. obj.running /\ obj.input # Null => Closing' \/ (obj'.running /\ obj'.input # Null)
  BY KeepsRunning
<1>1. CASE t # c
  <2>1. todo'[c] = todo[c]
    BY <1>1, OtherConnector
  <2> QED
    BY <1>r, <2>1 DEF Connects, Connector
<1>2. CASE t = c /\ Head(todo[t]) = "start_receiver"
  <2>1. "run" \in Bars("start_receiver")
    BY DEF Bars
  <2>2. ~Has(todo[t], "run")
    BY <1>2, <2>1, Following
  <2>3. obj.running /\ obj.input # Null
    BY <1>2, <2>2 DEF Connects
  <2>4. UNCHANGED obj
    BY <1>2, Touches
  <2>5. StartReceiver(t)
    BY <1>2, ByHead
  <2>6. todo' = [todo EXCEPT ![t] = Tail(@), ![Receiver(k)] = <<"receive_loop">>]
    BY <1>2, <1>k, <2>5 DEF StartReceiver
  <2>7. todo'[Receiver(k)] = <<"receive_loop">>
    BY <1>2, <1>k, <2>6, Parts DEF TodoTypes
  <2>8. Has(<<"receive_loop">>, "receive_loop")
    BY DEF Has
  <2> QED
    BY <2>3, <2>4, <2>7, <2>8 DEF Receives, Receiver
<1>3. CASE t = c /\ Head(todo[t]) # "start_receiver"
  <2>1. Has(todo'[t], "start_receiver") \/ todo'[t] = Cleanup
    BY <1>3, HasAfter DEF Connects, OfConnect
  <2>2. CASE Has(todo[t], "run")
    <3>1. CASE Head(todo[t]) = "run"
      <4>1. "take_input" \in Bars("run")
        BY DEF Bars
      <4>2. ~Has(todo[t], "take_input")
        BY <3>1, <4>1, Following
      <4>3. obj.input # Null
        BY <1>3, <2>2, <4>2 DEF Phases
      <4>4. obj'.input = obj.input
        BY <3>1, FieldMoves
      <4>5. obj' = [obj EXCEPT !.running = TRUE]
        BY <3>1, ByHead DEF Run, Sets
      <4>6. obj \in Fields
        BY Parts DEF ObjTypes
      <4>7. obj'.running
        BY <4>5, <4>6 DEF Fields
      <4> QED
        BY <1>3, <1>c, <2>1, <4>3, <4>4, <4>7 DEF Connects, Connector
    <3>2. CASE Head(todo[t]) # "run"
      <4>1. Has(todo'[t], "run") \/ todo'[t] = Cleanup
        BY <2>2, <3>2, HasAfter DEF OfConnect
      <4> QED
        BY <1>3, <1>c, <2>1, <4>1 DEF Connects, Connector
    <3> QED
      BY <3>1, <3>2
  <2>3. CASE ~Has(todo[t], "run")
    <3>1. obj.running /\ obj.input # Null
      BY <1>3, <2>3 DEF Connects
    <3> QED
      BY <1>3, <1>c, <1>r, <2>1, <3>1 DEF Connects, Connector
  <2> QED
    BY <2>2, <2>3
<1> QED
  BY <1>1, <1>2, <1>3

\* A receiving thread reads on, or it has seen the end and cleans up.
LEMMA ReceivesStays ==
  ASSUME TypeOK, ListInv, StartInv, NEW t \in Threads, ThreadSteps(t), Quiet, ForgetInv,
         OpenInv, NEW k \in Sockets, IsOpen(k), Receives(k)
  PROVE  Closing' \/ Receives(k)'
<1>1. Closing' \/ (obj'.running /\ obj'.input # Null)
  BY KeepsRunning DEF Receives
<1>2. PICK x \in {"receive_loop", "look", "read"} : Has(todo[Receiver(k)], x)
  BY DEF Receives
<1>3. Closing' \/ \E y \in {"receive_loop", "look", "read"} : Has(todo'[Receiver(k)], y)
  <2>c. Has(Cleanup, "close")
    BY NoForgets
  <2>k. Receiver(k) \in Threads
    BY ThreadKinds
  <2>1. CASE t # Receiver(k)
    <3>1. todo[Receiver(k)] # <<>>
      BY <1>2 DEF Has
    <3>2. todo'[Receiver(k)] = todo[Receiver(k)]
      BY <2>1, <2>k, <3>1, OtherList
    <3> QED
      BY <1>2, <3>2
  <2>2. CASE t = Receiver(k) /\ Has(Tail(todo[t]), x)
    <3>1. Has(todo'[t], x) \/ todo'[t] = Cleanup
      BY <2>2, StaysToDo
    <3> QED
      BY <2>2, <2>c, <3>1 DEF Closing
  <2>3. CASE t = Receiver(k) /\ Head(todo[t]) = x
    <3>h. /\ todo[t] \in Seq(Steps) /\ todo[t] # <<>> /\ Tail(todo[t]) \in Seq(Steps)
          /\ TodoTypes
      BY Following, Parts
    <3>g. ASSUME NEW a \in Seq(Steps), GoesOn(t, a), NEW y, Has(a, y)
          PROVE  Has(todo'[t], y)
      <4>1. todo'[t] = a \o Tail(todo[t])
        BY <3>g, <3>h, Went
      <4>2. Has(a \o Tail(todo[t]), y)
        BY <3>g, <3>h, HasConcat
      <4> QED
        BY <4>1, <4>2
    <3>s. /\ \A y : Has(<<y>>, y)
          /\ <<"look">> \in Seq(Steps) /\ <<"read">> \in Seq(Steps)
          /\ <<"receive_loop">> \in Seq(Steps)
      BY StepNames DEF Has
    <3>1. CASE x = "receive_loop"
      <4>1. GoesOn(t, <<"look">>)
        BY <2>3, <3>1, ByHead DEF ReceiveLoop, Goes, Receives
      <4> QED
        BY <2>3, <3>g, <3>s, <4>1
    <3>2. CASE x = "look"
      <4>1. GoesOn(t, <<"read">>)
        BY <2>3, <3>2, ByHead DEF Look, Receives
      <4> QED
        BY <2>3, <3>g, <3>s, <4>1
    <3>3. CASE x = "read"
      <4>1. ReadOfNull(t) \/ ReadFails(t) \/ Read(t)
        BY <2>3, <3>3, ByHead
      <4>2. CASE ReadOfNull(t)
        BY <2>3, <3>g, <3>s, <4>2 DEF ReadOfNull, Goes
      <4>3. CASE ReadFails(t)
        <5>1. GoesOn(t, HandleDisconnect)
          BY <4>3 DEF ReadFails, Goes, Receives
        <5>2. Has(todo'[t], "close")
          BY <3>g, <5>1, ListTypes, NoForgets
        <5> QED
          BY <5>2 DEF Closing
      <4>4. CASE Read(t)
        <5>1. PICK a \in {Disconnect, HandleDisconnect} : GoesOn(t, a \o <<"receive_loop">>)
          BY <4>4 DEF Read, AfterReply
        <5>2. a \in Seq(Steps)
          BY <5>1, ListTypes
        <5>3. a \o <<"receive_loop">> \in Seq(Steps) /\ Has(a \o <<"receive_loop">>, "receive_loop")
          BY <3>s, <5>2, HasConcat, ConcatParts
        <5> QED
          BY <2>3, <3>g, <5>1, <5>3
      <4> QED
        BY <4>1, <4>2, <4>3, <4>4
    <3> QED
      BY <3>1, <3>2, <3>3
  <2> QED
    BY <1>2, <2>1, <2>2, <2>3, Following
<1> QED
  BY <1>1, <1>3 DEF Receives, Receiver

LEMMA OpenStep ==
  ASSUME TypeOK, ListInv, StartInv, NEW t \in Threads, ThreadSteps(t), Quiet, Phases, ForgetInv,
         OpenInv
  PROVE  OpenInv'
<1> SUFFICES ASSUME NEW k \in Sockets, IsOpen(k)'
             PROVE  obj'.socket = k /\ (Closing' \/ Connects(k)' \/ Receives(k)')
  BY DEF OpenInv, OpenOf
<1>1. CASE IsOpen(k)
  <2>1. obj'.socket = k
    BY <1>1, StaysOpen
  <2>2. Closing \/ Connects(k) \/ Receives(k)
    BY <1>1 DEF OpenInv, OpenOf
  <2>3. Closing' \/ Connects(k)' \/ Receives(k)'
    BY <1>1, <2>2, StaysClosing, ConnectsStays, ReceivesStays
  <2> QED
    BY <2>1, <2>3
<1>2. CASE ~IsOpen(k)
  <2>1. t = Connector(k) /\ Head(todo[t]) = "reach" /\ obj.socket = k
    BY <1>2, Opens
  <2>2. UNCHANGED obj
    BY <2>1, Touches
  <2>3. "run" \in Needs("reach") /\ "start_receiver" \in Needs("reach")
    BY DEF Needs
  <2>4. Has(Tail(todo[t]), "run") /\ Has(Tail(todo[t]), "start_receiver")
    BY <2>1, <2>3, Following
  <2>5. todo'[t] = Cleanup \/ (Has(todo'[t], "run") /\ Has(todo'[t], "start_receiver"))
    BY <2>4, StaysToDo
  <2>6. todo'[t] = Cleanup => Closing'
    BY NoForgets DEF Closing
  <2> QED
    BY <2>1, <2>2, <2>5, <2>6 DEF Connects, Connector
<1> QED
  BY <1>1, <1>2

-----------------------------------------------------------------------------
(* The user *)

LEMMA ConnectHas ==
  /\ Has(Connect, "dial") /\ Has(Connect, "take_input")
  /\ \A x : Has(Disconnect, x) => x \notin OfConnect
<1>1. Len(Connect) = 10 /\ Connect[2] = "dial" /\ Connect[4] = "take_input"
  BY DEF Connect
<1>2. 2 \in 1 .. 10 /\ 4 \in 1 .. 10
  OBVIOUS
<1>3. Has(Connect, "dial") /\ Has(Connect, "take_input")
  BY <1>1, <1>2 DEF Has
<1>4. \A x : Has(Disconnect, x) => x \notin OfConnect
  BY SimpleLists, SimpleHas
<1> QED
  BY <1>3, <1>4

\* What an action of the user starts on t, if that does not make threads overlap.
StartsAlone(t, a) ==
  /\ GivenTo(t, a)
  /\ \/ a = <<"offer">> /\ t = Ui
     \/ a = Disconnect /\ t = Ui /\ \A k \in Sockets : todo[Connector(k)] = <<>>
     \/ a = Connect /\ t[1] = "connect" /\ \A u \in Threads : todo[u] = <<>>

LEMMA UserAlone ==
  ASSUME TypeOK, ~overlapped', ~overlapped,
         SurfaceDestroyed \/ SendTouchEvent \/ \E k \in Sockets : SurfaceCreated(k)
  PROVE  \E t \in Threads : \E a : StartsAlone(t, a)
<1>t. TodoTypes /\ Ui \in Threads
  BY Parts, ThreadKinds
<1>u. ASSUME NEW t \in Threads, NEW a, Begins(t, a), todo[t] = <<>>,
             \A u \in Threads \ {t} : msg'[u] = msg[u]
      PROVE  GivenTo(t, a)
  BY <1>t, <1>u DEF Begins, GivenTo, TodoTypes
<1>1. CASE SurfaceDestroyed
  <2>1. Begins(Ui, Disconnect) /\ UNCHANGED msg /\ todo[Ui] = <<>>
    BY <1>1 DEF SurfaceDestroyed, Begins
  <2>2. \A k \in Sockets : todo[Connector(k)] = <<>>
    BY <1>1 DEF SurfaceDestroyed
  <2>3. GivenTo(Ui, Disconnect)
    BY <1>t, <1>u, <2>1
  <2> QED
    BY <1>t, <2>2, <2>3 DEF StartsAlone
<1>2. CASE SendTouchEvent
  <2>1. Begins(Ui, <<"offer">>) /\ todo[Ui] = <<>>
    BY <1>2 DEF SendTouchEvent, Begins
  <2>2. \A u \in Threads \ {Ui} : msg'[u] = msg[u]
    BY <1>2, Parts DEF SendTouchEvent, LocalTypes
  <2>3. GivenTo(Ui, <<"offer">>)
    BY <1>t, <1>u, <2>1, <2>2
  <2> QED
    BY <1>t, <2>3 DEF StartsAlone
<1>3. ASSUME NEW k \in Sockets, SurfaceCreated(k)
      PROVE  \E t \in Threads : \E a : StartsAlone(t, a)
  <2>1. Begins(Connector(k), Connect) /\ UNCHANGED msg
    BY <1>3 DEF SurfaceCreated
  <2>2. \A u \in Threads : todo[u] = <<>>
    BY <1>3 DEF SurfaceCreated
  <2>3. Connector(k) \in Threads /\ Connector(k)[1] = "connect"
    BY ThreadKinds
  <2>4. GivenTo(Connector(k), Connect)
    BY <1>u, <2>1, <2>2, <2>3
  <2> QED
    BY <2>2, <2>3, <2>4 DEF StartsAlone
<1> QED
  BY <1>1, <1>2, <1>3

LEMMA AloneUser ==
  ASSUME TypeOK, ListInv, Quiet, Phases, ForgetInv, OpenInv,
         NEW t \in Threads, NEW a, StartsAlone(t, a)
  PROVE  Quiet' /\ Phases' /\ ForgetInv' /\ OpenInv'
<1>1. /\ todo[t] = <<>> /\ todo'[t] = a /\ obj' = obj /\ net' = net
      /\ \A u \in Threads \ {t} : todo'[u] = todo[u]
  BY DEF StartsAlone, GivenTo
<1>k. \A k \in Sockets : /\ Connector(k) \in Threads /\ Receiver(k) \in Threads
                         /\ Connector(k) # Ui /\ Receiver(k) # Ui
                         /\ Receiver(k)[1] # "connect"
  BY ThreadKinds DEF Receiver
<1>e. \A x : ~Has(<<>>, x)
  BY DEF Has
\* Nobody's list loses a step.
<1>2. \A u \in Threads : \A x : Has(todo[u], x) => Has(todo'[u], x)
  BY <1>1, <1>e
<1>3. Quiet'
  <2> SUFFICES ASSUME NEW k \in Sockets, Has(todo'[Connector(k)], "start_sender")
               PROVE  Others(k)'
    BY DEF Quiet, Connector
  <2>1. CASE t = Connector(k)
    <3>1. \A u \in Threads : todo[u] = <<>>
      BY <1>k, <2>1, <1>1 DEF StartsAlone
    <3> QED
      BY <1>1, <2>1, <3>1 DEF Others, Connector
  <2>2. CASE t # Connector(k)
    <3>1. Has(todo[Connector(k)], "start_sender")
      BY <1>1, <1>k, <2>2
    <3>2. todo[Connector(k)] # <<>>
      BY <1>e, <3>1
    <3>3. a = <<"offer">>
      BY <1>k, <3>2 DEF StartsAlone
    <3>4. Others(k)
      BY <3>1 DEF Quiet
    <3> QED
      BY <1>1, <3>3, <3>4 DEF Others, Connector
  <2> QED
    BY <2>1, <2>2
<1>4. Phases'
  <2> SUFFICES ASSUME NEW k \in Sockets
               PROVE  /\ Has(todo'[Connector(k)], "reach") /\ ~Has(todo'[Connector(k)], "dial")
                           => obj'.socket = k
                      /\ Has(todo'[Connector(k)], "run") /\ ~Has(todo'[Connector(k)], "take_input")
                           => obj'.input # Null
    BY DEF Phases, Connector
  <2>1. CASE t = Connector(k)
    <3>1. a = Connect
      BY <1>k, <2>1 DEF StartsAlone
    <3> QED
      BY <1>1, <2>1, <3>1, ConnectHas
  <2>2. CASE t # Connector(k)
    BY <1>1, <1>k, <2>2 DEF Phases
  <2> QED
    BY <2>1, <2>2
<1>5. ForgetInv'
  <2> SUFFICES ASSUME NEW u \in Threads, Forgets(todo'[u]), NEW k \in Sockets
               PROVE  ~IsOpen(k)'
    BY DEF ForgetInv
  <2>1. ~Forgets(a)
    BY NoForgets DEF StartsAlone
  <2>2. Forgets(todo[u])
    BY <1>1, <2>1
  <2> QED
    BY <1>1, <2>2 DEF ForgetInv, IsOpen
<1>6. OpenInv'
  <2> SUFFICES ASSUME NEW k \in Sockets, IsOpen(k)'
               PROVE  obj'.socket = k /\ (Closing' \/ Connects(k)' \/ Receives(k)')
    BY DEF OpenInv, OpenOf
  <2>1. obj.socket = k /\ (Closing \/ Connects(k) \/ Receives(k))
    BY <1>1 DEF OpenInv, OpenOf, IsOpen
  <2>2. Closing => Closing'
    BY <1>2 DEF Closing
  <2>3. Connects(k) => Connects(k)'
    BY <1>1, <1>2, <1>k DEF Connects, Connector
  <2>4. Receives(k) => Receives(k)'
    BY <1>1, <1>2, <1>k DEF Receives, Receiver
  <2> QED
    BY <1>1, <2>1, <2>2, <2>3, <2>4
<1> QED
  BY <1>3, <1>4, <1>5, <1>6

LEMMA AloneServer ==
  ASSUME TypeOK, ServerStep, Quiet, Phases, ForgetInv, OpenInv
  PROVE  Quiet' /\ Phases' /\ ForgetInv' /\ OpenInv'
<1>1. /\ todo' = todo /\ obj' = obj
      /\ \A k \in Sockets : net'[k].status = net[k].status
  BY ServerMoves DEF locals, user
<1>2. \A k \in Sockets : IsOpen(k)' <=> IsOpen(k)
  BY <1>1 DEF IsOpen
<1>3. Quiet' /\ Phases'
  BY <1>1 DEF Quiet, Others, Phases, Connector
<1>4. ForgetInv'
  BY <1>1, <1>2 DEF ForgetInv
<1>5. \A k \in Sockets : (Closing <=> Closing') /\ (Connects(k) <=> Connects(k)')
                         /\ (Receives(k) <=> Receives(k)')
  BY <1>1 DEF Closing, Connects, Receives, Connector, Receiver
<1>6. OpenInv'
  BY <1>1, <1>2, <1>5 DEF OpenInv, OpenOf
<1> QED
  BY <1>3, <1>4, <1>6

LEMMA NextAlone ==
  ASSUME TypeOK, ListInv, StartInv, AloneInv, [Next]_vars
  PROVE  AloneInv'
<1> SUFFICES ASSUME ~overlapped'
             PROVE  Quiet' /\ Phases' /\ ForgetInv' /\ OpenInv'
  BY DEF AloneInv
<1>b. overlapped \in BOOLEAN /\ overlapped' \in BOOLEAN
  <2>1. TypeOK'
    BY NextTypes
  <2> QED
    BY <2>1 DEF TypeOK
<1>1. ASSUME NEW t \in Threads, ThreadSteps(t)
      PROVE  Quiet' /\ Phases' /\ ForgetInv' /\ OpenInv'
  <2>1. ~overlapped
    BY <1>1, Touches
  <2>2. Quiet /\ Phases /\ ForgetInv /\ OpenInv
    BY <2>1 DEF AloneInv
  <2> QED
    BY <1>1, <2>2, QuietStep, PhasesStep, ForgetStep, OpenStep
<1>2. CASE SurfaceDestroyed \/ SendTouchEvent \/ \E k \in Sockets : SurfaceCreated(k)
  <2>1. ~overlapped
    BY <1>2 DEF SurfaceDestroyed, SendTouchEvent, SurfaceCreated
  <2>2. Quiet /\ Phases /\ ForgetInv /\ OpenInv
    BY <2>1 DEF AloneInv
  <2>3. PICK t \in Threads : \E a : StartsAlone(t, a)
    BY <1>2, <2>1, UserAlone
  <2> QED
    BY <2>2, <2>3, AloneUser
<1>3. CASE ServerStep
  <2>1. ~overlapped
    BY <1>3, ServerMoves DEF user
  <2>2. Quiet /\ Phases /\ ForgetInv /\ OpenInv
    BY <2>1 DEF AloneInv
  <2> QED
    BY <1>3, <2>2, AloneServer
<1>4. CASE UNCHANGED vars
  <2>1. todo' = todo /\ obj' = obj /\ net' = net /\ overlapped' = overlapped
    BY <1>4 DEF vars, user
  <2>2. Quiet /\ Phases /\ ForgetInv /\ OpenInv
    BY <2>1 DEF AloneInv
  <2>3. Quiet' /\ Phases'
    BY <2>1, <2>2 DEF Quiet, Others, Phases, Connector
  <2>4. ForgetInv'
    BY <2>1, <2>2 DEF ForgetInv, IsOpen
  <2>5. \A k \in Sockets : (Closing <=> Closing') /\ (Connects(k) <=> Connects(k)')
                           /\ (Receives(k) <=> Receives(k)') /\ (IsOpen(k) <=> IsOpen(k)')
    BY <2>1 DEF Closing, Connects, Receives, Connector, Receiver, IsOpen
  <2>6. OpenInv'
    BY <2>1, <2>2, <2>5 DEF OpenInv, OpenOf
  <2> QED
    BY <2>3, <2>4, <2>6
<1> QED
  BY <1>1, <1>2, <1>3, <1>4 DEF Next, ServerStep

LEMMA InitAlone == Init => AloneInv
<1> SUFFICES ASSUME Init
             PROVE  AloneInv
  OBVIOUS
<1>1. /\ \A t \in Threads : todo[t] = <<>>
      /\ \A k \in Sockets : net[k].status = "none"
  BY DEF Init, NoConnection
<1>2. \A t \in Threads : \A x : ~Has(todo[t], x)
  BY <1>1 DEF Has
<1>3. Quiet /\ Phases
  BY <1>2, ThreadKinds DEF Quiet, Phases
<1>4. ForgetInv /\ OpenInv
  BY <1>1 DEF ForgetInv, OpenInv, OpenOf, IsOpen
<1> QED
  BY <1>3, <1>4 DEF AloneInv

\* However a connection ends, and whoever cleans up first: when the threads of the client have
\* ended, no socket is left open, unless a connect ran beside a disconnect or a connect.
THEOREM NoSocketIsLeft == Spec => []NoSocketLeft
<1>1. Init => AloneInv
  BY InitAlone
<1>2. ClientInv /\ AloneInv /\ [Next]_vars => AloneInv'
  BY NextAlone DEF ClientInv
<1>3. AloneInv => NoSocketLeft
  <2> SUFFICES ASSUME AloneInv, AllEnded, ~overlapped, NEW k \in Sockets, IsOpen(k)
               PROVE  FALSE
    BY DEF NoSocketLeft, IsOpen
  <2>1. Closing \/ Connects(k) \/ Receives(k)
    BY DEF AloneInv, OpenInv, OpenOf
  <2>2. \A t \in Threads : \A x : ~Has(todo[t], x)
    BY DEF AllEnded, Has
  <2> QED
    BY <2>1, <2>2, ThreadKinds DEF Closing, Connects, Receives
<1> QED
  BY <1>1, <1>2, <1>3, ClientInvariance, PTL DEF Spec
=============================================================================
