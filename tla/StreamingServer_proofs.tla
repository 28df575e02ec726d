---------------------- MODULE StreamingServer_proofs ----------------------
(***************************************************************************)
(* For any number of workers, producers, clients and messages: types, one  *)
(* handler per client, mutex_ held exactly inside its critical section,    *)
(* each client's touches delivered in order and once, a PONG for no more   *)
(* than each PING, and frames reaching everybody while nobody has left.    *)
(* With one producer: frames in order.                                     *)
(***************************************************************************)
EXTENDS StreamingServer, FiniteSetTheorems, TLAPS

\* What TypeOK needs to be inductive: the numbers a worker counts with.
Counts ==
  /\ \A i \in Ids : Len(sent[i]) <= MaxInbox /\ got[i] <= Len(sent[i])
  /\ \A w \in Workers :
       IF InHandler(w) THEN cid[w] < next_id /\ todo[w] <= got[cid[w]]
                       ELSE todo[w] = 0

\* An id is in use only once next_id_ has passed it.
Fresh == \A i \in reading : i < next_id

Inv == TypeOK /\ Counts /\ Fresh /\ OneHandlerPerClient /\ MutexHeldInside

\* TypeOK in parts, one for each group of variables that change together.
ConnTypes ==
  /\ accepting \in BOOLEAN
  /\ next_id \in 0 .. MaxClients
  /\ conns \subseteq Ids
  /\ reading \subseteq Ids
OutTypes ==
  /\ sequence \in Nat
  /\ frames \in 0 .. MaxFrames
  /\ wire \in [Ids -> Seq(ServerMessage)]
HistTypes ==
  /\ inputs \in [Ids -> Seq(1 .. MaxInbox)]
  /\ due \in [Threads -> SUBSET Ids]
ClientTypes ==
  /\ open \subseteq Ids
  /\ sent \in [Ids -> Seq(ClientKinds)]
  /\ got \in [Ids -> 0 .. MaxInbox]
  /\ unread \in [Ids -> 0 .. Window]
TaskTypes ==
  /\ cid \in [Threads -> Nat]
  /\ todo \in [Threads -> 0 .. MaxInbox]
  /\ msg \in [Threads -> ServerMessage]
  /\ idx \in [Threads -> Nat]
ThreadTypes ==
  /\ alive \in BOOLEAN
  /\ LabelsOK
  /\ mutex \in Workers \cup {NoThread}

LEMMA Parts ==
  /\ TypeOK <=> /\ ConnTypes /\ OutTypes /\ HistTypes
                /\ ClientTypes /\ TaskTypes /\ ThreadTypes
  /\ TypeOK' <=> /\ ConnTypes' /\ OutTypes' /\ HistTypes'
                 /\ ClientTypes' /\ TaskTypes' /\ ThreadTypes'
BY DEF TypeOK, ConnTypes, OutTypes, HistTypes, ClientTypes, TaskTypes, ThreadTypes

\* A group that does not change keeps its type.
LEMMA Frame ==
  ASSUME Inv
  PROVE  /\ UNCHANGED connVars => ConnTypes'
         /\ UNCHANGED outVars => OutTypes'
         /\ UNCHANGED histVars => HistTypes'
         /\ UNCHANGED clientVars => ClientTypes'
         /\ UNCHANGED taskVars => TaskTypes'
<1> USE Parts DEF Inv
<1>1. UNCHANGED connVars => ConnTypes'
  BY DEF ConnTypes, connVars
<1>2. UNCHANGED outVars => OutTypes'
  BY DEF OutTypes, outVars
<1>3. UNCHANGED histVars => HistTypes'
  BY DEF HistTypes, histVars
<1>4. UNCHANGED clientVars => ClientTypes'
  BY DEF ClientTypes, clientVars
<1>5. UNCHANGED taskVars => TaskTypes'
  BY DEF TaskTypes, taskVars
<1> QED
  BY <1>1, <1>2, <1>3, <1>4, <1>5

LEMMA MessageType ==
  ASSUME NEW n \in Nat, NEW kind \in ServerKinds
  PROVE  Message(kind, n) \in ServerMessage
BY DEF Message, ServerMessage

LEMMA NoMessageType == NoMessage \in ServerMessage
BY MessageType DEF NoMessage, ServerKinds

LEMMA InitInv == Init => Inv
<1> SUFFICES ASSUME Init PROVE Inv
  OBVIOUS
<1>1. TypeOK
  BY NoMessageType, ThreadsAssumption, BoundsAssumption
     DEF Init, TypeOK, Cleared, Threads, Ids, LabelsOK, WorkerLabels,
         ProducerLabels, LockedLabels
<1>2. Counts /\ Fresh /\ OneHandlerPerClient /\ MutexHeldInside
  BY ThreadsAssumption, BoundsAssumption
     DEF Init, InHandler, LockedLabels, LoopLabels, Counts, Fresh, Threads, Ids,
         OneHandlerPerClient, MutexHeldInside
<1> QED
  BY <1>1, <1>2 DEF Inv

-----------------------------------------------------------------------------
(* What the helpers of the actions do to the types *)

\* A step of one worker, from one of its labels to another.
LEMMA WorkerGoes ==
  ASSUME Inv, NEW w \in Workers, NEW from, NEW to \in WorkerLabels, Goto(w, from, to)
  PROVE  /\ LabelsOK'
         /\ alive' \in BOOLEAN
         /\ pc[w] = from
         /\ pc'[w] = to
         /\ \A v \in Workers \ {w} : pc'[v] = pc[v]
BY ThreadsAssumption DEF Inv, TypeOK, LabelsOK, Goto, Threads

LEMMA ProducerGoes ==
  ASSUME Inv, NEW p \in Producers, NEW from, NEW to \in ProducerLabels,
         pc[p] = from, pc' = [pc EXCEPT ![p] = to]
  PROVE  LabelsOK' /\ \A v \in Workers : pc'[v] = pc[v]
BY ThreadsAssumption DEF Inv, TypeOK, LabelsOK, Threads

LEMMA SendTypes ==
  ASSUME Inv, NEW i \in Nat, NEW m \in ServerMessage, SendDone(i, m)
  PROVE  /\ wire' \in [Ids -> Seq(ServerMessage)]
         /\ unread' \in [Ids -> 0 .. Window]
<1>1. CASE i \in open
  <2>1. i \in Ids /\ unread[i] \in 0 .. Window /\ wire[i] \in Seq(ServerMessage)
    BY <1>1 DEF Inv, TypeOK
  <2>2. unread[i] + 1 \in 0 .. Window /\ Append(wire[i], m) \in Seq(ServerMessage)
    BY <1>1, <2>1, BoundsAssumption DEF SendDone
  <2> QED
    BY <1>1, <2>2 DEF SendDone, Inv, TypeOK
<1>2. CASE i \notin open
  BY <1>2 DEF SendDone, Inv, TypeOK
<1> QED
  BY <1>1, <1>2

LEMMA EndTypes ==
  ASSUME Inv, NEW w \in Workers, EndOfTask(w)
  PROVE  TaskTypes'
<1>1. TaskTypes
  BY DEF Inv, TypeOK, TaskTypes
<1>2. 0 \in 0 .. MaxInbox
  BY BoundsAssumption
<1> QED
  BY <1>1, <1>2, NoMessageType DEF EndOfTask, TaskTypes

LEMMA PopsTypes ==
  ASSUME Inv, NEW w \in Workers, NEW kind, Pops(w, kind)
  PROVE  todo' \in [Threads -> 0 .. MaxInbox]
<1>1. todo \in [Threads -> 0 .. MaxInbox] /\ w \in Threads /\ MaxInbox \in Nat
  BY BoundsAssumption DEF Inv, TypeOK, Threads
<1>2. todo[w] \in 0 .. MaxInbox /\ todo[w] > 0
  BY <1>1 DEF Pops
<1>3. todo[w] - 1 \in 0 .. MaxInbox
  BY <1>1, <1>2
<1> QED
  BY <1>1, <1>3 DEF Pops

LEMMA UnlockedType ==
  ASSUME Inv, NEW w \in Workers
  PROVE  Unlocked(w) \in Workers \cup {NoThread}
BY DEF Unlocked, Inv, TypeOK

-----------------------------------------------------------------------------
(* How the other parts of the invariant survive a step of a worker *)

\* The numbers a worker counts with are in range.
LEMMA Numbers ==
  ASSUME Inv, NEW w \in Workers
  PROVE  /\ cid[w] \in Nat /\ todo[w] \in 0 .. MaxInbox /\ todo[w] \in Nat
         /\ next_id \in Nat
         /\ InHandler(w) => /\ cid[w] \in Ids /\ got[cid[w]] \in Nat
                            /\ cid[w] < next_id /\ todo[w] <= got[cid[w]]
<1>1. /\ cid[w] \in Nat /\ todo[w] \in 0 .. MaxInbox
      /\ next_id \in 0 .. MaxClients /\ got \in [Ids -> 0 .. MaxInbox]
  BY DEF Inv, TypeOK, Threads
<1>2. InHandler(w) => cid[w] < next_id /\ todo[w] <= got[cid[w]]
  BY DEF Inv, Counts
<1>3. InHandler(w) => cid[w] \in Ids
  BY <1>1, <1>2, BoundsAssumption DEF Ids
<1> QED
  BY <1>1, <1>2, <1>3, BoundsAssumption

LEMMA CurrentInRange ==
  ASSUME Inv, NEW w \in Workers, InHandler(w), todo[w] > 0
  PROVE  cid[w] \in Ids /\ Current(w) \in 1 .. MaxInbox
<1>1. /\ cid[w] \in Ids /\ todo[w] \in Nat /\ todo[w] <= got[cid[w]]
      /\ got[cid[w]] \in 0 .. MaxInbox
  BY Numbers DEF Inv, TypeOK
<1> QED
  BY <1>1, BoundsAssumption DEF Current

\* The worker stays in its handler; it may take one of its messages.
LEMMA HandlerGoesOn ==
  ASSUME Inv, NEW w \in Workers, InHandler(w), InHandler(w)',
         \A v \in Workers \ {w} : pc'[v] = pc[v],
         UNCHANGED <<next_id, reading, sent, got, cid>>,
         \/ UNCHANGED todo
         \/ todo[w] > 0 /\ todo' = [todo EXCEPT ![w] = @ - 1]
  PROVE  Counts' /\ Fresh' /\ OneHandlerPerClient'
<1>1. Counts'
  <2>1. \A v \in Workers : InHandler(v)' <=> InHandler(v)
    BY DEF InHandler
  <2>2. \A v \in Workers : \/ todo'[v] = todo[v]
                           \/ v = w /\ todo'[v] = todo[v] - 1
    BY DEF Inv, TypeOK, Threads
  <2>3. ASSUME NEW v \in Workers, InHandler(v)
        PROVE  cid'[v] < next_id' /\ todo'[v] <= got'[cid'[v]]
    <3>1. cid[v] < next_id /\ todo[v] <= got[cid[v]]
      BY <2>3 DEF Inv, Counts
    <3>3. got[cid[v]] \in Nat /\ todo[v] \in Nat
      BY <2>3, Numbers
    <3> QED
      BY <2>2, <3>1, <3>3
  <2>4. ASSUME NEW v \in Workers, ~InHandler(v)
        PROVE  todo'[v] = 0
    BY <2>4, <2>2 DEF Inv, Counts
  <2> QED
    BY <2>1, <2>3, <2>4 DEF Inv, Counts
<1>2. Fresh'
  BY DEF Inv, Fresh
<1>3. OneHandlerPerClient'
  BY DEF Inv, OneHandlerPerClient, InHandler
<1> QED
  BY <1>1, <1>2, <1>3

\* The handler ends; it may have posted the next read of its client.
LEMMA HandlerEnds ==
  ASSUME Inv, NEW w \in Workers, InHandler(w), pc'[w] = "idle",
         \A v \in Workers \ {w} : pc'[v] = pc[v],
         EndOfTask(w), UNCHANGED <<next_id, sent, got>>,
         reading' \subseteq reading \cup {cid[w]}
  PROVE  Counts' /\ Fresh' /\ OneHandlerPerClient'
<1>1. \A v \in Workers \ {w} : /\ cid'[v] = cid[v] /\ todo'[v] = todo[v]
                               /\ InHandler(v)' <=> InHandler(v)
  BY DEF EndOfTask, Inv, TypeOK, InHandler, Threads
<1>2. ~InHandler(w)'
  BY DEF InHandler
<1>3. Counts'
  <2>1. todo'[w] = 0
    BY DEF EndOfTask, Inv, TypeOK, Threads
  <2> QED
    BY <1>1, <1>2, <2>1 DEF Inv, Counts
<1>4. Fresh'
  BY DEF Inv, Fresh, Counts
<1>5. OneHandlerPerClient'
  BY <1>1, <1>2 DEF Inv, OneHandlerPerClient
<1> QED
  BY <1>3, <1>4, <1>5

LEMMA MutexKept ==
  ASSUME Inv, NEW w \in Workers, UNCHANGED mutex,
         \A v \in Workers \ {w} : pc'[v] = pc[v],
         pc'[w] \in LockedLabels <=> pc[w] \in LockedLabels
  PROVE  MutexHeldInside' /\ mutex' \in Workers \cup {NoThread}
BY DEF Inv, TypeOK, MutexHeldInside

LEMMA MutexReleased ==
  ASSUME Inv, NEW w \in Workers, mutex' = Unlocked(w),
         \A v \in Workers \ {w} : pc'[v] = pc[v],
         pc'[w] \notin LockedLabels
  PROVE  MutexHeldInside' /\ mutex' \in Workers \cup {NoThread}
BY UnlockedType, ThreadsAssumption DEF Inv, TypeOK, MutexHeldInside, Unlocked

\* An exception on a worker, with the rest of the state as the code leaves it.
LEMMA WorkerThrows ==
  ASSUME Inv, NEW w \in Workers, InHandler(w), Thrown(w),
         UNCHANGED <<connVars, histVars, sequence, frames, wire, clientVars>>
  PROVE  Inv'
<1> USE DEF connVars
<1>1. Goto(w, pc[w], "idle") /\ mutex' = Unlocked(w) /\ EndOfTask(w)
  BY DEF Thrown
<1>2. /\ LabelsOK' /\ alive' \in BOOLEAN /\ pc'[w] = "idle"
      /\ \A v \in Workers \ {w} : pc'[v] = pc[v]
  BY <1>1, WorkerGoes DEF WorkerLabels
<1>3. Counts' /\ Fresh' /\ OneHandlerPerClient'
  BY <1>1, <1>2, HandlerEnds DEF clientVars
<1>4. MutexHeldInside' /\ mutex' \in Workers \cup {NoThread}
  BY <1>1, <1>2, MutexReleased DEF LockedLabels, LoopLabels
<1>5. TaskTypes'
  BY <1>1, EndTypes
<1>6. ConnTypes' /\ OutTypes' /\ HistTypes' /\ ClientTypes'
  BY Frame DEF outVars
<1> QED
  BY <1>2, <1>3, <1>4, <1>5, <1>6, Parts DEF Inv, ThreadTypes

-----------------------------------------------------------------------------
(* The steps of Next *)

\* The steps of the clients leave the server's own state alone.
LEMMA ClientStep ==
  ASSUME Inv, NEW i \in Ids, Client(i)
  PROVE  Inv'
<1> USE DEF connVars, outVars, histVars, taskVars
<1>1. UNCHANGED <<alive, connVars, outVars, mutex, histVars, got, pc, taskVars>>
  BY DEF Client, ClientSends, ClientReads, ClientCloses
<1>2. /\ ClientTypes'
      /\ \A j \in Ids : Len(sent[j]) <= Len(sent'[j]) /\ Len(sent'[j]) <= MaxInbox
  <2>1. ASSUME NEW kind \in Kinds, ClientSends(i, kind)
        PROVE  /\ ClientTypes'
               /\ \A j \in Ids : /\ Len(sent[j]) <= Len(sent'[j])
                                 /\ Len(sent'[j]) <= MaxInbox
    <3>1. kind \in ClientKinds
      BY BoundsAssumption
    <3>2. /\ sent' \in [Ids -> Seq(ClientKinds)]
          /\ Len(sent'[i]) = Len(sent[i]) + 1 /\ Len(sent[i]) < MaxInbox
          /\ \A j \in Ids \ {i} : sent'[j] = sent[j]
      BY <2>1, <3>1 DEF ClientSends, Inv, TypeOK
    <3> QED
      BY <2>1, <3>2, BoundsAssumption DEF ClientSends, ClientTypes, Inv, TypeOK, Counts
  <2>2. CASE ClientReads(i)
    BY <2>2, BoundsAssumption DEF ClientReads, ClientTypes, Inv, TypeOK, Counts
  <2>3. CASE ClientCloses(i)
    BY <2>3, BoundsAssumption DEF ClientCloses, ClientTypes, Inv, TypeOK, Counts
  <2> QED
    BY <2>1, <2>2, <2>3 DEF Client
<1>3. Counts'
  BY <1>1, <1>2 DEF Inv, Counts, TypeOK, ClientTypes, InHandler
<1>4. Fresh' /\ OneHandlerPerClient' /\ MutexHeldInside'
  BY <1>1 DEF Inv, Fresh, OneHandlerPerClient, MutexHeldInside, InHandler
<1>5. ThreadTypes'
  <2>1. ThreadTypes /\ UNCHANGED <<alive, pc, mutex>>
    BY <1>1, Parts DEF Inv
  <2> QED
    BY <2>1 DEF ThreadTypes, LabelsOK
<1> QED
  BY <1>1, <1>2, <1>3, <1>4, <1>5, Frame, Parts DEF Inv

\* Accepting a client and greeting it.
LEMMA ConnectStep ==
  ASSUME Inv, NEW w \in Workers, Connect(w)
  PROVE  Inv'
<1> USE DEF connVars, clientVars
<1>1. CASE Accept(w)
  <2>1. /\ LabelsOK' /\ alive' \in BOOLEAN
        /\ pc[w] = "idle" /\ pc'[w] = "add"
        /\ \A v \in Workers \ {w} : pc'[v] = pc[v]
    BY <1>1, WorkerGoes DEF Accept, WorkerLabels
  <2>2. next_id \in Ids /\ next_id \in Nat /\ next_id + 1 \in 0 .. MaxClients
    BY <1>1, BoundsAssumption DEF Accept, Inv, TypeOK, Ids
  <2>3. /\ cid' \in [Threads -> Nat] /\ cid'[w] = next_id
        /\ \A v \in Workers \ {w} : cid'[v] = cid[v]
    BY <1>1, <2>2 DEF Accept, Inv, TypeOK, Threads
  <2>4. ConnTypes' /\ ClientTypes' /\ TaskTypes'
    BY <1>1, <2>2, <2>3 DEF Accept, Inv, TypeOK, ConnTypes, ClientTypes, TaskTypes
  <2>5. Fresh'
    BY <1>1, <2>2 DEF Accept, Inv, Fresh, TypeOK, Ids
  <2>6. OneHandlerPerClient'
    <3>1. next_id \notin reading
      BY <2>2 DEF Inv, Fresh
    <3>2. \A v \in Workers : InHandler(v) => cid[v] # next_id
      BY <2>2 DEF Inv, Counts, TypeOK, Threads
    <3> QED
      BY <1>1, <2>1, <2>3, <3>1, <3>2 DEF Accept, Inv, OneHandlerPerClient, InHandler
  <2>7. Counts'
    <3>1. todo[w] = 0 /\ got[next_id] >= 0
      BY <2>1, <2>2 DEF Inv, Counts, InHandler, TypeOK
    <3>2. next_id' = next_id + 1 /\ UNCHANGED <<sent, got, todo>>
      BY <1>1 DEF Accept
    <3>3. cid'[w] < next_id' /\ todo'[w] <= got'[cid'[w]] /\ InHandler(w)'
      BY <2>1, <2>2, <2>3, <3>1, <3>2 DEF InHandler
    <3>4. ASSUME NEW v \in Workers \ {w}
          PROVE  IF InHandler(v)' THEN cid'[v] < next_id' /\ todo'[v] <= got'[cid'[v]]
                                  ELSE todo'[v] = 0
      <4>1. cid[v] \in Nat /\ (InHandler(v) <=> InHandler(v)')
        BY <2>1, Numbers DEF InHandler
      <4> QED
        BY <2>2, <2>3, <3>2, <4>1 DEF Inv, Counts
    <3> QED
      BY <3>2, <3>3, <3>4 DEF Inv, Counts
  <2>8. MutexHeldInside' /\ mutex' \in Workers \cup {NoThread}
    BY <1>1, <2>1, MutexKept DEF Accept, LockedLabels, LoopLabels
  <2> QED
    BY <1>1, <2>1, <2>4, <2>5, <2>6, <2>7, <2>8, Frame, Parts DEF Accept, Inv, ThreadTypes
<1>2. CASE AddConnection(w)
  <2>1. /\ LabelsOK' /\ alive' \in BOOLEAN
        /\ pc[w] = "add" /\ pc'[w] = "handshake"
        /\ \A v \in Workers \ {w} : pc'[v] = pc[v]
    BY <1>2, WorkerGoes DEF AddConnection, WorkerLabels
  <2>2. cid[w] \in Ids
    BY <2>1, Numbers DEF InHandler
  <2>3. ConnTypes'
    BY <1>2, <2>2 DEF AddConnection, Added, Inv, TypeOK, ConnTypes
  <2>4. TaskTypes' /\ OutTypes' /\ HistTypes' /\ ClientTypes'
    BY <1>2, Frame DEF AddConnection
  <2>5. Counts' /\ Fresh' /\ OneHandlerPerClient'
    BY <1>2, <2>1, HandlerGoesOn DEF AddConnection, InHandler, taskVars
  <2>6. MutexHeldInside' /\ mutex' \in Workers \cup {NoThread}
    BY <1>2, <2>1, MutexKept DEF AddConnection, LockedLabels, LoopLabels
  <2> QED
    BY <2>1, <2>3, <2>4, <2>5, <2>6, Parts DEF Inv, ThreadTypes
<1>3. CASE Handshake(w)
  <2>1. /\ LabelsOK' /\ alive' \in BOOLEAN
        /\ pc[w] = "handshake" /\ pc'[w] = "handshake_send"
        /\ \A v \in Workers \ {w} : pc'[v] = pc[v]
    BY <1>3, WorkerGoes DEF Handshake, WorkerLabels
  <2>2. Message("HANDSHAKE_RESPONSE", sequence) \in ServerMessage
    BY MessageType DEF Inv, TypeOK, ServerKinds
  <2>3. OutTypes' /\ TaskTypes'
    <3>1. OutTypes'
      BY <1>3 DEF Handshake, Inv, TypeOK, OutTypes
    <3>2. TaskTypes'
      BY <1>3, <2>2, Parts DEF Handshake, Inv, TaskTypes
    <3> QED
      BY <3>1, <3>2
  <2>4. ConnTypes' /\ HistTypes' /\ ClientTypes'
    BY <1>3, Frame DEF Handshake
  <2>5. Counts' /\ Fresh' /\ OneHandlerPerClient'
    BY <1>3, <2>1, HandlerGoesOn DEF Handshake, InHandler
  <2>6. MutexHeldInside' /\ mutex' \in Workers \cup {NoThread}
    BY <1>3, <2>1, MutexKept DEF Handshake, LockedLabels, LoopLabels
  <2> QED
    BY <2>1, <2>3, <2>4, <2>5, <2>6, Parts DEF Inv, ThreadTypes
<1>4. CASE HandshakeSend(w)
  <2>1. CASE /\ Goto(w, "handshake_send", "arm")
             /\ SendDone(cid[w], msg[w])
             /\ UNCHANGED <<mutex, taskVars>>
    <3>1. /\ LabelsOK' /\ alive' \in BOOLEAN
          /\ pc[w] = "handshake_send" /\ pc'[w] = "arm"
          /\ \A v \in Workers \ {w} : pc'[v] = pc[v]
      BY <2>1, WorkerGoes DEF WorkerLabels
    <3>2. wire' \in [Ids -> Seq(ServerMessage)] /\ unread' \in [Ids -> 0 .. Window]
      BY <2>1, SendTypes DEF Inv, TypeOK, Threads
    <3>3. OutTypes' /\ ClientTypes'
      BY <1>4, <3>2 DEF HandshakeSend, Inv, TypeOK, OutTypes, ClientTypes
    <3>4. ConnTypes' /\ HistTypes' /\ TaskTypes'
      BY <1>4, <2>1, Frame DEF HandshakeSend
    <3>5. Counts' /\ Fresh' /\ OneHandlerPerClient'
      BY <1>4, <2>1, <3>1, HandlerGoesOn DEF HandshakeSend, InHandler, taskVars
    <3>6. MutexHeldInside' /\ mutex' \in Workers \cup {NoThread}
      BY <2>1, <3>1, MutexKept DEF LockedLabels, LoopLabels
    <3> QED
      BY <3>1, <3>3, <3>4, <3>5, <3>6, Parts DEF Inv, ThreadTypes
  <2>2. CASE pc[w] = "handshake_send" /\ SendThrows(cid[w]) /\ Thrown(w)
    <3>1. UNCHANGED <<connVars, histVars, sequence, frames, wire, clientVars>>
      BY <1>4, <2>2 DEF HandshakeSend, SendThrows
    <3>2. InHandler(w)
      BY <2>2 DEF InHandler
    <3> QED
      BY <2>2, <3>1, <3>2, WorkerThrows
  <2> QED
    BY <1>4, <2>1, <2>2 DEF HandshakeSend
<1>5. CASE Arm(w)
  <2>1. /\ LabelsOK' /\ alive' \in BOOLEAN
        /\ pc[w] = "arm" /\ pc'[w] = "idle"
        /\ \A v \in Workers \ {w} : pc'[v] = pc[v]
    BY <1>5, WorkerGoes DEF Arm, WorkerLabels
  <2>2. cid[w] \in Ids
    BY <2>1, Numbers DEF InHandler
  <2>3. ConnTypes'
    BY <1>5, <2>2 DEF Arm, Inv, TypeOK, ConnTypes
  <2>4. TaskTypes' /\ OutTypes' /\ HistTypes' /\ ClientTypes'
    BY <1>5, Frame, EndTypes DEF Arm
  <2>5. Counts' /\ Fresh' /\ OneHandlerPerClient'
    BY <1>5, <2>1, HandlerEnds DEF Arm, InHandler
  <2>6. MutexHeldInside' /\ mutex' \in Workers \cup {NoThread}
    BY <1>5, <2>1, MutexKept DEF Arm, LockedLabels, LoopLabels
  <2> QED
    BY <2>1, <2>3, <2>4, <2>5, <2>6, Parts DEF Inv, ThreadTypes
<1> QED
  BY <1>1, <1>2, <1>3, <1>4, <1>5 DEF Connect

\* A worker that takes a completed read of client i.
LEMMA HandlerBegins ==
  ASSUME Inv, NEW w \in Workers, NEW i \in reading, pc[w] = "idle",
         \A v \in Workers \ {w} : pc'[v] = pc[v],
         reading' = reading \ {i}, cid' = [cid EXCEPT ![w] = i]
  PROVE  /\ cid'[w] = i /\ \A v \in Workers \ {w} : cid'[v] = cid[v]
         /\ UNCHANGED next_id => Fresh'
         /\ OneHandlerPerClient'
<1>1. cid'[w] = i /\ \A v \in Workers \ {w} : cid'[v] = cid[v]
  BY DEF Inv, TypeOK, Threads
<1>2. OneHandlerPerClient'
  BY <1>1 DEF Inv, OneHandlerPerClient, InHandler
<1> QED
  BY <1>1, <1>2 DEF Inv, Fresh

\* A read of a connection completes, with bytes or with an error.
LEMMA ReceiveStep ==
  ASSUME Inv, NEW w \in Workers, Receive(w)
  PROVE  Inv'
<1> USE DEF connVars, clientVars
<1>1. ASSUME NEW i \in Ids, ReadSome(w, i)
      PROVE  Inv'
  <2>1. /\ LabelsOK' /\ alive' \in BOOLEAN
        /\ pc[w] = "idle" /\ pc'[w] = "lock"
        /\ \A v \in Workers \ {w} : pc'[v] = pc[v]
    BY <1>1, WorkerGoes DEF ReadSome, WorkerLabels
  <2> PICK k \in 1 .. Len(sent[i]) - got[i] :
        /\ todo' = [todo EXCEPT ![w] = k]
        /\ got' = [got EXCEPT ![i] = @ + k]
    BY <1>1 DEF ReadSome
  <2>2. /\ Len(sent[i]) \in Nat /\ Len(sent[i]) <= MaxInbox
        /\ got[i] \in Nat /\ got[i] <= Len(sent[i])
    BY BoundsAssumption DEF Inv, TypeOK, Counts
  <2>3. /\ k \in 0 .. MaxInbox /\ got[i] + k \in 0 .. MaxInbox
        /\ k <= got[i] + k /\ got[i] + k <= Len(sent[i])
    BY <2>2, BoundsAssumption
  <2>4. ConnTypes' /\ ClientTypes'
    <3>1. ConnTypes'
      BY <1>1 DEF ReadSome, Disarmed, Inv, TypeOK, ConnTypes
    <3>2. got' \in [Ids -> 0 .. MaxInbox] /\ UNCHANGED <<open, sent, unread>>
      BY <1>1, <2>3 DEF ReadSome, Inv, TypeOK
    <3> QED
      BY <3>1, <3>2 DEF Inv, TypeOK, ClientTypes
  <2>5. TaskTypes'
    <3>1. TaskTypes /\ cid' = [cid EXCEPT ![w] = i] /\ UNCHANGED <<msg, idx>> /\ i \in Nat
      BY <1>1, Parts DEF ReadSome, Inv, Ids
    <3> QED
      BY <2>3, <3>1 DEF TaskTypes
  <2>6. OutTypes' /\ HistTypes'
    BY <1>1, Frame DEF ReadSome
  <2>7. /\ cid'[w] = i /\ \A v \in Workers \ {w} : cid'[v] = cid[v]
        /\ Fresh' /\ OneHandlerPerClient'
    BY <1>1, <2>1, HandlerBegins DEF ReadSome, Disarmed
  <2>8. Counts'
    <3>1. /\ todo'[w] = k /\ got'[i] = got[i] + k
          /\ \A v \in Workers \ {w} : todo'[v] = todo[v]
          /\ \A j \in Ids \ {i} : got'[j] = got[j]
          /\ UNCHANGED <<sent, next_id>>
      BY <1>1 DEF ReadSome, Inv, TypeOK, Threads
    <3>2. \A j \in Ids : Len(sent'[j]) <= MaxInbox /\ got'[j] <= Len(sent'[j])
      BY <2>3, <3>1 DEF Inv, Counts
    <3>3. i < next_id
      BY <1>1 DEF ReadSome, Inv, Fresh
    <3>4. cid'[w] < next_id' /\ todo'[w] <= got'[cid'[w]] /\ InHandler(w)'
      BY <2>1, <2>3, <2>7, <3>1, <3>3 DEF InHandler
    <3>5. ASSUME NEW v \in Workers \ {w}, InHandler(v)
          PROVE  cid'[v] < next_id' /\ todo'[v] <= got'[cid'[v]]
      <4>1. cid[v] # i
        BY <2>7, <3>5, <2>1, <1>1 DEF Inv, OneHandlerPerClient, ReadSome
      <4> QED
        BY <2>7, <3>1, <3>5, <4>1, Numbers
    <3>6. ASSUME NEW v \in Workers \ {w}, ~InHandler(v)
          PROVE  todo'[v] = 0
      BY <3>1, <3>6 DEF Inv, Counts
    <3>7. \A v \in Workers \ {w} : InHandler(v)' <=> InHandler(v)
      BY <2>1 DEF InHandler
    <3> QED
      BY <3>2, <3>4, <3>5, <3>6, <3>7 DEF Counts
  <2>9. MutexHeldInside' /\ mutex' \in Workers \cup {NoThread}
    BY <1>1, <2>1, MutexKept DEF ReadSome, LockedLabels, LoopLabels
  <2> QED
    BY <2>1, <2>4, <2>5, <2>6, <2>7, <2>8, <2>9, Parts DEF Inv, ThreadTypes
<1>2. ASSUME NEW i \in Ids, ReadError(w, i)
      PROVE  Inv'
  <2>1. /\ LabelsOK' /\ alive' \in BOOLEAN
        /\ pc[w] = "idle" /\ pc'[w] = "remove"
        /\ \A v \in Workers \ {w} : pc'[v] = pc[v]
    BY <1>2, WorkerGoes DEF ReadError, WorkerLabels
  <2>2. ConnTypes'
    BY <1>2 DEF ReadError, Disarmed, Inv, TypeOK, ConnTypes
  <2>3. TaskTypes'
    <3>1. /\ TaskTypes /\ cid' = [cid EXCEPT ![w] = i]
          /\ UNCHANGED <<todo, msg, idx>> /\ i \in Nat
      BY <1>2, Parts DEF ReadError, Inv, Ids
    <3> QED
      BY <3>1 DEF TaskTypes
  <2>4. OutTypes' /\ HistTypes' /\ ClientTypes'
    BY <1>2, Frame DEF ReadError
  <2>5. /\ cid'[w] = i /\ \A v \in Workers \ {w} : cid'[v] = cid[v]
        /\ Fresh' /\ OneHandlerPerClient'
    BY <1>2, <2>1, HandlerBegins DEF ReadError, Disarmed
  <2>6. Counts'
    <3>1. UNCHANGED <<todo, got, sent, next_id>>
      BY <1>2 DEF ReadError
    <3>2. i < next_id /\ todo[w] = 0 /\ got[i] \in Nat
      BY <1>2, <2>1 DEF ReadError, Inv, Fresh, Counts, TypeOK, InHandler
    <3>3. \A v \in Workers \ {w} : InHandler(v)' <=> InHandler(v)
      BY <2>1 DEF InHandler
    <3> QED
      BY <2>5, <3>1, <3>2, <3>3 DEF Inv, Counts
  <2>7. MutexHeldInside' /\ mutex' \in Workers \cup {NoThread}
    BY <1>2, <2>1, MutexKept DEF ReadError, LockedLabels, LoopLabels
  <2> QED
    BY <2>1, <2>2, <2>3, <2>4, <2>5, <2>6, <2>7, Parts DEF Inv, ThreadTypes
<1>3. CASE RemoveConnection(w)
  <2>1. /\ LabelsOK' /\ alive' \in BOOLEAN
        /\ pc[w] = "remove" /\ pc'[w] = "idle"
        /\ \A v \in Workers \ {w} : pc'[v] = pc[v]
    BY <1>3, WorkerGoes DEF RemoveConnection, WorkerLabels
  <2>2. ConnTypes'
    BY <1>3 DEF RemoveConnection, Removed, Inv, TypeOK, ConnTypes
  <2>3. TaskTypes' /\ OutTypes' /\ HistTypes' /\ ClientTypes'
    BY <1>3, Frame, EndTypes DEF RemoveConnection
  <2>4. Counts' /\ Fresh' /\ OneHandlerPerClient'
    BY <1>3, <2>1, HandlerEnds DEF RemoveConnection, InHandler
  <2>5. MutexHeldInside' /\ mutex' \in Workers \cup {NoThread}
    BY <1>3, <2>1, MutexKept DEF RemoveConnection, LockedLabels, LoopLabels
  <2> QED
    BY <2>1, <2>2, <2>3, <2>4, <2>5, Parts DEF Inv, ThreadTypes
<1> QED
  BY <1>1, <1>2, <1>3 DEF Receive

\* handle_client_message outside the loop that answers a PING.
LEMMA HandleStep ==
  ASSUME Inv, NEW w \in Workers, Handle(w)
  PROVE  Inv'
<1> USE DEF connVars, clientVars
<1>1. CASE Lock(w)
  <2>1. /\ LabelsOK' /\ alive' \in BOOLEAN
        /\ pc[w] = "lock" /\ pc'[w] = "dispatch"
        /\ \A v \in Workers \ {w} : pc'[v] = pc[v]
    BY <1>1, WorkerGoes DEF Lock, WorkerLabels, LockedLabels
  <2>2. ConnTypes' /\ TaskTypes' /\ OutTypes' /\ HistTypes' /\ ClientTypes'
    BY <1>1, Frame DEF Lock
  <2>3. Counts' /\ Fresh' /\ OneHandlerPerClient'
    BY <1>1, <2>1, HandlerGoesOn DEF Lock, InHandler, taskVars
  <2>4. MutexHeldInside' /\ mutex' \in Workers \cup {NoThread}
    BY <1>1, <2>1, ThreadsAssumption DEF Lock, Inv, MutexHeldInside, LockedLabels
  <2> QED
    BY <2>1, <2>2, <2>3, <2>4, Parts DEF Inv, ThreadTypes
<1>2. CASE DispatchOther(w)
  <2>1. /\ LabelsOK' /\ alive' \in BOOLEAN
        /\ pc[w] = "dispatch" /\ pc'[w] = "dispatch"
        /\ \A v \in Workers \ {w} : pc'[v] = pc[v]
    BY <1>2, WorkerGoes DEF DispatchOther, WorkerLabels, LockedLabels
  <2>2. TaskTypes'
    BY <1>2, PopsTypes, Parts DEF DispatchOther, Inv, TaskTypes
  <2>3. ConnTypes' /\ OutTypes' /\ HistTypes' /\ ClientTypes'
    BY <1>2, Frame DEF DispatchOther
  <2>4. Counts' /\ Fresh' /\ OneHandlerPerClient'
    BY <1>2, <2>1, HandlerGoesOn DEF DispatchOther, Pops, InHandler
  <2>5. MutexHeldInside' /\ mutex' \in Workers \cup {NoThread}
    BY <1>2, <2>1, MutexKept DEF DispatchOther
  <2> QED
    BY <2>1, <2>2, <2>3, <2>4, <2>5, Parts DEF Inv, ThreadTypes
<1>3. CASE DispatchTouch(w)
  <2>1. /\ LabelsOK' /\ alive' \in BOOLEAN
        /\ pc[w] = "dispatch" /\ pc'[w] = "callback"
        /\ \A v \in Workers \ {w} : pc'[v] = pc[v]
    BY <1>3, WorkerGoes DEF DispatchTouch, WorkerLabels, LockedLabels
  <2>2. TaskTypes'
    BY <1>3, PopsTypes, Parts DEF DispatchTouch, Inv, TaskTypes
  <2>3. ConnTypes' /\ OutTypes' /\ ClientTypes'
    BY <1>3, Frame DEF DispatchTouch
  <2>4. HistTypes'
    <3>1. cid[w] \in Ids /\ Current(w) \in 1 .. MaxInbox
      BY <1>3, <2>1, CurrentInRange DEF DispatchTouch, InHandler, Pops
    <3>2. inputs[cid[w]] \in Seq(1 .. MaxInbox)
      BY <3>1 DEF Inv, TypeOK
    <3>3. Append(inputs[cid[w]], Current(w)) \in Seq(1 .. MaxInbox)
      BY <3>1, <3>2
    <3> QED
      BY <1>3, <3>1, <3>3 DEF DispatchTouch, Inv, TypeOK, HistTypes
  <2>5. Counts' /\ Fresh' /\ OneHandlerPerClient'
    BY <1>3, <2>1, HandlerGoesOn DEF DispatchTouch, Pops, InHandler
  <2>6. MutexHeldInside' /\ mutex' \in Workers \cup {NoThread}
    BY <1>3, <2>1, MutexKept DEF DispatchTouch, LockedLabels
  <2> QED
    BY <2>1, <2>2, <2>3, <2>4, <2>5, <2>6, Parts DEF Inv, ThreadTypes
<1>4. CASE DispatchPing(w)
  <2>1. /\ LabelsOK' /\ alive' \in BOOLEAN
        /\ pc[w] = "dispatch" /\ pc'[w] = "size"
        /\ \A v \in Workers \ {w} : pc'[v] = pc[v]
    BY <1>4, WorkerGoes DEF DispatchPing, WorkerLabels, LockedLabels, LoopLabels
  <2>2. Message("PONG", sequence) \in ServerMessage
    BY MessageType DEF Inv, TypeOK, ServerKinds
  <2>3. TaskTypes'
    BY <1>4, <2>2, PopsTypes, Parts DEF DispatchPing, Inv, TaskTypes
  <2>4. OutTypes'
    BY <1>4 DEF DispatchPing, Inv, TypeOK, OutTypes
  <2>5. ConnTypes' /\ HistTypes' /\ ClientTypes'
    BY <1>4, Frame DEF DispatchPing
  <2>6. Counts' /\ Fresh' /\ OneHandlerPerClient'
    BY <1>4, <2>1, HandlerGoesOn DEF DispatchPing, Pops, InHandler
  <2>7. MutexHeldInside' /\ mutex' \in Workers \cup {NoThread}
    BY <1>4, <2>1, MutexKept DEF DispatchPing, LockedLabels, LoopLabels
  <2> QED
    BY <2>1, <2>3, <2>4, <2>5, <2>6, <2>7, Parts DEF Inv, ThreadTypes
<1>5. CASE Callback(w)
  <2>1. CASE Goto(w, "callback", "dispatch") /\ UNCHANGED <<mutex, taskVars>>
    <3>1. /\ LabelsOK' /\ alive' \in BOOLEAN
          /\ pc[w] = "callback" /\ pc'[w] = "dispatch"
          /\ \A v \in Workers \ {w} : pc'[v] = pc[v]
      BY <2>1, WorkerGoes DEF WorkerLabels, LockedLabels
    <3>2. ConnTypes' /\ TaskTypes' /\ OutTypes' /\ HistTypes' /\ ClientTypes'
      BY <1>5, <2>1, Frame DEF Callback
    <3>3. Counts' /\ Fresh' /\ OneHandlerPerClient'
      BY <1>5, <2>1, <3>1, HandlerGoesOn DEF Callback, InHandler, taskVars
    <3>4. MutexHeldInside' /\ mutex' \in Workers \cup {NoThread}
      BY <2>1, <3>1, MutexKept DEF LockedLabels
    <3> QED
      BY <3>1, <3>2, <3>3, <3>4, Parts DEF Inv, ThreadTypes
  <2>2. CASE pc[w] = "callback" /\ Thrown(w)
    <3>1. UNCHANGED <<connVars, histVars, sequence, frames, wire, clientVars>>
      BY <1>5 DEF Callback, outVars
    <3>2. InHandler(w)
      BY <2>2 DEF InHandler
    <3> QED
      BY <2>2, <3>1, <3>2, WorkerThrows
  <2> QED
    BY <1>5, <2>1, <2>2 DEF Callback
<1>6. CASE Unlock(w)
  <2>1. /\ LabelsOK' /\ alive' \in BOOLEAN
        /\ pc[w] = "dispatch" /\ pc'[w] = "read_again"
        /\ \A v \in Workers \ {w} : pc'[v] = pc[v]
    BY <1>6, WorkerGoes DEF Unlock, WorkerLabels
  <2>2. ConnTypes' /\ TaskTypes' /\ OutTypes' /\ HistTypes' /\ ClientTypes'
    BY <1>6, Frame DEF Unlock
  <2>3. Counts' /\ Fresh' /\ OneHandlerPerClient'
    BY <1>6, <2>1, HandlerGoesOn DEF Unlock, InHandler, taskVars
  <2>4. MutexHeldInside' /\ mutex' \in Workers \cup {NoThread}
    BY <1>6, <2>1, MutexReleased DEF Unlock, LockedLabels, LoopLabels
  <2> QED
    BY <2>1, <2>2, <2>3, <2>4, Parts DEF Inv, ThreadTypes
<1>7. CASE ReadAgain(w)
  <2>1. /\ LabelsOK' /\ alive' \in BOOLEAN
        /\ pc[w] = "read_again" /\ pc'[w] = "idle"
        /\ \A v \in Workers \ {w} : pc'[v] = pc[v]
    BY <1>7, WorkerGoes DEF ReadAgain, WorkerLabels
  <2>2. cid[w] \in Ids
    BY <2>1, Numbers DEF InHandler
  <2>3. ConnTypes'
    BY <1>7, <2>2 DEF ReadAgain, Inv, TypeOK, ConnTypes
  <2>4. TaskTypes' /\ OutTypes' /\ HistTypes' /\ ClientTypes'
    BY <1>7, Frame, EndTypes DEF ReadAgain
  <2>5. Counts' /\ Fresh' /\ OneHandlerPerClient'
    BY <1>7, <2>1, HandlerEnds DEF ReadAgain, InHandler
  <2>6. MutexHeldInside' /\ mutex' \in Workers \cup {NoThread}
    BY <1>7, <2>1, MutexKept DEF ReadAgain, LockedLabels, LoopLabels
  <2> QED
    BY <2>1, <2>3, <2>4, <2>5, <2>6, Parts DEF Inv, ThreadTypes
<1> QED
  BY <1>1, <1>2, <1>3, <1>4, <1>5, <1>6, <1>7 DEF Handle

\* A producer is in no handler and never owns mutex_.
LEMMA ProducerStep ==
  ASSUME Inv, \A v \in Workers : pc'[v] = pc[v],
         UNCHANGED <<mutex, next_id, reading, sent, got, cid, todo>>
  PROVE  /\ Counts' /\ Fresh' /\ OneHandlerPerClient' /\ MutexHeldInside'
         /\ mutex' \in Workers \cup {NoThread}
<1>1. \A v \in Workers : InHandler(v)' <=> InHandler(v)
  BY DEF InHandler
<1> QED
  BY <1>1 DEF Inv, TypeOK, Counts, Fresh, OneHandlerPerClient, MutexHeldInside

\* An exception on a producer ends the process.
LEMMA ProducerThrows ==
  ASSUME Inv, NEW p \in Producers, Thrown(p),
         UNCHANGED <<connVars, histVars, sequence, frames, wire, clientVars>>
  PROVE  Inv'
<1>1. /\ pc' = [pc EXCEPT ![p] = "thrown"] /\ alive' = FALSE
      /\ UNCHANGED <<mutex, taskVars>>
  BY ThreadsAssumption DEF Thrown
<1>2. LabelsOK' /\ \A v \in Workers : pc'[v] = pc[v]
  BY <1>1, ProducerGoes DEF ProducerLabels
<1>3. /\ Counts' /\ Fresh' /\ OneHandlerPerClient' /\ MutexHeldInside'
      /\ mutex' \in Workers \cup {NoThread}
  BY <1>1, <1>2, ProducerStep DEF connVars, clientVars, taskVars
<1>4. ConnTypes' /\ OutTypes' /\ HistTypes' /\ ClientTypes' /\ TaskTypes'
  BY <1>1, Frame DEF outVars
<1> QED
  BY <1>1, <1>2, <1>3, <1>4, Parts DEF Inv, ThreadTypes

\* The loop over connections_, on a worker or on a producer.
LEMMA LoopStep ==
  ASSUME Inv, NEW t \in Threads, Loop(t)
  PROVE  Inv'
<1> USE DEF connVars, clientVars
<1>1. CASE LoopSize(t)
  <2>1. ConnTypes' /\ TaskTypes' /\ OutTypes' /\ HistTypes' /\ ClientTypes'
    BY <1>1, Frame DEF LoopSize
  <2>2. CASE t \in Workers
    <3>1. PICK to \in {"at", "dispatch"} : Goto(t, "size", to)
      BY <1>1, <2>2 DEF LoopSize, LoopEnd
    <3>2. /\ LabelsOK' /\ alive' \in BOOLEAN
          /\ pc[t] = "size" /\ pc'[t] = to
          /\ \A v \in Workers \ {t} : pc'[v] = pc[v]
      BY <2>2, <3>1, WorkerGoes DEF WorkerLabels, LockedLabels, LoopLabels
    <3>3. Counts' /\ Fresh' /\ OneHandlerPerClient'
      BY <1>1, <2>2, <3>2, HandlerGoesOn DEF LoopSize, InHandler, taskVars
    <3>4. MutexHeldInside' /\ mutex' \in Workers \cup {NoThread}
      BY <1>1, <2>2, <3>2, MutexKept DEF LoopSize, LockedLabels, LoopLabels
    <3> QED
      BY <2>1, <3>2, <3>3, <3>4, Parts DEF Inv, ThreadTypes
  <2>3. CASE t \in Producers
    <3>1. PICK to \in {"at", "idle"} : Goto(t, "size", to)
      BY <1>1, <2>3, ThreadsAssumption DEF LoopSize, LoopEnd
    <3>2. LabelsOK' /\ UNCHANGED alive /\ \A v \in Workers : pc'[v] = pc[v]
      BY <2>3, <3>1, ProducerGoes DEF Goto, ProducerLabels, LoopLabels
    <3>3. /\ Counts' /\ Fresh' /\ OneHandlerPerClient' /\ MutexHeldInside'
          /\ mutex' \in Workers \cup {NoThread}
      BY <1>1, <3>2, ProducerStep DEF LoopSize, taskVars
    <3> QED
      BY <2>1, <3>2, <3>3, Parts DEF Inv, ThreadTypes
  <2> QED
    BY <2>2, <2>3 DEF Threads
<1>2. CASE LoopAt(t)
  <2>1. CASE AtThrows(conns, idx[t]) /\ pc[t] = "at" /\ Thrown(t)
    <3>1. UNCHANGED <<connVars, histVars, sequence, frames, wire, clientVars>>
      BY <1>2 DEF LoopAt, outVars
    <3>2. InHandler(t)
      BY <2>1 DEF InHandler
    <3> QED
      BY <2>1, <3>1, <3>2, WorkerThrows, ProducerThrows DEF Threads
  <2>2. CASE /\ Goto(t, "at", IF Wanted(t) THEN "send" ELSE "size")
             /\ idx' = [idx EXCEPT ![t] = IF Wanted(t) THEN @ ELSE @ + 1]
             /\ UNCHANGED <<mutex, cid, todo, msg>>
    <3>1. ConnTypes' /\ OutTypes' /\ HistTypes' /\ ClientTypes'
      BY <1>2, Frame DEF LoopAt
    <3>2. TaskTypes'
      BY <2>2 DEF Inv, TypeOK, TaskTypes
    <3>3. PICK to \in {"send", "size"} : Goto(t, "at", to)
      BY <2>2
    <3>4. CASE t \in Workers
      <4>1. /\ LabelsOK' /\ alive' \in BOOLEAN
            /\ pc[t] = "at" /\ pc'[t] = to
            /\ \A v \in Workers \ {t} : pc'[v] = pc[v]
        BY <3>3, <3>4, WorkerGoes DEF WorkerLabels, LockedLabels, LoopLabels
      <4>2. UNCHANGED <<next_id, reading, sent, got, cid, todo, mutex>>
        BY <1>2, <2>2 DEF LoopAt
      <4>3. Counts' /\ Fresh' /\ OneHandlerPerClient'
        BY <3>4, <4>1, <4>2, HandlerGoesOn DEF InHandler
      <4>4. MutexHeldInside' /\ mutex' \in Workers \cup {NoThread}
        BY <3>4, <4>1, <4>2, MutexKept DEF LockedLabels, LoopLabels
      <4> QED
        BY <3>1, <3>2, <4>1, <4>3, <4>4, Parts DEF Inv, ThreadTypes
    <3>5. CASE t \in Producers
      <4>1. LabelsOK' /\ UNCHANGED alive /\ \A v \in Workers : pc'[v] = pc[v]
        BY <3>3, <3>5, ProducerGoes DEF Goto, ProducerLabels, LoopLabels
      <4>2. UNCHANGED <<next_id, reading, sent, got, cid, todo, mutex>>
        BY <1>2, <2>2 DEF LoopAt
      <4>3. /\ Counts' /\ Fresh' /\ OneHandlerPerClient' /\ MutexHeldInside'
            /\ mutex' \in Workers \cup {NoThread}
        BY <4>1, <4>2, ProducerStep
      <4> QED
        BY <3>1, <3>2, <4>1, <4>3, Parts DEF Inv, ThreadTypes
    <3> QED
      BY <3>4, <3>5 DEF Threads
  <2> QED
    BY <1>2, <2>1, <2>2 DEF LoopAt
<1>3. CASE LoopSend(t)
  <2>1. CASE pc[t] = "send" /\ SendThrows(idx[t]) /\ Thrown(t)
    <3>1. UNCHANGED <<connVars, histVars, sequence, frames, wire, clientVars>>
      BY <1>3, <2>1 DEF LoopSend, SendThrows
    <3>2. InHandler(t)
      BY <2>1 DEF InHandler
    <3> QED
      BY <2>1, <3>1, <3>2, WorkerThrows, ProducerThrows DEF Threads
  <2>2. CASE /\ Goto(t, "send", IF t \in Workers THEN "dispatch" ELSE "size")
             /\ SendDone(idx[t], msg[t])
             /\ idx' = [idx EXCEPT ![t] = IF t \in Workers THEN 0 ELSE @ + 1]
             /\ UNCHANGED <<mutex, cid, todo, msg>>
    <3>1. UNCHANGED <<connVars, sequence, frames, histVars, open, sent, got>>
      BY <1>3 DEF LoopSend
    <3>2. wire' \in [Ids -> Seq(ServerMessage)] /\ unread' \in [Ids -> 0 .. Window]
      BY <2>2, SendTypes DEF Inv, TypeOK
    <3>3. ConnTypes' /\ HistTypes' /\ OutTypes' /\ ClientTypes'
      <4>1. ConnTypes' /\ HistTypes'
        BY <3>1, Frame
      <4> QED
        BY <3>1, <3>2, <4>1 DEF Inv, TypeOK, OutTypes, ClientTypes
    <3>4. TaskTypes'
      BY <2>2 DEF Inv, TypeOK, TaskTypes
    <3>5. CASE t \in Workers
      <4>1. /\ LabelsOK' /\ alive' \in BOOLEAN
            /\ pc[t] = "send" /\ pc'[t] = "dispatch"
            /\ \A v \in Workers \ {t} : pc'[v] = pc[v]
        BY <2>2, <3>5, WorkerGoes DEF WorkerLabels, LockedLabels
      <4>2. Counts' /\ Fresh' /\ OneHandlerPerClient'
        BY <2>2, <3>1, <3>5, <4>1, HandlerGoesOn DEF InHandler
      <4>3. MutexHeldInside' /\ mutex' \in Workers \cup {NoThread}
        BY <2>2, <3>5, <4>1, MutexKept DEF LockedLabels, LoopLabels
      <4> QED
        BY <3>3, <3>4, <4>1, <4>2, <4>3, Parts DEF Inv, ThreadTypes
    <3>6. CASE t \in Producers
      <4>1. LabelsOK' /\ UNCHANGED alive /\ \A v \in Workers : pc'[v] = pc[v]
        BY <2>2, <3>6, ThreadsAssumption, ProducerGoes DEF Goto, ProducerLabels, LoopLabels
      <4>2. /\ Counts' /\ Fresh' /\ OneHandlerPerClient' /\ MutexHeldInside'
            /\ mutex' \in Workers \cup {NoThread}
        BY <2>2, <3>1, <4>1, ProducerStep
      <4> QED
        BY <3>3, <3>4, <4>1, <4>2, Parts DEF Inv, ThreadTypes
    <3> QED
      BY <3>5, <3>6 DEF Threads
  <2> QED
    BY <1>3, <2>1, <2>2 DEF LoopSend
<1> QED
  BY <1>1, <1>2, <1>3 DEF Loop

LEMMA BeginFrameStep ==
  ASSUME Inv, NEW p \in Producers, BeginFrame(p)
  PROVE  Inv'
<1> USE DEF connVars, clientVars
<1>1. LabelsOK' /\ UNCHANGED alive /\ \A v \in Workers : pc'[v] = pc[v]
  BY ProducerGoes DEF BeginFrame, Goto, ProducerLabels, LoopLabels
<1>2. Message("FRAME_DATA", sequence) \in ServerMessage
  BY MessageType DEF Inv, TypeOK, ServerKinds
<1>3. TaskTypes'
  BY <1>2, Parts DEF BeginFrame, Inv, TaskTypes
<1>4. OutTypes' /\ HistTypes'
  <2>1. frames + 1 \in 0 .. MaxFrames /\ sequence + 1 \in Nat
    BY BoundsAssumption DEF BeginFrame, Inv, TypeOK
  <2>2. due' \in [Threads -> SUBSET Ids]
    BY DEF BeginFrame, Inv, TypeOK
  <2> QED
    BY <2>1, <2>2 DEF BeginFrame, Inv, TypeOK, OutTypes, HistTypes
<1>5. ConnTypes' /\ ClientTypes'
  BY Frame DEF BeginFrame
<1>6. /\ Counts' /\ Fresh' /\ OneHandlerPerClient' /\ MutexHeldInside'
      /\ mutex' \in Workers \cup {NoThread}
  BY <1>1, ProducerStep DEF BeginFrame
<1> QED
  BY <1>1, <1>3, <1>4, <1>5, <1>6, Parts DEF Inv, ThreadTypes

\* Steps that change none of the variables that Inv reads, but alive.
LEMMA QuietStep ==
  ASSUME Inv, alive' \in BOOLEAN,
         UNCHANGED <<connVars, outVars, mutex, histVars, clientVars, pc, taskVars>>
  PROVE  Inv'
<1>1. ConnTypes' /\ TaskTypes' /\ OutTypes' /\ HistTypes' /\ ClientTypes'
  BY Frame
<1>2. LabelsOK'
  BY DEF Inv, TypeOK, LabelsOK
<1>3. /\ Counts' /\ Fresh' /\ OneHandlerPerClient' /\ MutexHeldInside'
      /\ mutex' \in Workers \cup {NoThread}
  BY ProducerStep DEF connVars, clientVars, taskVars
<1> QED
  BY <1>1, <1>2, <1>3, Parts DEF Inv, ThreadTypes

LEMMA NextInv == Inv /\ [Next]_vars => Inv'
<1> SUFFICES ASSUME Inv, [Next]_vars
             PROVE  Inv'
  OBVIOUS
<1>1. CASE UNCHANGED vars
  BY <1>1, QuietStep, Parts DEF vars, Inv, ThreadTypes
<1>2. ASSUME NEW i \in Ids, Client(i)
      PROVE  Inv'
  BY <1>2, ClientStep
<1>3. ASSUME NEW w \in Workers, Connect(w) \/ Receive(w) \/ Handle(w)
      PROVE  Inv'
  BY <1>3, ConnectStep, ReceiveStep, HandleStep
<1>4. ASSUME NEW p \in Producers, BeginFrame(p)
      PROVE  Inv'
  BY <1>4, BeginFrameStep
<1>5. ASSUME NEW t \in Threads, Loop(t) \/ LoopRaces(t)
      PROVE  Inv'
  BY <1>5, LoopStep, QuietStep DEF LoopRaces
<1> QED
  BY <1>1, <1>2, <1>3, <1>4, <1>5 DEF Next

-----------------------------------------------------------------------------
(* The theorems *)

LEMMA Invariance == Spec => []Inv
BY InitInv, NextInv, PTL DEF Spec

\* Every variable keeps its type: no counter a worker keeps leaves the range of
\* the client's messages it counts.
THEOREM TypeCorrect == Spec => []TypeOK
BY Invariance, PTL DEF Inv

\* One worker at a time runs a handler of a connection, and none does while a
\* read of it is outstanding, however many workers the Runtime has.
THEOREM OneHandler == Spec => []OneHandlerPerClient
BY Invariance, PTL DEF Inv

\* mutex_ is held by exactly the worker inside handle_client_message, whichever
\* of its steps throws.
THEOREM MutexDiscipline == Spec => []MutexHeldInside
BY Invariance, PTL DEF Inv

-----------------------------------------------------------------------------
(***************************************************************************)
(* The touches of a client.  Of the messages s it sent, h have been        *)
(* handled: what the device got, q, is the touches among them.  While no   *)
(* handler of the client runs and no read is outstanding, as after an      *)
(* exception, only the first half is known; nothing is delivered then.     *)
(***************************************************************************)
Touches(s, q) ==
  \A k \in 1 .. Len(q) :
    /\ s[q[k]] = "TOUCH_EVENT"
    /\ \A n \in 1 .. q[k] - 1 :
         s[n] = "TOUCH_EVENT" <=> \E j \in 1 .. k - 1 : q[j] = n

Upto(s, q, h) ==
  /\ \A k \in 1 .. Len(q) : q[k] <= h
  /\ \A n \in 1 .. h : s[n] = "TOUCH_EVENT" <=> \E k \in 1 .. Len(q) : q[k] = n

\* A worker has messages to handle only on its way through handle_client_message.
TodoInv == \A w \in Workers : todo[w] > 0 => pc[w] \in LockedLabels \cup {"lock"}

TouchClients ==
  \A i \in Ids :
    /\ Touches(sent[i], inputs[i])
    /\ \A k \in 1 .. Len(inputs[i]) : inputs[i][k] <= got[i]
    /\ i >= next_id => got[i] = 0 /\ inputs[i] = <<>>
    /\ i \in reading => Upto(sent[i], inputs[i], got[i])

TouchWorkers ==
  \A w \in Workers :
    InHandler(w) => Upto(sent[cid[w]], inputs[cid[w]], got[cid[w]] - todo[w])

LEMMA TouchesGrow ==
  ASSUME NEW M \in Nat, NEW s \in Seq(ClientKinds), NEW r \in Seq(ClientKinds),
         NEW q \in Seq(1 .. M), NEW h \in Nat,
         h <= Len(s), \A n \in 1 .. Len(s) : r[n] = s[n]
  PROVE  /\ Upto(s, q, h) => Upto(r, q, h)
         /\ Touches(s, q) /\ (\A k \in 1 .. Len(q) : q[k] <= h) => Touches(r, q)
<1>1. \A n \in 1 .. h : r[n] = s[n]
  OBVIOUS
<1>2. \A k \in 1 .. Len(q) : q[k] \in 1 .. M
  OBVIOUS
<1>3. Upto(s, q, h) => Upto(r, q, h)
  BY <1>1 DEF Upto
<1>4. ASSUME Touches(s, q), \A k \in 1 .. Len(q) : q[k] <= h
      PROVE  Touches(r, q)
  <2>1. ASSUME NEW k \in 1 .. Len(q)
        PROVE  /\ r[q[k]] = s[q[k]]
               /\ \A n \in 1 .. q[k] - 1 : r[n] = s[n]
    <3>1. q[k] \in 1 .. h
      BY <1>2, <1>4
    <3>2. \A n \in 1 .. q[k] - 1 : n \in 1 .. h
      BY <3>1
    <3> QED
      BY <1>1, <3>1, <3>2
  <2>2. ASSUME NEW k \in 1 .. Len(q)
        PROVE  /\ s[q[k]] = "TOUCH_EVENT"
               /\ \A n \in 1 .. q[k] - 1 :
                    s[n] = "TOUCH_EVENT" <=> \E j \in 1 .. k - 1 : q[j] = n
    BY <1>4 DEF Touches
  <2>3. ASSUME NEW k \in 1 .. Len(q)
        PROVE  /\ r[q[k]] = "TOUCH_EVENT"
               /\ \A n \in 1 .. q[k] - 1 :
                    r[n] = "TOUCH_EVENT" <=> \E j \in 1 .. k - 1 : q[j] = n
    <3>1. \A n \in 1 .. q[k] - 1 : r[n] = s[n]
      BY <2>1
    <3>2. \A n \in 1 .. q[k] - 1 :
            s[n] = "TOUCH_EVENT" <=> \E j \in 1 .. k - 1 : q[j] = n
      BY <2>2
    <3> QED
      BY <2>1, <2>2, <3>1, <3>2
  <2> QED
    BY <2>3 DEF Touches
<1> QED
  BY <1>3, <1>4

LEMMA TouchSkipped ==
  ASSUME NEW s, NEW q, NEW h \in Nat,
         NEW M \in Nat, q \in Seq(1 .. M),
         Upto(s, q, h), s[h + 1] # "TOUCH_EVENT"
  PROVE  Upto(s, q, h + 1)
<1>1. \A k \in 1 .. Len(q) : q[k] \in Nat /\ q[k] <= h
  BY DEF Upto
<1>2. \A n \in 1 .. h + 1 : n \in 1 .. h \/ n = h + 1
  OBVIOUS
<1> QED
  BY <1>1, <1>2 DEF Upto

LEMMA TouchDelivered ==
  ASSUME NEW s, NEW M \in Nat, NEW q \in Seq(1 .. M), NEW h \in Nat,
         Touches(s, q), Upto(s, q, h), s[h + 1] = "TOUCH_EVENT"
  PROVE  /\ Touches(s, Append(q, h + 1))
         /\ Upto(s, Append(q, h + 1), h + 1)
<1> DEFINE r == Append(q, h + 1)
           m == Len(q)
<1>1. /\ m \in Nat /\ Len(r) = m + 1 /\ r[m + 1] = h + 1
      /\ \A k \in 1 .. m : r[k] = q[k] /\ q[k] \in Nat /\ q[k] <= h
  BY DEF Upto
<1> HIDE DEF r
<1>2. Touches(s, r)
  <2>1. ASSUME NEW k \in 1 .. m
        PROVE  /\ s[r[k]] = "TOUCH_EVENT"
               /\ \A n \in 1 .. r[k] - 1 :
                    s[n] = "TOUCH_EVENT" <=> \E j \in 1 .. k - 1 : r[j] = n
    <3>1. \A j \in 1 .. k - 1 : r[j] = q[j]
      BY <1>1
    <3>2. r[k] = q[k]
      BY <1>1
    <3>3. s[q[k]] = "TOUCH_EVENT"
      BY DEF Touches
    <3>4. ASSUME NEW n \in 1 .. q[k] - 1
          PROVE  s[n] = "TOUCH_EVENT" <=> \E j \in 1 .. k - 1 : q[j] = n
      BY DEF Touches
    <3> QED
      BY <3>1, <3>2, <3>3, <3>4
  <2>2. \A n \in 1 .. h : s[n] = "TOUCH_EVENT" <=> \E j \in 1 .. m : r[j] = n
    BY <1>1 DEF Upto
  <2>3. \A k \in 1 .. Len(r) : k \in 1 .. m \/ k = m + 1
    BY <1>1
  <2>4. r[m + 1] - 1 = h /\ (m + 1) - 1 = m
    BY <1>1
  <2>5. /\ s[r[m + 1]] = "TOUCH_EVENT"
        /\ \A n \in 1 .. r[m + 1] - 1 :
             s[n] = "TOUCH_EVENT" <=> \E j \in 1 .. (m + 1) - 1 : r[j] = n
    BY <1>1, <2>2, <2>4
  <2>6. ASSUME NEW k \in 1 .. Len(r)
        PROVE  /\ s[r[k]] = "TOUCH_EVENT"
               /\ \A n \in 1 .. r[k] - 1 :
                    s[n] = "TOUCH_EVENT" <=> \E j \in 1 .. k - 1 : r[j] = n
    <3>1. CASE k \in 1 .. m
      BY <2>1, <3>1
    <3>2. CASE k = m + 1
      BY <2>5, <3>2
    <3> QED
      BY <2>3, <3>1, <3>2
  <2> QED
    BY <2>6 DEF Touches
<1>3. Upto(s, r, h + 1)
  <2>1. \A k \in 1 .. Len(r) : (k \in 1 .. m \/ k = m + 1) /\ r[k] <= h + 1
    BY <1>1
  <2>2. ASSUME NEW n \in 1 .. h
        PROVE  s[n] = "TOUCH_EVENT" <=> \E k \in 1 .. Len(r) : r[k] = n
    <3>1. s[n] = "TOUCH_EVENT" <=> \E k \in 1 .. m : q[k] = n
      BY DEF Upto
    <3>2. \A k \in 1 .. Len(r) : r[k] = n => k \in 1 .. m
      BY <1>1, <2>1
    <3>3. \A k \in 1 .. m : k \in 1 .. Len(r)
      BY <1>1
    <3> QED
      BY <1>1, <3>1, <3>2, <3>3
  <2>3. \A n \in 1 .. h + 1 : n \in 1 .. h \/ n = h + 1
    OBVIOUS
  <2>4. m + 1 \in 1 .. Len(r) /\ r[m + 1] = h + 1
    BY <1>1
  <2> QED
    BY <2>1, <2>2, <2>3, <2>4 DEF Upto
<1> QED
  BY <1>2, <1>3 DEF r

\* Steps that deliver nothing: handlers go on or end, and an outstanding read is
\* either an old one or that of a handler which is through with its messages.
LEMMA TouchKept ==
  ASSUME Inv, TouchClients, TouchWorkers, UNCHANGED <<next_id, sent, got, inputs>>,
         \A i \in reading' \ reading :
           \E w \in Workers : InHandler(w) /\ cid[w] = i /\ todo[w] = 0,
         \A v \in Workers :
           InHandler(v)' => InHandler(v) /\ cid'[v] = cid[v] /\ todo'[v] = todo[v]
  PROVE  TouchClients' /\ TouchWorkers'
<1>1. ASSUME NEW i \in Ids, i \in reading'
      PROVE  Upto(sent[i], inputs[i], got[i])
  <2>1. CASE i \in reading
    BY <2>1 DEF TouchClients
  <2>2. CASE i \notin reading
    <3>1. PICK w \in Workers : InHandler(w) /\ cid[w] = i /\ todo[w] = 0
      BY <1>1, <2>2
    <3>2. got[i] \in Nat /\ got[i] - 0 = got[i]
      BY <3>1, Numbers
    <3> QED
      BY <3>1, <3>2 DEF TouchWorkers
  <2> QED
    BY <2>1, <2>2
<1>2. TouchClients'
  BY <1>1 DEF TouchClients
<1>3. TouchWorkers'
  BY DEF TouchWorkers
<1> QED
  BY <1>2, <1>3

\* What a step of one worker leaves alone.
Others(w) ==
  \A v \in Workers \ {w} : pc'[v] = pc[v] /\ cid'[v] = cid[v] /\ todo'[v] = todo[v]

LEMMA OthersGoOn ==
  ASSUME Inv, NEW w \in Workers, NEW from, NEW to \in WorkerLabels, Goto(w, from, to),
         UNCHANGED <<cid, todo>> \/ EndOfTask(w)
  PROVE  Others(w) /\ pc[w] = from /\ pc'[w] = to
<1>1. pc[w] = from /\ pc'[w] = to /\ \A v \in Workers \ {w} : pc'[v] = pc[v]
  BY WorkerGoes
<1>2. \A v \in Workers \ {w} : cid'[v] = cid[v] /\ todo'[v] = todo[v]
  BY DEF EndOfTask, Inv, TypeOK, Threads
<1> QED
  BY <1>1, <1>2 DEF Others

LEMMA OthersThrown ==
  ASSUME Inv, NEW w \in Workers, Thrown(w)
  PROVE  Others(w) /\ pc'[w] = "idle"
BY OthersGoOn DEF Thrown, WorkerLabels

\* The steps of a worker that neither take a message nor begin a handler.
Plain(w) ==
  \/ AddConnection(w) \/ Handshake(w) \/ HandshakeSend(w) \/ Arm(w) \/ RemoveConnection(w)
  \/ Lock(w) \/ Callback(w) \/ Unlock(w) \/ ReadAgain(w) \/ Loop(w)

LEMMA PlainMoves ==
  ASSUME Inv, TodoInv, NEW w \in Workers, Plain(w)
  PROVE  /\ Others(w) /\ InHandler(w)
         /\ UNCHANGED <<next_id, sent, got, inputs>>
         /\ InHandler(w)' => cid'[w] = cid[w] /\ todo'[w] = todo[w]
         /\ reading' = reading \/ (reading' = reading \cup {cid[w]} /\ todo[w] = 0)
         /\ todo[w] > 0 /\ InHandler(w)' => pc'[w] \in LockedLabels
         /\ ~InHandler(w)' => todo'[w] = 0
<1> USE OthersGoOn, OthersThrown
    DEF WorkerLabels, LockedLabels, LoopLabels, InHandler, connVars, histVars, clientVars,
        taskVars
<1>w. w \in Threads /\ todo \in [Threads -> 0 .. MaxInbox] /\ todo[w] \in Nat
  BY Numbers DEF Inv, TypeOK, Threads
<1>e. EndOfTask(w) => todo'[w] = 0
  BY <1>w DEF EndOfTask
<1>t. Thrown(w) => EndOfTask(w)
  BY DEF Thrown
<1>1. CASE AddConnection(w)
  BY <1>1, <1>w DEF AddConnection, TodoInv
<1>2. CASE Handshake(w)
  BY <1>2, <1>w DEF Handshake, TodoInv
<1>3. CASE HandshakeSend(w)
  <2>1. CASE Goto(w, "handshake_send", "arm") /\ UNCHANGED taskVars
    BY <1>3, <2>1, <1>w DEF HandshakeSend, TodoInv
  <2>2. CASE pc[w] = "handshake_send" /\ Thrown(w)
    BY <1>3, <2>2, <1>e, <1>t DEF HandshakeSend
  <2> QED
    BY <1>3, <2>1, <2>2 DEF HandshakeSend
<1>4. CASE Arm(w)
  BY <1>4, <1>e, <1>w DEF Arm, TodoInv
<1>5. CASE RemoveConnection(w)
  BY <1>5, <1>e DEF RemoveConnection
<1>6. CASE Lock(w) \/ Unlock(w)
  BY <1>6 DEF Lock, Unlock
<1>7. CASE Callback(w)
  <2>1. CASE Goto(w, "callback", "dispatch") /\ UNCHANGED taskVars
    BY <1>7, <2>1 DEF Callback
  <2>2. CASE pc[w] = "callback" /\ Thrown(w)
    BY <1>7, <2>2, <1>e, <1>t DEF Callback
  <2> QED
    BY <1>7, <2>1, <2>2 DEF Callback
<1>8. CASE ReadAgain(w)
  BY <1>8, <1>e, <1>w DEF ReadAgain, TodoInv
<1>9. CASE LoopSize(w)
  <2>1. LoopEnd(w) = "dispatch"
    BY DEF LoopEnd
  <2>2. PICK to \in {"at", "dispatch"} : Goto(w, "size", to)
    BY <1>9, <2>1 DEF LoopSize
  <2> QED
    BY <1>9, <2>2 DEF LoopSize
<1>10. CASE LoopAt(w)
  <2>1. CASE ~AtThrows(conns, idx[w])
    <3>1. PICK to \in {"send", "size"} : Goto(w, "at", to)
      BY <1>10, <2>1 DEF LoopAt
    <3> QED
      BY <1>10, <2>1, <3>1 DEF LoopAt
  <2>2. CASE AtThrows(conns, idx[w])
    <3>1. pc[w] = "at" /\ Thrown(w)
      BY <1>10, <2>2 DEF LoopAt
    <3> QED
      BY <1>10, <3>1, <1>e, <1>t DEF LoopAt
  <2> QED
    BY <2>1, <2>2
<1>11. CASE LoopSend(w)
  <2>1. CASE Goto(w, "send", "dispatch") /\ UNCHANGED <<cid, todo>>
    BY <1>11, <2>1 DEF LoopSend
  <2>2. CASE pc[w] = "send" /\ Thrown(w)
    BY <1>11, <2>2, <1>e, <1>t DEF LoopSend
  <2> QED
    BY <1>11, <2>1, <2>2 DEF LoopSend
<1> QED
  BY <1>1, <1>2, <1>3, <1>4, <1>5, <1>6, <1>7, <1>8, <1>9, <1>10, <1>11 DEF Plain, Loop

\* What the producers, the clients' reading and closing and the data race leave alone.
Aside ==
  \/ \E i \in Ids : ClientReads(i) \/ ClientCloses(i)
  \/ \E p \in Producers : BeginFrame(p) \/ Loop(p)
  \/ \E t \in Threads : LoopRaces(t)
  \/ UNCHANGED vars

LEMMA AsideMoves ==
  ASSUME Inv, Aside
  PROVE  /\ UNCHANGED <<next_id, sent, got, inputs, reading, cid, todo>>
         /\ \A v \in Workers : pc'[v] = pc[v]
<1> USE DEF connVars, outVars, histVars, clientVars, taskVars
<1>1. ASSUME NEW p \in Producers, NEW to, pc' = [pc EXCEPT ![p] = to]
      PROVE  \A v \in Workers : pc'[v] = pc[v]
  BY <1>1, ThreadsAssumption DEF Inv, TypeOK, LabelsOK
<1>2. ASSUME NEW p \in Producers, BeginFrame(p) \/ Loop(p)
      PROVE  /\ UNCHANGED <<next_id, sent, got, inputs, reading, cid, todo>>
             /\ \A v \in Workers : pc'[v] = pc[v]
  <2>1. p \notin Workers
    BY ThreadsAssumption
  <2>2. UNCHANGED <<next_id, sent, got, inputs, reading, cid, todo>>
    BY <1>2, <2>1 DEF BeginFrame, Loop, LoopSize, LoopAt, LoopSend, Thrown
  <2>3. \E to : pc' = [pc EXCEPT ![p] = to]
    BY <1>2, <2>1 DEF BeginFrame, Loop, LoopSize, LoopAt, LoopSend, Thrown, Goto
  <2> QED
    BY <1>1, <2>2, <2>3
<1>3. ASSUME NEW i \in Ids, ClientReads(i) \/ ClientCloses(i)
      PROVE  UNCHANGED <<next_id, sent, got, inputs, reading, cid, todo, pc>>
  BY <1>3 DEF ClientReads, ClientCloses
<1>4. ASSUME NEW t \in Threads, LoopRaces(t)
      PROVE  UNCHANGED <<next_id, sent, got, inputs, reading, cid, todo, pc>>
  BY <1>4 DEF LoopRaces
<1>5. CASE UNCHANGED vars
  BY <1>5 DEF vars
<1> QED
  BY <1>2, <1>3, <1>4, <1>5 DEF Aside

\* The kinds of steps there are.
LEMMA StepKinds ==
  ASSUME [Next]_vars
  PROVE  \/ Aside
         \/ \E i \in Ids : \E kind \in Kinds : ClientSends(i, kind)
         \/ \E w \in Workers :
              \/ Plain(w) \/ Accept(w)
              \/ \E i \in Ids : ReadSome(w, i) \/ ReadError(w, i)
              \/ DispatchOther(w) \/ DispatchTouch(w) \/ DispatchPing(w)
BY DEF Next, Aside, Client, Connect, Receive, Handle, Plain, Loop, Threads

LEMMA TodoStep ==
  ASSUME Inv, Inv', TodoInv, [Next]_vars
  PROVE  TodoInv'
<1> USE DEF TodoInv
<1>1. CASE Aside
  BY <1>1, AsideMoves
<1>2. ASSUME NEW i \in Ids, NEW kind \in Kinds, ClientSends(i, kind)
      PROVE  TodoInv'
  BY <1>2 DEF ClientSends, taskVars
<1>3. ASSUME NEW w \in Workers, Others(w),
             todo'[w] = 0 \/ pc'[w] \in LockedLabels \cup {"lock"}
      PROVE  TodoInv'
  <2>1. todo'[w] \in Nat
    BY DEF Inv, TypeOK, Threads
  <2> QED
    BY <1>3, <2>1 DEF Others
<1>4. ASSUME NEW w \in Workers, Plain(w)
      PROVE  TodoInv'
  <2>1. Others(w) /\ (todo'[w] = 0 \/ pc'[w] \in LockedLabels \cup {"lock"})
    <3>1. todo[w] \in Nat
      BY Numbers
    <3> QED
      BY <1>4, <3>1, PlainMoves
  <2> QED
    BY <1>3, <2>1
<1>5. ASSUME NEW w \in Workers, Accept(w)
      PROVE  TodoInv'
  <2>1. pc[w] = "idle" /\ UNCHANGED todo
    BY <1>5 DEF Accept, Goto
  <2>2. todo'[w] = 0
    BY <2>1 DEF Inv, Counts, InHandler
  <2>3. \A v \in Workers \ {w} : pc'[v] = pc[v]
    BY <1>5, WorkerGoes DEF Accept, WorkerLabels
  <2> QED
    BY <2>1, <2>2, <2>3
<1>6. ASSUME NEW w \in Workers, NEW i \in Ids, ReadSome(w, i) \/ ReadError(w, i)
      PROVE  TodoInv'
  <2>1. \A v \in Workers \ {w} : pc'[v] = pc[v] /\ todo'[v] = todo[v]
    <3>1. \A v \in Workers \ {w} : pc'[v] = pc[v]
      BY <1>6, WorkerGoes DEF ReadSome, ReadError, WorkerLabels
    <3>2. todo' = todo \/ \E k : todo' = [todo EXCEPT ![w] = k]
      BY <1>6 DEF ReadSome, ReadError
    <3>3. \A v \in Workers \ {w} : todo'[v] = todo[v]
      BY <3>2 DEF Inv, TypeOK, Threads
    <3> QED
      BY <3>1, <3>3
  <2>2. CASE ReadSome(w, i)
    BY <2>1, <2>2, WorkerGoes DEF ReadSome, WorkerLabels
  <2>3. CASE ReadError(w, i)
    <3>1. todo'[w] = 0
      BY <2>3 DEF ReadError, Goto, Inv, Counts, InHandler
    <3> QED
      BY <2>1, <3>1
  <2> QED
    BY <1>6, <2>2, <2>3
<1>7. ASSUME NEW w \in Workers, DispatchOther(w) \/ DispatchTouch(w) \/ DispatchPing(w)
      PROVE  TodoInv'
  <2>1. \A v \in Workers \ {w} : pc'[v] = pc[v] /\ todo'[v] = todo[v]
    BY <1>7, WorkerGoes
    DEF DispatchOther, DispatchTouch, DispatchPing, Pops, WorkerLabels, LockedLabels,
        LoopLabels, Inv, TypeOK, Threads
  <2>2. pc'[w] \in LockedLabels
    BY <1>7, WorkerGoes
    DEF DispatchOther, DispatchTouch, DispatchPing, WorkerLabels, LockedLabels, LoopLabels
  <2> QED
    BY <2>1, <2>2
<1> QED
  BY <1>1, <1>2, <1>4, <1>5, <1>6, <1>7, StepKinds

LEMMA SeqOfNumbers ==
  ASSUME NEW M \in Nat, NEW x \in Seq(1 .. M)
  PROVE  \A k \in 1 .. Len(x) : x[k] \in Nat
<1>1. \A k \in 1 .. Len(x) : x[k] \in 1 .. M
  OBVIOUS
<1> QED
  BY <1>1

\* A message is handled: it is a touch and delivered, or it is neither.
LEMMA TouchHandled ==
  ASSUME Inv, Inv', TouchClients, TouchWorkers, NEW w \in Workers, InHandler(w), todo[w] > 0,
         Others(w), InHandler(w)', cid'[w] = cid[w], todo'[w] = todo[w] - 1,
         UNCHANGED <<next_id, sent, got, reading>>,
         IF sent[cid[w]][Current(w)] = "TOUCH_EVENT"
         THEN inputs' = [inputs EXCEPT ![cid[w]] = Append(@, Current(w))]
         ELSE inputs' = inputs
  PROVE  TouchClients' /\ TouchWorkers'
<1> DEFINE c == cid[w]
           h == got[c] - todo[w]
           s == sent[c]
           q == inputs[c]
<1>1. /\ c \in Ids /\ c < next_id /\ todo[w] \in Nat /\ got[c] \in Nat
      /\ todo[w] <= got[c] /\ MaxInbox \in Nat
      /\ h \in Nat /\ h + 1 = Current(w) /\ h + 1 <= got[c] /\ h + 1 \in 1 .. MaxInbox
      /\ got[c] - (todo[w] - 1) = h + 1
  <2>1. /\ c \in Ids /\ c < next_id /\ todo[w] \in Nat /\ todo[w] <= got[c]
        /\ got[c] \in 0 .. MaxInbox /\ MaxInbox \in Nat
    BY Numbers, BoundsAssumption DEF Inv, TypeOK
  <2> QED
    BY <2>1 DEF Current
<1>2. c \notin reading /\ \A v \in Workers \ {w} : InHandler(v) => cid[v] # c
  BY DEF Inv, OneHandlerPerClient
<1>3. q \in Seq(1 .. MaxInbox) /\ Touches(s, q) /\ Upto(s, q, h)
  BY <1>1 DEF Inv, TypeOK, TouchClients, TouchWorkers
<1>4. /\ Touches(s, inputs'[c]) /\ Upto(s, inputs'[c], h + 1)
      /\ \A i \in Ids \ {c} : inputs'[i] = inputs[i]
  <2>1. CASE s[h + 1] = "TOUCH_EVENT"
    <3>1. inputs' = [inputs EXCEPT ![c] = Append(q, h + 1)]
      BY <1>1, <2>1
    <3>2. inputs'[c] = Append(q, h + 1) /\ \A i \in Ids \ {c} : inputs'[i] = inputs[i]
      BY <1>1, <3>1 DEF Inv, TypeOK
    <3>3. Touches(s, Append(q, h + 1)) /\ Upto(s, Append(q, h + 1), h + 1)
      BY <1>1, <1>3, <2>1, TouchDelivered
    <3> QED
      BY <3>2, <3>3
  <2>2. CASE s[h + 1] # "TOUCH_EVENT"
    <3>1. inputs' = inputs
      BY <1>1, <2>2
    <3>2. Upto(s, q, h + 1)
      BY <1>1, <1>3, <2>2, TouchSkipped
    <3> QED
      BY <1>3, <3>1, <3>2
  <2> QED
    BY <2>1, <2>2
<1>5. \A k \in 1 .. Len(inputs'[c]) : inputs'[c][k] <= got[c]
  <2>1. inputs'[c] \in Seq(1 .. MaxInbox)
    BY <1>1 DEF Inv, TypeOK
  <2>2. \A k \in 1 .. Len(inputs'[c]) : inputs'[c][k] \in Nat
    BY <1>1, <2>1, SeqOfNumbers
  <2>3. \A k \in 1 .. Len(inputs'[c]) : inputs'[c][k] <= h + 1
    BY <1>4 DEF Upto
  <2>4. \A x \in Nat : x <= h + 1 => x <= got[c]
    BY <1>1
  <2> QED
    BY <2>2, <2>3, <2>4
<1>6. TouchClients'
  <2>1. ~(c >= next_id)
    <3>1. c \in Nat /\ next_id \in Nat
      BY Numbers
    <3> QED
      BY <1>1, <3>1
  <2>2. ASSUME NEW i \in Ids
        PROVE  /\ Touches(sent[i], inputs'[i])
               /\ \A k \in 1 .. Len(inputs'[i]) : inputs'[i][k] <= got[i]
               /\ i >= next_id => got[i] = 0 /\ inputs'[i] = <<>>
               /\ i \in reading => Upto(sent[i], inputs'[i], got[i])
    <3>1. CASE i = c
      BY <3>1, <2>1, <1>2, <1>4, <1>5
    <3>2. CASE i # c
      BY <3>2, <1>4 DEF TouchClients
    <3> QED
      BY <3>1, <3>2
  <2> QED
    BY <2>2 DEF TouchClients
<1>7. TouchWorkers'
  <2>1. ASSUME NEW v \in Workers \ {w}, InHandler(v)'
        PROVE  Upto(sent[cid[v]], inputs'[cid[v]], got[cid[v]] - todo[v])
    <3>1. InHandler(v) /\ cid[v] # c /\ cid[v] \in Ids
      BY <1>2, <2>1, Numbers DEF Others, InHandler
    <3> QED
      BY <1>4, <3>1 DEF TouchWorkers
  <2>2. Upto(sent[c], inputs'[c], got[c] - (todo[w] - 1))
    BY <1>1, <1>4
  <2>3. ASSUME NEW v \in Workers, InHandler(v)'
        PROVE  Upto(sent[cid'[v]], inputs'[cid'[v]], got[cid'[v]] - todo'[v])
    <3>1. CASE v = w
      BY <2>2, <3>1
    <3>2. CASE v # w
      BY <2>1, <2>3, <3>2 DEF Others
    <3> QED
      BY <3>1, <3>2
  <2> QED
    BY <2>3 DEF TouchWorkers
<1> QED
  BY <1>6, <1>7

LEMMA TouchStep ==
  ASSUME Inv, Inv', TodoInv, TouchClients, TouchWorkers, [Next]_vars
  PROVE  TouchClients' /\ TouchWorkers'
<1>1. CASE Aside
  BY <1>1, AsideMoves, TouchKept DEF InHandler
<1>2. ASSUME NEW i \in Ids, NEW kind \in Kinds, ClientSends(i, kind)
      PROVE  TouchClients' /\ TouchWorkers'
  <2>1. /\ UNCHANGED <<next_id, got, inputs, reading, cid, todo, pc>>
        /\ sent' = [sent EXCEPT ![i] = Append(@, kind)]
    BY <1>2 DEF ClientSends, connVars, histVars, taskVars
  <2>2. ASSUME NEW j \in Ids, NEW h \in Nat, h <= got[j]
        PROVE  /\ Upto(sent[j], inputs[j], h) => Upto(sent'[j], inputs[j], h)
               /\ Touches(sent[j], inputs[j])
                  /\ (\A k \in 1 .. Len(inputs[j]) : inputs[j][k] <= h)
                  => Touches(sent'[j], inputs[j])
    <3>1. /\ sent[j] \in Seq(ClientKinds) /\ sent'[j] \in Seq(ClientKinds)
          /\ inputs[j] \in Seq(1 .. MaxInbox) /\ MaxInbox \in Nat
          /\ got[j] \in Nat /\ got[j] <= Len(sent[j])
      BY BoundsAssumption DEF Inv, TypeOK, Counts
    <3>2. \A n \in 1 .. Len(sent[j]) : sent'[j][n] = sent[j][n]
      BY <2>1, <3>1 DEF Inv, TypeOK
    <3>3. h <= Len(sent[j])
      BY <2>2, <3>1
    <3> QED
      BY <3>1, <3>2, <3>3, TouchesGrow
  <2>3. TouchClients'
    <3>1. \A j \in Ids : got[j] \in Nat /\ got[j] <= got[j]
      BY BoundsAssumption DEF Inv, TypeOK
    <3> QED
      BY <2>1, <2>2, <3>1 DEF TouchClients
  <2>4. TouchWorkers'
    <3>1. ASSUME NEW w \in Workers, InHandler(w)
          PROVE  Upto(sent'[cid[w]], inputs[cid[w]], got[cid[w]] - todo[w])
      <4>1. /\ cid[w] \in Ids /\ got[cid[w]] - todo[w] \in Nat
            /\ got[cid[w]] - todo[w] <= got[cid[w]]
        BY <3>1, Numbers
      <4> QED
        BY <2>2, <3>1, <4>1 DEF TouchWorkers
    <3> QED
      BY <2>1, <3>1 DEF TouchWorkers, InHandler
  <2> QED
    BY <2>3, <2>4
<1>3. ASSUME NEW w \in Workers, Plain(w)
      PROVE  TouchClients' /\ TouchWorkers'
  <2>1. \A i \in reading' \ reading :
          \E v \in Workers : InHandler(v) /\ cid[v] = i /\ todo[v] = 0
    BY <1>3, PlainMoves
  <2>2. \A v \in Workers :
          InHandler(v)' => InHandler(v) /\ cid'[v] = cid[v] /\ todo'[v] = todo[v]
    BY <1>3, PlainMoves DEF Others, InHandler
  <2> QED
    BY <1>3, <2>1, <2>2, PlainMoves, TouchKept
<1>4. ASSUME NEW w \in Workers, Accept(w)
      PROVE  TouchClients' /\ TouchWorkers'
  <2>1. /\ next_id \in Ids /\ next_id' = next_id + 1
        /\ UNCHANGED <<sent, got, inputs, reading, todo>>
        /\ cid' = [cid EXCEPT ![w] = next_id]
    BY <1>4, BoundsAssumption DEF Accept, histVars, Inv, TypeOK, Ids
  <2>2. /\ \A v \in Workers \ {w} : pc'[v] = pc[v] /\ cid'[v] = cid[v]
        /\ cid'[w] = next_id /\ todo[w] = 0
    BY <1>4, <2>1, WorkerGoes
    DEF Accept, Goto, WorkerLabels, Inv, TypeOK, Counts, InHandler, Threads
  <2>3. got[next_id] = 0 /\ inputs[next_id] = <<>> /\ got[next_id] - todo[w] = 0
    BY <2>1, <2>2, BoundsAssumption DEF TouchClients, Inv, TypeOK
  <2>4. Upto(sent[next_id], inputs[next_id], got[next_id] - todo[w])
    BY <2>3 DEF Upto
  <2>5. TouchClients'
    <3>1. \A i \in Ids : i >= next_id + 1 => i >= next_id
      BY <2>1, BoundsAssumption DEF Ids
    <3> QED
      BY <2>1, <3>1 DEF TouchClients
  <2>6. TouchWorkers'
    <3>1. ASSUME NEW v \in Workers, InHandler(v)'
          PROVE  Upto(sent'[cid'[v]], inputs'[cid'[v]], got'[cid'[v]] - todo'[v])
      <4>1. CASE v = w
        BY <2>1, <2>2, <2>4, <4>1
      <4>2. CASE v # w
        BY <2>1, <2>2, <3>1, <4>2 DEF TouchWorkers, InHandler
      <4> QED
        BY <4>1, <4>2
    <3> QED
      BY <3>1 DEF TouchWorkers
  <2> QED
    BY <2>5, <2>6
<1>5. ASSUME NEW w \in Workers, NEW i \in Ids, ReadSome(w, i) \/ ReadError(w, i)
      PROVE  TouchClients' /\ TouchWorkers'
  <2>1. /\ i \in reading /\ reading' = reading \ {i} /\ pc[w] = "idle"
        /\ UNCHANGED <<next_id, sent, inputs>>
        /\ \A v \in Workers \ {w} : pc'[v] = pc[v]
        /\ cid' = [cid EXCEPT ![w] = i]
    BY <1>5, WorkerGoes
    DEF ReadSome, ReadError, Disarmed, WorkerLabels, histVars, clientVars, Goto
  <2>2. todo[w] = 0 /\ \A v \in Workers : InHandler(v) => cid[v] # i
    BY <2>1 DEF Inv, Counts, OneHandlerPerClient, InHandler
  <2>3. /\ got'[i] \in Nat /\ got[i] \in Nat /\ got[i] <= got'[i]
        /\ got'[i] - todo'[w] = got[i]
        /\ \A j \in Ids \ {i} : got'[j] = got[j]
        /\ \A v \in Workers \ {w} : todo'[v] = todo[v]
    <3>1. /\ todo \in [Threads -> 0 .. MaxInbox] /\ got \in [Ids -> 0 .. MaxInbox]
          /\ sent[i] \in Seq(ClientKinds) /\ w \in Threads /\ Workers \subseteq Threads
          /\ MaxInbox \in Nat
      BY BoundsAssumption DEF Inv, TypeOK, Threads
    <3>2. CASE ReadSome(w, i)
      <4>1. PICK k \in 1 .. Len(sent[i]) - got[i] :
              todo' = [todo EXCEPT ![w] = k] /\ got' = [got EXCEPT ![i] = @ + k]
        BY <3>2 DEF ReadSome
      <4>2. k \in Nat /\ got'[i] = got[i] + k /\ todo'[w] = k
        BY <3>1, <4>1
      <4> QED
        BY <3>1, <4>1, <4>2
    <3>3. CASE ReadError(w, i)
      <4>1. UNCHANGED <<got, todo>>
        BY <3>3 DEF ReadError, clientVars
      <4> QED
        BY <2>2, <3>1, <4>1
    <3> QED
      BY <1>5, <3>2, <3>3
  <2>4. TouchClients'
    <3>1. ~(i >= next_id)
      BY <2>1, BoundsAssumption DEF Inv, Fresh, TypeOK, Ids
    <3>2. ASSUME NEW j \in Ids
          PROVE  /\ Touches(sent[j], inputs[j])
                 /\ \A k \in 1 .. Len(inputs[j]) : inputs[j][k] <= got'[j]
                 /\ j >= next_id => got'[j] = 0 /\ inputs[j] = <<>>
                 /\ j \in reading' => Upto(sent[j], inputs[j], got'[j])
      <4>1. CASE j # i
        BY <2>1, <2>3, <4>1 DEF TouchClients
      <4>2. CASE j = i
        <5>1. inputs[i] \in Seq(1 .. MaxInbox) /\ MaxInbox \in Nat
          BY BoundsAssumption DEF Inv, TypeOK
        <5>2. \A k \in 1 .. Len(inputs[i]) : inputs[i][k] \in Nat /\ inputs[i][k] <= got[i]
          BY <5>1 DEF TouchClients
        <5>3. \A k \in 1 .. Len(inputs[i]) : inputs[i][k] <= got'[i]
          BY <2>3, <5>2
        <5> QED
          BY <2>1, <3>1, <4>2, <5>3 DEF TouchClients
      <4> QED
        BY <4>1, <4>2
    <3> QED
      BY <2>1, <3>2 DEF TouchClients
  <2>5. TouchWorkers'
    <3>1. ASSUME NEW v \in Workers, InHandler(v)'
          PROVE  Upto(sent'[cid'[v]], inputs'[cid'[v]], got'[cid'[v]] - todo'[v])
      <4>1. CASE v = w
        <5>1. cid'[w] = i
          BY <2>1 DEF Inv, TypeOK, Threads
        <5>2. Upto(sent[i], inputs[i], got[i])
          BY <2>1 DEF TouchClients
        <5> QED
          BY <2>1, <2>3, <4>1, <5>1, <5>2
      <4>2. CASE v # w
        <5>1. InHandler(v) /\ cid'[v] = cid[v] /\ cid[v] \in Ids \ {i}
          BY <2>1, <2>2, <3>1, <4>2, Numbers DEF InHandler, Inv, TypeOK, Threads
        <5> QED
          BY <2>1, <2>3, <4>2, <5>1 DEF TouchWorkers
      <4> QED
        BY <4>1, <4>2
    <3> QED
      BY <3>1 DEF TouchWorkers
  <2> QED
    BY <2>4, <2>5
<1>6. ASSUME NEW w \in Workers, DispatchOther(w) \/ DispatchTouch(w) \/ DispatchPing(w)
      PROVE  TouchClients' /\ TouchWorkers'
  <2> USE DEF DispatchOther, DispatchTouch, DispatchPing
  <2>1. /\ pc[w] = "dispatch" /\ pc'[w] # "idle" /\ \A v \in Workers \ {w} : pc'[v] = pc[v]
    BY <1>6, WorkerGoes DEF WorkerLabels, LockedLabels, LoopLabels
  <2>2. /\ todo[w] > 0 /\ todo' = [todo EXCEPT ![w] = @ - 1]
        /\ UNCHANGED <<next_id, sent, got, reading, cid>>
    BY <1>6 DEF Pops, connVars, clientVars
  <2>3. todo'[w] = todo[w] - 1 /\ Others(w) /\ InHandler(w) /\ InHandler(w)'
    BY <2>1, <2>2 DEF Others, InHandler, Inv, TypeOK, Threads
  <2>4. IF sent[cid[w]][Current(w)] = "TOUCH_EVENT"
        THEN inputs' = [inputs EXCEPT ![cid[w]] = Append(@, Current(w))]
        ELSE inputs' = inputs
    BY <1>6 DEF Pops, histVars
  <2> QED
    BY <2>2, <2>3, <2>4, TouchHandled
<1> QED
  BY <1>1, <1>2, <1>3, <1>4, <1>5, <1>6, StepKinds

TouchInv == Inv /\ TodoInv /\ TouchClients /\ TouchWorkers

LEMMA TouchInvariance == Spec => []TouchInv
<1>1. Init => TouchInv
  <2> SUFFICES ASSUME Init
               PROVE  TodoInv /\ TouchClients /\ TouchWorkers
    BY InitInv DEF TouchInv
  <2>1. TodoInv /\ TouchWorkers
    BY DEF Init, TodoInv, TouchWorkers, InHandler, Threads
  <2>2. TouchClients
    BY DEF Init, TouchClients, Touches
  <2> QED
    BY <2>1, <2>2
<1>2. TouchInv /\ [Next]_vars => TouchInv'
  BY NextInv, TodoStep, TouchStep DEF TouchInv
<1> QED
  BY <1>1, <1>2, PTL DEF Spec

\* Whatever the workers do side by side and whichever handler an exception ends,
\* the device sees of each client a prefix of its touches, in order.
THEOREM TouchesDelivered == Spec => []TouchesInOrder
<1>1. TouchInv => TouchesInOrder
  <2> SUFFICES ASSUME TouchInv, NEW i \in Ids, NEW k \in DOMAIN inputs[i]
               PROVE  /\ sent[i][inputs[i][k]] = "TOUCH_EVENT"
                      /\ \A n \in 1 .. inputs[i][k] - 1 :
                           sent[i][n] = "TOUCH_EVENT"
                             <=> \E j \in 1 .. k - 1 : inputs[i][j] = n
    BY DEF TouchesInOrder
  <2>1. inputs[i] \in Seq(1 .. MaxInbox)
    BY DEF TouchInv, Inv, TypeOK
  <2>2. k \in 1 .. Len(inputs[i])
    BY <2>1
  <2> QED
    BY <2>2 DEF TouchInv, TouchClients, Touches
<1> QED
  BY <1>1, TouchInvariance, PTL

-----------------------------------------------------------------------------
(***************************************************************************)
(* Frames.  A producer in its loop has written its frame to the clients    *)
(* before idx and to none of the others.                                   *)
(***************************************************************************)
FramesBelow(s, n) == \A k \in 1 .. Len(s) : s[k].type = "FRAME_DATA" => s[k].seq < n

Rising(s) ==
  \A j, k \in 1 .. Len(s) :
    j < k /\ s[j].type = "FRAME_DATA" /\ s[k].type = "FRAME_DATA" => s[j].seq < s[k].seq

Written(p, i) == IF i < idx[p] THEN msg[p].seq + 1 ELSE msg[p].seq

FrameInv ==
  /\ \A i \in Ids : Rising(wire[i]) /\ FramesBelow(wire[i], sequence)
  /\ \A w \in Workers : msg[w].type # "FRAME_DATA"
  /\ \A p \in Producers :
       pc[p] \in LoopLabels =>
         /\ msg[p].seq < sequence
         /\ \A i \in Ids : FramesBelow(wire[i], Written(p, i))

LEMMA FramesHigher ==
  ASSUME NEW s \in Seq(ServerMessage), NEW n \in Nat, NEW m \in Nat, n <= m,
         FramesBelow(s, n)
  PROVE  FramesBelow(s, m)
<1>1. ASSUME NEW k \in 1 .. Len(s)
      PROVE  s[k].seq \in Nat
  <2>1. s[k] \in ServerMessage
    OBVIOUS
  <2> QED
    BY <2>1 DEF ServerMessage
<1> QED
  BY <1>1 DEF FramesBelow

LEMMA FrameAppended ==
  ASSUME NEW s \in Seq(ServerMessage), NEW x \in ServerMessage, Rising(s),
         x.type = "FRAME_DATA" => FramesBelow(s, x.seq)
  PROVE  Rising(Append(s, x))
<1>1. /\ Len(s) \in Nat /\ Len(Append(s, x)) = Len(s) + 1
      /\ Append(s, x)[Len(s) + 1] = x
      /\ \A k \in 1 .. Len(s) : Append(s, x)[k] = s[k]
  OBVIOUS
<1> DEFINE r == Append(s, x)
<1> HIDE DEF r
<1>2. ASSUME NEW j \in 1 .. Len(s) + 1, NEW k \in 1 .. Len(s) + 1, j < k,
             r[j].type = "FRAME_DATA", r[k].type = "FRAME_DATA"
      PROVE  r[j].seq < r[k].seq
  <2>1. j \in 1 .. Len(s) /\ r[j] = s[j]
    BY <1>1, <1>2 DEF r
  <2>2. CASE k \in 1 .. Len(s)
    <3>1. r[k] = s[k]
      BY <1>1, <2>2 DEF r
    <3> QED
      BY <1>2, <2>1, <2>2, <3>1 DEF Rising
  <2>3. CASE k = Len(s) + 1
    <3>1. r[k] = x
      BY <1>1, <2>3 DEF r
    <3> QED
      BY <1>2, <2>1, <3>1 DEF FramesBelow
  <2> QED
    BY <1>1, <2>2, <2>3
<1> QED
  BY <1>1, <1>2 DEF Rising, r

LEMMA BelowAppended ==
  ASSUME NEW s \in Seq(ServerMessage), NEW x \in ServerMessage, NEW n \in Nat,
         FramesBelow(s, n), x.type = "FRAME_DATA" => x.seq < n
  PROVE  FramesBelow(Append(s, x), n)
<1>1. /\ Len(s) \in Nat /\ Len(Append(s, x)) = Len(s) + 1
      /\ Append(s, x)[Len(s) + 1] = x
      /\ \A k \in 1 .. Len(s) : Append(s, x)[k] = s[k]
  OBVIOUS
<1>2. \A k \in 1 .. Len(s) + 1 : k \in 1 .. Len(s) \/ k = Len(s) + 1
  BY <1>1
<1> QED
  BY <1>1, <1>2 DEF FramesBelow

\* A step of a worker: it appends no frame, and no number is taken back.
LEMMA WorkerFrames ==
  ASSUME Inv, FrameInv, NEW w \in Workers, sequence' \in Nat, sequence <= sequence',
         \/ wire' = wire
         \/ \E i \in Ids, x \in ServerMessage :
              x.type # "FRAME_DATA" /\ wire' = [wire EXCEPT ![i] = Append(@, x)],
         msg'[w].type # "FRAME_DATA",
         \A t \in Threads \ {w} : pc'[t] = pc[t] /\ msg'[t] = msg[t] /\ idx'[t] = idx[t]
  PROVE  FrameInv'
<1>t. /\ w \notin Producers /\ Workers \subseteq Threads /\ Producers \subseteq Threads
      /\ sequence \in Nat
      /\ \A t \in Threads : msg[t].seq \in Nat
      /\ \A i \in Ids : wire[i] \in Seq(ServerMessage)
  BY ThreadsAssumption DEF Threads, Inv, TypeOK, ServerMessage
<1>1. ASSUME NEW i \in Ids
      PROVE  /\ Rising(wire'[i])
             /\ \A n \in Nat : FramesBelow(wire[i], n) => FramesBelow(wire'[i], n)
  <2>1. CASE wire' = wire
    BY <2>1 DEF FrameInv
  <2>2. CASE wire' # wire
    <3>1. PICK j \in Ids, x \in ServerMessage :
            x.type # "FRAME_DATA" /\ wire' = [wire EXCEPT ![j] = Append(@, x)]
      BY <2>2
    <3>2. CASE i = j
      <4>1. wire'[i] = Append(wire[i], x)
        BY <3>1, <3>2 DEF Inv, TypeOK
      <4>2. Rising(wire[i])
        BY DEF FrameInv
      <4> QED
        BY <1>t, <3>1, <4>1, <4>2, FrameAppended, BelowAppended
    <3>3. CASE i # j
      <4>1. wire'[i] = wire[i]
        BY <3>1, <3>3 DEF Inv, TypeOK
      <4> QED
        BY <4>1 DEF FrameInv
    <3> QED
      BY <3>2, <3>3
  <2> QED
    BY <2>1, <2>2
<1>2. ASSUME NEW i \in Ids
      PROVE  FramesBelow(wire'[i], sequence')
  <2>1. FramesBelow(wire[i], sequence)
    BY DEF FrameInv
  <2> QED
    BY <1>t, <1>1, <2>1, FramesHigher
<1>3. ASSUME NEW p \in Producers, pc'[p] \in LoopLabels
      PROVE  /\ msg'[p].seq < sequence'
             /\ \A i \in Ids : FramesBelow(wire'[i], Written(p, i)')
  <2>1. pc'[p] = pc[p] /\ msg'[p] = msg[p] /\ idx'[p] = idx[p]
    BY <1>t
  <2>2. msg[p].seq < sequence /\ \A i \in Ids : FramesBelow(wire[i], Written(p, i))
    BY <1>3, <2>1 DEF FrameInv
  <2>3. \A i \in Ids : Written(p, i)' = Written(p, i) /\ Written(p, i) \in Nat
    BY <1>t, <2>1 DEF Written
  <2> QED
    BY <1>t, <1>1, <2>1, <2>2, <2>3
<1>4. \A v \in Workers : msg'[v].type # "FRAME_DATA"
  BY <1>t DEF FrameInv
<1> QED
  BY <1>1, <1>2, <1>3, <1>4 DEF FrameInv

\* What a step of a worker does to what the producers work with.
MovesOf(w) ==
  /\ \A t \in Threads \ {w} : pc'[t] = pc[t] /\ msg'[t] = msg[t] /\ idx'[t] = idx[t]
  /\ due' = due
  /\ sequence' \in {sequence, sequence + 1}
  /\ msg'[w] = msg[w] \/ msg'[w].type # "FRAME_DATA"
  /\ wire' = wire \/ \E i \in Ids : wire' = [wire EXCEPT ![i] = Append(@, msg[w])]

LEMMA WorkerMoves ==
  ASSUME Inv, NEW w \in Workers,
         Connect(w) \/ Receive(w) \/ Handle(w) \/ Loop(w)
  PROVE  MovesOf(w)
<1> DEFINE Rest == \A t \in Threads \ {w} :
                     pc'[t] = pc[t] /\ msg'[t] = msg[t] /\ idx'[t] = idx[t]
           Same == msg'[w] = msg[w] \/ msg'[w].type # "FRAME_DATA"
<1> USE DEF connVars, outVars, histVars, clientVars, taskVars
<1>t. /\ w \in Threads /\ sequence \in Nat /\ sequence <= sequence + 1
      /\ msg[w] \in ServerMessage
      /\ \A x : msg' = [msg EXCEPT ![w] = x] => msg'[w] = x
      /\ NoMessage.type # "FRAME_DATA"
  BY DEF Threads, Inv, TypeOK, NoMessage, Message
<1>g. ASSUME NEW from, NEW to, Goto(w, from, to),
             \/ UNCHANGED <<msg, idx>>
             \/ EndOfTask(w)
             \/ (\E x : msg' = [msg EXCEPT ![w] = x]) /\ UNCHANGED idx
             \/ (\E x : msg' = [msg EXCEPT ![w] = x]) /\ \E y : idx' = [idx EXCEPT ![w] = y]
             \/ UNCHANGED msg /\ \E y : idx' = [idx EXCEPT ![w] = y]
      PROVE  Rest
  BY <1>g DEF Goto, EndOfTask, Inv, TypeOK, LabelsOK
<1>e. EndOfTask(w) => Same
  BY <1>t DEF EndOfTask
<1>h. Thrown(w) => Rest /\ Same
  BY <1>e, <1>g DEF Thrown
<1>s. ASSUME NEW i \in Nat, SendDone(i, msg[w])
      PROVE  wire' = wire \/ \E j \in Ids : wire' = [wire EXCEPT ![j] = Append(@, msg[w])]
  BY <1>s, <1>t DEF SendDone, Inv, TypeOK
<1>d. due' = due
  BY DEF Connect, Receive, Handle, Loop, Accept, AddConnection, Handshake, HandshakeSend,
         Arm, ReadSome, ReadError, RemoveConnection, Lock, DispatchOther, DispatchTouch,
         DispatchPing, Callback, Unlock, ReadAgain, LoopSize, LoopAt, LoopSend
<1>m. UNCHANGED msg => Same
  OBVIOUS
<1>k. ASSUME Rest, sequence' \in {sequence, sequence + 1}, Same,
             wire' = wire \/ \E i \in Ids : wire' = [wire EXCEPT ![i] = Append(@, msg[w])]
      PROVE  MovesOf(w)
  BY <1>k, <1>d DEF MovesOf
<1> HIDE DEF Rest, Same
<1>1. CASE Accept(w) \/ AddConnection(w) \/ Lock(w) \/ Unlock(w) \/ DispatchOther(w)
             \/ DispatchTouch(w)
  <2>1. UNCHANGED <<msg, idx, sequence, wire>> /\ \E from, to : Goto(w, from, to)
    BY <1>1 DEF Accept, AddConnection, Lock, Unlock, DispatchOther, DispatchTouch
  <2> QED
    BY <2>1, <1>g, <1>k, <1>m
<1>2. CASE Arm(w) \/ RemoveConnection(w) \/ ReadAgain(w)
  <2>1. EndOfTask(w) /\ UNCHANGED <<sequence, wire>> /\ \E from, to : Goto(w, from, to)
    BY <1>2 DEF Arm, RemoveConnection, ReadAgain
  <2> QED
    BY <2>1, <1>e, <1>g, <1>k
<1>3. CASE Handshake(w) \/ DispatchPing(w)
  <2>1. PICK x \in {Message("HANDSHAKE_RESPONSE", sequence), Message("PONG", sequence)} :
          msg' = [msg EXCEPT ![w] = x]
    BY <1>3 DEF Handshake, DispatchPing
  <2>2. /\ UNCHANGED wire /\ sequence' = sequence + 1
        /\ \E from, to : Goto(w, from, to)
        /\ UNCHANGED idx \/ \E y : idx' = [idx EXCEPT ![w] = y]
    BY <1>3 DEF Handshake, DispatchPing
  <2>3. Same
    BY <2>1, <1>t DEF Message, Same
  <2>4. Rest
    BY <2>1, <2>2, <1>g
  <2> QED
    BY <2>2, <2>3, <2>4, <1>k
<1>4. CASE HandshakeSend(w)
  <2>1. CASE Goto(w, "handshake_send", "arm") /\ SendDone(cid[w], msg[w])
               /\ UNCHANGED taskVars
    <3>1. cid[w] \in Nat
      BY Numbers
    <3>2. UNCHANGED <<msg, idx, sequence>>
      BY <1>4, <2>1 DEF HandshakeSend
    <3>3. Rest
      BY <2>1, <3>2, <1>g
    <3> QED
      BY <2>1, <3>1, <3>2, <3>3, <1>k, <1>m, <1>s
  <2>2. CASE SendThrows(cid[w]) /\ Thrown(w)
    BY <1>4, <2>2, <1>h, <1>k DEF HandshakeSend, SendThrows
  <2> QED
    BY <1>4, <2>1, <2>2 DEF HandshakeSend
<1>5. CASE Callback(w)
  <2>1. CASE Goto(w, "callback", "dispatch") /\ UNCHANGED taskVars
    <3>1. UNCHANGED <<msg, idx, sequence, wire>>
      BY <1>5, <2>1 DEF Callback
    <3> QED
      BY <2>1, <3>1, <1>g, <1>k, <1>m
  <2>2. CASE Thrown(w)
    BY <1>5, <2>2, <1>h, <1>k DEF Callback
  <2> QED
    BY <1>5, <2>1, <2>2 DEF Callback
<1>6. ASSUME NEW i \in Ids, ReadSome(w, i) \/ ReadError(w, i)
      PROVE  MovesOf(w)
  <2>1. UNCHANGED <<msg, idx, sequence, wire>> /\ \E from, to : Goto(w, from, to)
    BY <1>6 DEF ReadSome, ReadError
  <2> QED
    BY <2>1, <1>g, <1>k, <1>m
<1>7. CASE LoopSize(w)
  <2>1. UNCHANGED <<msg, idx, sequence, wire>> /\ \E from, to : Goto(w, from, to)
    BY <1>7 DEF LoopSize
  <2> QED
    BY <2>1, <1>g, <1>k, <1>m
<1>8. CASE LoopAt(w)
  <2>1. UNCHANGED <<sequence, wire>>
    BY <1>8 DEF LoopAt
  <2>2. CASE Thrown(w)
    BY <2>1, <2>2, <1>h, <1>k
  <2>3. CASE ~Thrown(w)
    <3>1. /\ UNCHANGED msg /\ \E from, to : Goto(w, from, to)
          /\ \E y : idx' = [idx EXCEPT ![w] = y]
      BY <1>8, <2>3 DEF LoopAt
    <3> QED
      BY <2>1, <3>1, <1>g, <1>k, <1>m
  <2> QED
    BY <2>2, <2>3
<1>9. CASE LoopSend(w)
  <2>1. CASE Thrown(w) /\ SendThrows(idx[w])
    BY <1>9, <2>1, <1>h, <1>k DEF LoopSend, SendThrows
  <2>2. CASE ~(Thrown(w) /\ SendThrows(idx[w]))
    <3>1. /\ UNCHANGED <<msg, sequence>> /\ \E from, to : Goto(w, from, to)
          /\ \E y : idx' = [idx EXCEPT ![w] = y]
          /\ SendDone(idx[w], msg[w])
      BY <1>9, <2>2 DEF LoopSend
    <3>2. idx[w] \in Nat
      BY <1>t DEF Inv, TypeOK
    <3>3. Rest
      BY <3>1, <1>g
    <3> QED
      BY <3>1, <3>2, <3>3, <1>k, <1>m, <1>s
  <2> QED
    BY <2>1, <2>2
<1> QED
  BY <1>1, <1>2, <1>3, <1>4, <1>5, <1>6, <1>7, <1>8, <1>9
  DEF Connect, Receive, Handle, Loop

LEMMA WorkerStep ==
  ASSUME Inv, FrameInv, NEW w \in Workers,
         Connect(w) \/ Receive(w) \/ Handle(w) \/ Loop(w)
  PROVE  FrameInv'
<1>1. MovesOf(w)
  BY WorkerMoves
<1>2. msg[w] \in ServerMessage /\ sequence \in Nat /\ msg[w].type # "FRAME_DATA"
  BY DEF Inv, TypeOK, Threads, FrameInv
<1>3. sequence' \in Nat /\ sequence <= sequence'
  BY <1>1, <1>2 DEF MovesOf
<1>4. \/ wire' = wire
      \/ \E i \in Ids, x \in ServerMessage :
           x.type # "FRAME_DATA" /\ wire' = [wire EXCEPT ![i] = Append(@, x)]
  BY <1>1, <1>2 DEF MovesOf
<1> QED
  BY <1>1, <1>2, <1>3, <1>4, WorkerFrames DEF MovesOf

LEMMA FramesStay ==
  ASSUME FrameInv, UNCHANGED <<wire, sequence, msg, idx, pc>>
  PROVE  FrameInv'
BY DEF FrameInv, Written

LEMMA ProducerFrames ==
  ASSUME Inv, FrameInv, NEW p \in Producers, \A q \in Producers : q = p,
         BeginFrame(p) \/ Loop(p)
  PROVE  FrameInv'
<1> USE DEF connVars, outVars, histVars, clientVars, taskVars
<1>t. /\ p \notin Workers /\ Workers \subseteq Threads /\ p \in Threads
      /\ sequence \in Nat /\ msg[p] \in ServerMessage /\ msg[p].seq \in Nat
      /\ idx[p] \in Nat
      /\ \A i \in Ids : wire[i] \in Seq(ServerMessage) /\ i \in Nat
      /\ \A x : pc' = [pc EXCEPT ![p] = x] => pc'[p] = x
  <2>1. p \notin Workers /\ Workers \subseteq Threads /\ p \in Threads
    BY ThreadsAssumption DEF Threads
  <2>2. msg[p] \in ServerMessage /\ idx[p] \in Nat /\ sequence \in Nat
    BY <2>1 DEF Inv, TypeOK
  <2>3. msg[p].seq \in Nat
    BY <2>2 DEF ServerMessage
  <2>4. \A i \in Ids : wire[i] \in Seq(ServerMessage) /\ i \in Nat
    <3>1. \A i \in Ids : i \in Nat
      BY DEF Ids
    <3> QED
      BY <3>1 DEF Inv, TypeOK
  <2>5. \A x : pc' = [pc EXCEPT ![p] = x] => pc'[p] = x
    BY <2>1 DEF Inv, TypeOK, LabelsOK
  <2> QED
    BY <2>1, <2>2, <2>3, <2>4, <2>5
<1>1. CASE BeginFrame(p)
  <2>1. /\ wire' = wire /\ sequence' = sequence + 1
        /\ msg' = [msg EXCEPT ![p] = Message("FRAME_DATA", sequence)]
        /\ idx' = [idx EXCEPT ![p] = 0]
    BY <1>1 DEF BeginFrame
  <2>2. msg'[p].seq = sequence /\ idx'[p] = 0
    BY <2>1, <1>t DEF Message, Inv, TypeOK
  <2>3. \A w \in Workers : msg'[w] = msg[w]
    BY <2>1, <1>t DEF Inv, TypeOK
  <2>4. ASSUME NEW i \in Ids
        PROVE  /\ FramesBelow(wire[i], sequence + 1) /\ FramesBelow(wire[i], sequence)
               /\ Written(p, i)' = sequence
    <3>1. FramesBelow(wire[i], sequence)
      BY DEF FrameInv
    <3>2. FramesBelow(wire[i], sequence + 1)
      BY <1>t, <3>1, FramesHigher
    <3>3. Written(p, i)' = sequence
      BY <1>t, <2>2 DEF Written
    <3> QED
      BY <3>1, <3>2, <3>3
  <2> QED
    BY <1>t, <2>1, <2>2, <2>3, <2>4 DEF FrameInv
<1>2. CASE LoopSize(p) \/ LoopAt(p)
  <2>1. UNCHANGED <<wire, sequence, msg>>
    BY <1>2, <1>t DEF LoopSize, LoopAt, Thrown
  <2>2. idx'[p] = idx[p]
    BY <1>2, <1>t DEF LoopSize, LoopAt, Thrown, Wanted, Inv, TypeOK
  <2>3. pc'[p] \in LoopLabels => pc[p] \in LoopLabels
    BY <1>2, <1>t DEF LoopSize, LoopAt, Thrown, Goto, LoopLabels
  <2>4. \A i \in Ids : Written(p, i)' = Written(p, i)
    BY <2>1, <2>2 DEF Written
  <2> QED
    BY <2>1, <2>3, <2>4 DEF FrameInv
<1>3. CASE LoopSend(p)
  <2>1. CASE Thrown(p) /\ SendThrows(idx[p])
    <3>1. pc'[p] = "thrown" /\ UNCHANGED <<wire, sequence, msg>>
      BY <1>3, <2>1, <1>t DEF LoopSend, Thrown, SendThrows
    <3> QED
      BY <3>1 DEF FrameInv, LoopLabels
  <2>2. CASE Goto(p, "send", "size") /\ SendDone(idx[p], msg[p])
             /\ idx' = [idx EXCEPT ![p] = @ + 1]
    <3>1. UNCHANGED <<sequence, msg>> /\ pc[p] \in LoopLabels /\ idx'[p] = idx[p] + 1
      BY <1>3, <2>2, <1>t DEF LoopSend, Goto, LoopLabels, Thrown, Inv, TypeOK
    <3>2. msg[p].seq < sequence /\ \A i \in Ids : FramesBelow(wire[i], Written(p, i))
      BY <3>1 DEF FrameInv
    <3>3. \A i \in Ids : Written(p, i)' = IF i = idx[p] THEN msg[p].seq + 1 ELSE Written(p, i)
      BY <1>t, <3>1 DEF Written
    <3>4. ASSUME NEW i \in Ids
          PROVE  /\ Rising(wire'[i]) /\ FramesBelow(wire'[i], sequence)
                 /\ FramesBelow(wire'[i], Written(p, i)')
      <4>1. /\ Rising(wire[i]) /\ FramesBelow(wire[i], sequence)
            /\ FramesBelow(wire[i], Written(p, i))
        BY <3>2 DEF FrameInv
      <4>2. CASE i = idx[p]
        <5>1. Written(p, i) = msg[p].seq /\ Written(p, i)' = msg[p].seq + 1
          BY <1>t, <3>3, <4>2 DEF Written
        <5>2. FramesBelow(wire[i], msg[p].seq + 1)
          BY <1>t, <4>1, <5>1, FramesHigher
        <5>3. CASE wire' = wire
          BY <4>1, <5>1, <5>2, <5>3
        <5>4. CASE wire' = [wire EXCEPT ![idx[p]] = Append(@, msg[p])]
          <6>1. wire'[i] = Append(wire[i], msg[p])
            BY <4>2, <5>4 DEF Inv, TypeOK
          <6>2. Rising(Append(wire[i], msg[p]))
            BY <1>t, <4>1, <5>1, FrameAppended
          <6>3. FramesBelow(Append(wire[i], msg[p]), sequence)
            BY <1>t, <3>2, <4>1, BelowAppended
          <6>4. FramesBelow(Append(wire[i], msg[p]), msg[p].seq + 1)
            BY <1>t, <5>2, BelowAppended
          <6> QED
            BY <5>1, <6>1, <6>2, <6>3, <6>4
        <5> QED
          BY <2>2, <5>3, <5>4 DEF SendDone
      <4>3. CASE i # idx[p]
        <5>1. wire'[i] = wire[i]
          BY <2>2, <4>3 DEF SendDone, Inv, TypeOK
        <5> QED
          BY <3>3, <4>1, <4>3, <5>1
      <4> QED
        BY <4>2, <4>3
    <3> QED
      BY <3>1, <3>2, <3>4 DEF FrameInv
  <2> QED
    BY <1>3, <1>t, <2>1, <2>2 DEF LoopSend
<1> QED
  BY <1>1, <1>2, <1>3 DEF Loop

\* With one thread that pushes frames, and any number of workers and clients, each
\* client is sent its frames in the order of their numbers and none twice.
THEOREM FramesArriveInOrder ==
  ASSUME \A p, q \in Producers : p = q
  PROVE  Spec => []FramesInOrder
<1> DEFINE J == Inv /\ FrameInv
<1>1. Init => J
  <2> SUFFICES ASSUME Init
               PROVE  FrameInv
    BY InitInv
  <2>1. \A i \in Ids : wire[i] = <<>>
    BY DEF Init
  <2>2. \A t \in Threads : msg[t].type # "FRAME_DATA" /\ pc[t] \notin LoopLabels
    BY DEF Init, NoMessage, Message, LoopLabels
  <2> QED
    BY <2>1, <2>2 DEF FrameInv, Rising, FramesBelow, Threads
<1>2. J /\ [Next]_vars => J'
  <2> SUFFICES ASSUME Inv, FrameInv, [Next]_vars
               PROVE  FrameInv'
    BY NextInv
  <2> USE DEF outVars, taskVars
  <2>1. ASSUME NEW i \in Ids, Client(i)
        PROVE  FrameInv'
    BY <2>1, FramesStay DEF Client, ClientSends, ClientReads, ClientCloses
  <2>2. ASSUME NEW w \in Workers, Connect(w) \/ Receive(w) \/ Handle(w)
        PROVE  FrameInv'
    BY <2>2, WorkerStep
  <2>3. ASSUME NEW p \in Producers, BeginFrame(p) \/ Loop(p)
        PROVE  FrameInv'
    BY <2>3, ProducerFrames
  <2>4. ASSUME NEW t \in Threads, Loop(t) \/ LoopRaces(t)
        PROVE  FrameInv'
    <3>1. CASE LoopRaces(t)
      BY <3>1, FramesStay DEF LoopRaces
    <3>2. CASE Loop(t)
      BY <2>3, <3>2, WorkerStep DEF Threads
    <3> QED
      BY <2>4, <3>1, <3>2
  <2>5. CASE UNCHANGED vars
    BY <2>5, FramesStay DEF vars
  <2> QED
    BY <2>1, <2>2, <2>3, <2>4, <2>5 DEF Next
<1>3. J => FramesInOrder
  <2> SUFFICES ASSUME Inv, FrameInv, NEW i \in Ids
               PROVE  FramesInOrderAt(i)
    BY DEF FramesInOrder
  <2>1. DOMAIN wire[i] = 1 .. Len(wire[i]) /\ Rising(wire[i])
    BY DEF Inv, TypeOK, FrameInv
  <2> QED
    BY <2>1 DEF Rising, FramesInOrderAt
<1> QED
  BY <1>1, <1>2, <1>3, PTL DEF Spec

-----------------------------------------------------------------------------
(***************************************************************************)
(* Whom a frame reaches.  As long as nobody has left, the keys of          *)
(* connections_ are the numbers below how many there are, so that at(n) is *)
(* also the n-th, and a loop over them misses none.                        *)
(***************************************************************************)
Connecting == {"add", "handshake", "handshake_send", "arm"}

AcceptInv ==
  /\ \A i \in open : i < next_id
  /\ \A w \in Workers :
       pc[w] \in Connecting =>
         /\ ~accepting
         /\ cid[w] = next_id - 1
         /\ \A v \in Workers \ {w} : pc[v] \notin Connecting

\* How many connections were added, while nobody has left.
Known == IF \E w \in Workers : pc[w] = "add" THEN next_id - 1 ELSE next_id

ConnsInv ==
  /\ \A w \in Workers : pc[w] # "remove"
  /\ \A i \in Ids : i \in conns <=> i < Known

ReachOf(p) ==
  /\ due[p] \subseteq conns
  /\ pc[p] \in LoopLabels => \A i \in due[p] : i < idx[p] => WireHas(i, msg[p])
  /\ pc[p] = "idle" => \A i \in due[p] : WireHas(i, msg[p])

ReachInv == NobodyLeft => ConnsInv /\ \A p \in Producers : ReachOf(p)

LEMMA Present ==
  ASSUME Inv, AcceptInv
  PROVE  NobodyLeft <=> \A i \in Ids : i < next_id => i \in open
<1>1. next_id \in Nat /\ next_id <= MaxClients /\ MaxClients \in Nat /\ open \subseteq Ids
  BY BoundsAssumption DEF Inv, TypeOK
<1>2. \A i : i \in 0 .. next_id - 1 <=> i \in Ids /\ i < next_id
  BY <1>1 DEF Ids
<1> QED
  BY <1>1, <1>2 DEF NobodyLeft, AcceptInv

\* The parts of the invariant that no other step of a worker concerns.
LEMMA AcceptKept ==
  ASSUME AcceptInv, open' \subseteq open, next_id' = next_id, NEW w \in Workers,
         \A v \in Workers \ {w} : pc'[v] = pc[v] /\ cid'[v] = cid[v],
         \/ pc'[w] \notin Connecting /\ accepting' = accepting
         \/ pc[w] \in Connecting /\ pc'[w] \notin Connecting
         \/ /\ pc[w] \in Connecting /\ pc'[w] \in Connecting
            /\ cid'[w] = cid[w] /\ accepting' = accepting
  PROVE  AcceptInv'
BY DEF AcceptInv

\* Steps that add and remove no connection.
LEMMA ConnsKept ==
  ASSUME ConnsInv, UNCHANGED <<conns, next_id>>, NEW w \in Workers,
         \A v \in Workers \ {w} : pc'[v] = pc[v],
         pc'[w] # "remove", pc'[w] = "add" <=> pc[w] = "add"
  PROVE  ConnsInv'
<1>1. (\E v \in Workers : pc'[v] = "add") <=> \E v \in Workers : pc[v] = "add"
  OBVIOUS
<1>2. Known' = Known
  BY <1>1 DEF Known
<1> QED
  BY <1>2 DEF ConnsInv

\* The steps of a worker beside those with which connections come and go.
Within(w) ==
  \/ Lock(w) \/ Callback(w) \/ Unlock(w) \/ ReadAgain(w) \/ Loop(w)
  \/ DispatchOther(w) \/ DispatchTouch(w) \/ DispatchPing(w)
  \/ \E i \in Ids : ReadSome(w, i)

LEMMA WithinMoves ==
  ASSUME Inv, NEW w \in Workers, Within(w)
  PROVE  /\ UNCHANGED <<conns, next_id, open, accepting>>
         /\ \A v \in Workers \ {w} : pc'[v] = pc[v] /\ cid'[v] = cid[v]
         /\ pc[w] \notin Connecting /\ pc'[w] \notin Connecting /\ pc'[w] # "remove"
<1> USE DEF connVars, clientVars, taskVars
<1>1. UNCHANGED <<conns, next_id, open, accepting>>
  BY DEF Within, Loop, Lock, Callback, Unlock, ReadAgain, DispatchOther, DispatchTouch,
         DispatchPing, ReadSome, LoopSize, LoopAt, LoopSend
<1>2. \A v \in Workers \ {w} : pc'[v] = pc[v]
  <2>1. MovesOf(w)
    BY WorkerMoves DEF Within, Handle, Receive
  <2> QED
    BY <2>1 DEF MovesOf, Threads
<1>3. (\E x : cid' = [cid EXCEPT ![w] = x]) \/ cid' = cid
  BY DEF Within, Loop, Lock, Callback, Unlock, ReadAgain, DispatchOther, DispatchTouch,
         DispatchPing, ReadSome, LoopSize, LoopAt, LoopSend, Thrown, EndOfTask
<1>4. \A v \in Workers \ {w} : cid'[v] = cid[v]
  BY <1>3 DEF Inv, TypeOK, Threads
<1>5. \E to \in {"idle", "lock", "dispatch", "callback", "size", "at", "send", "read_again"} :
        /\ Goto(w, pc[w], to)
        /\ pc[w] \in {"idle", "lock", "dispatch", "callback", "size", "at", "send",
                      "read_again"}
  BY DEF Within, Loop, Lock, Callback, Unlock, ReadAgain, DispatchOther, DispatchTouch,
         DispatchPing, ReadSome, LoopSize, LoopAt, LoopSend, Thrown, Goto, LoopEnd
<1>6. \A x : pc' = [pc EXCEPT ![w] = x] => pc'[w] = x
  BY DEF Inv, TypeOK, LabelsOK, Threads
<1>7. /\ pc[w] \notin Connecting /\ pc'[w] \notin Connecting /\ pc'[w] # "remove"
  BY <1>5, <1>6 DEF Goto, Connecting
<1> QED
  BY <1>1, <1>2, <1>4, <1>7

LEMMA AcceptOfWorker ==
  ASSUME Inv, AcceptInv, NEW w \in Workers,
         Connect(w) \/ Receive(w) \/ Handle(w) \/ Loop(w)
  PROVE  AcceptInv'
<1> USE DEF connVars, clientVars, taskVars
<1>1. CASE Within(w)
  BY <1>1, WithinMoves, AcceptKept
<1>2. CASE AddConnection(w) \/ Handshake(w)
  <2>1. /\ UNCHANGED <<cid, todo, open, next_id, accepting>>
        /\ \E from, to \in Connecting : Goto(w, from, to)
    BY <1>2 DEF AddConnection, Handshake, Connecting
  <2>2. PICK from \in Connecting, to \in Connecting : Goto(w, from, to)
    BY <2>1
  <2>3. to \in WorkerLabels
    BY DEF Connecting, WorkerLabels
  <2>4. Others(w) /\ pc[w] = from /\ pc'[w] = to
    BY <2>1, <2>2, <2>3, OthersGoOn
  <2> QED
    BY <2>1, <2>4, AcceptKept DEF Others
<1>3. CASE HandshakeSend(w)
  <2>1. UNCHANGED <<open, next_id, accepting>> /\ pc[w] = "handshake_send"
    BY <1>3 DEF HandshakeSend, Goto
  <2>2. CASE Thrown(w)
    <3>1. Others(w) /\ pc'[w] = "idle"
      BY <2>2, OthersThrown
    <3> QED
      BY <2>1, <3>1, AcceptKept DEF Others, Connecting
  <2>3. CASE ~Thrown(w)
    <3>1. Goto(w, "handshake_send", "arm") /\ UNCHANGED <<cid, todo>>
      BY <1>3, <2>3 DEF HandshakeSend
    <3>2. Others(w) /\ pc'[w] = "arm"
      BY <3>1, OthersGoOn DEF WorkerLabels
    <3> QED
      BY <2>1, <3>1, <3>2, AcceptKept DEF Others, Connecting
  <2> QED
    BY <2>2, <2>3
<1>4. CASE Arm(w) \/ RemoveConnection(w)
  <2>1. /\ UNCHANGED <<open, next_id>> /\ EndOfTask(w)
        /\ \/ Goto(w, "arm", "idle")
           \/ Goto(w, "remove", "idle") /\ accepting' = accepting
    BY <1>4 DEF Arm, RemoveConnection
  <2>2. Others(w) /\ pc'[w] = "idle"
    BY <2>1, OthersGoOn DEF WorkerLabels
  <2>3. pc[w] = "arm" \/ accepting' = accepting
    BY <2>1 DEF Goto
  <2> QED
    BY <2>1, <2>2, <2>3, AcceptKept DEF Others, Connecting
<1>5. ASSUME NEW i \in Ids, ReadError(w, i)
      PROVE  AcceptInv'
  <2>1. UNCHANGED <<open, next_id, accepting>> /\ Goto(w, "idle", "remove")
    BY <1>5 DEF ReadError
  <2>2. pc'[w] = "remove" /\ \A v \in Workers \ {w} : pc'[v] = pc[v]
    BY <2>1, WorkerGoes DEF WorkerLabels
  <2>3. \A v \in Workers \ {w} : cid'[v] = cid[v]
    BY <1>5 DEF ReadError, Inv, TypeOK, Threads
  <2> QED
    BY <2>1, <2>2, <2>3, AcceptKept DEF Connecting
<1>6. CASE Accept(w)
  <2>1. /\ accepting /\ ~accepting' /\ next_id' = next_id + 1
        /\ open' = open \cup {next_id} /\ cid' = [cid EXCEPT ![w] = next_id]
        /\ Goto(w, "idle", "add")
    BY <1>6 DEF Accept
  <2>2. pc'[w] = "add" /\ \A v \in Workers \ {w} : pc'[v] = pc[v]
    BY <2>1, WorkerGoes DEF WorkerLabels
  <2>3. cid'[w] = next_id /\ next_id \in Nat /\ open \subseteq Nat
    BY <2>1 DEF Inv, TypeOK, Threads, Ids
  <2>4. \A v \in Workers : pc[v] \notin Connecting
    BY <2>1 DEF AcceptInv
  <2>5. \A i \in open' : i < next_id'
    BY <2>1, <2>3 DEF AcceptInv
  <2>6. \A v \in Workers : pc'[v] \in Connecting => v = w
    BY <2>2, <2>4
  <2>7. cid'[w] = next_id' - 1
    BY <2>1, <2>3
  <2> QED
    BY <2>1, <2>5, <2>6, <2>7 DEF AcceptInv
<1> QED
  BY <1>1, <1>2, <1>3, <1>4, <1>5, <1>6 DEF Within, Connect, Receive, Handle

LEMMA AcceptAside ==
  ASSUME Inv, AcceptInv, Aside \/ \E i \in Ids : \E kind \in Kinds : ClientSends(i, kind)
  PROVE  AcceptInv' /\ open' \subseteq open /\ next_id' = next_id
<1> USE DEF connVars, clientVars
<1>1. next_id' = next_id /\ cid' = cid /\ \A v \in Workers : pc'[v] = pc[v]
  BY AsideMoves DEF ClientSends, taskVars
<1>2. open' \subseteq open /\ accepting' = accepting
  BY DEF Aside, ClientReads, ClientCloses, ClientSends, BeginFrame, Loop, LoopSize, LoopAt,
         LoopSend, LoopRaces, vars
<1> QED
  BY <1>1, <1>2 DEF AcceptInv

LEMMA AcceptStep ==
  ASSUME Inv, AcceptInv, [Next]_vars
  PROVE  AcceptInv'
<1>1. ASSUME NEW w \in Workers, Plain(w) \/ Accept(w)
      PROVE  AcceptInv'
  BY <1>1, AcceptOfWorker DEF Plain, Connect, Receive, Handle
<1>2. ASSUME NEW w \in Workers, DispatchOther(w) \/ DispatchTouch(w) \/ DispatchPing(w)
      PROVE  AcceptInv'
  BY <1>2, AcceptOfWorker DEF Handle
<1>3. ASSUME NEW w \in Workers, NEW i \in Ids, ReadSome(w, i) \/ ReadError(w, i)
      PROVE  AcceptInv'
  BY <1>3, AcceptOfWorker DEF Receive
<1> QED
  BY <1>1, <1>2, <1>3, AcceptAside, StepKinds

\* Whoever has left has left for good: no step brings a client back.
LEMMA LeftForGood ==
  ASSUME Inv, AcceptInv, [Next]_vars, NobodyLeft'
  PROVE  NobodyLeft
<1>1. next_id \in Nat /\ next_id <= MaxClients /\ MaxClients \in Nat
  BY BoundsAssumption DEF Inv, TypeOK
<1>2. \/ next_id' = next_id /\ open' \subseteq open
      \/ next_id' = next_id + 1 /\ open' = open \cup {next_id}
  <2> USE DEF connVars, clientVars
  <2>1. CASE Aside \/ \E i \in Ids : \E kind \in Kinds : ClientSends(i, kind)
    BY <2>1, AcceptAside
  <2>2. ASSUME NEW w \in Workers, Accept(w)
        PROVE  next_id' = next_id + 1 /\ open' = open \cup {next_id}
    BY <2>2 DEF Accept
  <2>3. ASSUME NEW w \in Workers, Plain(w)
        PROVE  next_id' = next_id /\ open' = open
    BY <2>3 DEF Plain, AddConnection, Handshake, HandshakeSend, Arm, RemoveConnection, Lock,
                Callback, Unlock, ReadAgain, Loop, LoopSize, LoopAt, LoopSend
  <2>4. ASSUME NEW w \in Workers,
               \/ \E i \in Ids : ReadSome(w, i) \/ ReadError(w, i)
               \/ DispatchOther(w) \/ DispatchTouch(w) \/ DispatchPing(w)
        PROVE  next_id' = next_id /\ open' = open
    BY <2>4 DEF ReadSome, ReadError, DispatchOther, DispatchTouch, DispatchPing
  <2> QED
    BY <2>1, <2>2, <2>3, <2>4, StepKinds
<1>3. \A i \in 0 .. next_id - 1 : i \in open'
  BY <1>1, <1>2 DEF NobodyLeft
<1>4. \A i \in Ids : i < next_id => i \in open
  BY <1>1, <1>2, <1>3 DEF Ids
<1> QED
  BY <1>4, Present

\* While nobody has left, connections come and none goes.
LEMMA ConnsOfWorker ==
  ASSUME Inv, AcceptInv, NobodyLeft, ConnsInv, NEW w \in Workers,
         Connect(w) \/ Receive(w) \/ Handle(w) \/ Loop(w)
  PROVE  ConnsInv' /\ conns \subseteq conns'
<1> USE DEF connVars, taskVars
<1>t. next_id \in Nat /\ conns \subseteq Ids /\ Ids \subseteq Nat
  BY DEF Inv, TypeOK, Ids
<1>1. CASE Within(w)
  <2>1. pc[w] # "add" /\ pc'[w] # "add"
    BY <1>1, WithinMoves DEF Connecting
  <2> QED
    BY <1>1, <2>1, WithinMoves, ConnsKept
<1>2. CASE Accept(w)
  <2>1. accepting /\ next_id' = next_id + 1 /\ conns' = conns /\ Goto(w, "idle", "add")
    BY <1>2 DEF Accept
  <2>2. pc'[w] = "add" /\ \A v \in Workers \ {w} : pc'[v] = pc[v]
    BY <2>1, WorkerGoes DEF WorkerLabels
  <2>3. Known = next_id
    BY <2>1 DEF AcceptInv, Connecting, Known
  <2>4. Known' = next_id' - 1
    BY <2>2 DEF Known
  <2>5. Known' = Known
    BY <2>1, <2>3, <2>4, <1>t
  <2> QED
    BY <2>1, <2>2, <2>5 DEF ConnsInv
<1>3. CASE AddConnection(w)
  <2>1. /\ conns' = conns \cup {cid[w]} /\ next_id' = next_id
        /\ Goto(w, "add", "handshake")
    BY <1>3 DEF AddConnection, Added
  <2>2. /\ pc[w] = "add" /\ pc'[w] = "handshake"
        /\ \A v \in Workers \ {w} : pc'[v] = pc[v]
    BY <2>1, WorkerGoes DEF WorkerLabels
  <2>3. cid[w] = next_id - 1 /\ \A v \in Workers \ {w} : pc[v] # "add"
    BY <2>2 DEF AcceptInv, Connecting
  <2>4. Known = next_id - 1
    BY <2>2 DEF Known
  <2>5. Known' = next_id
    BY <2>1, <2>2, <2>3 DEF Known
  <2>6. \A i \in Ids : i \in conns' <=> i < Known'
    <3>1. \A i \in Ids : i < next_id <=> i < next_id - 1 \/ i = next_id - 1
      BY <1>t
    <3> QED
      BY <2>1, <2>3, <2>4, <2>5, <3>1 DEF ConnsInv
  <2> QED
    BY <2>1, <2>2, <2>6 DEF ConnsInv
<1>4. CASE Handshake(w) \/ HandshakeSend(w) \/ Arm(w)
  <2>1. UNCHANGED <<conns, next_id>>
    BY <1>4 DEF Handshake, HandshakeSend, Arm
  <2>2. \E to \in {"handshake_send", "arm", "idle"} :
          Goto(w, pc[w], to) /\ pc[w] \in {"handshake", "handshake_send", "arm"}
    BY <1>4 DEF Handshake, HandshakeSend, Arm, Thrown, Goto
  <2>3. /\ pc[w] # "add" /\ pc'[w] \notin {"add", "remove"}
        /\ \A v \in Workers \ {w} : pc'[v] = pc[v]
    BY <2>2, WorkerGoes DEF WorkerLabels
  <2> QED
    BY <2>1, <2>3, ConnsKept
<1>5. \A i \in Ids : ~ReadError(w, i)
  BY Present DEF ReadError, Inv, Fresh
<1>6. ~RemoveConnection(w)
  BY DEF RemoveConnection, Goto, ConnsInv
<1> QED
  BY <1>1, <1>2, <1>3, <1>4, <1>5, <1>6 DEF Within, Connect, Receive, Handle

WireOnlyGrows ==
  \A i \in Ids : \A k \in DOMAIN wire[i] : k \in DOMAIN wire'[i] /\ wire'[i][k] = wire[i][k]

LEMMA WireAppended ==
  ASSUME Inv, NEW i \in Ids, NEW m \in ServerMessage,
         wire' = [wire EXCEPT ![i] = Append(@, m)]
  PROVE  WireOnlyGrows /\ \E k \in DOMAIN wire'[i] : wire'[i][k] = m
<1>1. wire \in [Ids -> Seq(ServerMessage)]
  BY DEF Inv, TypeOK
<1>2. wire'[i] = Append(wire[i], m) /\ \A j \in Ids \ {i} : wire'[j] = wire[j]
  BY <1>1
<1> DEFINE s == wire[i]
<1>3. s \in Seq(ServerMessage)
  BY <1>1
<1> HIDE DEF s
<1>4. /\ Len(s) \in Nat /\ DOMAIN s = 1 .. Len(s)
      /\ DOMAIN Append(s, m) = 1 .. Len(s) + 1
      /\ Append(s, m)[Len(s) + 1] = m
      /\ \A k \in 1 .. Len(s) : Append(s, m)[k] = s[k]
  BY <1>3
<1>5. wire'[i] = Append(s, m) /\ wire[i] = s
  BY <1>2 DEF s
<1>6. Len(s) + 1 \in 1 .. Len(s) + 1 /\ \A k \in 1 .. Len(s) : k \in 1 .. Len(s) + 1
  BY <1>4
<1> QED
  BY <1>2, <1>4, <1>5, <1>6 DEF WireOnlyGrows

LEMMA ReachKept ==
  ASSUME Inv, NEW p \in Producers, ReachOf(p), WireOnlyGrows, conns \subseteq conns',
         pc'[p] = pc[p], msg'[p] = msg[p], idx'[p] = idx[p], due'[p] = due[p]
  PROVE  ReachOf(p)'
<1>1. due[p] \subseteq Ids
  BY DEF Inv, TypeOK, Threads
<1>2. \A i \in due[p] : WireHas(i, msg[p]) => \E k \in DOMAIN wire'[i] : wire'[i][k] = msg[p]
  BY <1>1 DEF WireHas, WireOnlyGrows
<1> QED
  BY <1>2 DEF ReachOf, WireHas

LEMMA ReachOfWorker ==
  ASSUME Inv, AcceptInv, NobodyLeft, ReachInv, NEW w \in Workers,
         Connect(w) \/ Receive(w) \/ Handle(w) \/ Loop(w)
  PROVE  ConnsInv' /\ \A p \in Producers : ReachOf(p)'
<1>1. ConnsInv' /\ conns \subseteq conns'
  BY ConnsOfWorker DEF ReachInv
<1>2. MovesOf(w)
  BY WorkerMoves
<1>3. msg[w] \in ServerMessage
  BY DEF Inv, TypeOK, Threads
<1>4. WireOnlyGrows
  <2>1. CASE wire' = wire
    BY <2>1 DEF WireOnlyGrows
  <2> QED
    BY <1>2, <1>3, <2>1, WireAppended DEF MovesOf
<1>5. ASSUME NEW p \in Producers
      PROVE  ReachOf(p)'
  <2>1. p \in Threads \ {w}
    BY ThreadsAssumption DEF Threads
  <2> QED
    BY <1>1, <1>2, <1>4, <2>1, ReachKept DEF MovesOf, ReachInv
<1> QED
  BY <1>1, <1>5

\* Steps beside the handlers that write nothing.
LEMMA ReachStays ==
  ASSUME Inv, ReachInv, NobodyLeft, \A v \in Workers : pc'[v] = pc[v],
         UNCHANGED <<wire, conns, next_id, due, msg, idx>>,
         \A p \in Producers : pc'[p] = pc[p] \/ pc'[p] = "thrown"
  PROVE  ConnsInv' /\ \A p \in Producers : ReachOf(p)'
<1>1. ConnsInv'
  BY DEF ReachInv, ConnsInv, Known
<1>2. ASSUME NEW p \in Producers
      PROVE  ReachOf(p)'
  <2>1. pc'[p] \in LoopLabels \cup {"idle"} => pc'[p] = pc[p]
    BY DEF LoopLabels
  <2> QED
    BY <2>1 DEF ReachInv, ReachOf, WireHas
<1> QED
  BY <1>1, <1>2

\* The numbers below Size(conns) are those of all connections.
LEMMA SizeIsKnown ==
  ASSUME Inv, ConnsInv
  PROVE  \A i \in conns : i < Size(conns)
<1>1. next_id \in Nat /\ next_id <= MaxClients /\ MaxClients \in Nat /\ conns \subseteq Ids
  BY BoundsAssumption DEF Inv, TypeOK
<1>2. Known \in Int /\ Known <= MaxClients
  BY <1>1 DEF Known
<1>3. conns = 0 .. Known - 1
  <2>1. \A i : i \in conns <=> i \in Ids /\ i < Known
    BY <1>1 DEF ConnsInv
  <2>2. \A i : i \in 0 .. Known - 1 <=> i \in Ids /\ i < Known
    BY <1>1, <1>2 DEF Ids
  <2> QED
    BY <2>1, <2>2
<1>4. CASE Known <= 0
  BY <1>2, <1>3, <1>4
<1>5. CASE Known > 0
  <2>1. Cardinality(0 .. Known - 1) = Known
    BY <1>2, <1>5, FS_Interval
  <2> QED
    BY <1>2, <1>3, <2>1 DEF Size
<1> QED
  BY <1>2, <1>4, <1>5

LEMMA ReachOfProducer ==
  ASSUME Inv, NobodyLeft, ReachInv, NEW p \in Producers, BeginFrame(p) \/ Loop(p)
  PROVE  ConnsInv' /\ \A q \in Producers : ReachOf(q)'
<1> USE DEF connVars, outVars, histVars, clientVars, taskVars
<1>t. /\ p \notin Workers /\ p \in Threads /\ Producers \subseteq Threads
      /\ idx[p] \in Nat /\ msg[p] \in ServerMessage /\ due[p] \subseteq Ids
      /\ \A t \in Threads : pc[t] \in WorkerLabels \cup ProducerLabels
      /\ \A x : pc' = [pc EXCEPT ![p] = x] =>
           pc'[p] = x /\ \A q \in Threads \ {p} : pc'[q] = pc[q]
  BY ThreadsAssumption DEF Threads, Inv, TypeOK, LabelsOK
<1>c. UNCHANGED <<conns, next_id>>
  BY <1>t DEF BeginFrame, Loop, LoopSize, LoopAt, LoopSend
<1>w. \A v \in Workers : pc'[v] = pc[v]
  BY AsideMoves DEF Aside
<1>1. ConnsInv'
  BY <1>c, <1>w DEF ReachInv, ConnsInv, Known
<1>g. ASSUME WireOnlyGrows, \A q \in Producers \ {p} : /\ pc'[q] = pc[q] /\ msg'[q] = msg[q]
                                                      /\ idx'[q] = idx[q] /\ due'[q] = due[q]
      PROVE  \A q \in Producers \ {p} : ReachOf(q)'
  BY <1>g, <1>c, ReachKept DEF ReachInv
<1>s. wire' = wire => WireOnlyGrows
  BY DEF WireOnlyGrows
<1>2. CASE BeginFrame(p)
  <2>1. /\ pc' = [pc EXCEPT ![p] = "size"] /\ UNCHANGED <<wire, conns>>
        /\ idx' = [idx EXCEPT ![p] = 0] /\ due' = [due EXCEPT ![p] = conns]
        /\ \E x : msg' = [msg EXCEPT ![p] = x]
    BY <1>2 DEF BeginFrame, Goto
  <2>2. pc'[p] = "size" /\ idx'[p] = 0 /\ due'[p] = conns
    BY <1>t, <2>1 DEF Inv, TypeOK
  <2>3. \A i \in conns : ~(i < 0)
    BY DEF Inv, TypeOK, Ids
  <2>4. ReachOf(p)'
    BY <2>1, <2>2, <2>3 DEF ReachOf
  <2>5. \A q \in Producers \ {p} : /\ pc'[q] = pc[q] /\ msg'[q] = msg[q]
                                   /\ idx'[q] = idx[q] /\ due'[q] = due[q]
    BY <1>t, <2>1 DEF Inv, TypeOK
  <2>6. \A q \in Producers \ {p} : ReachOf(q)'
    BY <1>g, <1>s, <2>1, <2>5
  <2> QED
    BY <1>1, <2>4, <2>6
<1>3. CASE LoopSize(p)
  <2>1. /\ pc[p] = "size" /\ UNCHANGED <<wire, conns, next_id, due, msg, idx>>
        /\ pc' = [pc EXCEPT ![p] = IF idx[p] < Size(conns) THEN "at" ELSE "idle"]
    BY <1>t, <1>3 DEF LoopSize, Goto, LoopEnd
  <2>2. \A q \in Producers \ {p} : ReachOf(q)'
    BY <1>g, <1>s, <1>t, <2>1
  <2>3. due[p] \subseteq conns /\ \A i \in due[p] : i < idx[p] => WireHas(i, msg[p])
    BY <2>1 DEF ReachInv, ReachOf, LoopLabels
  <2>4. CASE idx[p] < Size(conns)
    <3>1. pc'[p] = "at"
      BY <1>t, <2>1, <2>4
    <3> QED
      BY <1>1, <2>1, <2>2, <2>3, <3>1 DEF ReachOf, WireHas
  <2>5. CASE ~(idx[p] < Size(conns))
    <3>1. \A i \in due[p] : i < idx[p]
      <4>1. \A i \in conns : i < Size(conns) /\ i \in Nat
        <5>1. conns \subseteq Nat
          BY DEF Inv, TypeOK, Ids
        <5> QED
          BY <5>1, SizeIsKnown DEF ReachInv
      <4>2. Size(conns) \in Nat
        <5>1. IsFiniteSet(0 .. MaxClients - 1)
          BY BoundsAssumption, FS_Interval
        <5>2. IsFiniteSet(conns)
          BY <5>1, FS_Subset DEF Inv, TypeOK, Ids
        <5> QED
          BY <5>2, FS_CardinalityType DEF Size
      <4> QED
        BY <1>t, <2>3, <2>5, <4>1, <4>2
    <3>2. pc'[p] = "idle"
      BY <1>t, <2>1, <2>5
    <3>3. \A i \in due[p] : WireHas(i, msg[p])
      BY <2>3, <3>1
    <3> QED
      BY <1>1, <2>1, <2>2, <2>3, <3>2, <3>3 DEF ReachOf, WireHas, LoopLabels
  <2> QED
    BY <2>4, <2>5
<1>4. CASE LoopAt(p)
  <2>1. UNCHANGED <<wire, conns, next_id, due, msg>> /\ pc[p] = "at"
    BY <1>4, <1>t DEF LoopAt, Goto, Thrown
  <2>2. CASE AtThrows(conns, idx[p])
    <3>1. pc' = [pc EXCEPT ![p] = "thrown"] /\ UNCHANGED idx
      BY <1>4, <1>t, <2>2 DEF LoopAt, Thrown
    <3>2. \A q \in Producers : pc'[q] = pc[q] \/ pc'[q] = "thrown"
      BY <1>t, <3>1
    <3> QED
      BY <1>w, <2>1, <3>1, <3>2, ReachStays
  <2>3. CASE ~AtThrows(conns, idx[p])
    <3>1. /\ pc' = [pc EXCEPT ![p] = "send"]
          /\ idx' = [idx EXCEPT ![p] = idx[p]]
      BY <1>4, <2>3 DEF LoopAt, Goto, Wanted
    <3>2. pc'[p] = "send" /\ idx' = idx
      BY <1>t, <3>1 DEF Inv, TypeOK
    <3>3. \A q \in Producers \ {p} : ReachOf(q)'
      BY <1>g, <1>s, <1>t, <2>1, <3>1, <3>2
    <3>4. ReachOf(p)'
      BY <2>1, <3>2 DEF ReachInv, ReachOf, WireHas, LoopLabels
    <3> QED
      BY <1>1, <3>3, <3>4
  <2> QED
    BY <2>2, <2>3
<1>5. CASE LoopSend(p)
  <2>1. UNCHANGED <<conns, next_id, due, msg>> /\ pc[p] = "send"
    BY <1>5, <1>t DEF LoopSend, Goto, Thrown
  <2>2. due[p] \subseteq conns /\ \A i \in due[p] : i < idx[p] => WireHas(i, msg[p])
    BY <2>1 DEF ReachInv, ReachOf, LoopLabels
  <2>3. CASE pc' = [pc EXCEPT ![p] = "thrown"] /\ UNCHANGED <<wire, idx>>
    <3>1. \A q \in Producers : pc'[q] = pc[q] \/ pc'[q] = "thrown"
      BY <1>t, <2>3
    <3> QED
      BY <1>w, <2>1, <2>3, <3>1, ReachStays
  <2>4. CASE /\ pc' = [pc EXCEPT ![p] = "size"] /\ SendDone(idx[p], msg[p])
             /\ idx' = [idx EXCEPT ![p] = idx[p] + 1]
    <3>1. pc'[p] = "size" /\ idx'[p] = idx[p] + 1
      BY <1>t, <2>4 DEF Inv, TypeOK
    <3>2. \A q \in Producers \ {p} : /\ pc'[q] = pc[q] /\ msg'[q] = msg[q]
                                     /\ idx'[q] = idx[q] /\ due'[q] = due[q]
      BY <1>t, <2>1, <2>4 DEF Inv, TypeOK
    <3>3. \A i \in due[p] : i \in Ids /\ i \in Nat /\ i \in open
      <4>1. \A i \in due[p] : i \in Ids /\ i \in Nat /\ i < Known
        BY <1>t, <2>2 DEF ReachInv, ConnsInv, Ids
      <4>2. Known <= next_id /\ next_id \in Nat /\ Known \in Int
        BY DEF Known, Inv, TypeOK
      <4> QED
        BY <4>1, <4>2 DEF NobodyLeft
    <3>4. WireOnlyGrows
      <4>1. CASE idx[p] \in open
        BY <1>t, <2>4, <4>1, WireAppended DEF SendDone, Inv, TypeOK
      <4>2. CASE idx[p] \notin open
        BY <1>s, <2>4, <4>2 DEF SendDone
      <4> QED
        BY <4>1, <4>2
    <3>5. idx[p] \in due[p] => \E k \in DOMAIN wire'[idx[p]] : wire'[idx[p]][k] = msg[p]
      BY <1>t, <2>4, <3>3, WireAppended DEF SendDone
    <3>6. ASSUME NEW i \in due[p], i < idx[p] + 1
          PROVE  \E k \in DOMAIN wire'[i] : wire'[i][k] = msg[p]
      <4>1. CASE i = idx[p]
        BY <3>5, <4>1
      <4>2. CASE i < idx[p]
        BY <2>2, <3>3, <3>4, <4>2 DEF WireHas, WireOnlyGrows
      <4> QED
        BY <1>t, <3>3, <3>6, <4>1, <4>2
    <3>7. ReachOf(p)'
      BY <2>1, <2>2, <3>1, <3>6 DEF ReachOf, WireHas
    <3>8. \A q \in Producers \ {p} : ReachOf(q)'
      BY <1>g, <3>2, <3>4
    <3> QED
      BY <1>1, <3>7, <3>8
  <2> QED
    BY <1>5, <1>t, <2>3, <2>4 DEF LoopSend, Goto, SendThrows, Thrown
<1> QED
  BY <1>2, <1>3, <1>4, <1>5 DEF Loop

\* With any number of threads that push frames, workers and clients: as long as no
\* client has left, send_frame returns only when every client that was connected when
\* it began has been sent the frame.
THEOREM FramesReachAll == Spec => []FrameReachesAllWhileNobodyLeft
<1> DEFINE J == Inv /\ AcceptInv /\ ReachInv
<1>1. Init => J
  <2> SUFFICES ASSUME Init
               PROVE  AcceptInv /\ ReachInv
    BY InitInv
  <2>1. /\ open = {} /\ next_id = 0 /\ conns = {}
        /\ \A t \in Threads : pc[t] = "idle" /\ due[t] = {}
    BY DEF Init, Cleared
  <2>2. AcceptInv
    BY <2>1 DEF AcceptInv, Connecting, Threads
  <2>3. Known = 0
    BY <2>1 DEF Known, Threads
  <2>4. ConnsInv
    BY <2>1, <2>3 DEF ConnsInv, Threads, Ids
  <2>5. \A p \in Producers : ReachOf(p)
    BY <2>1 DEF ReachOf, Threads
  <2> QED
    BY <2>2, <2>4, <2>5 DEF ReachInv
<1>2. J /\ [Next]_vars => J'
  <2> SUFFICES ASSUME Inv, AcceptInv, ReachInv, [Next]_vars, NobodyLeft'
               PROVE  ConnsInv' /\ \A p \in Producers : ReachOf(p)'
    BY NextInv, AcceptStep DEF ReachInv
  <2>1. NobodyLeft
    BY LeftForGood
  <2> USE DEF connVars, outVars, histVars, taskVars
  <2>2. ASSUME NEW i \in Ids, Client(i)
        PROVE  ConnsInv' /\ \A p \in Producers : ReachOf(p)'
    BY <2>1, <2>2, ReachStays DEF Client, ClientSends, ClientReads, ClientCloses
  <2>3. ASSUME NEW w \in Workers, Connect(w) \/ Receive(w) \/ Handle(w) \/ Loop(w)
        PROVE  ConnsInv' /\ \A p \in Producers : ReachOf(p)'
    BY <2>1, <2>3, ReachOfWorker
  <2>4. ASSUME NEW p \in Producers, BeginFrame(p) \/ Loop(p)
        PROVE  ConnsInv' /\ \A q \in Producers : ReachOf(q)'
    BY <2>1, <2>4, ReachOfProducer
  <2>5. ASSUME NEW t \in Threads, LoopRaces(t)
        PROVE  ConnsInv' /\ \A p \in Producers : ReachOf(p)'
    BY <2>1, <2>5, ReachStays DEF LoopRaces
  <2>6. CASE UNCHANGED vars
    BY <2>1, <2>6, ReachStays DEF vars
  <2> QED
    BY <2>2, <2>3, <2>4, <2>5, <2>6 DEF Next, Threads
<1>3. J => FrameReachesAllWhileNobodyLeft
  BY DEF ReachInv, ReachOf, FrameReachesAllWhileNobodyLeft
<1> QED
  BY <1>1, <1>2, <1>3, PTL DEF Spec

-----------------------------------------------------------------------------
(***************************************************************************)
(* PINGs and PONGs.  Of the messages of a client those up to got - todo    *)
(* have been handled by its handler.  It has been sent a PONG for no more  *)
(* of the PINGs among them, and for one fewer while the answer to the last *)
(* one is on its way through the loop over connections_.                   *)
(***************************************************************************)
PongsIn(s) == Cardinality({k \in DOMAIN s : s[k].type = "PONG"})
PingsIn(s, n) == Cardinality({k \in 1 .. n : s[k] = "PING"})

Owed(w) == IF pc[w] \in LoopLabels THEN 1 ELSE 0

Answered(w) == Pongs(cid[w]) + Owed(w) <= PingsIn(sent[cid[w]], got[cid[w]] - todo[w])

PongClients == \A i \in Ids : Pongs(i) <= PingsIn(sent[i], got[i])
PongWorkers == \A w \in Workers : InHandler(w) => Answered(w)

\* Only the answer to a PING is a PONG, and it goes to the client that asked.
PongSends ==
  /\ \A w \in Workers : /\ pc[w] = "send" => idx[w] = cid[w]
                        /\ pc[w] = "handshake_send" => msg[w].type # "PONG"
  /\ \A p \in Producers : pc[p] \in LoopLabels => msg[p].type # "PONG"

LEMMA PingsGrow ==
  ASSUME NEW s, NEW r, NEW m \in Nat, NEW n \in Nat, m <= n, \A k \in 1 .. m : r[k] = s[k]
  PROVE  /\ PingsIn(s, m) \in Nat /\ PingsIn(r, n) \in Nat
         /\ PingsIn(s, m) <= PingsIn(r, n)
<1> DEFINE S == {k \in 1 .. m : s[k] = "PING"}
           R == {k \in 1 .. n : r[k] = "PING"}
<1>1. S \subseteq R
  OBVIOUS
<1>2. IsFiniteSet(1 .. m) /\ IsFiniteSet(1 .. n) /\ S \subseteq 1 .. m /\ R \subseteq 1 .. n
  BY FS_Interval
<1> HIDE DEF S, R
<1>3. IsFiniteSet(S) /\ IsFiniteSet(R)
  BY <1>2, FS_Subset
<1>4. Cardinality(S) \in Nat /\ Cardinality(R) \in Nat /\ Cardinality(S) <= Cardinality(R)
  BY <1>1, <1>3, FS_CardinalityType, FS_Subset
<1> QED
  BY <1>4 DEF PingsIn, S, R

LEMMA PingsNext ==
  ASSUME NEW s, NEW n \in Nat, s[n + 1] = "PING"
  PROVE  PingsIn(s, n + 1) = PingsIn(s, n) + 1
<1> DEFINE S == {k \in 1 .. n : s[k] = "PING"}
           R == {k \in 1 .. n + 1 : s[k] = "PING"}
<1>1. R = S \cup {n + 1} /\ n + 1 \notin S
  OBVIOUS
<1>2. IsFiniteSet(1 .. n) /\ S \subseteq 1 .. n
  BY FS_Interval
<1> HIDE DEF S, R
<1>3. IsFiniteSet(S)
  BY <1>2, FS_Subset
<1>4. Cardinality(R) = Cardinality(S) + 1
  BY <1>1, <1>3, FS_AddElement
<1> QED
  BY <1>4 DEF PingsIn, S, R

LEMMA PongsAppended ==
  ASSUME NEW s \in Seq(ServerMessage), NEW m \in ServerMessage
  PROVE  /\ PongsIn(s) \in Nat /\ PongsIn(Append(s, m)) \in Nat
         /\ PongsIn(Append(s, m)) <= PongsIn(s) + 1
         /\ m.type # "PONG" => PongsIn(Append(s, m)) = PongsIn(s)
<1> DEFINE n == Len(s)
           r == Append(s, m)
           S == {k \in DOMAIN s : s[k].type = "PONG"}
           R == {k \in DOMAIN r : r[k].type = "PONG"}
<1>0. PongsIn(s) = Cardinality(S) /\ PongsIn(r) = Cardinality(R)
  BY Zenon DEF PongsIn
<1>1. /\ n \in Nat /\ DOMAIN s = 1 .. n /\ DOMAIN r = 1 .. n + 1
      /\ r[n + 1] = m /\ \A k \in 1 .. n : r[k] = s[k]
  OBVIOUS
<1> HIDE DEF n, r
<1>2. R = S \/ R = S \cup {n + 1}
  BY <1>1
<1>3. m.type # "PONG" => R = S
  BY <1>1
<1>4. IsFiniteSet(1 .. n) /\ S \subseteq 1 .. n /\ n + 1 \notin S
  BY <1>1, FS_Interval
<1> HIDE DEF S, R
<1>5. IsFiniteSet(S) /\ Cardinality(S) \in Nat
  BY <1>4, FS_Subset, FS_CardinalityType
<1>6. Cardinality(S \cup {n + 1}) = Cardinality(S) + 1
  BY <1>4, <1>5, FS_AddElement
<1>7. /\ Cardinality(R) \in Nat /\ Cardinality(R) <= Cardinality(S) + 1
      /\ m.type # "PONG" => Cardinality(R) = Cardinality(S)
  <2>1. Cardinality(R) \in {Cardinality(S), Cardinality(S) + 1}
    BY <1>2, <1>6
  <2>2. m.type # "PONG" => Cardinality(R) = Cardinality(S)
    BY <1>3, Zenon
  <2> QED
    BY <1>5, <2>1, <2>2
<1> QED
  BY <1>0, <1>5, <1>7 DEF r

LEMMA PongsOf == \A i : Pongs(i) = PongsIn(wire[i]) /\ Pongs(i)' = PongsIn(wire'[i])
BY DEF Pongs, PongsIn

\* What a step that writes m to client j, or nothing, does to the PONGs of the clients.
LEMMA PongsMove ==
  ASSUME Inv, NEW j \in Ids, NEW m \in ServerMessage,
         wire' = wire \/ wire' = [wire EXCEPT ![j] = Append(@, m)]
  PROVE  /\ \A i \in Ids : Pongs(i) \in Nat /\ Pongs(i)' \in Nat
         /\ \A i \in Ids \ {j} : Pongs(i)' = Pongs(i)
         /\ Pongs(j)' <= Pongs(j) + 1
         /\ m.type # "PONG" => Pongs(j)' = Pongs(j)
<1>1. wire \in [Ids -> Seq(ServerMessage)]
  BY DEF Inv, TypeOK
<1>2. \A i \in Ids : wire[i] \in Seq(ServerMessage)
  BY <1>1
<1>3. \A i \in Ids : PongsIn(wire[i]) \in Nat
  BY <1>2, PongsAppended
<1>4. CASE wire' = wire
  BY <1>3, <1>4, PongsOf
<1>5. CASE wire' = [wire EXCEPT ![j] = Append(@, m)]
  <2>1. wire'[j] = Append(wire[j], m) /\ \A i \in Ids \ {j} : wire'[i] = wire[i]
    BY <1>1, <1>5
  <2>2. /\ PongsIn(wire'[j]) \in Nat /\ PongsIn(wire'[j]) <= PongsIn(wire[j]) + 1
        /\ m.type # "PONG" => PongsIn(wire'[j]) = PongsIn(wire[j])
    BY <1>2, <2>1, PongsAppended
  <2> QED
    BY <1>3, <2>1, <2>2, PongsOf
<1> QED
  BY <1>4, <1>5

LEMMA SentTypes ==
  ASSUME Inv, NEW i \in Ids
  PROVE  /\ sent[i] \in Seq(ClientKinds) /\ Len(sent[i]) \in Nat
         /\ got[i] \in Nat /\ got[i] <= Len(sent[i])
BY BoundsAssumption DEF Inv, TypeOK, Counts

\* What the step does to the messages of the clients: some may come, none goes.
MessagesGrow ==
  \A i \in Ids : /\ got[i] <= got'[i]
                 /\ \A k \in 1 .. got[i] : sent'[i][k] = sent[i][k]

\* Nobody is sent a PONG.
LEMMA PongClientsKept ==
  ASSUME Inv, Inv', PongClients, MessagesGrow,
         \A i \in Ids : Pongs(i) \in Nat /\ Pongs(i)' = Pongs(i)
  PROVE  PongClients'
<1>1. ASSUME NEW i \in Ids
      PROVE  Pongs(i)' <= PingsIn(sent'[i], got'[i])
  <2>1. got[i] \in Nat /\ got'[i] \in Nat
    BY SentTypes, BoundsAssumption DEF Inv, TypeOK
  <2>2. /\ PingsIn(sent[i], got[i]) \in Nat /\ PingsIn(sent'[i], got'[i]) \in Nat
        /\ PingsIn(sent[i], got[i]) <= PingsIn(sent'[i], got'[i])
    BY <2>1, PingsGrow DEF MessagesGrow
  <2>3. Pongs(i) <= PingsIn(sent[i], got[i]) /\ Pongs(i)' = Pongs(i) /\ Pongs(i) \in Nat
    BY DEF PongClients
  <2> QED
    BY <2>2, <2>3
<1> QED
  BY <1>1 DEF PongClients

\* A handler that goes on and owes no more than it did, while its client is sent no PONG.
LEMMA PongWorkerKept ==
  ASSUME Inv, Inv', PongWorkers, NEW v \in Workers, InHandler(v), cid'[v] = cid[v],
         got'[cid[v]] = got[cid[v]], todo'[v] <= todo[v], Owed(v)' <= Owed(v),
         \A k \in 1 .. got[cid[v]] : sent'[cid[v]][k] = sent[cid[v]][k],
         Pongs(cid[v]) \in Nat, Pongs(cid[v])' = Pongs(cid[v])
  PROVE  Answered(v)'
<1> DEFINE i == cid[v]
           m == got[i] - todo[v]
           n == got[i] - todo'[v]
<1>1. i \in Ids /\ got[i] \in Nat /\ todo[v] \in Nat /\ todo[v] <= got[i]
  BY Numbers
<1>2. todo'[v] \in Nat
  BY BoundsAssumption DEF Inv, TypeOK, Threads
<1>3. m \in Nat /\ n \in Nat /\ m <= n /\ \A k \in 1 .. m : k \in 1 .. got[i]
  BY <1>1, <1>2
<1>4. Pongs(i) + Owed(v) <= PingsIn(sent[i], m)
  BY DEF PongWorkers, Answered
<1>5. \A k \in 1 .. m : sent'[i][k] = sent[i][k]
  BY <1>1, <1>3
<1>6. /\ got'[cid'[v]] - todo'[v] = n /\ cid'[v] = i
      /\ Pongs(i)' = Pongs(i) /\ Pongs(i) \in Nat
  OBVIOUS
<1> HIDE DEF m, n, i
<1>7. /\ PingsIn(sent[i], m) \in Nat /\ PingsIn(sent'[i], n) \in Nat
      /\ PingsIn(sent[i], m) <= PingsIn(sent'[i], n)
  BY <1>3, <1>5, PingsGrow
<1>8. Owed(v) \in Nat /\ Owed(v)' \in Nat
  BY DEF Owed
<1>9. Pongs(i) + Owed(v)' <= PingsIn(sent'[i], n)
  BY <1>4, <1>6, <1>7, <1>8
<1>10. Pongs(cid[v])' = Pongs(cid[v]) /\ cid[v] = i
  BY DEF i
<1> QED
  BY <1>6, <1>9, <1>10 DEF Answered, Pongs

\* What a step of a worker may come to send.
LEMMA WorkerSends ==
  ASSUME Inv, NEW w \in Workers, Connect(w) \/ Receive(w) \/ Handle(w) \/ Loop(w)
  PROVE  /\ pc'[w] = "send" => pc[w] = "at" /\ idx'[w] = cid[w] /\ cid'[w] = cid[w]
         /\ pc'[w] = "handshake_send" => msg'[w].type # "PONG"
<1>t. /\ w \in Threads
      /\ \A x : msg' = [msg EXCEPT ![w] = x] => msg'[w] = x
      /\ \A x : Message("HANDSHAKE_RESPONSE", x).type # "PONG"
  BY DEF Threads, Inv, TypeOK, Message
<1>g. ASSUME NEW from, NEW to \in WorkerLabels \ {"send", "handshake_send"}, Goto(w, from, to)
      PROVE  pc'[w] = to /\ to # "send" /\ to # "handshake_send"
  BY <1>g, WorkerGoes
<1>x. Thrown(w) => pc'[w] = "idle"
  BY OthersThrown
<1> USE DEF WorkerLabels, LockedLabels, LoopLabels
<1>1. CASE Accept(w) \/ AddConnection(w) \/ HandshakeSend(w) \/ Arm(w)
  <2>1. pc'[w] \in {"add", "handshake", "arm", "idle"}
    BY <1>1, <1>g, <1>x DEF Accept, AddConnection, HandshakeSend, Arm
  <2> QED
    BY <2>1
<1>2. CASE Handshake(w)
  <2>1. msg'[w].type # "PONG" /\ Goto(w, "handshake", "handshake_send")
    BY <1>2, <1>t DEF Handshake
  <2>2. pc'[w] = "handshake_send"
    BY <2>1, WorkerGoes
  <2> QED
    BY <2>1, <2>2
<1>3. CASE Receive(w)
  <2>1. pc'[w] \in {"lock", "remove", "idle"}
    BY <1>3, <1>g DEF Receive, ReadSome, ReadError, RemoveConnection
  <2> QED
    BY <2>1
<1>4. CASE Handle(w)
  <2>1. pc'[w] \in {"dispatch", "callback", "size", "read_again", "idle"}
    BY <1>4, <1>g, <1>x
    DEF Handle, Lock, DispatchOther, DispatchTouch, DispatchPing, Callback, Unlock, ReadAgain
  <2> QED
    BY <2>1
<1>5. CASE LoopSize(w)
  <2>1. pc'[w] \in {"at", "dispatch"}
    BY <1>5, WorkerGoes DEF LoopSize, LoopEnd
  <2> QED
    BY <2>1
<1>6. CASE LoopAt(w)
  <2>1. CASE Thrown(w)
    BY <1>x, <2>1
  <2>2. CASE ~Wanted(w) /\ Goto(w, "at", "size")
    BY <2>2, WorkerGoes
  <2>3. CASE /\ Wanted(w) /\ Goto(w, "at", "send") /\ UNCHANGED cid
             /\ idx' = [idx EXCEPT ![w] = idx[w]]
    <3>1. pc[w] = "at" /\ pc'[w] = "send"
      BY <2>3, WorkerGoes
    <3>2. idx[w] = cid[w]
      BY <2>3, ThreadsAssumption DEF Wanted
    <3>3. idx'[w] = idx[w]
      BY <1>t, <2>3 DEF Inv, TypeOK
    <3> QED
      BY <2>3, <3>1, <3>2, <3>3
  <2> QED
    BY <1>6, <2>1, <2>2, <2>3 DEF LoopAt
<1>7. CASE LoopSend(w)
  <2>1. pc'[w] \in {"dispatch", "idle"}
    BY <1>7, <1>g, <1>x DEF LoopSend
  <2> QED
    BY <2>1
<1> QED
  BY <1>1, <1>2, <1>3, <1>4, <1>5, <1>6, <1>7 DEF Connect, Loop

LEMMA OtherClients ==
  ASSUME Inv, TodoInv, NEW w \in Workers, Connect(w) \/ Receive(w) \/ Handle(w) \/ Loop(w)
  PROVE  \A v \in Workers \ {w} : pc'[v] = pc[v] /\ cid'[v] = cid[v]
<1>1. \A v \in Workers \ {w} : pc'[v] = pc[v]
  BY WorkerMoves DEF MovesOf, Threads
<1>2. cid' = cid \/ \E x : cid' = [cid EXCEPT ![w] = x]
  BY DEF Connect, Receive, Handle, Loop, Accept, AddConnection, Handshake, HandshakeSend, Arm,
         ReadSome, ReadError, RemoveConnection, Lock, DispatchOther, DispatchTouch, DispatchPing,
         Callback, Unlock, ReadAgain, LoopSize, LoopAt, LoopSend, Thrown, EndOfTask, taskVars
<1>3. \A v \in Workers \ {w} : cid'[v] = cid[v]
  BY <1>2 DEF Inv, TypeOK, Threads
<1> QED
  BY <1>1, <1>3

\* A producer sends frames.
LEMMA ProducerSends ==
  ASSUME Inv, PongSends, NEW p \in Producers, BeginFrame(p) \/ Loop(p)
  PROVE  PongSends'
<1>t. p \in Threads /\ p \notin Workers /\ Workers \subseteq Threads /\ Producers \subseteq Threads
  BY ThreadsAssumption DEF Threads
<1>1. /\ \A v \in Workers : pc'[v] = pc[v] /\ cid'[v] = cid[v]
  BY AsideMoves DEF Aside
<1>2. (\E x : idx' = [idx EXCEPT ![p] = x]) \/ idx' = idx
  BY <1>t DEF BeginFrame, Loop, LoopSize, LoopAt, LoopSend, Thrown, taskVars
<1>3. (\E x : pc' = [pc EXCEPT ![p] = x])
  BY <1>t DEF BeginFrame, Loop, LoopSize, LoopAt, LoopSend, Thrown, Goto
<1>4. \/ \E x : msg' = [msg EXCEPT ![p] = Message("FRAME_DATA", x)]
      \/ msg' = msg /\ pc[p] \in LoopLabels
  BY <1>t DEF BeginFrame, Loop, LoopSize, LoopAt, LoopSend, Thrown, Goto, taskVars, LoopLabels
<1>5. \A t \in Threads \ {p} : idx'[t] = idx[t] /\ pc'[t] = pc[t] /\ msg'[t] = msg[t]
  BY <1>t, <1>2, <1>3, <1>4 DEF Inv, TypeOK, LabelsOK
<1>6. pc'[p] \in LoopLabels => msg'[p].type # "PONG"
  <2>1. CASE \E x : msg' = [msg EXCEPT ![p] = Message("FRAME_DATA", x)]
    BY <1>t, <2>1 DEF Message, Inv, TypeOK
  <2>2. CASE msg' = msg /\ pc[p] \in LoopLabels
    BY <2>2 DEF PongSends
  <2> QED
    BY <1>4, <2>1, <2>2
<1> QED
  BY <1>t, <1>1, <1>5, <1>6 DEF PongSends

LEMMA PongSendsStep ==
  ASSUME Inv, TodoInv, PongSends, [Next]_vars
  PROVE  PongSends'
<1>1. ASSUME UNCHANGED <<pc, idx, cid, msg>> PROVE PongSends'
  BY <1>1 DEF PongSends
<1>2. ASSUME NEW i \in Ids, Client(i)
      PROVE  PongSends'
  BY <1>1, <1>2 DEF Client, ClientSends, ClientReads, ClientCloses, taskVars
<1>3. ASSUME NEW w \in Workers, Connect(w) \/ Receive(w) \/ Handle(w) \/ Loop(w)
      PROVE  PongSends'
  <2>1. /\ pc'[w] = "send" => idx'[w] = cid'[w]
        /\ pc'[w] = "handshake_send" => msg'[w].type # "PONG"
    BY <1>3, WorkerSends
  <2>2. \A v \in Workers \ {w} : pc'[v] = pc[v] /\ cid'[v] = cid[v]
    BY <1>3, OtherClients
  <2>3. \A t \in Threads \ {w} : pc'[t] = pc[t] /\ msg'[t] = msg[t] /\ idx'[t] = idx[t]
    BY <1>3, WorkerMoves DEF MovesOf
  <2>4. Workers \subseteq Threads /\ \A p \in Producers : p \in Threads \ {w}
    BY ThreadsAssumption DEF Threads
  <2> QED
    BY <2>1, <2>2, <2>3, <2>4 DEF PongSends
<1>4. ASSUME NEW p \in Producers, BeginFrame(p) \/ Loop(p)
      PROVE  PongSends'
  BY <1>4, ProducerSends
<1>5. ASSUME NEW t \in Threads, LoopRaces(t)
      PROVE  PongSends'
  BY <1>1, <1>5 DEF LoopRaces, taskVars
<1>6. CASE UNCHANGED vars
  BY <1>1, <1>6 DEF vars, taskVars
<1> QED
  BY <1>2, <1>3, <1>4, <1>5, <1>6 DEF Next, Threads

Appends(j, m) == wire' = [wire EXCEPT ![j] = Append(@, m)]

LEMMA Writes ==
  ASSUME Inv, NEW j, NEW m, SendDone(j, m)
  PROVE  wire' = wire \/ (j \in Ids /\ Appends(j, m))
<1>1. open \subseteq Ids
  BY DEF Inv, TypeOK
<1>2. wire' = wire \/ (j \in open /\ wire' = [wire EXCEPT ![j] = Append(@, m)])
  BY DEF SendDone
<1> QED
  BY <1>1, <1>2 DEF Appends

LEMMA PlainWrites ==
  ASSUME Inv, NEW w \in Workers, Plain(w)
  PROVE  /\ pc'[w] \in LoopLabels => pc[w] \in LoopLabels
         /\ \/ wire' = wire
            \/ pc[w] = "handshake_send" /\ cid[w] \in Ids /\ Appends(cid[w], msg[w])
            \/ /\ pc[w] = "send" /\ pc'[w] = "dispatch"
               /\ idx[w] \in Ids /\ Appends(idx[w], msg[w])
<1>x. Thrown(w) => pc'[w] = "idle"
  BY OthersThrown
<1> USE DEF WorkerLabels, LockedLabels, LoopLabels, outVars
<1>1. CASE AddConnection(w) \/ Handshake(w) \/ Arm(w) \/ RemoveConnection(w) \/ Lock(w)
           \/ Unlock(w) \/ ReadAgain(w)
  <2>1. wire' = wire
    BY <1>1 DEF AddConnection, Handshake, Arm, RemoveConnection, Lock, Unlock, ReadAgain
  <2>2. pc'[w] \notin LoopLabels
    BY <1>1, WorkerGoes
    DEF AddConnection, Handshake, Arm, RemoveConnection, Lock, Unlock, ReadAgain
  <2> QED
    BY <2>1, <2>2
<1>2. CASE Callback(w)
  <2>1. wire' = wire
    BY <1>2 DEF Callback
  <2>2. pc'[w] \notin LoopLabels
    BY <1>2, <1>x, WorkerGoes DEF Callback
  <2> QED
    BY <2>1, <2>2
<1>3. CASE HandshakeSend(w)
  <2>1. CASE Thrown(w) /\ SendThrows(cid[w])
    BY <1>x, <2>1 DEF SendThrows
  <2>2. CASE Goto(w, "handshake_send", "arm") /\ SendDone(cid[w], msg[w])
    BY <2>2, WorkerGoes, Writes
  <2> QED
    BY <1>3, <2>1, <2>2 DEF HandshakeSend
<1>4. CASE LoopSize(w) \/ LoopAt(w)
  BY <1>4 DEF LoopSize, LoopAt, Goto
<1>5. CASE LoopSend(w)
  <2>1. CASE Thrown(w) /\ SendThrows(idx[w])
    BY <1>x, <2>1 DEF SendThrows
  <2>2. CASE Goto(w, "send", "dispatch") /\ SendDone(idx[w], msg[w])
    BY <2>2, WorkerGoes, Writes
  <2> QED
    BY <1>5, <2>1, <2>2 DEF LoopSend
<1> QED
  BY <1>1, <1>2, <1>3, <1>4, <1>5 DEF Plain, Loop

LEMMA AsideWrites ==
  ASSUME Inv, Aside
  PROVE  \/ wire' = wire
         \/ \E p \in Producers :
              pc[p] \in LoopLabels /\ idx[p] \in Ids /\ Appends(idx[p], msg[p])
<1> USE DEF outVars
<1>1. ASSUME NEW p \in Producers, BeginFrame(p) \/ LoopSize(p) \/ LoopAt(p)
      PROVE  wire' = wire
  BY <1>1 DEF BeginFrame, LoopSize, LoopAt
<1>2. ASSUME NEW p \in Producers, LoopSend(p)
      PROVE  wire' = wire \/ (pc[p] \in LoopLabels /\ idx[p] \in Ids /\ Appends(idx[p], msg[p]))
  <2>1. pc[p] = "send" /\ (SendDone(idx[p], msg[p]) \/ wire' = wire)
    BY <1>2 DEF LoopSend, Goto, SendThrows
  <2> QED
    BY <2>1, Writes DEF LoopLabels
<1>3. ASSUME NEW i \in Ids, ClientReads(i) \/ ClientCloses(i)
      PROVE  wire' = wire
  BY <1>3 DEF ClientReads, ClientCloses
<1>4. ASSUME NEW t \in Threads, LoopRaces(t)
      PROVE  wire' = wire
  BY <1>4 DEF LoopRaces
<1>5. CASE UNCHANGED vars
  BY <1>5 DEF vars
<1> QED
  BY <1>1, <1>2, <1>3, <1>4, <1>5 DEF Aside, Loop

LEMMA SamePongs ==
  ASSUME Inv, wire' = wire
  PROVE  \A i \in Ids : Pongs(i) \in Nat /\ Pongs(i)' = Pongs(i)
<1>1. \A i \in Ids : wire[i] \in Seq(ServerMessage)
  BY DEF Inv, TypeOK
<1> QED
  BY <1>1, PongsAppended, PongsOf, NoMessageType

LEMMA PongOfAside ==
  ASSUME Inv, Inv', PongClients, PongWorkers, PongSends, Aside
  PROVE  PongClients' /\ PongWorkers'
<1>1. \A i \in Ids : Pongs(i) \in Nat /\ Pongs(i)' = Pongs(i)
  <2>1. CASE wire' = wire
    BY <2>1, SamePongs
  <2>2. ASSUME NEW p \in Producers, pc[p] \in LoopLabels, idx[p] \in Ids, Appends(idx[p], msg[p])
        PROVE  \A i \in Ids : Pongs(i) \in Nat /\ Pongs(i)' = Pongs(i)
    <3>1. msg[p].type # "PONG" /\ msg[p] \in ServerMessage
      BY <2>2 DEF PongSends, Inv, TypeOK, Threads
    <3> QED
      BY <2>2, <3>1, PongsMove DEF Appends
  <2> QED
    BY <2>1, <2>2, AsideWrites
<1>2. UNCHANGED <<sent, got, cid, todo>> /\ \A v \in Workers : pc'[v] = pc[v]
  BY AsideMoves
<1>3. MessagesGrow
  BY <1>2, SentTypes DEF MessagesGrow
<1>4. ASSUME NEW v \in Workers, InHandler(v)'
      PROVE  Answered(v)'
  <2>1. InHandler(v) /\ Owed(v)' = Owed(v) /\ cid[v] \in Ids /\ todo[v] \in Nat /\ Owed(v) \in Nat
    BY <1>2, <1>4, Numbers DEF InHandler, Owed
  <2> QED
    BY <1>1, <1>2, <2>1, PongWorkerKept
<1> QED
  BY <1>1, <1>3, <1>4, PongClientsKept DEF PongWorkers

LEMMA PongOfSend ==
  ASSUME Inv, Inv', PongClients, PongWorkers, NEW i \in Ids, NEW kind \in Kinds,
         ClientSends(i, kind)
  PROVE  PongClients' /\ PongWorkers'
<1>1. UNCHANGED <<wire, got, cid, todo, pc>> /\ sent' = [sent EXCEPT ![i] = Append(@, kind)]
  BY DEF ClientSends, outVars, taskVars
<1>2. \A j \in Ids : Pongs(j) \in Nat /\ Pongs(j)' = Pongs(j)
  BY <1>1, SamePongs
<1>3. MessagesGrow
  <2>1. ASSUME NEW j \in Ids, NEW k \in 1 .. got[j]
        PROVE  sent'[j][k] = sent[j][k]
    <3>1. sent[j] \in Seq(ClientKinds) /\ k \in 1 .. Len(sent[j])
      BY SentTypes
    <3>2. Append(sent[j], kind)[k] = sent[j][k]
      BY <3>1
    <3>3. sent'[j] = sent[j] \/ sent'[j] = Append(sent[j], kind)
      BY <1>1 DEF Inv, TypeOK
    <3> QED
      BY <3>2, <3>3
  <2> QED
    BY <1>1, <2>1, SentTypes DEF MessagesGrow
<1>4. ASSUME NEW v \in Workers, InHandler(v)'
      PROVE  Answered(v)'
  <2>1. InHandler(v) /\ Owed(v)' = Owed(v) /\ cid[v] \in Ids /\ todo[v] \in Nat /\ Owed(v) \in Nat
    BY <1>1, <1>4, Numbers DEF InHandler, Owed
  <2>2. \A k \in 1 .. got[cid[v]] : sent'[cid[v]][k] = sent[cid[v]][k]
    BY <1>3, <2>1 DEF MessagesGrow
  <2>3. /\ cid'[v] = cid[v] /\ got'[cid[v]] = got[cid[v]]
        /\ todo'[v] <= todo[v] /\ Owed(v)' <= Owed(v)
        /\ Pongs(cid[v]) \in Nat /\ Pongs(cid[v])' = Pongs(cid[v])
    BY <1>1, <1>2, <2>1
  <2> QED
    BY <2>1, <2>2, <2>3, PongWorkerKept, Zenon
<1> QED
  BY <1>2, <1>3, <1>4, PongClientsKept DEF PongWorkers

\* A worker that is not the one of the step.
LEMMA OtherAnswered ==
  ASSUME Inv, Inv', PongWorkers, NEW w \in Workers, Others(w), NEW v \in Workers \ {w},
         InHandler(v)', UNCHANGED sent, got'[cid[v]] = got[cid[v]],
         Pongs(cid[v]) \in Nat, Pongs(cid[v])' = Pongs(cid[v])
  PROVE  Answered(v)'
<1>1. /\ InHandler(v) /\ cid'[v] = cid[v] /\ todo'[v] = todo[v] /\ Owed(v)' = Owed(v)
  BY DEF Others, InHandler, Owed
<1>2. todo[v] \in Nat /\ Owed(v) \in Nat
  BY Numbers DEF Owed
<1>3. /\ todo'[v] <= todo[v] /\ Owed(v)' <= Owed(v)
      /\ \A k \in 1 .. got[cid[v]] : sent'[cid[v]][k] = sent[cid[v]][k]
  BY <1>1, <1>2
<1> QED
  BY <1>1, <1>3, PongWorkerKept

\* A handler of a client that has been sent no PONG begins.
LEMMA HandlerAnswers ==
  ASSUME Inv, PongClients, NEW w \in Workers, NEW i \in Ids, UNCHANGED sent,
         cid'[w] = i, got'[i] - todo'[w] = got[i], pc'[w] \notin LoopLabels,
         Pongs(i) \in Nat, Pongs(i)' = Pongs(i)
  PROVE  Answered(w)'
<1>1. Pongs(i) <= PingsIn(sent[i], got[i])
  BY DEF PongClients
<1>2. Owed(w)' = 0
  BY DEF Owed
<1>3. Pongs(i)' + Owed(w)' = Pongs(i)
  BY <1>2
<1> QED
  BY <1>1, <1>3 DEF Answered, Pongs

LEMMA PongOfPlain ==
  ASSUME Inv, Inv', TodoInv, PongClients, PongWorkers, PongSends, NEW w \in Workers, Plain(w)
  PROVE  PongClients' /\ PongWorkers'
<1>1. /\ Others(w) /\ InHandler(w) /\ UNCHANGED <<sent, got>>
      /\ InHandler(w)' => cid'[w] = cid[w] /\ todo'[w] = todo[w]
  BY PlainMoves
<1>2. pc'[w] \in LoopLabels => pc[w] \in LoopLabels
  BY PlainWrites
<1>3. msg[w] \in ServerMessage /\ cid[w] \in Ids /\ todo[w] \in Nat
  BY <1>1, Numbers DEF Inv, TypeOK, Threads
<1>4. MessagesGrow
  BY <1>1, SentTypes DEF MessagesGrow
<1>5. Owed(w)' <= Owed(w) /\ Owed(w) \in Nat
  BY <1>2 DEF Owed
<1>6. ASSUME \A i \in Ids : Pongs(i) \in Nat /\ Pongs(i)' = Pongs(i)
      PROVE  PongClients' /\ PongWorkers'
  <2>1. PongClients'
    BY <1>4, <1>6, PongClientsKept
  <2>2. ASSUME NEW v \in Workers, InHandler(v)'
        PROVE  Answered(v)'
    <3>1. CASE v = w
      <4>1. /\ cid'[w] = cid[w] /\ todo'[w] <= todo[w] /\ got'[cid[w]] = got[cid[w]]
            /\ \A k \in 1 .. got[cid[w]] : sent'[cid[w]][k] = sent[cid[w]][k]
            /\ Pongs(cid[w]) \in Nat /\ Pongs(cid[w])' = Pongs(cid[w])
        BY <1>1, <1>3, <1>6, <2>2, <3>1
      <4>2. Answered(w)'
        BY <1>1, <1>5, <4>1, PongWorkerKept, Zenon
      <4> QED
        BY <3>1, <4>2
    <3>2. CASE v # w
      <4>1. InHandler(v)
        BY <1>1, <2>2, <3>2 DEF Others, InHandler
      <4>2. cid[v] \in Ids
        BY <4>1, Numbers
      <4>3. /\ Others(w) /\ UNCHANGED sent /\ got'[cid[v]] = got[cid[v]]
            /\ Pongs(cid[v]) \in Nat /\ Pongs(cid[v])' = Pongs(cid[v])
        <5>1. cid'[v] = cid[v]
          BY <1>1, <3>2 DEF Others
        <5> QED
          BY <1>1, <1>6, <4>2, <5>1
      <4>4. v \in Workers \ {w}
        BY <3>2
      <4> QED
        BY <2>2, <4>3, <4>4, OtherAnswered, Zenon
    <3> QED
      BY <3>1, <3>2
  <2> QED
    BY <2>1, <2>2 DEF PongWorkers
<1>7. CASE wire' = wire
  BY <1>6, <1>7, SamePongs
<1>8. CASE pc[w] = "handshake_send" /\ cid[w] \in Ids /\ Appends(cid[w], msg[w])
  <2>1. msg[w].type # "PONG"
    BY <1>8 DEF PongSends
  <2>2. \A i \in Ids : Pongs(i) \in Nat /\ Pongs(i)' = Pongs(i)
    BY <1>3, <1>8, <2>1, PongsMove DEF Appends
  <2> QED
    BY <1>6, <2>2
<1>9. CASE /\ pc[w] = "send" /\ pc'[w] = "dispatch"
           /\ idx[w] \in Ids /\ Appends(idx[w], msg[w])
  <2>0. PICK j \in Ids : j = cid[w]
    BY <1>3
  <2>1. idx[w] = j
    BY <1>9, <2>0 DEF PongSends
  <2>2. /\ \A i \in Ids : Pongs(i) \in Nat /\ Pongs(i)' \in Nat
        /\ \A i \in Ids \ {j} : Pongs(i)' = Pongs(i)
        /\ Pongs(j)' <= Pongs(j) + 1
    BY <1>3, <1>9, <2>1, PongsMove DEF Appends
  <2>n. PICK n \in Nat : n = got[j] - todo[w]
    BY <1>1, <2>0, Numbers
  <2>3. Pongs(j) + 1 <= PingsIn(sent[j], n)
    <3>1. Owed(w) = 1
      BY <1>9 DEF Owed, LoopLabels
    <3>2. Pongs(j) + Owed(w) <= PingsIn(sent[j], n)
      BY <1>1, <2>0, <2>n DEF PongWorkers, Answered
    <3> QED
      BY <3>1, <3>2
  <2>4. got[j] \in Nat /\ n <= got[j]
    BY <1>1, <2>0, <2>n, Numbers
  <2>5. /\ PingsIn(sent[j], n) \in Nat /\ PingsIn(sent[j], got[j]) \in Nat
        /\ PingsIn(sent[j], n) <= PingsIn(sent[j], got[j])
    BY <2>4, PingsGrow
  <2>6. Pongs(j)' <= PingsIn(sent[j], n) /\ Pongs(j)' <= PingsIn(sent[j], got[j])
    <3>1. Pongs(j) \in Nat /\ Pongs(j)' \in Nat
      BY <2>2
    <3> QED
      BY <2>2, <2>3, <2>5, <3>1
  <2>7. PongClients'
    <3>1. ASSUME NEW i \in Ids
          PROVE  Pongs(i)' <= PingsIn(sent'[i], got'[i])
      <4>1. CASE i = j
        BY <1>1, <2>6, <4>1
      <4>2. CASE i # j
        BY <1>1, <2>2, <4>2 DEF PongClients
      <4> QED
        BY <4>1, <4>2
    <3> QED
      BY <3>1 DEF PongClients
  <2>8. ASSUME InHandler(w)'
        PROVE  Answered(w)'
    <3>1. cid'[w] = j /\ got'[j] - todo'[w] = n /\ sent' = sent
      BY <1>1, <2>0, <2>n, <2>8
    <3>2. Owed(w)' = 0
      BY <1>9 DEF Owed, LoopLabels
    <3>3. Pongs(j)' + Owed(w)' = Pongs(j)'
      BY <2>2, <3>2
    <3>4. Pongs(j)' + Owed(w)' <= PingsIn(sent'[j], got'[j] - todo'[w])
      BY <2>6, <3>1, <3>3
    <3> QED
      BY <3>1, <3>4 DEF Answered, Pongs
  <2>9. ASSUME NEW v \in Workers \ {w}, InHandler(v)'
        PROVE  Answered(v)'
    <3>1. InHandler(v)
      BY <1>1, <2>9 DEF Others, InHandler
    <3>2. cid[v] \in Ids \ {j}
      <4>1. cid[v] # cid[w]
        BY <1>1, <3>1 DEF Inv, OneHandlerPerClient
      <4> QED
        BY <2>0, <3>1, <4>1, Numbers
    <3>3. /\ Others(w) /\ UNCHANGED sent /\ got'[cid[v]] = got[cid[v]]
          /\ Pongs(cid[v]) \in Nat /\ Pongs(cid[v])' = Pongs(cid[v])
      <4>1. Pongs(cid[v]) \in Nat
        BY <2>2, <3>2
      <4>2. cid'[v] = cid[v]
        BY <1>1, <2>9 DEF Others
      <4>3. Pongs(cid[v])' = Pongs(cid[v])
        BY <2>2, <3>2, <4>2
      <4> QED
        BY <1>1, <4>1, <4>3
    <3> QED
      BY <2>9, <3>3, OtherAnswered, Zenon
  <2> QED
    BY <2>7, <2>8, <2>9 DEF PongWorkers
<1> QED
  BY <1>7, <1>8, <1>9, PlainWrites

\* A handler begins: it has yet to handle whatever it has just read.
LEMMA PongOfBegin ==
  ASSUME Inv, Inv', PongClients, PongWorkers, NEW w \in Workers, NEW i \in Ids, Others(w),
         UNCHANGED <<sent, wire>>, cid'[w] = i, pc'[w] \notin LoopLabels,
         got[i] <= got'[i], got'[i] - todo'[w] = got[i],
         \A j \in Ids \ {i} : got'[j] = got[j],
         \A v \in Workers \ {w} : InHandler(v) => cid[v] # i
  PROVE  PongClients' /\ PongWorkers'
<1>1. \A j \in Ids : Pongs(j) \in Nat /\ Pongs(j)' = Pongs(j)
  BY SamePongs
<1>2. MessagesGrow
  <2>1. \A j \in Ids : got[j] <= got'[j]
    BY SentTypes
  <2> QED
    BY <2>1 DEF MessagesGrow
<1>3. PongClients'
  BY <1>1, <1>2, PongClientsKept
<1>4. Answered(w)'
  BY <1>1, HandlerAnswers
<1>5. ASSUME NEW v \in Workers \ {w}, InHandler(v)'
      PROVE  Answered(v)'
  <2>1. cid'[v] = cid[v] /\ InHandler(v)
    BY <1>5 DEF Others, InHandler
  <2>2. cid[v] \in Ids \ {i}
    BY <2>1, Numbers
  <2>3. /\ UNCHANGED sent /\ got'[cid[v]] = got[cid[v]]
        /\ Pongs(cid[v]) \in Nat /\ Pongs(cid[v])' = Pongs(cid[v])
    BY <1>1, <2>1, <2>2
  <2> QED
    BY <1>5, <2>3, OtherAnswered, Zenon
<1> QED
  BY <1>3, <1>4, <1>5 DEF PongWorkers

LEMMA PongOfAccept ==
  ASSUME Inv, Inv', PongClients, PongWorkers, NEW w \in Workers, Accept(w)
  PROVE  PongClients' /\ PongWorkers'
<1>1. PICK i \in Ids : i = next_id
  BY BoundsAssumption DEF Accept, Inv, TypeOK, Ids
<1>2. /\ UNCHANGED <<sent, got, wire, todo>> /\ cid' = [cid EXCEPT ![w] = i]
      /\ pc[w] = "idle"
  BY <1>1 DEF Accept, outVars, Goto
<1>3. pc'[w] = "add" /\ \A v \in Workers \ {w} : pc'[v] = pc[v]
  BY WorkerGoes DEF Accept, WorkerLabels
<1>4. cid'[w] = i /\ \A v \in Workers \ {w} : cid'[v] = cid[v]
  BY <1>2 DEF Inv, TypeOK, Threads
<1>5. Others(w)
  BY <1>2, <1>3, <1>4 DEF Others
<1>6. pc'[w] \notin LoopLabels
  BY <1>3 DEF LoopLabels
<1>7. got[i] <= got'[i] /\ got'[i] - todo'[w] = got[i] /\ \A j \in Ids \ {i} : got'[j] = got[j]
  <2>1. todo[w] = 0
    BY <1>2 DEF Inv, Counts, InHandler
  <2>2. got[i] \in Nat
    BY SentTypes
  <2> QED
    BY <1>2, <2>1, <2>2
<1>8. \A v \in Workers \ {w} : InHandler(v) => cid[v] # i
  <2>1. \A v \in Workers : InHandler(v) => cid[v] < i /\ cid[v] \in Nat
    BY <1>1, Numbers
  <2> QED
    BY <2>1
<1> QED
  BY <1>2, <1>4, <1>5, <1>6, <1>7, <1>8, PongOfBegin

LEMMA PongOfRead ==
  ASSUME Inv, Inv', PongClients, PongWorkers, NEW w \in Workers, NEW i \in Ids,
         ReadSome(w, i) \/ ReadError(w, i)
  PROVE  PongClients' /\ PongWorkers'
<1>1. /\ i \in reading /\ pc[w] = "idle" /\ UNCHANGED <<sent, wire>>
      /\ pc'[w] \in {"lock", "remove"} /\ \A v \in Workers \ {w} : pc'[v] = pc[v]
      /\ cid' = [cid EXCEPT ![w] = i]
  BY WorkerGoes DEF ReadSome, ReadError, WorkerLabels, outVars, clientVars, Goto
<1>2. todo[w] = 0 /\ \A v \in Workers : InHandler(v) => cid[v] # i
  BY <1>1 DEF Inv, Counts, OneHandlerPerClient, InHandler
<1>3. /\ todo \in [Threads -> 0 .. MaxInbox] /\ got \in [Ids -> 0 .. MaxInbox]
      /\ w \in Threads /\ Workers \subseteq Threads /\ MaxInbox \in Nat
  BY BoundsAssumption DEF Inv, TypeOK, Threads
<1>4. /\ got[i] <= got'[i] /\ got'[i] - todo'[w] = got[i]
      /\ \A j \in Ids \ {i} : got'[j] = got[j]
      /\ \A v \in Workers \ {w} : todo'[v] = todo[v]
  <2>1. CASE ReadSome(w, i)
    <3>1. PICK k \in 1 .. Len(sent[i]) - got[i] :
            todo' = [todo EXCEPT ![w] = k] /\ got' = [got EXCEPT ![i] = @ + k]
      BY <2>1 DEF ReadSome
    <3>2. k \in Nat /\ got'[i] = got[i] + k /\ todo'[w] = k
      BY <1>3, <3>1, SentTypes
    <3> QED
      BY <1>3, <3>1, <3>2
  <2>2. CASE ReadError(w, i)
    <3>1. UNCHANGED <<got, todo>>
      BY <2>2 DEF ReadError, clientVars
    <3> QED
      BY <1>2, <1>3, <3>1
  <2> QED
    BY <2>1, <2>2
<1>5. cid'[w] = i /\ Others(w)
  BY <1>1, <1>4 DEF Others, Inv, TypeOK, Threads
<1>6. pc'[w] \notin LoopLabels
  BY <1>1 DEF LoopLabels
<1> QED
  BY <1>1, <1>2, <1>4, <1>5, <1>6, PongOfBegin

\* A message is taken; of a PING one answer is owed from now on.
LEMMA PongOfDispatch ==
  ASSUME Inv, Inv', PongClients, PongWorkers, NEW w \in Workers,
         DispatchOther(w) \/ DispatchTouch(w) \/ DispatchPing(w)
  PROVE  PongClients' /\ PongWorkers'
<1> USE DEF DispatchOther, DispatchTouch, DispatchPing
<1>1. /\ pc[w] = "dispatch" /\ \A v \in Workers \ {w} : pc'[v] = pc[v]
      /\ pc'[w] # "idle" /\ (pc'[w] \in LoopLabels => DispatchPing(w))
  BY WorkerGoes DEF WorkerLabels, LockedLabels, LoopLabels
<1>2. /\ todo[w] > 0 /\ todo' = [todo EXCEPT ![w] = @ - 1]
      /\ UNCHANGED <<sent, got, wire, cid>>
  BY DEF Pops, connVars, clientVars, outVars
<1>3. todo'[w] = todo[w] - 1 /\ Others(w) /\ InHandler(w)
  BY <1>1, <1>2 DEF Others, InHandler, Inv, TypeOK, Threads
<1>4. DispatchPing(w) => sent[cid[w]][Current(w)] = "PING"
  BY DEF Pops
<1>5. \A j \in Ids : Pongs(j) \in Nat /\ Pongs(j)' = Pongs(j)
  BY <1>2, SamePongs
<1>6. PongClients'
  <2>1. MessagesGrow
    BY <1>2, SentTypes DEF MessagesGrow
  <2> QED
    BY <1>5, <2>1, PongClientsKept
<1>7. Answered(w)'
  <2>1. PICK i \in Ids : i = cid[w]
    BY <1>3, Numbers
  <2>2. /\ got[i] \in Nat /\ todo[w] \in Nat /\ todo[w] <= got[i]
    BY <1>3, <2>1, Numbers
  <2>3. PICK n \in Nat : n = got[i] - todo[w]
    BY <2>2
  <2>4. got'[i] - todo'[w] = n + 1 /\ cid'[w] = i /\ Current(w) = n + 1 /\ sent' = sent
    BY <1>2, <1>3, <2>1, <2>2, <2>3 DEF Current
  <2>5. Owed(w) = 0
    BY <1>1 DEF Owed, LoopLabels
  <2>6. Pongs(i) + Owed(w) <= PingsIn(sent[i], n)
    BY <1>3, <2>1, <2>3 DEF PongWorkers, Answered
  <2>7. /\ PingsIn(sent[i], n) \in Nat /\ PingsIn(sent[i], n + 1) \in Nat
        /\ PingsIn(sent[i], n) <= PingsIn(sent[i], n + 1)
    BY <2>3, PingsGrow
  <2>8. Pongs(i) \in Nat /\ Pongs(i)' = Pongs(i)
    BY <1>5
  <2>9. Pongs(i)' + Owed(w)' <= PingsIn(sent[i], n + 1)
    <3>1. CASE pc'[w] \in LoopLabels
      <4>1. sent[i][n + 1] = "PING"
        BY <1>1, <1>4, <2>1, <2>4, <3>1
      <4>2. PingsIn(sent[i], n + 1) = PingsIn(sent[i], n) + 1
        BY <4>1, PingsNext
      <4>3. Owed(w)' = 1
        BY <3>1 DEF Owed
      <4> QED
        BY <2>5, <2>6, <2>7, <2>8, <4>2, <4>3
    <3>2. CASE pc'[w] \notin LoopLabels
      <4>1. Owed(w)' = 0
        BY <3>2 DEF Owed
      <4> QED
        BY <2>5, <2>6, <2>7, <2>8, <4>1
    <3> QED
      BY <3>1, <3>2
  <2>10. Pongs(i)' + Owed(w)' <= PingsIn(sent'[i], got'[i] - todo'[w])
    BY <2>4, <2>9
  <2> QED
    BY <2>4, <2>10 DEF Answered, Pongs
<1>8. ASSUME NEW v \in Workers \ {w}, InHandler(v)'
      PROVE  Answered(v)'
  <2>1. cid'[v] = cid[v] /\ InHandler(v)
    BY <1>3, <1>8 DEF Others, InHandler
  <2>2. cid[v] \in Ids
    BY <2>1, Numbers
  <2>3. /\ UNCHANGED sent /\ got'[cid[v]] = got[cid[v]]
        /\ Pongs(cid[v]) \in Nat /\ Pongs(cid[v])' = Pongs(cid[v])
    BY <1>2, <1>5, <2>1, <2>2
  <2> QED
    BY <1>3, <1>8, <2>3, OtherAnswered, Zenon
<1> QED
  BY <1>6, <1>7, <1>8 DEF PongWorkers

PongInv == Inv /\ TodoInv /\ PongSends /\ PongClients /\ PongWorkers

LEMMA PongStep ==
  ASSUME PongInv, Inv', [Next]_vars
  PROVE  PongClients' /\ PongWorkers'
<1>0. Inv /\ TodoInv /\ PongSends /\ PongClients /\ PongWorkers
  BY DEF PongInv
<1> QED
  BY <1>0, PongOfAside, PongOfSend, PongOfPlain, PongOfAccept, PongOfRead, PongOfDispatch,
     StepKinds

LEMMA PongInvariance == Spec => []PongInv
<1>1. Init => PongInv
  <2> SUFFICES ASSUME Init
               PROVE  TodoInv /\ PongSends /\ PongClients /\ PongWorkers
    BY InitInv DEF PongInv
  <2>1. TodoInv /\ PongWorkers /\ PongSends
    BY DEF Init, TodoInv, PongWorkers, PongSends, InHandler, Threads, LoopLabels
  <2>2. ASSUME NEW i \in Ids
        PROVE  Pongs(i) <= PingsIn(sent[i], got[i])
    <3>1. wire[i] = <<>> /\ got[i] = 0
      BY DEF Init
    <3>2. Pongs(i) = 0
      <4>1. {k \in DOMAIN wire[i] : wire[i][k].type = "PONG"} = {}
        BY <3>1
      <4> QED
        BY <4>1, FS_EmptySet DEF Pongs
    <3>3. PingsIn(sent[i], 0) = 0
      <4>1. {k \in 1 .. 0 : sent[i][k] = "PING"} = {}
        OBVIOUS
      <4> QED
        BY <4>1, FS_EmptySet DEF PingsIn
    <3> QED
      BY <3>1, <3>2, <3>3
  <2> QED
    BY <2>1, <2>2 DEF PongClients
<1>2. PongInv /\ [Next]_vars => PongInv'
  <2> SUFFICES ASSUME PongInv, [Next]_vars
               PROVE  PongInv'
    OBVIOUS
  <2>1. Inv /\ TodoInv /\ PongSends
    BY DEF PongInv
  <2>2. Inv'
    BY <2>1, NextInv
  <2>3. TodoInv'
    BY <2>1, <2>2, TodoStep
  <2>4. PongSends'
    BY <2>1, <2>2, PongSendsStep
  <2>5. PongClients' /\ PongWorkers'
    BY <2>2, PongStep
  <2> QED
    BY <2>2, <2>3, <2>4, <2>5 DEF PongInv
<1> QED
  BY <1>1, <1>2, PTL DEF Spec

\* A PONG is only ever sent to a client whose PING has been taken from what it
\* sent, one for each: neither two workers side by side nor an exception in the
\* middle of a handler makes handle_client_message answer twice, or another client.
THEOREM PongsAnswered == Spec => []PongsAnswerPings
<1>1. PongInv => PongsAnswerPings
  <2> SUFFICES ASSUME PongInv, NEW i \in Ids
               PROVE  Pongs(i) <= Pings(i)
    BY DEF PongsAnswerPings
  <2>0. Inv /\ PongClients
    BY DEF PongInv
  <2>1. /\ got[i] \in Nat /\ Len(sent[i]) \in Nat /\ got[i] <= Len(sent[i])
        /\ DOMAIN sent[i] = 1 .. Len(sent[i])
    BY <2>0, SentTypes
  <2>2. Pings(i) = PingsIn(sent[i], Len(sent[i]))
    BY <2>1 DEF Pings, Count, PingsIn
  <2>3. /\ PingsIn(sent[i], got[i]) \in Nat /\ PingsIn(sent[i], Len(sent[i])) \in Nat
        /\ PingsIn(sent[i], got[i]) <= PingsIn(sent[i], Len(sent[i]))
    BY <2>1, PingsGrow
  <2>4. Pongs(i) \in Nat /\ Pongs(i) <= PingsIn(sent[i], got[i])
    <3>1. wire[i] \in Seq(ServerMessage)
      BY <2>0 DEF Inv, TypeOK
    <3>2. Pongs(i) \in Nat
      BY <3>1, PongsAppended, PongsOf, NoMessageType
    <3> QED
      BY <2>0, <3>2 DEF PongClients
  <2> QED
    BY <2>2, <2>3, <2>4
<1> QED
  BY <1>1, PongInvariance, PTL

=============================================================================
