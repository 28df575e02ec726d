------------------------ MODULE AdbForwarder_proofs ------------------------
(***************************************************************************)
(* Proofs about AdbForwarder, for any number of connections and bytes, any *)
(* size of a read and of a socket, and a stop at any moment.               *)
(*                                                                         *)
(* The client count is the number of the threads that run, and one more    *)
(* while the worker is about to start the next.  That stop() clears no     *)
(* thread that runs rests on the mutex, which it holds from the first join *)
(* to the end.  The order of what was written is not inductive without     *)
(* what was read and not yet written.                                      *)
(***************************************************************************)
EXTENDS AdbForwarder, FiniteSetTheorems, TLAPS

ShapeOK ==
  /\ dead \in BOOLEAN /\ running \in BOOLEAN /\ connector \in BOOLEAN
  /\ accepting \in BOOLEAN
  /\ main \in MainLabels
  /\ worker \in WorkerLabels
  /\ mutex \in {Nobody, "main"}
  /\ next_id \in 0 .. MaxConns
  /\ threads \subseteq Conns
  /\ fwd \in [Conns -> ThreadLabels]
  /\ revents \in [Conns -> SUBSET Ways]
  /\ buffer \in [Conns -> Seq(Nat \ {0})]
  /\ ends \in [Conns -> SUBSET Ways]
  /\ sent \in Counts /\ taken \in Counts /\ unread \in Counts
  /\ out \in [Conns -> [Ways -> Seq(Nat \ {0})]]

\* What the worker is about to start a thread for has none, nor has any later connection.
NewInv ==
  /\ worker # "idle" => next_id > 0
  /\ \A c \in Conns : fwd[c] # "none" => c < next_id
  /\ worker \in {"connect", "count", "emplace"} => fwd[conn] = "none"

Live == {c \in Conns : fwd[c] \notin {"none", "done"}}
Starting == IF worker = "emplace" THEN 1 ELSE 0
CountInv == client_count = Cardinality(Live) + Starting

JoinInv ==
  /\ mutex = "main" <=> main \in {"join", "clear", "reset"}
  /\ main \in {"clear", "reset"} => Live = {}
  /\ Live \subseteq threads

WriteLabel(way) == IF way = "up" THEN "write_up" ELSE "write_down"

\* What was read in one direction and is yet to be written.
Pending(c, way) == IF fwd[c] = WriteLabel(way) THEN buffer[c] ELSE <<>>

\* One direction: s bytes sent, t of them read, the bytes o written and p pending,
\* its receiver open or not, its thread yet to start or not.
Direction(s, t, o, p, open, new) ==
  /\ t <= s
  /\ \A k \in 1 .. Len(o) : o[k] = k
  /\ \A k \in 1 .. Len(p) : p[k] = t - Len(p) + k
  /\ Len(o) + Len(p) <= t
  /\ open => Len(o) + Len(p) = t
  /\ new => t = 0

BytesOf(c, way) ==
  Direction(sent[c][way], taken[c][way], out[c][way], Pending(c, way),
            Receiver(c, way), fwd[c] = "none")

ByteInv == \A c \in Conns : \A way \in Ways : BytesOf(c, way)

IInv == ShapeOK /\ NewInv /\ CountInv /\ JoinInv /\ ByteInv

-----------------------------------------------------------------------------
(* Types *)

LEMMA Shapes ==
  /\ MaxConns \in Nat
  /\ \A c \in Conns : c \in Nat /\ c < MaxConns
  /\ \A c \in Nat : c < MaxConns => c \in Conns
  /\ \A c \in Conns : c \in Int
BY ForwarderAssumption DEF Conns

LEMMA ConnOf ==
  ASSUME ShapeOK, NewInv, worker # "idle"
  PROVE  conn \in Conns
BY ForwarderAssumption DEF ShapeOK, NewInv, conn, Conns

LEMMA InitInv == Init => IInv
<1> SUFFICES ASSUME Init
             PROVE  IInv
  OBVIOUS
<1>1. ShapeOK
  <2>1. /\ 0 \in 0 .. MaxConns
        /\ buffer \in [Conns -> Seq(Nat \ {0})]
        /\ out \in [Conns -> [Ways -> Seq(Nat \ {0})]]
    BY ForwarderAssumption DEF Init
  <2>2. sent \in Counts /\ taken \in Counts /\ unread \in Counts
    BY DEF Init, Counts
  <2>3. fwd \in [Conns -> ThreadLabels] /\ main \in MainLabels /\ worker \in WorkerLabels
    BY DEF Init, MainLabels, WorkerLabels, ThreadLabels
  <2> QED
    BY <2>1, <2>2, <2>3 DEF Init, ShapeOK
<1>2. NewInv
  BY DEF Init, NewInv
<1>3. Live = {}
  BY DEF Init, Live
<1>4. CountInv
  BY <1>3, FS_EmptySet DEF Init, CountInv, Starting
<1>5. JoinInv
  BY <1>3 DEF Init, JoinInv, Nobody
<1>6. ASSUME NEW c \in Conns, NEW way \in Ways
      PROVE  BytesOf(c, way)
  BY DEF Init, BytesOf, Direction, Pending, WriteLabel
<1> QED
  BY <1>1, <1>2, <1>4, <1>5, <1>6 DEF IInv, ByteInv

LEMMA EndsShape ==
  ASSUME ShapeOK, NEW c \in Conns, Ends(c)
  PROVE  ShapeOK'
<1> USE DEF ShapeOK, Counts, lifeVars, acceptVars, threadVars, forwardVars, endVars
<1>1. ASSUME NEW way \in Ways, EndSends(c, way)
      PROVE  ShapeOK'
  BY <1>1 DEF EndSends
<1>2. ASSUME NEW way \in Ways, EndReads(c, way)
      PROVE  ShapeOK'
  BY <1>2 DEF EndReads
<1>3. ASSUME NEW way \in Ways, EndCloses(c, way)
      PROVE  ShapeOK'
  BY <1>3 DEF EndCloses
<1> QED
  BY <1>1, <1>2, <1>3 DEF Ends

LEMMA WorkerShape ==
  ASSUME ShapeOK, NewInv, Accept \/ Connecting
  PROVE  ShapeOK'
<1> USE DEF ShapeOK, WorkerLabels, lifeVars, acceptVars, threadVars, forwardVars, endVars,
            Work
<1>1. CASE Accept
  <2>1. next_id \in Conns /\ next_id' \in 0 .. MaxConns
    BY <1>1, Shapes DEF Accept
  <2>2. ends' \in [Conns -> SUBSET Ways]
    BY <1>1, <2>1 DEF Accept, Ways
  <2> QED
    BY <1>1, <2>1, <2>2 DEF Accept
<1>2. CASE Connect
  <2>1. conn \in Conns
    BY <1>2, ConnOf DEF Connect
  <2>2. ASSUME ends' = [ends EXCEPT ![conn] = {}]
        PROVE  ends' \in [Conns -> SUBSET Ways]
    BY <2>2
  <2>3. ASSUME ends' = [ends EXCEPT ![conn] = @ \cup {"down"}]
        PROVE  ends' \in [Conns -> SUBSET Ways]
    <3>1. ends[conn] \cup {"down"} \in SUBSET Ways
      BY <2>1 DEF Ways
    <3> QED
      BY <2>3, <3>1
  <2>4. ends' \in [Conns -> SUBSET Ways]
    BY <1>2, <2>2, <2>3 DEF Connect
  <2> QED
    BY <1>2, <2>4 DEF Connect
<1>3. CASE CountClient
  BY <1>3 DEF CountClient
<1>4. CASE EmplaceThread
  <2>1. conn \in Conns
    BY <1>4, ConnOf DEF EmplaceThread
  <2> QED
    BY <1>4, <2>1 DEF EmplaceThread, ThreadLabels
<1>5. CASE AcceptAgain
  BY <1>5 DEF AcceptAgain
<1> QED
  BY <1>1, <1>2, <1>3, <1>4, <1>5 DEF Connecting

LEMMA MainShape ==
  ASSUME ShapeOK, StopBegins \/ Stopping
  PROVE  ShapeOK'
BY DEF ShapeOK, MainLabels, lifeVars, acceptVars, threadVars, forwardVars, endVars, Main,
       Stopping, StopBegins, StopLocks, StopJoins, StopClears, StopResets, RuntimeStops,
       Destroy, Nobody

\* What a write takes from a buffer and leaves there.
LEMMA Split ==
  ASSUME NEW s \in Seq(Nat \ {0}), NEW n \in 1 .. Len(s)
  PROVE  /\ SubSeq(s, 1, n) \in Seq(Nat \ {0})
         /\ Len(SubSeq(s, 1, n)) = n
         /\ \A k \in 1 .. n : SubSeq(s, 1, n)[k] = s[k]
         /\ SubSeq(s, n + 1, Len(s)) \in Seq(Nat \ {0})
         /\ Len(SubSeq(s, n + 1, Len(s))) = Len(s) - n
         /\ \A k \in 1 .. Len(s) - n : SubSeq(s, n + 1, Len(s))[k] = s[n + k]
OBVIOUS

LEMMA TakesShape ==
  ASSUME ShapeOK, NEW c \in Conns, NEW way \in Ways, NEW n \in Nat
  PROVE  /\ Takes(c, way, n) \in Seq(Nat \ {0})
         /\ Len(Takes(c, way, n)) = n
         /\ \A k \in 1 .. n : Takes(c, way, n)[k] = taken[c][way] + k
<1>1. taken[c][way] \in Nat
  BY DEF ShapeOK, Counts
<1> QED
  BY <1>1 DEF Takes

LEMMA ReadShape ==
  ASSUME ShapeOK, NEW c \in Conns, NEW way \in Ways,
         NEW from \in ThreadLabels, NEW to \in ThreadLabels, Read(c, way, from, to)
  PROVE  /\ fwd' \in [Conns -> ThreadLabels]
         /\ buffer' \in [Conns -> Seq(Nat \ {0})]
         /\ taken' \in Counts
<1>1. CASE UNCHANGED <<buffer, taken>> /\ Step(c, from, "cleanup")
  BY <1>1 DEF ShapeOK, Step, ThreadLabels
<1>2. ASSUME NEW n \in 1 .. Chunk, Step(c, from, to),
             buffer' = [buffer EXCEPT ![c] = Takes(c, way, n)],
             taken' = [taken EXCEPT ![c][way] = @ + n]
      PROVE  /\ fwd' \in [Conns -> ThreadLabels]
             /\ buffer' \in [Conns -> Seq(Nat \ {0})]
             /\ taken' \in Counts
  <2>1. n \in Nat /\ Takes(c, way, n) \in Seq(Nat \ {0})
    BY TakesShape, ForwarderAssumption
  <2>2. taken' \in Counts
    BY <1>2, <2>1 DEF ShapeOK, Counts
  <2>3. buffer' \in [Conns -> Seq(Nat \ {0})]
    BY <1>2, <2>1 DEF ShapeOK
  <2> QED
    BY <1>2, <2>2, <2>3 DEF ShapeOK, Step
<1> QED
  BY <1>1, <1>2 DEF Read

LEMMA WriteShape ==
  ASSUME ShapeOK, NEW c \in Conns, NEW way \in Ways,
         NEW from \in ThreadLabels, Write(c, way, from)
  PROVE  ShapeOK'
<1>1. PICK n \in 1 .. Len(buffer[c]) :
        /\ out' = [out EXCEPT ![c][way] = @ \o SubSeq(buffer[c], 1, n)]
        /\ unread' = [unread EXCEPT ![c][way] = @ + n]
        /\ buffer' = [buffer EXCEPT ![c] = Unwritten(c, n)]
  BY DEF Write
<1>2. buffer[c] \in Seq(Nat \ {0}) /\ out[c][way] \in Seq(Nat \ {0}) /\ n \in Nat
  BY DEF ShapeOK
<1>3. buffer' \in [Conns -> Seq(Nat \ {0})]
  BY <1>1, <1>2, Split DEF Unwritten, ShapeOK
<1>4. out[c][way] \o SubSeq(buffer[c], 1, n) \in Seq(Nat \ {0})
  BY <1>2, Split
<1>5. out' \in [Conns -> [Ways -> Seq(Nat \ {0})]]
  BY <1>1, <1>4 DEF ShapeOK
<1>6. unread' \in Counts
  BY <1>1, <1>2 DEF ShapeOK, Counts
<1> QED
  BY <1>3, <1>5, <1>6
  DEF Write, ShapeOK, Step, lifeVars, acceptVars, threadVars

LEMMA ForwardShape ==
  ASSUME ShapeOK, NEW c \in Conns, Forward(c)
  PROVE  ShapeOK'
<1> USE DEF lifeVars, acceptVars, threadVars, forwardVars, endVars
<1>l. /\ \A l \in {"none", "poll", "polled", "write_up", "read_down", "write_down",
                   "cleanup", "done"} : l \in ThreadLabels
      /\ "up" \in Ways /\ "down" \in Ways
  BY DEF ThreadLabels, Ways
<1>1. CASE Poll(c) \/ LeavesLoop(c)
  BY <1>1, <1>l DEF ShapeOK, Poll, LeavesLoop, Step
<1>2. CASE ReadUp(c)
  <2>1. CASE Read(c, "up", "polled", "write_up")
    BY <1>2, <2>1, <1>l, ReadShape DEF ReadUp, ShapeOK
  <2>2. CASE Step(c, "polled", "read_down") /\ UNCHANGED <<buffer, taken>>
    BY <1>2, <2>2, <1>l DEF ReadUp, ShapeOK, Step
  <2> QED
    BY <1>2, <2>1, <2>2 DEF ReadUp
<1>3. CASE ReadDown(c)
  <2>1. CASE Read(c, "down", "read_down", "write_down")
    BY <1>3, <2>1, <1>l, ReadShape DEF ReadDown, ShapeOK
  <2>2. CASE Step(c, "read_down", "poll") /\ UNCHANGED <<buffer, taken>>
    BY <1>3, <2>2, <1>l DEF ReadDown, ShapeOK, Step
  <2> QED
    BY <1>3, <2>1, <2>2 DEF ReadDown
<1>4. CASE Write(c, "up", "write_up") \/ Write(c, "down", "write_down")
  BY <1>4, <1>l, WriteShape
<1>5. CASE WriteBlocks(c, "up", "write_up") \/ WriteBlocks(c, "down", "write_down")
  BY <1>5, <1>l DEF ShapeOK, WriteBlocks, Step
<1>6. CASE WriteBreaks(c, "up", "write_up") \/ WriteBreaks(c, "down", "write_down")
  <2>1. buffer' \in [Conns -> Seq(Nat \ {0})]
    <3>1. <<>> \in Seq(Nat \ {0})
      OBVIOUS
    <3>2. buffer' = [buffer EXCEPT ![c] = <<>>]
      BY <1>6 DEF WriteBreaks
    <3> QED
      BY <3>1, <3>2 DEF ShapeOK
  <2>2. fwd' \in [Conns -> ThreadLabels] /\ dead' \in BOOLEAN
    BY <1>6, <1>l DEF ShapeOK, WriteBreaks, Step
  <2>3. UNCHANGED <<lifeVars, acceptVars, mutex, threadVars, revents, taken, out, endVars>>
    BY <1>6 DEF WriteBreaks
  <2> QED
    BY <2>1, <2>2, <2>3 DEF ShapeOK
<1>7. CASE WriteEnds(c, "write_up", "read_down") \/ WriteEnds(c, "write_down", "poll")
  BY <1>7, <1>l DEF ShapeOK, WriteEnds, Step
<1>8. CASE Cleanup(c)
  BY <1>8, <1>l DEF ShapeOK, Cleanup, Step
<1> QED
  BY <1>1, <1>2, <1>3, <1>4, <1>5, <1>6, <1>7, <1>8 DEF Forward

LEMMA ShapeStep ==
  ASSUME ShapeOK, NewInv, [Next]_vars
  PROVE  ShapeOK'
<1>1. CASE UNCHANGED vars
  BY <1>1
  DEF ShapeOK, vars, lifeVars, acceptVars, threadVars, forwardVars, endVars
<1> QED
  BY <1>1, EndsShape, WorkerShape, MainShape, ForwardShape DEF Next

-----------------------------------------------------------------------------
(* The threads that run, and their number *)

\* A step of a thread: to another label, or out of cleanup.
LEMMA ForwardMoves ==
  ASSUME ShapeOK, NEW c \in Conns, Forward(c)
  PROVE  /\ UNCHANGED <<main, worker, next_id, mutex, threads>>
         /\ fwd[c] \notin {"none", "done"}
         /\ \E to \in ThreadLabels \ {"none"} :
              /\ fwd' = [fwd EXCEPT ![c] = to]
              /\ client_count' = IF to = "done" THEN client_count - 1 ELSE client_count
<1> USE DEF ShapeOK, ThreadLabels, Step, lifeVars, acceptVars, threadVars
<1>1. CASE Poll(c) \/ LeavesLoop(c)
  BY <1>1 DEF Poll, LeavesLoop
<1>2. CASE ReadUp(c)
  BY <1>2 DEF ReadUp, Read
<1>3. CASE ReadDown(c)
  BY <1>3 DEF ReadDown, Read
<1>4. CASE Write(c, "up", "write_up") \/ Write(c, "down", "write_down")
  BY <1>4 DEF Write
<1>5. CASE WriteBlocks(c, "up", "write_up") \/ WriteBlocks(c, "down", "write_down")
  BY <1>5 DEF WriteBlocks
<1>6. CASE WriteBreaks(c, "up", "write_up") \/ WriteBreaks(c, "down", "write_down")
  BY <1>6 DEF WriteBreaks
<1>7. CASE WriteEnds(c, "write_up", "read_down") \/ WriteEnds(c, "write_down", "poll")
  BY <1>7 DEF WriteEnds
<1>8. CASE Cleanup(c)
  BY <1>8 DEF Cleanup
<1> QED
  BY <1>1, <1>2, <1>3, <1>4, <1>5, <1>6, <1>7, <1>8 DEF Forward

\* Every other step but EmplaceThread leaves the threads where they are.
Elsewhere ==
  \/ Accept \/ Connect \/ CountClient \/ AcceptAgain \/ StopBegins \/ Stopping
  \/ \E c \in Conns : Ends(c)
  \/ UNCHANGED vars

LEMMA ThreeKinds ==
  ASSUME [Next]_vars
  PROVE  Elsewhere \/ EmplaceThread \/ \E c \in Conns : Forward(c)
BY DEF Next, Elsewhere, Connecting

LEMMA ElsewhereMoves ==
  ASSUME Elsewhere
  PROVE  fwd' = fwd
BY DEF Elsewhere, Accept, Connect, CountClient, AcceptAgain, Stopping, StopBegins,
       StopLocks, StopJoins, StopClears, StopResets, RuntimeStops, Destroy, Ends,
       EndSends, EndReads, EndCloses, vars, forwardVars

LEMMA NewStep ==
  ASSUME ShapeOK, NewInv, [Next]_vars
  PROVE  NewInv'
<1> USE Shapes DEF NewInv, Work
<1>1. CASE Accept
  <2>1. next_id \in Conns /\ next_id \in Nat /\ next_id' = next_id + 1 /\ fwd' = fwd
    BY <1>1 DEF Accept, forwardVars, ShapeOK
  <2>2. fwd[next_id] = "none" /\ conn' = next_id
    BY <2>1 DEF conn
  <2> QED
    BY <2>1, <2>2
<1>2. CASE Connect \/ CountClient \/ AcceptAgain
  BY <1>2
  DEF Connect, CountClient, AcceptAgain, acceptVars, lifeVars, forwardVars, conn
<1>3. CASE EmplaceThread
  <2>1. conn \in Conns /\ conn < next_id
    BY <1>3, ConnOf DEF EmplaceThread, conn, ShapeOK
  <2> QED
    BY <1>3, <2>1 DEF EmplaceThread, conn, ShapeOK
<1>4. CASE StopBegins \/ Stopping
  BY <1>4
  DEF Stopping, StopBegins, StopLocks, StopJoins, StopClears, StopResets, RuntimeStops,
      Destroy, acceptVars, forwardVars, conn
<1>5. ASSUME NEW c \in Conns, Ends(c)
      PROVE  NewInv'
  BY <1>5 DEF Ends, EndSends, EndReads, EndCloses, acceptVars, forwardVars, conn
<1>6. ASSUME NEW c \in Conns, Forward(c)
      PROVE  NewInv'
  <2>1. \A d \in Conns : fwd'[d] # "none" <=> fwd[d] # "none"
    BY <1>6, ForwardMoves DEF ShapeOK
  <2>2. worker # "idle" => conn \in Conns
    BY ConnOf
  <2> QED
    BY <1>6, <2>1, <2>2, ForwardMoves DEF conn
<1>7. CASE UNCHANGED vars
  BY <1>7 DEF vars, acceptVars, forwardVars, conn
<1> QED
  BY <1>1, <1>2, <1>3, <1>4, <1>5, <1>6, <1>7 DEF Next, Connecting

LEMMA LiveIsFinite == IsFiniteSet(Live) /\ Cardinality(Live) \in Nat
<1>1. IsFiniteSet(Conns)
  BY ForwarderAssumption, FS_Interval DEF Conns
<1> QED
  BY <1>1, FS_Subset, FS_CardinalityType DEF Live

LEMMA CountStep ==
  ASSUME ShapeOK, NewInv, CountInv, [Next]_vars
  PROVE  CountInv'
<1>c. client_count = Cardinality(Live) + Starting /\ Cardinality(Live) \in Nat
  BY LiveIsFinite DEF CountInv
<1>1. CASE Elsewhere
  <2>1. Live' = Live
    BY <1>1, ElsewhereMoves DEF Live
  <2>2. CASE CountClient
    BY <1>c, <2>1, <2>2 DEF CountClient, Work, CountInv, Starting
  <2>3. CASE ~CountClient
    <3>1. client_count' = client_count /\ Starting' = Starting
      BY <1>1, <2>3
      DEF Elsewhere, Accept, Connect, AcceptAgain, Stopping, StopBegins, StopLocks,
          StopJoins, StopClears, StopResets, RuntimeStops, Destroy, Ends, EndSends,
          EndReads, EndCloses, Work, Starting, vars, threadVars, acceptVars
    <3> QED
      BY <1>c, <2>1, <3>1 DEF CountInv
  <2> QED
    BY <2>2, <2>3
<1>2. CASE EmplaceThread
  <2>1. conn \in Conns /\ fwd[conn] = "none"
    BY <1>2, ConnOf DEF EmplaceThread, Work, NewInv
  <2>2. Live' = Live \cup {conn} /\ conn \notin Live
    BY <1>2, <2>1 DEF EmplaceThread, Live, ShapeOK
  <2>3. Cardinality(Live') = Cardinality(Live) + 1
    BY <2>2, LiveIsFinite, FS_AddElement
  <2> QED
    BY <1>2, <1>c, <2>3 DEF EmplaceThread, Work, CountInv, Starting
<1>3. ASSUME NEW c \in Conns, Forward(c)
      PROVE  CountInv'
  <2>1. PICK to \in ThreadLabels \ {"none"} :
          /\ fwd' = [fwd EXCEPT ![c] = to]
          /\ client_count' = IF to = "done" THEN client_count - 1 ELSE client_count
    BY <1>3, ForwardMoves
  <2>2. c \in Live /\ Starting' = Starting
    BY <1>3, ForwardMoves DEF Live, Starting
  <2>3. CASE to = "done"
    <3>1. Live' = Live \ {c}
      BY <2>1, <2>3 DEF Live, ShapeOK
    <3>2. Cardinality(Live') = Cardinality(Live) - 1
      BY <2>2, <3>1, LiveIsFinite, FS_RemoveElement
    <3> QED
      BY <1>c, <2>1, <2>2, <2>3, <3>2 DEF CountInv, Starting
  <2>4. CASE to # "done"
    <3>1. Live' = Live
      BY <2>1, <2>2, <2>4 DEF Live, ShapeOK
    <3> QED
      BY <1>c, <2>1, <2>2, <2>4, <3>1 DEF CountInv
  <2> QED
    BY <2>3, <2>4
<1> QED
  BY <1>1, <1>2, <1>3, ThreeKinds

LEMMA JoinStep ==
  ASSUME ShapeOK, NewInv, JoinInv, [Next]_vars
  PROVE  JoinInv'
<1>1. CASE Elsewhere
  <2>1. Live' = Live
    BY <1>1, ElsewhereMoves DEF Live
  <2>2. CASE UNCHANGED <<main, mutex, threads>>
    BY <2>1, <2>2 DEF JoinInv
  <2>3. CASE StopBegins \/ Stopping
    <3> USE DEF JoinInv, Main, Nobody, threadVars
    <3>1. CASE StopBegins
      BY <2>1, <3>1 DEF StopBegins
    <3>2. CASE StopLocks
      BY <2>1, <3>2 DEF StopLocks
    <3>3. CASE StopJoins
      <4>1. Live = {}
        BY <3>3 DEF StopJoins, Live
      <4> QED
        BY <2>1, <3>3, <4>1 DEF StopJoins
    <3>4. CASE StopClears
      BY <2>1, <3>4 DEF StopClears
    <3>5. CASE StopResets
      BY <2>1, <3>5 DEF StopResets
    <3>6. CASE RuntimeStops
      BY <2>1, <3>6 DEF RuntimeStops
    <3>7. CASE Destroy
      BY <2>1, <3>7 DEF Destroy
    <3> QED
      BY <2>3, <3>1, <3>2, <3>3, <3>4, <3>5, <3>6, <3>7 DEF Stopping
  <2>4. CASE ~(StopBegins \/ Stopping)
    <3>1. UNCHANGED <<main, mutex, threads>>
      BY <1>1, <2>4
      DEF Elsewhere, Accept, Connect, CountClient, AcceptAgain, Ends, EndSends, EndReads,
          EndCloses, vars, threadVars, lifeVars
    <3> QED
      BY <2>2, <3>1
  <2> QED
    BY <2>3, <2>4
<1>2. CASE EmplaceThread
  <2>1. conn \in Conns /\ mutex = Nobody
    BY <1>2, ConnOf DEF EmplaceThread, Work, MayEmplace
  <2>2. Live' \subseteq Live \cup {conn}
    BY <1>2, <2>1 DEF EmplaceThread, Live, ShapeOK
  <2> QED
    BY <1>2, <2>1, <2>2 DEF EmplaceThread, JoinInv, Nobody, lifeVars
<1>3. ASSUME NEW c \in Conns, Forward(c)
      PROVE  JoinInv'
  <2>1. c \in Live
    BY <1>3, ForwardMoves DEF Live
  <2>2. Live' \subseteq Live
    BY <1>3, <2>1, ForwardMoves DEF Live, ShapeOK
  <2> QED
    BY <1>3, <2>1, <2>2, ForwardMoves DEF JoinInv
<1> QED
  BY <1>1, <1>2, <1>3, ThreeKinds

-----------------------------------------------------------------------------
(* The bytes of one direction: what the steps do to it *)

Bytes == Seq(Nat \ {0})

LEMMA DirectionTakes ==
  ASSUME NEW s \in Nat, NEW t \in Nat, NEW o \in Bytes, NEW open \in BOOLEAN,
         NEW n \in Nat, NEW q \in Bytes,
         Direction(s, t, o, <<>>, open, FALSE),
         t + n <= s, Len(q) = n, \A k \in 1 .. n : q[k] = t + k
  PROVE  Direction(s, t + n, o, q, open, FALSE)
<1>1. Len(<<>>) = 0 /\ Len(o) \in Nat
  BY DEF Bytes
<1>2. /\ \A k \in 1 .. Len(o) : o[k] = k
      /\ Len(o) <= t
      /\ open => Len(o) = t
  BY <1>1 DEF Direction
<1>3. \A k \in 1 .. Len(q) : q[k] = (t + n) - Len(q) + k
  OBVIOUS
<1>4. /\ Len(o) + Len(q) <= t + n
      /\ open => Len(o) + Len(q) = t + n
  BY <1>1, <1>2
<1> QED
  BY <1>2, <1>3, <1>4 DEF Direction

LEMMA DirectionWrites ==
  ASSUME NEW s \in Nat, NEW t \in Nat, NEW o \in Bytes, NEW p \in Bytes,
         NEW n \in 1 .. Len(p),
         Direction(s, t, o, p, TRUE, FALSE)
  PROVE  Direction(s, t, o \o SubSeq(p, 1, n), SubSeq(p, n + 1, Len(p)), TRUE, FALSE)
<1> DEFINE w == SubSeq(p, 1, n)
           r == SubSeq(p, n + 1, Len(p))
<1>1. /\ Len(o) \in Nat /\ Len(p) \in Nat /\ n \in Nat /\ n <= Len(p)
      /\ Len(o) + Len(p) = t /\ t <= s
  BY DEF Bytes, Direction
<1>2. /\ w \in Bytes /\ Len(w) = n
      /\ \A k \in 1 .. n : w[k] = p[k]
      /\ Len(r) = Len(p) - n
      /\ \A k \in 1 .. Len(p) - n : r[k] = p[n + k]
  BY Split DEF Bytes
<1>3. Len(o \o w) = Len(o) + n
  BY <1>2 DEF Bytes
<1>4. \A k \in 1 .. Len(o \o w) : (o \o w)[k] = k
  <2>1. ASSUME NEW k \in 1 .. Len(o)
        PROVE  (o \o w)[k] = k
    BY <1>2 DEF Bytes, Direction
  <2>2. ASSUME NEW k \in 1 .. n
        PROVE  (o \o w)[Len(o) + k] = Len(o) + k
    <3>1. (o \o w)[Len(o) + k] = p[k]
      BY <1>2 DEF Bytes
    <3>2. p[k] = t - Len(p) + k
      BY <1>1 DEF Direction
    <3> QED
      BY <1>1, <3>1, <3>2
  <2>3. ASSUME NEW k \in 1 .. Len(o) + n, k > Len(o)
        PROVE  (o \o w)[k] = k
    <3>1. k - Len(o) \in 1 .. n /\ Len(o) + (k - Len(o)) = k
      BY <1>1, <2>3
    <3> QED
      BY <2>2, <3>1
  <2> QED
    BY <1>1, <1>3, <2>1, <2>3
<1>5. \A k \in 1 .. Len(r) : r[k] = t - Len(r) + k
  <2>1. ASSUME NEW k \in 1 .. Len(p) - n
        PROVE  r[k] = t - (Len(p) - n) + k
    <3>1. n + k \in 1 .. Len(p)
      BY <1>1
    <3>2. p[n + k] = t - Len(p) + (n + k)
      BY <3>1 DEF Direction
    <3> QED
      BY <1>1, <1>2, <3>2
  <2> QED
    BY <1>2, <2>1
<1>l. Len(r) = Len(p) - n
  BY <1>2
<1> HIDE DEF w, r
<1>6. Len(o \o w) + Len(r) = t
  BY <1>1, <1>l, <1>3
<1>7. Direction(s, t, o \o w, r, TRUE, FALSE)
  BY <1>1, <1>4, <1>5, <1>6 DEF Direction
<1> QED
  BY <1>7 DEF w, r

LEMMA DirectionLoses ==
  ASSUME NEW s \in Nat, NEW t \in Nat, NEW o \in Bytes, NEW p \in Bytes,
         NEW open, NEW new,
         Direction(s, t, o, p, open, new)
  PROVE  Direction(s, t, o, <<>>, FALSE, new)
<1>1. Len(<<>>) = 0 /\ Len(o) \in Nat /\ Len(p) \in Nat
  BY DEF Bytes
<1> QED
  BY <1>1 DEF Direction

LEMMA DirectionGoesOn ==
  ASSUME NEW s \in Nat, NEW t \in Nat, NEW o \in Bytes, NEW p \in Bytes,
         NEW open \in BOOLEAN, NEW new \in BOOLEAN,
         Direction(s, t, o, p, open, new),
         NEW more \in Nat, s <= more,
         NEW stays \in BOOLEAN, stays => open \/ new,
         NEW still \in BOOLEAN, still => new
  PROVE  Direction(more, t, o, p, stays, still)
<1>1. Len(o) \in Nat /\ Len(p) \in Nat
  BY DEF Bytes
<1> QED
  BY <1>1 DEF Direction

LEMMA BytesTypes ==
  ASSUME ShapeOK, NEW c \in Conns, NEW way \in Ways
  PROVE  /\ sent[c][way] \in Nat /\ taken[c][way] \in Nat
         /\ buffer[c] \in Bytes /\ out[c][way] \in Bytes /\ Pending(c, way) \in Bytes
         /\ Receiver(c, way) \in BOOLEAN
<1>1. <<>> \in Bytes
  BY DEF Bytes
<1> QED
  BY <1>1 DEF ShapeOK, Counts, Bytes, Pending, Receiver

\* A step after which no byte of a direction was moved.
LEMMA BytesUnmoved ==
  ASSUME ShapeOK, ShapeOK', NEW c \in Conns, NEW way \in Ways, BytesOf(c, way),
         Pending(c, way)' = Pending(c, way),
         taken'[c][way] = taken[c][way], out'[c][way] = out[c][way],
         sent[c][way] <= sent'[c][way],
         Receiver(c, way)' => Receiver(c, way) \/ fwd[c] = "none",
         fwd'[c] = "none" => fwd[c] = "none"
  PROVE  BytesOf(c, way)'
<1> DEFINE s == sent[c][way]
           t == taken[c][way]
           o == out[c][way]
           p == Pending(c, way)
           open == Receiver(c, way)
           new == fwd[c] = "none"
<1>1. /\ s \in Nat /\ t \in Nat /\ o \in Bytes /\ p \in Bytes /\ open \in BOOLEAN
      /\ new \in BOOLEAN
  BY BytesTypes
<1>2. s' \in Nat /\ open' \in BOOLEAN /\ new' \in BOOLEAN
  BY DEF ShapeOK, Counts, Receiver
<1>3. Direction(s, t, o, p, open, new)
  BY DEF BytesOf
<1>4. p' = p /\ t' = t /\ o' = o /\ s <= s' /\ (open' => open \/ new) /\ (new' => new)
  OBVIOUS
<1> HIDE DEF s, t, o, p, open, new
<1>5. Direction(s', t, o, p, open', new')
  BY <1>1, <1>2, <1>3, <1>4, DirectionGoesOn
<1>6. Direction(s', t', o', p', open', new')
  BY <1>4, <1>5
<1> QED
  BY <1>6 DEF BytesOf, s, t, o, p, open, new

LEMMA ElsewhereBytes ==
  ASSUME ShapeOK, ShapeOK', NewInv, ByteInv, Elsewhere,
         NEW c \in Conns, NEW way \in Ways
  PROVE  BytesOf(c, way)'
<1> USE DEF vars, lifeVars, acceptVars, threadVars, forwardVars, endVars, Work
<1>1. UNCHANGED <<fwd, buffer, taken, out>>
  BY DEF Elsewhere, Accept, Connect, CountClient, AcceptAgain, Stopping, StopBegins,
         StopLocks, StopJoins, StopClears, StopResets, RuntimeStops, Destroy, Ends,
         EndSends, EndReads, EndCloses
<1>2. sent[c][way] <= sent'[c][way]
  <2>1. CASE \E d \in Conns, v \in Ways : EndSends(d, v)
    <3>1. PICK d \in Conns, v \in Ways : sent' = [sent EXCEPT ![d][v] = @ + 1]
      BY <2>1 DEF EndSends
    <3>2. sent \in [Conns -> [Ways -> Nat]]
      BY DEF ShapeOK, Counts
    <3>3. sent'[c] = IF c = d THEN [sent[c] EXCEPT ![v] = @ + 1] ELSE sent[c]
      BY <3>1, <3>2
    <3>4. sent'[c][way] \in {sent[c][way], sent[c][way] + 1} /\ sent[c][way] \in Nat
      BY <3>2, <3>3
    <3> QED
      BY <3>4
  <2>2. CASE ~\E d \in Conns, v \in Ways : EndSends(d, v)
    <3>1. sent' = sent
      BY <2>2
      DEF Elsewhere, Accept, Connect, CountClient, AcceptAgain, Stopping, StopBegins,
          StopLocks, StopJoins, StopClears, StopResets, RuntimeStops, Destroy, Ends,
          EndReads, EndCloses
    <3> QED
      BY <3>1, BytesTypes
  <2> QED
    BY <2>1, <2>2
<1>3. Receiver(c, way)' => Receiver(c, way) \/ fwd[c] = "none"
  <2> SUFFICES ASSUME fwd[c] # "none"
               PROVE  ends'[c] \subseteq ends[c]
    BY DEF Receiver
  <2>1. CASE Accept
    BY <2>1, Shapes DEF Accept, NewInv, ShapeOK
  <2>2. CASE Connect
    BY <2>2 DEF Connect, NewInv, ShapeOK
  <2>3. CASE \E d \in Conns, v \in Ways : EndCloses(d, v)
    BY <2>3 DEF EndCloses, ShapeOK
  <2>4. CASE ~Accept /\ ~Connect /\ ~\E d \in Conns, v \in Ways : EndCloses(d, v)
    BY <2>4
    DEF Elsewhere, CountClient, AcceptAgain, Stopping, StopBegins, StopLocks, StopJoins,
        StopClears, StopResets, RuntimeStops, Destroy, Ends, EndSends, EndReads
  <2> QED
    BY <2>1, <2>2, <2>3, <2>4
<1>4. Pending(c, way)' = Pending(c, way)
  BY <1>1 DEF Pending
<1>5. BytesOf(c, way)
  BY DEF ByteInv
<1> QED
  BY <1>1, <1>2, <1>3, <1>4, <1>5, BytesUnmoved

LEMMA EmplaceBytes ==
  ASSUME ShapeOK, ShapeOK', NewInv, ByteInv, EmplaceThread,
         NEW c \in Conns, NEW way \in Ways
  PROVE  BytesOf(c, way)'
<1>1. UNCHANGED <<buffer, taken, out, ends, sent>> /\ fwd' = [fwd EXCEPT ![conn] = "poll"]
  BY DEF EmplaceThread, endVars
<1>2. conn \in Conns /\ fwd[conn] = "none"
  BY ConnOf DEF EmplaceThread, Work, NewInv
<1>3. Pending(c, way)' = Pending(c, way)
  BY <1>1, <1>2 DEF Pending, WriteLabel, ShapeOK
<1>4. fwd'[c] = "none" => fwd[c] = "none"
  BY <1>1, <1>2 DEF ShapeOK
<1>5. BytesOf(c, way) /\ sent[c][way] <= sent'[c][way]
  BY <1>1, BytesTypes DEF ByteInv
<1>6. Receiver(c, way)' => Receiver(c, way)
  BY <1>1 DEF Receiver
<1> QED
  BY <1>1, <1>3, <1>4, <1>5, <1>6, BytesUnmoved

\* A step of a thread disturbs neither the other connections nor the other direction.
LEMMA OthersUnmoved ==
  ASSUME ShapeOK, ShapeOK', ByteInv, NEW c \in Conns, NEW way \in Ways,
         NEW d \in Conns, NEW from, NEW to \in ThreadLabels \ {"none"},
         Step(c, from, to), from # "none",
         \A v \in Ways : from = WriteLabel(v) => v = way,
         \A v \in Ways : to = WriteLabel(v) => v = way,
         \A v \in Ways :
           <<d, v>> # <<c, way>> => taken'[d][v] = taken[d][v] /\ out'[d][v] = out[d][v],
         d # c => buffer'[d] = buffer[d],
         sent' = sent, ends' = ends,
         NEW v \in Ways, <<d, v>> # <<c, way>>
  PROVE  BytesOf(d, v)'
<1>1. fwd[c] = from /\ fwd' = [fwd EXCEPT ![c] = to]
  BY DEF Step
<1>2. Pending(d, v)' = Pending(d, v)
  <2>1. CASE d # c
    BY <1>1, <2>1 DEF Pending, ShapeOK
  <2>2. CASE d = c /\ v # way
    <3>1. from # WriteLabel(v) /\ to # WriteLabel(v)
      BY <2>2
    <3> QED
      BY <1>1, <2>2, <3>1 DEF Pending, ShapeOK
  <2> QED
    BY <2>1, <2>2
<1>3. fwd'[d] = "none" => fwd[d] = "none"
  BY <1>1 DEF ShapeOK
<1>4. BytesOf(d, v) /\ sent[d][v] <= sent'[d][v]
  BY BytesTypes DEF ByteInv
<1>5. Receiver(d, v)' => Receiver(d, v)
  BY DEF Receiver
<1>6. taken'[d][v] = taken[d][v] /\ out'[d][v] = out[d][v]
  OBVIOUS
<1> QED
  BY <1>2, <1>3, <1>4, <1>5, <1>6, BytesUnmoved

\* n bytes are read while nothing was pending.
LEMMA TakeBytes ==
  ASSUME ShapeOK, ShapeOK', ByteInv, NEW c \in Conns, NEW way \in Ways,
         NEW from \in ThreadLabels \ {"none", "write_up", "write_down"}, NEW n \in Nat,
         n <= sent[c][way] - taken[c][way],
         Step(c, from, WriteLabel(way)),
         buffer' = [buffer EXCEPT ![c] = Takes(c, way, n)],
         taken' = [taken EXCEPT ![c][way] = @ + n],
         out' = out, sent' = sent, ends' = ends,
         NEW d \in Conns, NEW v \in Ways
  PROVE  BytesOf(d, v)'
<1>1. /\ fwd[c] = from /\ fwd' = [fwd EXCEPT ![c] = WriteLabel(way)]
      /\ WriteLabel(way) \in ThreadLabels \ {"none"}
      /\ \A u \in Ways : from # WriteLabel(u)
      /\ \A u \in Ways : WriteLabel(way) = WriteLabel(u) => u = way
  BY DEF Step, WriteLabel, ThreadLabels, Ways
<1>2. CASE <<d, v>> = <<c, way>>
  <2> DEFINE q == Takes(c, way, n)
  <2>1. Pending(c, way) = <<>>
    BY <1>1 DEF Pending
  <2>2. /\ sent[c][way] \in Nat /\ taken[c][way] \in Nat /\ out[c][way] \in Bytes
        /\ Receiver(c, way) \in BOOLEAN
    BY BytesTypes
  <2>l. taken[c][way] + n <= sent[c][way]
    BY <2>2
  <2>3. Direction(sent[c][way], taken[c][way], out[c][way], <<>>, Receiver(c, way), FALSE)
    <3>1. BytesOf(c, way) /\ (fwd[c] = "none") = FALSE
      BY <1>1 DEF ByteInv
    <3> QED
      BY <2>1, <3>1 DEF BytesOf
  <2>4. q \in Bytes /\ Len(q) = n /\ \A k \in 1 .. n : q[k] = taken[c][way] + k
    BY TakesShape DEF Bytes
  <2> HIDE DEF q
  <2>5. Direction(sent[c][way], taken[c][way] + n, out[c][way], q, Receiver(c, way), FALSE)
    BY <2>2, <2>l, <2>3, <2>4, DirectionTakes
  <2>6. /\ Pending(c, way)' = q /\ taken'[c][way] = taken[c][way] + n
        /\ Receiver(c, way)' = Receiver(c, way)
        /\ (fwd'[c] = "none") = FALSE
    BY <1>1, <2>2 DEF Pending, ShapeOK, Receiver, Counts, q
  <2> QED
    BY <1>2, <2>5, <2>6 DEF BytesOf
<1>3. CASE <<d, v>> # <<c, way>>
  <2>1. \A u \in Ways :
          <<d, u>> # <<c, way>> => taken'[d][u] = taken[d][u] /\ out'[d][u] = out[d][u]
    BY DEF ShapeOK, Counts
  <2>2. d # c => buffer'[d] = buffer[d]
    BY DEF ShapeOK
  <2> QED
    BY <1>1, <1>3, <2>1, <2>2, OthersUnmoved
<1> QED
  BY <1>2, <1>3

\* Some of what is pending is written, to a receiver that is open.
LEMMA WriteBytes ==
  ASSUME ShapeOK, ShapeOK', ByteInv, NEW c \in Conns, NEW way \in Ways,
         Write(c, way, WriteLabel(way)),
         NEW d \in Conns, NEW v \in Ways
  PROVE  BytesOf(d, v)'
<1>1. PICK n \in 1 .. Len(buffer[c]) :
        /\ out' = [out EXCEPT ![c][way] = @ \o SubSeq(buffer[c], 1, n)]
        /\ buffer' = [buffer EXCEPT ![c] = SubSeq(buffer[c], n + 1, Len(buffer[c]))]
  BY DEF Write, Unwritten
<1>2. /\ UNCHANGED <<taken, sent, ends, fwd>> /\ Receiver(c, way)
      /\ fwd[c] = WriteLabel(way) /\ Step(c, WriteLabel(way), WriteLabel(way))
  BY DEF Write, Step, ShapeOK
<1>3. /\ WriteLabel(way) \in ThreadLabels \ {"none"}
      /\ \A u \in Ways : WriteLabel(way) = WriteLabel(u) => u = way
  BY DEF WriteLabel, ThreadLabels, Ways
<1>4. CASE <<d, v>> = <<c, way>>
  <2> DEFINE o == out[c][way]
             p == buffer[c]
  <2>1. /\ sent[c][way] \in Nat /\ taken[c][way] \in Nat /\ o \in Bytes /\ p \in Bytes
    BY BytesTypes
  <2>2. Direction(sent[c][way], taken[c][way], o, p, TRUE, FALSE)
    <3>1. /\ BytesOf(c, way) /\ Pending(c, way) = p /\ Receiver(c, way) = TRUE
          /\ (fwd[c] = "none") = FALSE
      BY <1>2, <1>3 DEF ByteInv, Pending
    <3> QED
      BY <3>1 DEF BytesOf
  <2>3. Direction(sent[c][way], taken[c][way], o \o SubSeq(p, 1, n),
                  SubSeq(p, n + 1, Len(p)), TRUE, FALSE)
    BY <2>1, <2>2, DirectionWrites
  <2>4. /\ Pending(c, way)' = SubSeq(p, n + 1, Len(p))
        /\ out'[c][way] = o \o SubSeq(p, 1, n)
        /\ Receiver(c, way)' = TRUE
        /\ (fwd'[c] = "none") = FALSE
    BY <1>1, <1>2, <1>3 DEF Pending, ShapeOK, Receiver
  <2> QED
    BY <1>2, <1>4, <2>3, <2>4 DEF BytesOf
<1>5. CASE <<d, v>> # <<c, way>>
  <2>1. \A u \in Ways :
          <<d, u>> # <<c, way>> => taken'[d][u] = taken[d][u] /\ out'[d][u] = out[d][u]
    BY <1>1, <1>2 DEF ShapeOK
  <2>2. d # c => buffer'[d] = buffer[d]
    BY <1>1 DEF ShapeOK
  <2> QED
    BY <1>2, <1>3, <1>5, <2>1, <2>2, OthersUnmoved
<1> QED
  BY <1>4, <1>5

\* What is pending is lost with its receiver.
LEMMA BreakBytes ==
  ASSUME ShapeOK, ShapeOK', ByteInv, NEW c \in Conns, NEW way \in Ways,
         WriteBreaks(c, way, WriteLabel(way)),
         NEW d \in Conns, NEW v \in Ways
  PROVE  BytesOf(d, v)'
<1>1. PICK to \in {WriteLabel(way), "cleanup", "poll"} : Step(c, WriteLabel(way), to)
  BY DEF WriteBreaks
<1>2. /\ UNCHANGED <<taken, out, sent, ends>> /\ ~Receiver(c, way)
      /\ buffer' = [buffer EXCEPT ![c] = <<>>]
  BY DEF WriteBreaks, endVars
<1>3. /\ WriteLabel(way) # "none" /\ to \in ThreadLabels \ {"none"}
      /\ \A u \in Ways : WriteLabel(way) = WriteLabel(u) => u = way
      /\ \A u \in Ways : to = WriteLabel(u) => u = way
  BY DEF WriteLabel, ThreadLabels, Ways
<1>4. CASE <<d, v>> = <<c, way>>
  <2>1. /\ sent[c][way] \in Nat /\ taken[c][way] \in Nat /\ out[c][way] \in Bytes
        /\ Pending(c, way) \in Bytes
    BY BytesTypes
  <2>2. Direction(sent[c][way], taken[c][way], out[c][way], Pending(c, way),
                  Receiver(c, way), fwd[c] = "none")
    BY DEF ByteInv, BytesOf
  <2>3. (fwd[c] = "none") = FALSE
    BY <1>1, <1>3 DEF Step
  <2>4. Direction(sent[c][way], taken[c][way], out[c][way], <<>>, FALSE, FALSE)
    BY <2>1, <2>2, <2>3, DirectionLoses
  <2>5. /\ Pending(c, way)' = <<>> /\ Receiver(c, way)' = FALSE
        /\ (fwd'[c] = "none") = FALSE
    BY <1>1, <1>2, <1>3 DEF Pending, ShapeOK, Receiver, Step
  <2> QED
    BY <1>2, <1>4, <2>4, <2>5 DEF BytesOf
<1>5. CASE <<d, v>> # <<c, way>>
  <2>1. \A u \in Ways :
          <<d, u>> # <<c, way>> => taken'[d][u] = taken[d][u] /\ out'[d][u] = out[d][u]
    BY <1>2
  <2>2. d # c => buffer'[d] = buffer[d]
    BY <1>2 DEF ShapeOK
  <2> QED
    BY <1>1, <1>2, <1>3, <1>5, <2>1, <2>2, OthersUnmoved
<1> QED
  BY <1>4, <1>5

\* A step that neither reads nor writes, with nothing pending or at the same label.
LEMMA StillBytes ==
  ASSUME ShapeOK, ShapeOK', ByteInv, NEW c \in Conns,
         NEW to \in ThreadLabels \ {"none"}, fwd' = [fwd EXCEPT ![c] = to],
         UNCHANGED <<buffer, taken, out, sent>>,
         \A d \in Conns : ends'[d] \subseteq ends[d],
         \A u \in Ways : Pending(c, u)' = Pending(c, u),
         NEW d \in Conns, NEW v \in Ways
  PROVE  BytesOf(d, v)'
<1>1. Pending(d, v)' = Pending(d, v)
  <2>1. CASE d = c
    BY <2>1
  <2>2. CASE d # c
    BY <2>2 DEF Pending, ShapeOK
  <2> QED
    BY <2>1, <2>2
<1>2. fwd'[d] = "none" => fwd[d] = "none"
  BY DEF ShapeOK
<1>3. BytesOf(d, v) /\ sent[d][v] <= sent'[d][v]
  BY BytesTypes DEF ByteInv
<1>4. Receiver(d, v)' => Receiver(d, v)
  BY DEF Receiver
<1> QED
  BY <1>1, <1>2, <1>3, <1>4, BytesUnmoved

LEMMA ForwardBytes ==
  ASSUME ShapeOK, ShapeOK', ByteInv, NEW c \in Conns, Forward(c),
         NEW d \in Conns, NEW v \in Ways
  PROVE  BytesOf(d, v)'
<1>l. /\ WriteLabel("up") = "write_up" /\ WriteLabel("down") = "write_down"
      /\ "up" \in Ways /\ "down" \in Ways
      /\ \A u \in Ways : WriteLabel(u) \in {"write_up", "write_down"}
      /\ Chunk \in Nat
  BY ForwarderAssumption DEF WriteLabel, Ways
<1>s. ASSUME NEW from \in ThreadLabels \ {"none", "write_up", "write_down"},
             NEW to \in ThreadLabels \ {"none", "write_up", "write_down"},
             Step(c, from, to),
             UNCHANGED <<buffer, taken, out, sent>>,
             \A e \in Conns : ends'[e] \subseteq ends[e]
      PROVE  BytesOf(d, v)'
  <2>1. \A u \in Ways : Pending(c, u)' = Pending(c, u)
    BY <1>l, <1>s DEF Pending, Step, ShapeOK
  <2> QED
    BY <1>s, <2>1, StillBytes DEF Step
<1>1. CASE Poll(c) \/ LeavesLoop(c)
  BY <1>1, <1>s DEF Poll, LeavesLoop, endVars, ThreadLabels
<1>2. CASE ReadUp(c)
  <2>1. UNCHANGED <<out, sent, ends>>
    BY <1>2 DEF ReadUp, endVars
  <2>2. ASSUME NEW n \in 1 .. Chunk, n <= sent[c]["up"] - taken[c]["up"],
               Step(c, "polled", "write_up"),
               buffer' = [buffer EXCEPT ![c] = Takes(c, "up", n)],
               taken' = [taken EXCEPT ![c]["up"] = @ + n]
        PROVE  BytesOf(d, v)'
    <3>1. n \in Nat /\ "polled" \in ThreadLabels \ {"none", "write_up", "write_down"}
      BY <1>l DEF ThreadLabels
    <3> QED
      BY <1>l, <2>1, <2>2, <3>1, TakeBytes
  <2>3. CASE (Step(c, "polled", "cleanup") \/ Step(c, "polled", "read_down"))
               /\ UNCHANGED <<buffer, taken>>
    BY <1>s, <2>1, <2>3 DEF ThreadLabels
  <2> QED
    BY <1>2, <2>2, <2>3 DEF ReadUp, Read
<1>3. CASE ReadDown(c)
  <2>1. UNCHANGED <<out, sent, ends>>
    BY <1>3 DEF ReadDown, endVars
  <2>2. ASSUME NEW n \in 1 .. Chunk, n <= sent[c]["down"] - taken[c]["down"],
               Step(c, "read_down", "write_down"),
               buffer' = [buffer EXCEPT ![c] = Takes(c, "down", n)],
               taken' = [taken EXCEPT ![c]["down"] = @ + n]
        PROVE  BytesOf(d, v)'
    <3>1. n \in Nat /\ "read_down" \in ThreadLabels \ {"none", "write_up", "write_down"}
      BY <1>l DEF ThreadLabels
    <3> QED
      BY <1>l, <2>1, <2>2, <3>1, TakeBytes
  <2>3. CASE (Step(c, "read_down", "cleanup") \/ Step(c, "read_down", "poll"))
               /\ UNCHANGED <<buffer, taken>>
    BY <1>s, <2>1, <2>3 DEF ThreadLabels
  <2> QED
    BY <1>3, <2>2, <2>3 DEF ReadDown, Read
<1>4. CASE Write(c, "up", "write_up") \/ Write(c, "down", "write_down")
  BY <1>4, <1>l, WriteBytes
<1>5. CASE WriteBlocks(c, "up", "write_up") \/ WriteBlocks(c, "down", "write_down")
  <2>1. UNCHANGED <<buffer, taken, out, sent, ends>>
    BY <1>5 DEF WriteBlocks, endVars
  <2>2. fwd' = fwd /\ fwd[c] \in {"write_up", "write_down"}
    BY <1>5 DEF WriteBlocks, Step, ShapeOK
  <2>3. fwd' = [fwd EXCEPT ![c] = fwd[c]] /\ fwd[c] \in ThreadLabels \ {"none"}
    BY <2>2 DEF ShapeOK, ThreadLabels
  <2>4. \A u \in Ways : Pending(c, u)' = Pending(c, u)
    BY <2>1, <2>2 DEF Pending
  <2> QED
    BY <2>1, <2>3, <2>4, StillBytes
<1>6. CASE WriteBreaks(c, "up", "write_up") \/ WriteBreaks(c, "down", "write_down")
  BY <1>6, <1>l, BreakBytes
<1>7. CASE WriteEnds(c, "write_up", "read_down") \/ WriteEnds(c, "write_down", "poll")
  <2>1. UNCHANGED <<buffer, taken, out, sent, ends>> /\ buffer[c] = <<>>
    BY <1>7 DEF WriteEnds, endVars
  <2>2. PICK to \in ThreadLabels \ {"none"} : fwd' = [fwd EXCEPT ![c] = to]
    BY <1>7 DEF WriteEnds, Step, ThreadLabels
  <2>3. \A u \in Ways : Pending(c, u)' = Pending(c, u)
    BY <2>1 DEF Pending
  <2> QED
    BY <2>1, <2>2, <2>3, StillBytes
<1>8. CASE Cleanup(c)
  <2>1. \A e \in Conns : ends'[e] \subseteq ends[e]
    BY <1>8 DEF Cleanup, ShapeOK
  <2> QED
    BY <1>8, <1>s, <2>1 DEF Cleanup, ThreadLabels
<1> QED
  BY <1>1, <1>2, <1>3, <1>4, <1>5, <1>6, <1>7, <1>8 DEF Forward

LEMMA ByteStep ==
  ASSUME ShapeOK, ShapeOK', NewInv, ByteInv, [Next]_vars
  PROVE  ByteInv'
<1> SUFFICES ASSUME NEW d \in Conns, NEW v \in Ways
             PROVE  BytesOf(d, v)'
  BY DEF ByteInv
<1> QED
  BY ThreeKinds, ElsewhereBytes, EmplaceBytes, ForwardBytes
-----------------------------------------------------------------------------
(* Theorems *)

LEMMA InductiveInvariant == Spec => []IInv
<1>1. IInv /\ [Next]_vars => IInv'
  <2> SUFFICES ASSUME IInv, [Next]_vars
               PROVE  IInv'
    OBVIOUS
  <2>1. ShapeOK /\ NewInv /\ CountInv /\ JoinInv /\ ByteInv
    BY DEF IInv
  <2>2. ShapeOK'
    BY <2>1, ShapeStep
  <2> QED
    BY <2>1, <2>2, NewStep, CountStep, JoinStep, ByteStep DEF IInv
<1> QED
  BY <1>1, InitInv, PTL DEF Spec

LEMMA CountInRange ==
  ASSUME IInv
  PROVE  client_count \in 0 .. MaxConns
<1>1. IsFiniteSet(Conns) /\ Cardinality(Conns) = MaxConns
  BY ForwarderAssumption, FS_Interval DEF Conns
<1>2. CASE worker = "emplace"
  <2>1. conn \in Conns /\ conn \notin Live
    BY <1>2, ConnOf DEF IInv, NewInv, Live
  <2>2. Live \cup {conn} \in SUBSET Conns
    BY <2>1 DEF Live
  <2>3. Cardinality(Live \cup {conn}) = Cardinality(Live) + 1
    BY <2>1, LiveIsFinite, FS_AddElement
  <2>4. Cardinality(Live \cup {conn}) <= MaxConns
    BY <1>1, <2>2, FS_Subset
  <2> QED
    BY <1>2, <2>3, <2>4, LiveIsFinite, Shapes DEF IInv, CountInv, Starting
<1>3. CASE worker # "emplace"
  <2>1. Cardinality(Live) <= MaxConns
    BY <1>1, FS_Subset DEF Live
  <2> QED
    BY <1>3, <2>1, LiveIsFinite, Shapes DEF IInv, CountInv, Starting
<1> QED
  BY <1>2, <1>3

(***************************************************************************)
(* The types, and that client_count_, counted up by the worker and down by *)
(* every thread, never leaves 0 .. the number of connections.              *)
(***************************************************************************)
THEOREM TypesCorrect == Spec => []TypeOK
<1>1. IInv => TypeOK
  BY CountInRange DEF IInv, ShapeOK, TypeOK
<1> QED
  BY <1>1, InductiveInvariant, PTL

(***************************************************************************)
(* forward_data writes to either end what the other one sent, in order and *)
(* without a gap, whatever part of a buffer each write takes.              *)
(***************************************************************************)
THEOREM BytesArriveInOrder == Spec => []BytesInOrder
<1>1. IInv => BytesInOrder
  <2> SUFFICES ASSUME IInv, NEW c \in Conns, NEW way \in Ways
               PROVE  /\ Len(out[c][way]) <= sent[c][way]
                      /\ \A k \in DOMAIN out[c][way] : out[c][way][k] = k
    BY DEF BytesInOrder
  <2>1. /\ sent[c][way] \in Nat /\ taken[c][way] \in Nat
        /\ out[c][way] \in Bytes /\ Pending(c, way) \in Bytes
    BY BytesTypes DEF IInv
  <2>2. Direction(sent[c][way], taken[c][way], out[c][way], Pending(c, way),
                  Receiver(c, way), fwd[c] = "none")
    BY DEF IInv, ByteInv, BytesOf
  <2>3. /\ DOMAIN out[c][way] = 1 .. Len(out[c][way])
        /\ Len(out[c][way]) \in Nat /\ Len(Pending(c, way)) \in Nat
    BY <2>1 DEF Bytes
  <2>4. /\ taken[c][way] <= sent[c][way]
        /\ Len(out[c][way]) + Len(Pending(c, way)) <= taken[c][way]
        /\ \A k \in 1 .. Len(out[c][way]) : out[c][way][k] = k
    BY <2>2 DEF Direction
  <2> QED
    BY <2>1, <2>3, <2>4
<1> QED
  BY <1>1, InductiveInvariant, PTL

(***************************************************************************)
(* stop() clears forward_threads_ of no thread that runs: the worker adds  *)
(* a thread before the joins or after the clear, never in between.         *)
(***************************************************************************)
THEOREM ThreadsJoinable == Spec => []LiveThreadsJoinable
<1>1. IInv => LiveThreadsJoinable
  BY DEF IInv, JoinInv, Live, LiveThreadsJoinable
<1> QED
  BY <1>1, InductiveInvariant, PTL

=============================================================================
