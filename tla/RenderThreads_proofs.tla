------------------------ MODULE RenderThreads_proofs ------------------------
(***************************************************************************)
(* Proofs about RenderThreads, for any number of guests and workers and    *)
(* whatever the guests send.                                               *)
(*                                                                         *)
(* That nobody uses a connection that is destroyed rests on which two      *)
(* workers can have a job for one guest: only the acceptor that returns,   *)
(* beside a handler of a read.  That the mutex waits for no guest rests on *)
(* what a guest has outstanding: at most one call, the last thing it sent, *)
(* so when a call is decoded the answers before it have been sent.         *)
(***************************************************************************)
EXTENDS RenderThreads, TLAPS

\* No request is lost on the way to the decoder, and none comes before it was sent.
NothingLost ==
  \A g \in Guests :
    /\ posted[g] = decoded[g] + buffered[g] + queued[g]
    /\ posted[g] <= sent[g]

DataInv == TypeOK /\ NothingLost

\* Every member of a guest's requests is of a kind, and leads on to a label.
LEMMA RequestKinds ==
  ASSUME NEW g \in Guests, NEW k \in 1 .. Len(Requests[g])
  PROVE  /\ Requests[g][k] \in Kinds
         /\ After(Requests[g][k]) \in {"decoded", "reply", "frame"}
         /\ After(Requests[g][k]) = "reply" => Requests[g][k] = "call"
<1>1. Requests[g] \in Seq(Kinds)
  BY RenderAssumption
<1>2. Requests[g][k] \in Kinds
  BY <1>1
<1> QED BY <1>2 DEF Kinds, After

LEMMA DataInit == Init => DataInv
<1> SUFFICES ASSUME Init PROVE DataInv
  OBVIOUS
<1>1. \A g \in Guests : Len(Requests[g]) \in Nat
  BY RenderAssumption
<1>2. TypeOK
  BY <1>1 DEF Init, TypeOK, GuestStages, RenderLabels, WriteLabels, Cleared
<1>3. NothingLost
  BY DEF Init, NothingLost
<1> QED BY <1>2, <1>3 DEF DataInv

LEMMA GuestKeepsData ==
  ASSUME DataInv, NEW g \in Guests,
         \/ GuestConnects(g) \/ GuestNames(g) \/ GuestCloses(g) \/ GuestSends(g)
         \/ SendEnds(g)
  PROVE  DataInv'
<1> USE DEF DataInv, HostUnchanged, poolVars, connVars, queueVars, renderVars
<1>1. CASE GuestConnects(g) \/ GuestNames(g) \/ GuestCloses(g)
  BY <1>1 DEF GuestConnects, GuestNames, GuestCloses, GuestBecomes, TypeOK,
              NothingLost, GuestStages
<1>2. CASE GuestSends(g)
  <2>1. sent' \in [Guests -> Nat] /\ awaiting' \in [Guests -> BOOLEAN]
    BY <1>2 DEF GuestSends, TypeOK
  <2>2. \A h \in Guests : sent[h] <= sent'[h] /\ sent'[h] <= Len(Requests[h])
    <3>1. Len(Requests[g]) \in Nat
      BY RenderAssumption
    <3>2. /\ sent[g] < Len(Requests[g])
          /\ \A h \in Guests : sent[h] \in Nat /\ sent[h] <= Len(Requests[h])
      BY <1>2 DEF GuestSends, TypeOK
    <3>3. \A h \in Guests : sent'[h] = IF h = g THEN sent[g] + 1 ELSE sent[h]
      BY <1>2 DEF GuestSends, TypeOK
    <3> QED BY <3>1, <3>2, <3>3
  <2>3. TypeOK'
    BY <1>2, <2>1, <2>2 DEF GuestSends, TypeOK
  <2>4. NothingLost'
    BY <1>2, <2>1, <2>2 DEF GuestSends, NothingLost, TypeOK
  <2> QED BY <2>3, <2>4
<1>3. CASE SendEnds(g)
  <2>1. write' \in [Guests -> WriteLabels] /\ awaiting' \in [Guests -> BOOLEAN]
    BY <1>3 DEF SendEnds, WriteGoto, TypeOK, WriteLabels
  <2>2. TypeOK'
    BY <1>3, <2>1 DEF SendEnds, TypeOK
  <2>3. NothingLost'
    BY <1>3 DEF SendEnds, NothingLost
  <2> QED BY <2>2, <2>3
<1> QED BY <1>1, <1>2, <1>3

LEMMA WriteKeepsData ==
  ASSUME DataInv, NEW g \in Guests, Write(g)
  PROVE  DataInv'
<1> USE DEF DataInv, poolVars, connVars, queueVars, renderVars, guestVars
<1>1. write' \in [Guests -> WriteLabels] /\ out_queue' \in [Guests -> Nat]
  <2>1. CASE WritePops(g)
    BY <2>1 DEF WritePops, WriteGoto, TypeOK, WriteLabels
  <2>2. CASE SendFails(g)
    BY <2>2 DEF SendFails, WriteGoto, TypeOK, WriteLabels
  <2>3. CASE WriteEnds(g)
    BY <2>3 DEF WriteEnds, WriteGoto, TypeOK, WriteLabels
  <2> QED BY <2>1, <2>2, <2>3 DEF Write
<1>2. TypeOK'
  BY <1>1 DEF Write, TypeOK
<1>3. NothingLost'
  BY DEF Write, NothingLost
<1> QED BY <1>2, <1>3

\* A request that is decoded is one that was sent.
LEMMA DecodeInRange ==
  ASSUME DataInv, NEW g \in Guests, Decode(g)
  PROVE  /\ decoded[g] + 1 \in 1 .. Len(Requests[g])
         /\ decoded[g] \in Nat /\ sent[g] \in Nat /\ decoded[g] < sent[g]
<1>1. Len(Requests[g]) \in Nat
  BY RenderAssumption
<1>2. /\ decoded[g] \in Nat /\ buffered[g] \in Nat /\ queued[g] \in Nat
      /\ buffered[g] > 0 /\ posted[g] = decoded[g] + buffered[g] + queued[g]
      /\ posted[g] <= sent[g] /\ sent[g] <= Len(Requests[g]) /\ sent[g] \in Nat
  <2>1. buffered[g] > 0 /\ TypeOK /\ NothingLost
    BY DEF Decode, DataInv
  <2>2. /\ decoded[g] \in Nat /\ buffered[g] \in Nat /\ queued[g] \in Nat
        /\ sent[g] \in Nat /\ sent[g] <= Len(Requests[g])
    BY <2>1 DEF TypeOK
  <2>3. posted[g] = decoded[g] + buffered[g] + queued[g] /\ posted[g] <= sent[g]
    BY <2>1 DEF NothingLost
  <2> QED BY <2>1, <2>2, <2>3
<1>3. decoded[g] + 1 <= sent[g]
  BY <1>2
<1> QED BY <1>1, <1>2, <1>3

LEMMA RenderKeepsData ==
  ASSUME DataInv, NEW g \in Guests, Render(g)
  PROVE  DataInv'
<1> USE DEF DataInv, poolVars, connVars, guestVars
<1>1. CASE Read(g)
  <2>1. /\ render' \in [Guests -> RenderLabels] /\ buffered' \in [Guests -> Nat]
        /\ buffers' \in [Guests -> Nat] /\ queued' \in [Guests -> Nat]
    <3>1. /\ render \in [Guests -> RenderLabels] /\ buffered \in [Guests -> Nat]
          /\ buffers \in [Guests -> Nat] /\ queued \in [Guests -> Nat]
      BY DEF TypeOK
    <3>2. render' = [render EXCEPT ![g] = "lock"] /\ "lock" \in RenderLabels
      BY <1>1 DEF Read, RenderGoto, RenderLabels
    <3>3. /\ buffered' = [buffered EXCEPT ![g] = @ + queued[g]]
          /\ buffers' = [buffers EXCEPT ![g] = 0] /\ queued' = [queued EXCEPT ![g] = 0]
      BY <1>1 DEF Read
    <3>4. buffered[g] + queued[g] \in Nat
      BY <3>1
    <3> QED BY <3>1, <3>2, <3>3, <3>4
  <2>2. TypeOK'
    BY <1>1, <2>1 DEF Read, Render, TypeOK
  <2>3. NothingLost'
    BY <1>1 DEF Read, Render, TypeOK, NothingLost
  <2> QED BY <2>2, <2>3
<1>2. CASE ReadEnds(g)
  BY <1>2 DEF ReadEnds, Render, RenderGoto, TypeOK, NothingLost, RenderLabels
<1>3. CASE Lock(g)
  BY <1>3 DEF Lock, Render, RenderGoto, TypeOK, NothingLost, RenderLabels
<1>4. CASE Decode(g)
  <2>1. decoded[g] + 1 \in 1 .. Len(Requests[g])
    BY <1>4, DecodeInRange
  <2>2. After(Requests[g][decoded[g] + 1]) \in RenderLabels
    BY <2>1, RequestKinds DEF RenderLabels
  <2>3. render' \in [Guests -> RenderLabels]
    BY <1>4, <2>2 DEF Decode, TypeOK
  <2>4. buffered' \in [Guests -> Nat] /\ decoded' \in [Guests -> Nat]
    BY <1>4 DEF Decode, TypeOK
  <2>5. TypeOK'
    BY <1>4, <2>3, <2>4 DEF Decode, Render, TypeOK
  <2>6. NothingLost'
    BY <1>4 DEF Decode, Render, TypeOK, NothingLost
  <2> QED BY <2>5, <2>6
<1>5. CASE Reply(g)
  <2>1. out_queue' \in [Guests -> Nat]
    <3>1. out_queue \in [Guests -> Nat]
      BY DEF TypeOK
    <3>2. out_queue' = out_queue \/ out_queue' = [out_queue EXCEPT ![g] = @ + 1]
      BY <1>5 DEF Reply
    <3> QED BY <3>1, <3>2
  <2>2. render' \in [Guests -> RenderLabels]
    BY <1>5 DEF Reply, RenderGoto, TypeOK, RenderLabels
  <2>3. TypeOK'
    BY <1>5, <2>1, <2>2 DEF Reply, Render, TypeOK
  <2>4. NothingLost'
    BY <1>5 DEF Reply, Render, NothingLost
  <2> QED BY <2>3, <2>4
<1>6. CASE Frame(g)
  BY <1>6 DEF Frame, Render, RenderGoto, TypeOK, NothingLost, RenderLabels
<1>7. CASE EndPass(g)
  BY <1>7 DEF EndPass, Render, RenderGoto, AfterPass, TypeOK, NothingLost, RenderLabels
<1> QED BY <1>1, <1>2, <1>3, <1>4, <1>5, <1>6, <1>7 DEF Render

\* The job that a worker's step leaves it with.
LEMMA NextJob ==
  ASSUME TypeOK, NEW w \in Workers, NEW g \in Guests, NEW from, NEW to \in WorkerLabels,
         \/ Starts(w, g, to) \/ Goto(w, g, from, to) \/ Ends(w, g, from)
  PROVE  job' \in [Workers -> {Idle} \cup (WorkerLabels \X Guests)]
<1>1. <<to, g>> \in {Idle} \cup (WorkerLabels \X Guests)
  OBVIOUS
<1>2. \/ job' = [job EXCEPT ![w] = <<to, g>>]
      \/ job' = [job EXCEPT ![w] = Idle]
  BY DEF Starts, Goto, Ends, Becomes
<1>3. job \in [Workers -> {Idle} \cup (WorkerLabels \X Guests)]
  BY DEF TypeOK
<1> QED BY <1>1, <1>2, <1>3

LEMMA WorkKeepsData ==
  ASSUME DataInv, NEW w \in Workers, Work(w)
  PROVE  DataInv'
<1> USE DEF DataInv, guestVars
<1> PICK g \in Guests :
      \/ Accept(w, g) \/ Identify(w, g) \/ Add(w, g) \/ Arm(w, g) \/ Return(w, g)
      \/ Receive(w, g) \/ PostData(w, g) \/ ReadFails(w, g) \/ Remove(w, g)
      \/ Stop(w, g) \/ Wait(w, g) \/ Join(w, g)
  BY DEF Work
<1>1. UNCHANGED <<guest, sent, awaiting, buffered, decoded, global_lock, out_queue>>
  BY DEF Work
<1>2. CASE Accept(w, g)
  BY <1>1, <1>2, NextJob DEF Accept, connVars, queueVars, TypeOK, NothingLost, WorkerLabels
<1>3. CASE Identify(w, g)
  <2>1. /\ job' \in [Workers -> {Idle} \cup (WorkerLabels \X Guests)]
        /\ render' \in [Guests -> RenderLabels] /\ write' \in [Guests -> WriteLabels]
    BY <1>3, NextJob DEF Identify, TypeOK, WorkerLabels, RenderLabels, WriteLabels
  <2>2. TypeOK'
    BY <1>1, <1>3, <2>1 DEF Identify, connVars, queueVars, TypeOK
  <2>3. NothingLost'
    BY <1>1, <1>3 DEF Identify, queueVars, NothingLost
  <2> QED BY <2>2, <2>3
<1>4. CASE Add(w, g)
  BY <1>1, <1>4, NextJob
  DEF Add, Added, queueVars, TypeOK, NothingLost, WorkerLabels
<1>5. CASE Arm(w, g)
  BY <1>1, <1>5, NextJob DEF Arm, queueVars, TypeOK, NothingLost, WorkerLabels
<1>6. CASE Return(w, g)
  BY <1>1, <1>6, NextJob DEF Return, connVars, queueVars, TypeOK, NothingLost, WorkerLabels
<1>7. CASE Receive(w, g)
  BY <1>1, <1>7, NextJob DEF Receive, queueVars, TypeOK, NothingLost, WorkerLabels
<1>8. CASE PostData(w, g)
  <2>1. PICK n \in 1 .. sent[g] - posted[g] :
          /\ posted' = [posted EXCEPT ![g] = @ + n]
          /\ queued' = [queued EXCEPT ![g] = @ + n]
    BY <1>8 DEF PostData
  <2>2. sent[g] \in Nat /\ posted[g] \in Nat /\ n \in Nat
    BY DEF TypeOK
  <2>3. /\ posted' \in [Guests -> Nat] /\ queued' \in [Guests -> Nat]
        /\ buffers' \in [Guests -> Nat] /\ reading' \subseteq Guests
    <3>1. posted' \in [Guests -> Nat] /\ queued' \in [Guests -> Nat]
      <4>1. posted \in [Guests -> Nat] /\ queued \in [Guests -> Nat]
        BY DEF TypeOK
      <4>2. posted[g] + n \in Nat /\ queued[g] + n \in Nat
        BY <2>2, <4>1
      <4> QED BY <2>1, <4>1, <4>2
    <3>2. buffers' \in [Guests -> Nat]
      <4>1. buffers' = [buffers EXCEPT ![g] = @ + 1]
        BY <1>8 DEF PostData
      <4>2. buffers \in [Guests -> Nat]
        BY DEF TypeOK
      <4> QED BY <4>1, <4>2
    <3>3. reading' \subseteq Guests
      BY <1>8 DEF PostData, TypeOK
    <3> QED BY <3>1, <3>2, <3>3
  <2>4. job' \in [Workers -> {Idle} \cup (WorkerLabels \X Guests)]
    BY <1>8, NextJob DEF PostData, WorkerLabels
  <2>5. TypeOK'
    BY <1>1, <1>8, <2>3, <2>4 DEF PostData, TypeOK
  <2>6. NothingLost'
    <3>1. \A h \in Guests :
            /\ posted'[h] = IF h = g THEN posted[g] + n ELSE posted[h]
            /\ queued'[h] = IF h = g THEN queued[g] + n ELSE queued[h]
      BY <2>1 DEF TypeOK
    <3>2. \A h \in Guests :
            decoded[h] \in Nat /\ buffered[h] \in Nat /\ queued[h] \in Nat
      BY DEF TypeOK
    <3> QED BY <1>1, <2>2, <3>1, <3>2 DEF NothingLost
  <2> QED BY <2>5, <2>6
<1>9. CASE ReadFails(w, g)
  BY <1>1, <1>9, NextJob DEF ReadFails, queueVars, TypeOK, NothingLost, WorkerLabels
<1>10. CASE Remove(w, g)
  BY <1>1, <1>10, NextJob
  DEF Remove, Removed, queueVars, TypeOK, NothingLost, WorkerLabels
<1>11. CASE Stop(w, g)
  <2>1. write' \in [Guests -> WriteLabels]
    BY <1>11 DEF Stop, Oversleeps, WriteGoto, TypeOK, WriteLabels
  <2>2. job' \in [Workers -> {Idle} \cup (WorkerLabels \X Guests)]
    BY <1>11, NextJob DEF Stop, WorkerLabels
  <2>3. TypeOK'
    BY <1>1, <1>11, <2>1, <2>2 DEF Stop, connVars, queueVars, TypeOK
  <2>4. NothingLost'
    BY <1>1, <1>11 DEF Stop, queueVars, NothingLost
  <2> QED BY <2>3, <2>4
<1>12. CASE Wait(w, g)
  BY <1>1, <1>12, NextJob DEF Wait, connVars, queueVars, TypeOK, NothingLost, WorkerLabels
<1>13. CASE Join(w, g)
  BY <1>1, <1>13, NextJob DEF Join, Released, queueVars, TypeOK, NothingLost, WorkerLabels
<1> QED
  BY <1>2, <1>3, <1>4, <1>5, <1>6, <1>7, <1>8, <1>9, <1>10, <1>11, <1>12, <1>13

LEMMA DataStep == DataInv /\ [Next]_vars => DataInv'
<1> SUFFICES ASSUME DataInv, [Next]_vars PROVE DataInv'
  OBVIOUS
<1>1. CASE UNCHANGED vars
  BY <1>1 DEF vars, guestVars, poolVars, connVars, queueVars, renderVars, DataInv,
              TypeOK, NothingLost
<1>2. CASE System
  BY <1>2, WorkKeepsData, RenderKeepsData, WriteKeepsData, GuestKeepsData DEF System
<1>3. CASE \E g \in Guests :
             GuestConnects(g) \/ GuestSends(g) \/ GuestCloses(g) \/ SendEnds(g)
  BY <1>3, GuestKeepsData
<1> QED BY <1>1, <1>2, <1>3 DEF Next

(***************************************************************************)
(* Every state is of the declared types.                                   *)
(***************************************************************************)
THEOREM TypesCorrect == Spec => []TypeOK
<1>1. DataInv => TypeOK
  BY DEF DataInv
<1> QED BY <1>1, DataInit, DataStep, PTL DEF Spec

-----------------------------------------------------------------------------
(* The jobs of the workers *)

\* What another worker may do for the guest of a job: the acceptor returns beside a read.
Beside(l, m) ==
  \/ l = "return" /\ m \in {"post", "remove"}
  \/ m = "return" /\ l \in {"post", "remove"}

GuestJobs(g) ==
  /\ \A w \in Workers : \A l \in WorkerLabels :
       job[w] = <<l, g>> =>
         /\ g \in accepted
         /\ l \in {"arm", "post", "remove"} => g \in connections
         /\ l \in {"identify", "add", "stop", "wait", "join"} => g \notin connections
         /\ l # "return" => g \notin reading
         /\ \A v \in Workers \ {w} : \A m \in WorkerLabels :
              job[v] = <<m, g>> => Beside(l, m)
  /\ g \in connections => g \in accepted
  /\ g \in reading => g \in connections

JobInv == \A g \in Guests : GuestJobs(g)

LEMMA JobInit == Init => JobInv
<1> SUFFICES ASSUME Init, NEW g \in Guests PROVE GuestJobs(g)
  BY DEF JobInv
<1>1. \A w \in Workers : job[w] = Idle
  BY DEF Init
<1>2. \A l \in WorkerLabels : <<l, g>> # Idle
  BY DEF WorkerLabels, Idle
<1> QED BY <1>1, <1>2 DEF Init, GuestJobs, Cleared

\* A step of one worker: the job it leaves, the job it gets, and the others'.
LEMMA JobMoves ==
  ASSUME TypeOK, NEW w \in Workers, NEW g \in Guests,
         NEW from \in WorkerLabels, NEW to \in WorkerLabels
  PROVE  /\ Starts(w, g, to) => job[w] = Idle /\ job'[w] = <<to, g>>
         /\ Goto(w, g, from, to) => job[w] = <<from, g>> /\ job'[w] = <<to, g>>
         /\ Ends(w, g, from) => job[w] = <<from, g>> /\ job'[w] = Idle
         /\ Starts(w, g, to) \/ Goto(w, g, from, to) \/ Ends(w, g, from)
              => \A v \in Workers \ {w} : job'[v] = job[v]
<1>1. job \in [Workers -> {Idle} \cup (WorkerLabels \X Guests)]
  BY DEF TypeOK
<1> QED BY <1>1 DEF Starts, Goto, Ends, Becomes

\* It does not touch what holds of the other guests.
LEMMA OtherGuests ==
  ASSUME NEW w \in Workers, NEW g \in Guests, NEW h \in Guests, h # g, GuestJobs(h),
         job[w] = Idle \/ \E l \in WorkerLabels : job[w] = <<l, g>>,
         job'[w] = Idle \/ \E l \in WorkerLabels : job'[w] = <<l, g>>,
         \A v \in Workers \ {w} : job'[v] = job[v],
         h \in accepted' <=> h \in accepted,
         h \in connections' <=> h \in connections,
         h \in reading' <=> h \in reading
  PROVE  GuestJobs(h)'
<1>1. \A l \in WorkerLabels : <<l, h>> # Idle
  BY DEF WorkerLabels, Idle
<1>2. \A l \in WorkerLabels : job[w] # <<l, h>> /\ job'[w] # <<l, h>>
  BY <1>1
<1>3. \A v \in Workers : \A l \in WorkerLabels :
        job'[v] = <<l, h>> <=> job[v] = <<l, h>>
  BY <1>2
<1> QED BY <1>3 DEF GuestJobs

LEMMA JobStep == DataInv /\ JobInv /\ [Next]_vars => JobInv'
<1> SUFFICES ASSUME DataInv, JobInv, [Next]_vars PROVE JobInv'
  OBVIOUS
<1>1. ASSUME UNCHANGED <<accepted, job, connections, reading>> PROVE JobInv'
  BY <1>1 DEF JobInv, GuestJobs
<1>2. ASSUME NEW w \in Workers, Work(w) PROVE JobInv'
  <2> PICK g \in Guests :
        \/ Accept(w, g) \/ Identify(w, g) \/ Add(w, g) \/ Arm(w, g) \/ Return(w, g)
        \/ Receive(w, g) \/ PostData(w, g) \/ ReadFails(w, g) \/ Remove(w, g)
        \/ Stop(w, g) \/ Wait(w, g) \/ Join(w, g)
    BY <1>2 DEF Work
  <2>1. TypeOK /\ GuestJobs(g)
    BY DEF DataInv, JobInv
  <2>2. \A l \in WorkerLabels : <<l, g>> # Idle
    BY DEF WorkerLabels, Idle
  <2> DEFINE Moved ==
        /\ job[w] = Idle \/ \E l \in WorkerLabels : job[w] = <<l, g>>
        /\ job'[w] = Idle \/ \E l \in WorkerLabels : job'[w] = <<l, g>>
        /\ \A v \in Workers \ {w} : job'[v] = job[v]
        /\ \A h \in Guests \ {g} :
             /\ h \in accepted' <=> h \in accepted
             /\ h \in connections' <=> h \in connections
             /\ h \in reading' <=> h \in reading
  <2> SUFFICES Moved /\ GuestJobs(g)'
    BY OtherGuests DEF JobInv
  <2>3. CASE Accept(w, g)
    <3>1. /\ job[w] = Idle /\ job'[w] = <<"identify", g>>
          /\ \A v \in Workers \ {w} : job'[v] = job[v]
      BY <2>1, <2>3, JobMoves DEF Accept, WorkerLabels
    <3>2. /\ g \notin accepted /\ accepted' = accepted \cup {g}
          /\ UNCHANGED <<connections, reading>>
      BY <2>3 DEF Accept, connVars
    <3>3. Moved
      BY <3>1, <3>2 DEF WorkerLabels
    <3>4. GuestJobs(g)'
      BY <2>1, <2>2, <3>1, <3>2 DEF GuestJobs, WorkerLabels, Beside
    <3> QED BY <3>3, <3>4
  <2>4. CASE Identify(w, g)
    <3>1. /\ job[w] = <<"identify", g>> /\ job'[w] = <<"add", g>>
          /\ \A v \in Workers \ {w} : job'[v] = job[v]
      BY <2>1, <2>4, JobMoves DEF Identify, WorkerLabels
    <3>2. UNCHANGED <<accepted, connections, reading>>
      BY <2>4 DEF Identify, connVars
    <3>3. Moved
      BY <3>1, <3>2 DEF WorkerLabels
    <3>4. GuestJobs(g)'
      <4>1. /\ g \in accepted /\ g \notin connections \cup reading
            /\ \A v \in Workers \ {w} : \A m \in WorkerLabels : job[v] # <<m, g>>
        BY <2>1, <3>1 DEF GuestJobs, WorkerLabels, Beside
      <4>2. /\ \A v \in Workers \ {w} : \A m \in WorkerLabels : job'[v] # <<m, g>>
            /\ \A l \in WorkerLabels : job'[w] = <<l, g>> => l = "add"
        BY <3>1, <4>1
      <4> QED BY <3>2, <4>1, <4>2 DEF GuestJobs
    <3> QED BY <3>3, <3>4
  <2>5. CASE Add(w, g)
    <3>1. /\ job[w] = <<"add", g>> /\ job'[w] = <<"arm", g>>
          /\ \A v \in Workers \ {w} : job'[v] = job[v]
      BY <2>1, <2>5, JobMoves DEF Add, WorkerLabels
    <3>2. connections' = connections \cup {g} /\ UNCHANGED <<accepted, reading>>
      BY <2>5 DEF Add, Added
    <3>3. Moved
      BY <3>1, <3>2 DEF WorkerLabels
    <3>4. GuestJobs(g)'
      BY <2>1, <2>2, <3>1, <3>2 DEF GuestJobs, WorkerLabels, Beside
    <3> QED BY <3>3, <3>4
  <2>6. CASE Arm(w, g)
    <3>1. /\ job[w] = <<"arm", g>> /\ job'[w] = <<"return", g>>
          /\ \A v \in Workers \ {w} : job'[v] = job[v]
      BY <2>1, <2>6, JobMoves DEF Arm, WorkerLabels
    <3>2. reading' = reading \cup {g} /\ UNCHANGED <<accepted, connections>>
      BY <2>6 DEF Arm, connVars
    <3>3. Moved
      BY <3>1, <3>2 DEF WorkerLabels
    <3>4. GuestJobs(g)'
      BY <2>1, <2>2, <3>1, <3>2 DEF GuestJobs, WorkerLabels, Beside
    <3> QED BY <3>3, <3>4
  <2>7. CASE Return(w, g)
    <3>1. /\ job[w] = <<"return", g>>
          /\ \/ g \in connections /\ job'[w] = Idle
             \/ g \notin connections /\ job'[w] = <<"stop", g>>
          /\ \A v \in Workers \ {w} : job'[v] = job[v]
      BY <2>1, <2>7, JobMoves DEF Return, WorkerLabels
    <3>2. UNCHANGED <<accepted, connections, reading>>
      BY <2>7 DEF Return, connVars
    <3>3. Moved
      BY <3>1, <3>2 DEF WorkerLabels
    <3>4. GuestJobs(g)'
      <4>1. /\ g \in accepted /\ (g \in reading => g \in connections)
            /\ \A v \in Workers \ {w} : \A m \in WorkerLabels :
                 job[v] = <<m, g>> => m \in {"post", "remove"} /\ g \in connections
        BY <2>1, <3>1 DEF GuestJobs, WorkerLabels, Beside
      <4>2. CASE g \in connections /\ job'[w] = Idle
        BY <2>1, <2>2, <3>1, <3>2, <4>1, <4>2 DEF GuestJobs
      <4>3. CASE g \notin connections /\ job'[w] = <<"stop", g>>
        <5>1. \A v \in Workers \ {w} : \A m \in WorkerLabels : job'[v] # <<m, g>>
          BY <3>1, <4>1, <4>3
        <5>2. \A l \in WorkerLabels : job'[w] = <<l, g>> => l = "stop"
          BY <4>3
        <5> QED BY <3>2, <4>1, <4>3, <5>1, <5>2 DEF GuestJobs
      <4> QED BY <3>1, <4>2, <4>3
    <3> QED BY <3>3, <3>4
  <2>8. CASE Receive(w, g)
    <3>1. /\ job[w] = Idle /\ job'[w] = <<"post", g>>
          /\ \A v \in Workers \ {w} : job'[v] = job[v]
      BY <2>1, <2>8, JobMoves DEF Receive, WorkerLabels
    <3>2. g \in reading /\ reading' = reading \ {g} /\ UNCHANGED <<accepted, connections>>
      BY <2>8 DEF Receive, connVars
    <3>3. Moved
      BY <3>1, <3>2 DEF WorkerLabels
    <3>4. GuestJobs(g)'
      <4>1. /\ g \in connections /\ g \in accepted
            /\ \A v \in Workers : \A m \in WorkerLabels :
                 job[v] = <<m, g>> => m = "return"
        BY <2>1, <3>2 DEF GuestJobs
      <4>2. /\ \A m \in WorkerLabels : job'[w] = <<m, g>> => m = "post"
            /\ \A v \in Workers \ {w} : \A m \in WorkerLabels :
                 job'[v] = <<m, g>> => m = "return"
        BY <3>1, <4>1
      <4>3. \A v, u \in Workers : \A m \in WorkerLabels :
              v # u /\ job[v] = <<"return", g>> => job[u] # <<m, g>>
        BY <2>1, <4>1 DEF GuestJobs, WorkerLabels, Beside
      <4>4. \A v \in Workers : \A l \in WorkerLabels : job'[v] = <<l, g>> =>
              /\ l = "return" \/ (v = w /\ l = "post")
              /\ \A u \in Workers \ {v} : \A m \in WorkerLabels :
                   job'[u] = <<m, g>> => Beside(l, m)
        BY <3>1, <4>2, <4>3 DEF Beside
      <4> QED BY <3>2, <4>1, <4>4 DEF GuestJobs
    <3> QED BY <3>3, <3>4
  <2>9. CASE PostData(w, g)
    <3>1. /\ job[w] = <<"post", g>> /\ job'[w] = Idle
          /\ \A v \in Workers \ {w} : job'[v] = job[v]
      BY <2>1, <2>9, JobMoves DEF PostData, WorkerLabels
    <3>2. reading' = reading \cup {g} /\ UNCHANGED <<accepted, connections>>
      BY <2>9 DEF PostData, connVars
    <3>3. Moved
      BY <3>1, <3>2 DEF WorkerLabels
    <3>4. GuestJobs(g)'
      <4>1. /\ g \in connections /\ g \in accepted
            /\ \A v \in Workers \ {w} : \A m \in WorkerLabels :
                 job[v] = <<m, g>> => m = "return"
        BY <2>1, <3>1 DEF GuestJobs, WorkerLabels, Beside
      <4>2. \A m \in WorkerLabels : job'[w] # <<m, g>>
        BY <2>2, <3>1
      <4>3. \A v, u \in Workers : \A m \in WorkerLabels :
              v # u /\ u # w /\ job[v] = <<"return", g>> => job[u] # <<m, g>>
        BY <2>1, <4>1 DEF GuestJobs, WorkerLabels, Beside
      <4>4. \A v \in Workers : \A l \in WorkerLabels : job'[v] = <<l, g>> =>
              /\ l = "return"
              /\ \A u \in Workers \ {v} : \A m \in WorkerLabels : job'[u] # <<m, g>>
        BY <3>1, <4>1, <4>2, <4>3
      <4> QED BY <3>2, <4>1, <4>4 DEF GuestJobs
    <3> QED BY <3>3, <3>4
  <2>10. CASE ReadFails(w, g)
    <3>1. /\ job[w] = Idle /\ job'[w] = <<"remove", g>>
          /\ \A v \in Workers \ {w} : job'[v] = job[v]
      BY <2>1, <2>10, JobMoves DEF ReadFails, WorkerLabels
    <3>2. g \in reading /\ reading' = reading \ {g} /\ UNCHANGED <<accepted, connections>>
      BY <2>10 DEF ReadFails, connVars
    <3>3. Moved
      BY <3>1, <3>2 DEF WorkerLabels
    <3>4. GuestJobs(g)'
      <4>1. /\ g \in connections /\ g \in accepted
            /\ \A v \in Workers : \A m \in WorkerLabels :
                 job[v] = <<m, g>> => m = "return"
        BY <2>1, <3>2 DEF GuestJobs
      <4>2. /\ \A m \in WorkerLabels : job'[w] = <<m, g>> => m = "remove"
            /\ \A v \in Workers \ {w} : \A m \in WorkerLabels :
                 job'[v] = <<m, g>> => m = "return"
        BY <3>1, <4>1
      <4>3. \A v, u \in Workers : \A m \in WorkerLabels :
              v # u /\ job[v] = <<"return", g>> => job[u] # <<m, g>>
        BY <2>1, <4>1 DEF GuestJobs, WorkerLabels, Beside
      <4>4. \A v \in Workers : \A l \in WorkerLabels : job'[v] = <<l, g>> =>
              /\ l = "return" \/ (v = w /\ l = "remove")
              /\ \A u \in Workers \ {v} : \A m \in WorkerLabels :
                   job'[u] = <<m, g>> => Beside(l, m)
        BY <3>1, <4>2, <4>3 DEF Beside
      <4> QED BY <3>2, <4>1, <4>4 DEF GuestJobs
    <3> QED BY <3>3, <3>4
  <2>11. CASE Remove(w, g)
    <3>1. /\ job[w] = <<"remove", g>>
          /\ \/ job'[w] = Idle
             \/ /\ \A v \in Workers : job[v] # <<"return", g>>
                /\ job'[w] = <<"stop", g>>
          /\ \A v \in Workers \ {w} : job'[v] = job[v]
      BY <2>1, <2>11, JobMoves DEF Remove, Held, WorkerLabels
    <3>2. connections' = connections \ {g} /\ UNCHANGED <<accepted, reading>>
      BY <2>11 DEF Remove, Removed
    <3>3. Moved
      BY <3>1, <3>2 DEF WorkerLabels
    <3>4. GuestJobs(g)'
      <4>1. /\ g \in accepted /\ g \notin reading
            /\ \A v \in Workers \ {w} : \A m \in WorkerLabels :
                 job[v] = <<m, g>> => m = "return"
        BY <2>1, <3>1 DEF GuestJobs, WorkerLabels, Beside
      <4>2. \A v \in Workers \ {w} : \A m \in WorkerLabels :
              job'[v] = <<m, g>> => m = "return" /\ job[v] = <<"return", g>>
        BY <3>1, <4>1
      <4>3. CASE job'[w] = Idle
        <5>1. \A l \in WorkerLabels : job'[w] # <<l, g>>
          BY <2>2, <4>3
        <5>2. \A v \in Workers \ {w} : \A u \in Workers \ {v} : \A m \in WorkerLabels :
                job[v] = <<"return", g>> /\ u # w => job[u] # <<m, g>>
          BY <2>1, <4>1 DEF GuestJobs, WorkerLabels, Beside
        <5>3. \A v \in Workers \ {w} : \A u \in Workers \ {v} : \A m \in WorkerLabels :
                job'[v] = <<"return", g>> => job'[u] # <<m, g>>
          BY <3>1, <5>1, <5>2, <4>2
        <5> QED BY <3>2, <4>1, <4>2, <5>1, <5>3 DEF GuestJobs
      <4>4. CASE /\ \A v \in Workers : job[v] # <<"return", g>>
                 /\ job'[w] = <<"stop", g>>
        <5>1. /\ \A v \in Workers \ {w} : \A m \in WorkerLabels : job'[v] # <<m, g>>
              /\ \A l \in WorkerLabels : job'[w] = <<l, g>> => l = "stop"
          BY <4>2, <4>4
        <5> QED BY <3>2, <4>1, <5>1 DEF GuestJobs
      <4> QED BY <3>1, <4>3, <4>4
    <3> QED BY <3>3, <3>4
  <2>12. CASE Stop(w, g)
    <3>1. /\ job[w] = <<"stop", g>> /\ job'[w] = <<"wait", g>>
          /\ \A v \in Workers \ {w} : job'[v] = job[v]
      BY <2>1, <2>12, JobMoves DEF Stop, WorkerLabels
    <3>2. UNCHANGED <<accepted, connections, reading>>
      BY <2>12 DEF Stop, connVars
    <3>3. Moved
      BY <3>1, <3>2 DEF WorkerLabels
    <3>4. GuestJobs(g)'
      <4>1. /\ g \in accepted /\ g \notin connections \cup reading
            /\ \A v \in Workers \ {w} : \A m \in WorkerLabels : job[v] # <<m, g>>
        BY <2>1, <3>1 DEF GuestJobs, WorkerLabels, Beside
      <4>2. /\ \A v \in Workers \ {w} : \A m \in WorkerLabels : job'[v] # <<m, g>>
            /\ \A l \in WorkerLabels : job'[w] = <<l, g>> => l = "wait"
        BY <3>1, <4>1
      <4> QED BY <3>2, <4>1, <4>2 DEF GuestJobs
    <3> QED BY <3>3, <3>4
  <2>13. CASE Wait(w, g)
    <3>1. /\ job[w] = <<"wait", g>> /\ job'[w] = <<"join", g>>
          /\ \A v \in Workers \ {w} : job'[v] = job[v]
      BY <2>1, <2>13, JobMoves DEF Wait, WorkerLabels
    <3>2. UNCHANGED <<accepted, connections, reading>>
      BY <2>13 DEF Wait, connVars
    <3>3. Moved
      BY <3>1, <3>2 DEF WorkerLabels
    <3>4. GuestJobs(g)'
      <4>1. /\ g \in accepted /\ g \notin connections \cup reading
            /\ \A v \in Workers \ {w} : \A m \in WorkerLabels : job[v] # <<m, g>>
        BY <2>1, <3>1 DEF GuestJobs, WorkerLabels, Beside
      <4>2. /\ \A v \in Workers \ {w} : \A m \in WorkerLabels : job'[v] # <<m, g>>
            /\ \A l \in WorkerLabels : job'[w] = <<l, g>> => l = "join"
        BY <3>1, <4>1
      <4> QED BY <3>2, <4>1, <4>2 DEF GuestJobs
    <3> QED BY <3>3, <3>4
  <2>14. CASE Join(w, g)
    <3>1. /\ job[w] = <<"join", g>> /\ job'[w] = Idle
          /\ \A v \in Workers \ {w} : job'[v] = job[v]
      BY <2>1, <2>14, JobMoves DEF Join, WorkerLabels
    <3>2. UNCHANGED <<accepted, connections, reading>>
      BY <2>14 DEF Join, connVars
    <3>3. Moved
      BY <3>1, <3>2 DEF WorkerLabels
    <3>4. GuestJobs(g)'
      <4>1. /\ g \in accepted /\ g \notin connections \cup reading
            /\ \A v \in Workers \ {w} : \A m \in WorkerLabels : job[v] # <<m, g>>
        BY <2>1, <3>1 DEF GuestJobs, WorkerLabels, Beside
      <4>2. \A v \in Workers : \A m \in WorkerLabels : job'[v] # <<m, g>>
        BY <2>2, <3>1, <4>1
      <4> QED BY <3>2, <4>1, <4>2 DEF GuestJobs
    <3> QED BY <3>3, <3>4
  <2> QED
    BY <2>3, <2>4, <2>5, <2>6, <2>7, <2>8, <2>9, <2>10, <2>11, <2>12, <2>13, <2>14
<1>3. ASSUME NEW g \in Guests, Render(g) \/ Write(g) PROVE JobInv'
  BY <1>1, <1>3 DEF Render, Write, poolVars, connVars
<1>4. ASSUME NEW g \in Guests,
             \/ GuestConnects(g) \/ GuestNames(g) \/ GuestCloses(g) \/ GuestSends(g)
             \/ SendEnds(g)
      PROVE  JobInv'
  BY <1>1, <1>4 DEF GuestConnects, GuestNames, GuestCloses, GuestBecomes, GuestSends,
                    SendEnds, HostUnchanged, poolVars, connVars
<1>5. CASE UNCHANGED vars
  BY <1>1, <1>5 DEF vars, poolVars, connVars
<1> QED BY <1>2, <1>3, <1>4, <1>5 DEF Next, System

(***************************************************************************)
(* Nobody uses a connection while its destructor runs.                     *)
(***************************************************************************)
THEOREM DestructionIsAlone == Spec => []NobodyUsesDestroyed
<1>1. JobInv => NobodyUsesDestroyed
  <2> SUFFICES ASSUME JobInv, NEW w \in Workers, NEW g \in Guests, Destroys(w, g)
               PROVE  /\ g \notin connections \cup reading
                      /\ \A v \in Workers \ {w} : \A l \in WorkerLabels : job[v] # <<l, g>>
    BY DEF NobodyUsesDestroyed
  <2>1. PICK l \in {"stop", "wait", "join"} : job[w] = <<l, g>>
    BY DEF Destroys
  <2> QED BY <2>1 DEF JobInv, GuestJobs, WorkerLabels, Beside
<1> QED BY <1>1, DataInit, JobInit, DataStep, JobStep, PTL DEF Spec

-----------------------------------------------------------------------------
(* The mutex and the answers *)

HoldsLabels == {"decode", "decoded", "reply", "frame"}

\* The mutex is held exactly inside a decode.
MutexInv == \A g \in Guests : global_lock = g <=> render[g] \in HoldsLabels

\* A guest whose name has not been read has no render thread.
NewInv ==
  \A g \in Guests :
    (g \notin accepted \/ \E w \in Workers : job[w] = <<"identify", g>>)
      => render[g] = "none"

\* An answer that has not been sent.
Pending(g) == write[g] = "send" \/ out_queue[g] > 0 \/ render[g] = "reply"

(***************************************************************************)
(* A call that has not been decoded is the last request, and its guest     *)
(* waits for it.  An answer that has not been sent answers the last        *)
(* request, the guest waits for it or has closed, and it is the only one.  *)
(***************************************************************************)
AnswerOf(g) ==
  /\ \A k \in decoded[g] + 1 .. sent[g] :
       Requests[g][k] = "call" => k = sent[g] /\ awaiting[g]
  /\ Pending(g) => decoded[g] = sent[g] /\ (awaiting[g] \/ guest[g] = "closed")
  /\ out_queue[g] <= 1
  /\ render[g] = "reply" => write[g] # "send" /\ out_queue[g] = 0
  /\ write[g] = "send" => out_queue[g] = 0

AnswerInv == \A g \in Guests : AnswerOf(g)

LEMMA MutexInit == Init => MutexInv /\ NewInv
<1> SUFFICES ASSUME Init PROVE MutexInv /\ NewInv
  OBVIOUS
<1>1. \A g \in Guests : render[g] = "none" /\ global_lock # g
  BY RenderAssumption DEF Init
<1> QED BY <1>1 DEF MutexInv, NewInv, HoldsLabels

LEMMA MutexStep ==
  DataInv /\ JobInv /\ MutexInv /\ NewInv /\ [Next]_vars => MutexInv' /\ NewInv'
<1> SUFFICES ASSUME DataInv, JobInv, MutexInv, NewInv, [Next]_vars
             PROVE  MutexInv' /\ NewInv'
  OBVIOUS
<1> USE DEF HoldsLabels
<1>1. ASSUME UNCHANGED <<accepted, job, render, global_lock>>
      PROVE  MutexInv' /\ NewInv'
  BY <1>1 DEF MutexInv, NewInv
<1>2. ASSUME NEW g \in Guests, Render(g)
      PROVE  MutexInv' /\ NewInv'
  <2>1. /\ render \in [Guests -> RenderLabels]
        /\ UNCHANGED <<accepted, job>>
    BY <1>2 DEF DataInv, TypeOK, Render, poolVars
  <2>2. /\ render[g] # "none"
        /\ \A h \in Guests \ {g} : render'[h] = render[h]
    BY <1>2, <2>1 DEF Render, Read, ReadEnds, Lock, Decode, Reply, Frame, EndPass,
                      RenderGoto
  <2>3. NewInv'
    BY <2>1, <2>2 DEF NewInv
  <2>4. CASE Read(g) \/ ReadEnds(g) \/ Reply(g) \/ Frame(g)
    <3>1. /\ render[g] \in HoldsLabels <=> render'[g] \in HoldsLabels
          /\ UNCHANGED global_lock
      <4>1. CASE Read(g)
        BY <2>1, <4>1 DEF Read, RenderGoto
      <4>2. CASE ReadEnds(g)
        BY <2>1, <4>2 DEF ReadEnds, RenderGoto
      <4>3. CASE Reply(g)
        BY <2>1, <4>3 DEF Reply, RenderGoto
      <4>4. CASE Frame(g)
        BY <2>1, <4>4 DEF Frame, RenderGoto
      <4> QED BY <2>4, <4>1, <4>2, <4>3, <4>4
    <3> QED BY <2>2, <2>3, <3>1 DEF MutexInv
  <2>5. CASE Lock(g)
    <3>1. global_lock = NoOne /\ global_lock' = g /\ render'[g] = "decode"
      BY <2>1, <2>5 DEF Lock, RenderGoto
    <3>2. \A h \in Guests : global_lock # h
      BY <3>1, RenderAssumption
    <3> QED BY <2>2, <2>3, <3>1, <3>2 DEF MutexInv
  <2>6. CASE Decode(g)
    <3>1. decoded[g] + 1 \in 1 .. Len(Requests[g])
      BY <2>6, DecodeInRange
    <3>2. render'[g] \in HoldsLabels
      BY <2>1, <2>6, <3>1, RequestKinds DEF Decode
    <3> QED BY <2>1, <2>2, <2>3, <2>6, <3>2 DEF Decode, MutexInv
  <2>7. CASE EndPass(g)
    <3>1. /\ global_lock' = NoOne
          /\ render[g] \in {"decode", "decoded"} /\ render'[g] \in {"lock", "read"}
      BY <2>1, <2>7 DEF EndPass, RenderGoto, AfterPass
    <3>2. global_lock = g
      BY <3>1 DEF MutexInv
    <3>3. \A h \in Guests : global_lock' # h
      BY <3>1, RenderAssumption
    <3> QED BY <2>2, <2>3, <3>1, <3>2, <3>3 DEF MutexInv
  <2> QED BY <1>2, <2>3, <2>4, <2>5, <2>6, <2>7 DEF Render
<1>3. ASSUME NEW w \in Workers, Work(w)
      PROVE  MutexInv' /\ NewInv'
  <2>1. UNCHANGED global_lock /\ TypeOK
    BY <1>3 DEF Work, DataInv
  <2> PICK g \in Guests :
        \/ Accept(w, g) \/ Identify(w, g) \/ Add(w, g) \/ Arm(w, g) \/ Return(w, g)
        \/ Receive(w, g) \/ PostData(w, g) \/ ReadFails(w, g) \/ Remove(w, g)
        \/ Stop(w, g) \/ Wait(w, g) \/ Join(w, g)
    BY <1>3 DEF Work
  <2>2. CASE Accept(w, g)
    <3>1. UNCHANGED render /\ g \notin accepted /\ accepted \subseteq accepted'
      BY <2>2 DEF Accept
    <3>2. \A v \in Workers : job'[v] = job[v] \/ job'[v] = <<"identify", g>>
      BY <2>1, <2>2, JobMoves DEF Accept, WorkerLabels
    <3> QED BY <2>1, <3>1, <3>2 DEF MutexInv, NewInv
  <2>3. CASE Identify(w, g)
    <3>1. /\ job[w] = <<"identify", g>> /\ job'[w] = <<"add", g>>
          /\ \A v \in Workers \ {w} : job'[v] = job[v]
      BY <2>1, <2>3, JobMoves DEF Identify, WorkerLabels
    <3>2. /\ g \in accepted /\ UNCHANGED accepted
          /\ \A v \in Workers \ {w} : job[v] # <<"identify", g>>
      BY <2>3, <3>1 DEF Identify, JobInv, GuestJobs, Beside, WorkerLabels
    <3>3. /\ render[g] = "none" /\ render'[g] = "read"
          /\ \A h \in Guests \ {g} : render'[h] = render[h]
      BY <2>1, <2>3, <3>1 DEF Identify, NewInv, TypeOK
    <3>4. NewInv'
      BY <3>1, <3>2, <3>3 DEF NewInv
    <3>5. MutexInv'
      BY <2>1, <3>3 DEF MutexInv
    <3> QED BY <3>4, <3>5
  <2>4. CASE \/ Add(w, g) \/ Arm(w, g) \/ Return(w, g) \/ Receive(w, g)
             \/ PostData(w, g) \/ ReadFails(w, g) \/ Remove(w, g)
             \/ Stop(w, g) \/ Wait(w, g) \/ Join(w, g)
    <3>1. UNCHANGED <<render, accepted>>
      BY <2>4 DEF Add, Arm, Return, Receive, PostData, ReadFails, Remove, Stop, Wait, Join
    <3>2. \E to \in WorkerLabels \ {"identify"} :
            /\ job'[w] = Idle \/ job'[w] = <<to, g>>
            /\ \A v \in Workers \ {w} : job'[v] = job[v]
      <4>0. /\ WorkerLabels \ {"identify"} \subseteq WorkerLabels
            /\ \A l \in {"add", "arm", "return", "post", "remove", "stop", "wait", "join"} :
                 l \in WorkerLabels \ {"identify"}
        BY DEF WorkerLabels
      <4>1. CASE Add(w, g)
        BY <2>1, <4>1, <4>0, JobMoves DEF Add
      <4>2. CASE Arm(w, g)
        BY <2>1, <4>2, <4>0, JobMoves DEF Arm
      <4>3. CASE Return(w, g)
        BY <2>1, <4>3, <4>0, JobMoves DEF Return
      <4>4. CASE Receive(w, g)
        BY <2>1, <4>4, <4>0, JobMoves DEF Receive
      <4>5. CASE PostData(w, g)
        BY <2>1, <4>5, <4>0, JobMoves DEF PostData
      <4>6. CASE ReadFails(w, g)
        BY <2>1, <4>6, <4>0, JobMoves DEF ReadFails
      <4>7. CASE Remove(w, g)
        BY <2>1, <4>7, <4>0, JobMoves DEF Remove
      <4>8. CASE Stop(w, g)
        BY <2>1, <4>8, <4>0, JobMoves DEF Stop
      <4>9. CASE Wait(w, g)
        BY <2>1, <4>9, <4>0, JobMoves DEF Wait
      <4>10. CASE Join(w, g)
        BY <2>1, <4>10, <4>0, JobMoves DEF Join
      <4> QED
        BY <2>4, <4>1, <4>2, <4>3, <4>4, <4>5, <4>6, <4>7, <4>8, <4>9, <4>10
    <3>3. \A h \in Guests : \A v \in Workers :
            job'[v] = <<"identify", h>> => job[v] = <<"identify", h>>
      BY <3>2 DEF Idle
    <3> QED BY <2>1, <3>1, <3>3 DEF MutexInv, NewInv
  <2> QED BY <2>2, <2>3, <2>4
<1>4. ASSUME NEW g \in Guests,
             \/ GuestConnects(g) \/ GuestNames(g) \/ GuestCloses(g) \/ GuestSends(g)
             \/ SendEnds(g) \/ Write(g)
      PROVE  MutexInv' /\ NewInv'
  BY <1>1, <1>4 DEF GuestConnects, GuestNames, GuestCloses, GuestBecomes, GuestSends,
                    SendEnds, Write, HostUnchanged, poolVars, renderVars
<1>5. CASE UNCHANGED vars
  BY <1>1, <1>5 DEF vars, poolVars, renderVars
<1> QED BY <1>2, <1>3, <1>4, <1>5 DEF Next, System

-----------------------------------------------------------------------------
LEMMA AnswerInit == Init => AnswerInv
  BY DEF Init, AnswerInv, AnswerOf, Pending

LEMMA AnswerOther ==
  ASSUME NEW h \in Guests, AnswerOf(h),
         guest'[h] = guest[h], sent'[h] = sent[h], awaiting'[h] = awaiting[h],
         decoded'[h] = decoded[h], render'[h] = render[h], write'[h] = write[h],
         out_queue'[h] = out_queue[h]
  PROVE  AnswerOf(h)'
  BY DEF AnswerOf, Pending

LEMMA GuestKeepsAnswers ==
  ASSUME DataInv, AnswerInv, NEW g \in Guests,
         \/ GuestConnects(g) \/ GuestNames(g) \/ GuestCloses(g) \/ GuestSends(g)
         \/ SendEnds(g)
  PROVE  AnswerInv'
<1>1. TypeOK /\ AnswerOf(g)
  BY DEF DataInv, AnswerInv
<1>2. CASE GuestConnects(g) \/ GuestNames(g) \/ GuestCloses(g)
  <2>1. /\ UNCHANGED <<sent, awaiting, decoded, render, write, out_queue>>
        /\ guest[g] = "closed" => guest'[g] = "closed"
        /\ \A h \in Guests \ {g} : guest'[h] = guest[h]
    BY <1>1, <1>2 DEF GuestConnects, GuestNames, GuestCloses, GuestBecomes, HostUnchanged,
                      renderVars, TypeOK
  <2>2. AnswerOf(g)'
    BY <1>1, <2>1 DEF AnswerOf, Pending
  <2> QED BY <2>1, <2>2, AnswerOther DEF AnswerInv
<1>3. CASE GuestSends(g)
  <2>1. /\ UNCHANGED <<guest, decoded, render, write, out_queue>>
        /\ guest[g] = "open" /\ ~awaiting[g]
        /\ sent'[g] = sent[g] + 1
        /\ awaiting'[g] = (Requests[g][sent[g] + 1] = "call")
        /\ \A h \in Guests \ {g} : sent'[h] = sent[h] /\ awaiting'[h] = awaiting[h]
    BY <1>1, <1>3 DEF GuestSends, HostUnchanged, renderVars, TypeOK
  <2>2. sent[g] \in Nat /\ decoded[g] \in Nat
    BY <1>1 DEF TypeOK
  <2>3. ~Pending(g)
    BY <1>1, <2>1 DEF AnswerOf
  <2>4. ASSUME NEW k \in decoded[g] + 1 .. sent'[g], Requests[g][k] = "call"
        PROVE  k = sent'[g] /\ awaiting'[g]
    <3>1. CASE k = sent[g] + 1
      BY <2>1, <2>4, <3>1
    <3>2. CASE k # sent[g] + 1
      <4>1. k \in decoded[g] + 1 .. sent[g]
        BY <2>1, <2>2, <3>2
      <4> QED BY <1>1, <2>1, <2>4, <4>1 DEF AnswerOf
    <3> QED BY <3>1, <3>2
  <2>5. AnswerOf(g)'
    BY <1>1, <2>1, <2>3, <2>4 DEF AnswerOf, Pending
  <2> QED BY <2>1, <2>5, AnswerOther DEF AnswerInv
<1>4. CASE SendEnds(g)
  <2>1. /\ UNCHANGED <<guest, sent, decoded, render, out_queue>>
        /\ write[g] = "send" /\ write'[g] = "pop"
        /\ \A h \in Guests \ {g} : write'[h] = write[h] /\ awaiting'[h] = awaiting[h]
    BY <1>1, <1>4 DEF SendEnds, WriteGoto, renderVars, TypeOK
  <2>2. decoded[g] = sent[g] /\ out_queue[g] = 0 /\ render[g] # "reply"
    BY <1>1, <2>1 DEF AnswerOf, Pending
  <2>3. sent[g] \in Nat
    BY <1>1 DEF TypeOK
  <2>4. AnswerOf(g)'
    BY <2>1, <2>2, <2>3 DEF AnswerOf, Pending
  <2> QED BY <2>1, <2>4, AnswerOther DEF AnswerInv
<1> QED BY <1>2, <1>3, <1>4

LEMMA WriteKeepsAnswers ==
  ASSUME DataInv, AnswerInv, NEW g \in Guests, Write(g)
  PROVE  AnswerInv'
<1>1. TypeOK /\ AnswerOf(g)
  BY DEF DataInv, AnswerInv
<1>2. UNCHANGED <<guest, sent, awaiting, decoded, render>>
  BY DEF Write, guestVars, renderVars
<1>3. /\ \/ /\ write[g] = "pop" /\ write'[g] = "send"
           /\ out_queue[g] > 0 /\ out_queue'[g] = out_queue[g] - 1
        \/ /\ write'[g] \in {"pop", "done"} /\ out_queue'[g] = out_queue[g]
      /\ \A h \in Guests \ {g} : write'[h] = write[h] /\ out_queue'[h] = out_queue[h]
  BY <1>1 DEF Write, WritePops, SendFails, WriteEnds, WriteGoto, TypeOK
<1>4. out_queue[g] \in Nat
  BY <1>1 DEF TypeOK
<1>5. AnswerOf(g)'
  BY <1>1, <1>2, <1>3, <1>4 DEF AnswerOf, Pending
<1> QED BY <1>2, <1>3, <1>5, AnswerOther DEF AnswerInv

LEMMA RenderKeepsAnswers ==
  ASSUME DataInv, AnswerInv, NEW g \in Guests, Render(g)
  PROVE  AnswerInv'
<1>1. TypeOK /\ AnswerOf(g)
  BY DEF DataInv, AnswerInv
<1>2. UNCHANGED <<guest, sent, awaiting, write>>
  BY DEF Render, guestVars
<1>3. CASE Decode(g)
  <2>1. /\ decoded[g] + 1 \in 1 .. Len(Requests[g])
        /\ decoded[g] \in Nat /\ sent[g] \in Nat /\ decoded[g] < sent[g]
    BY <1>3, DecodeInRange DEF DataInv
  <2>2. /\ UNCHANGED out_queue
        /\ decoded'[g] = decoded[g] + 1
        /\ render'[g] = After(Requests[g][decoded[g] + 1])
        /\ \A h \in Guests \ {g} : decoded'[h] = decoded[h] /\ render'[h] = render[h]
    BY <1>1, <1>3 DEF Decode, TypeOK
  <2>3. ~Pending(g) /\ out_queue[g] = 0
    <3>1. out_queue[g] \in Nat
      BY <1>1 DEF TypeOK
    <3> QED BY <1>1, <2>1, <3>1 DEF AnswerOf, Pending
  <2>4. render'[g] = "reply" => decoded[g] + 1 = sent[g] /\ awaiting[g]
    <3>1. render'[g] = "reply" => Requests[g][decoded[g] + 1] = "call"
      BY <2>1, <2>2, RequestKinds
    <3>2. decoded[g] + 1 \in decoded[g] + 1 .. sent[g]
      BY <2>1
    <3> QED BY <1>1, <3>1, <3>2 DEF AnswerOf
  <2>5. decoded'[g] + 1 .. sent[g] \subseteq decoded[g] + 1 .. sent[g]
    BY <2>1, <2>2
  <2>6. AnswerOf(g)'
    BY <1>1, <1>2, <2>1, <2>2, <2>3, <2>4, <2>5 DEF AnswerOf, Pending
  <2> QED BY <1>2, <2>2, <2>6, AnswerOther DEF AnswerInv
<1>4. CASE Reply(g)
  <2>1. /\ UNCHANGED decoded /\ render[g] = "reply" /\ render'[g] = "decoded"
        /\ out_queue'[g] \in {out_queue[g], out_queue[g] + 1}
        /\ \A h \in Guests \ {g} : render'[h] = render[h] /\ out_queue'[h] = out_queue[h]
    BY <1>1, <1>4 DEF Reply, RenderGoto, TypeOK
  <2>2. AnswerOf(g)'
    BY <1>1, <1>2, <2>1 DEF AnswerOf, Pending
  <2> QED BY <1>2, <2>1, <2>2, AnswerOther DEF AnswerInv
<1>5. CASE Read(g) \/ ReadEnds(g) \/ Lock(g) \/ Frame(g) \/ EndPass(g)
  <2>1. /\ UNCHANGED <<decoded, out_queue>> /\ render'[g] # "reply"
        /\ \A h \in Guests \ {g} : render'[h] = render[h]
    BY <1>1, <1>5 DEF Read, ReadEnds, Lock, Frame, EndPass, AfterPass, RenderGoto, TypeOK
  <2>2. AnswerOf(g)'
    BY <1>1, <1>2, <2>1 DEF AnswerOf, Pending
  <2> QED BY <1>2, <2>1, <2>2, AnswerOther DEF AnswerInv
<1> QED BY <1>3, <1>4, <1>5 DEF Render
LEMMA AnswerStep ==
  DataInv /\ JobInv /\ NewInv /\ AnswerInv /\ [Next]_vars => AnswerInv'
<1> SUFFICES ASSUME DataInv, JobInv, NewInv, AnswerInv, [Next]_vars PROVE AnswerInv'
  OBVIOUS
<1>1. ASSUME NEW w \in Workers, Work(w) PROVE AnswerInv'
  <2>1. /\ UNCHANGED <<guest, sent, awaiting, decoded, out_queue>>
        /\ \A g \in Guests : out_queue[g] \in Nat
    BY <1>1 DEF Work, guestVars, DataInv, TypeOK
  <2>2. PICK g \in Guests :
          \/ Identify(w, g) \/ Stop(w, g)
          \/ UNCHANGED <<render, write>>
    BY <1>1 DEF Work, Accept, Add, Arm, Return, Receive, PostData, ReadFails, Remove,
                Wait, Join
  <2>3. CASE Identify(w, g)
    <3>1. /\ render'[g] = "read" /\ write'[g] = "pop"
          /\ \A h \in Guests \ {g} : render'[h] = render[h] /\ write'[h] = write[h]
      BY <2>3 DEF Identify, DataInv, TypeOK
    <3>2. AnswerOf(g)'
      BY <2>1, <3>1 DEF AnswerInv, AnswerOf, Pending
    <3> QED BY <2>1, <3>1, <3>2, AnswerOther DEF AnswerInv
  <2>4. CASE Stop(w, g)
    <3>1. /\ UNCHANGED render
          /\ write'[g] \in {write[g], "asleep"}
          /\ \A h \in Guests \ {g} : write'[h] = write[h]
      BY <2>4 DEF Stop, Oversleeps, WriteGoto, DataInv, TypeOK
    <3>2. AnswerOf(g)'
      BY <2>1, <3>1 DEF AnswerInv, AnswerOf, Pending
    <3> QED BY <2>1, <3>1, <3>2, AnswerOther DEF AnswerInv
  <2>5. CASE UNCHANGED <<render, write>>
    BY <2>1, <2>5, AnswerOther DEF AnswerInv
  <2> QED BY <2>2, <2>3, <2>4, <2>5
<1>2. CASE UNCHANGED vars
  BY <1>2, AnswerOther DEF vars, guestVars, renderVars, AnswerInv
<1> QED
  BY <1>1, <1>2, GuestKeepsAnswers, WriteKeepsAnswers, RenderKeepsAnswers DEF Next, System

(***************************************************************************)
(* A render thread never waits for its own guest while it holds the mutex  *)
(* of all render threads.                                                  *)
(***************************************************************************)
THEOREM MutexIsNotKeptByAGuest == Spec => []MutexWaitsForNoGuest
<1>1. MutexInv /\ AnswerInv => MutexWaitsForNoGuest
  BY DEF MutexInv, AnswerInv, AnswerOf, HoldsLabels, MutexWaitsForNoGuest, OutLocked
<1> QED
  BY <1>1, DataInit, JobInit, MutexInit, AnswerInit, DataStep, JobStep, MutexStep,
     AnswerStep, PTL DEF Spec
=============================================================================
