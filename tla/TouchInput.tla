----------------------------- MODULE TouchInput -----------------------------
(***************************************************************************)
(* How touches reach the container: the slots that libanbox.cpp gives to   *)
(* fingers, and input/device.cpp, which sends every report of events to    *)
(* all readers of the device.  The readers are processes in the container  *)
(* that open dev/input/event0, a socket.                                   *)
(*                                                                         *)
(* Two programs have this device.  In the app the UI thread calls          *)
(* pushFinger... (Anbox.kt).  In the server the input callback runs on a   *)
(* worker under the mutex of the streaming server, so one at a time too.   *)
(*                                                                         *)
(* A report is what it changes at a reader: the slot, if it names one, and *)
(* the contact in that slot.  Positions are left out.                      *)
(***************************************************************************)
EXTENDS Connections, Integers

CONSTANTS
  MaxFingers,  \* MAX_FINGERS, and the 10 of the callback
  Fingers,     \* the ids the clients of the server send
  MaxReaders   \* bound: readers that connect

ASSUME TouchAssumption ==
  /\ MaxFingers \in Nat \ {0}
  /\ Fingers \subseteq Nat
  /\ MaxReaders \in Nat

Slots == 0 .. MaxFingers - 1
None == -1
Readers == 0 .. MaxReaders - 1

\* What a report does to the contact in its slot.
Contacts == {"down", "up", "same"}

VARIABLES
  program,      \* which of the two this is
  alive,        \* no exception has left a native method, no race has ended it
  touching,     \* the user's finger is on the screen of the app
  touch_slots,  \* the finger in each slot (of the app)
  last_slot,    \* the slot that was named last
  report,       \* what is being sent
  n,            \* the loop variable of send_events, None outside of it
  connecting,   \* how many readers have connected
  closed,       \* those that have closed
  acceptor,     \* where the acceptor is, for the reader next_id
  next_id,      \* next_connection_id_
  connections,  \* the keys of connections_
  slot,         \* the slot each reader takes events for
  down,         \* the slots in which each reader sees a contact
  last_touch,   \* what became of the finger of each slot (history)
  early         \* the readers added before the first report (history)

fingerVars == <<touching, touch_slots, last_slot, last_touch>>
acceptVars == <<acceptor, next_id, connections, early>>
readerVars == <<connecting, closed>>
guestVars == <<slot, down>>
vars == <<program, alive, fingerVars, report, n, acceptVars, readerVars, guestVars>>

-----------------------------------------------------------------------------
(* The slots *)

\* The first slot with this finger, or with no finger for None.
find_touch_slot(finger) ==
  LET found == {s \in Slots : touch_slots[s] = finger}
  IN IF found = {} THEN None ELSE CHOOSE s \in found : \A t \in found : s <= t

Named_Unchanged(s) == last_slot = s

\* push_slot, and the same in the callback: a slot is named when it is another one.
Named(s) == last_slot # s

Pushes(s, contact) ==
  /\ alive /\ n = None
  /\ report' = [names |-> Named(s), slot |-> s, contact |-> contact]
  /\ last_slot' = s
  /\ n' = 0
  /\ UNCHANGED <<program, alive, acceptVars, readerVars, guestVars>>

Ignores ==
  /\ alive /\ n = None
  /\ UNCHANGED <<program, alive, touch_slots, last_slot, report, n, acceptVars,
                 readerVars, guestVars>>

-----------------------------------------------------------------------------
(* The app: Anbox.onTouch, whose only finger is 0 *)

Finger == 0

\* The touch after the last one that has gone up is the only one that is sure to arrive.
AppDown ==
  IF last_touch[Finger] = "up" THEN "down" ELSE "unknown"

PushFingerDown ==
  /\ program = "app" /\ ~touching
  /\ touching' = TRUE
  /\ last_touch' = [last_touch EXCEPT ![Finger] = AppDown]
  /\ LET s == find_touch_slot(None) IN
       \/ s = None /\ Ignores
       \/ /\ s # None
          /\ touch_slots' = [touch_slots EXCEPT ![s] = Finger]
          /\ Pushes(s, "down")

\* A finger that is on the screen always has a slot: the early returns are never taken.
PushFingerMotion ==
  /\ program = "app" /\ touching
  /\ LET s == find_touch_slot(Finger) IN
       /\ s # None
       /\ Pushes(s, "same")
  /\ UNCHANGED <<touching, touch_slots, last_touch>>

Freed_Never(s) == touch_slots

Freed(s) == [touch_slots EXCEPT ![s] = None]

PushFingerUp ==
  /\ program = "app" /\ touching
  /\ touching' = FALSE
  /\ last_touch' = [last_touch EXCEPT ![Finger] = "up"]
  /\ LET s == find_touch_slot(Finger) IN
       /\ s # None
       /\ touch_slots' = Freed(s)
       /\ Pushes(s, "up")

\* A gesture that the system takes over ends with ACTION_CANCEL, which has no case.
Cancel ==
  /\ program = "app" /\ touching
  /\ touching' = FALSE
  /\ last_touch' = [last_touch EXCEPT ![Finger] = "unknown"]
  /\ Ignores

-----------------------------------------------------------------------------
(* The server: the input callback, for events in whatever order clients send them *)

InputCallback(finger) ==
  LET s == finger % MaxFingers IN
  /\ program = "server"
  /\ \E contact \in Contacts :
       /\ Pushes(s, contact)
       /\ last_touch' =
            IF contact = "same" THEN last_touch ELSE [last_touch EXCEPT ![s] = contact]
  /\ UNCHANGED <<touching, touch_slots>>

-----------------------------------------------------------------------------
(* Device::send_events *)

\* Until it is told a slot, a reader takes no event.
SlotOf(r) == IF report.names THEN report.slot ELSE slot[r]

DownAfter(r) ==
  LET s == {SlotOf(r)} \ {None}
  IN [down |-> down[r] \cup s, up |-> down[r] \ s, same |-> down[r]][report.contact]

MoreToSend == n < Size(connections)

SendTo(r) ==
  /\ n = r /\ alive /\ MoreToSend
  /\ r \notin closed
  /\ slot' = [slot EXCEPT ![r] = SlotOf(r)]
  /\ down' = [down EXCEPT ![r] = DownAfter(r)]
  /\ n' = n + 1
  /\ UNCHANGED <<program, alive, fingerVars, report, acceptVars, readerVars>>

\* The streaming server's worker catches what it throws; nothing in a native method does.
SendThrows(r) ==
  /\ n = r /\ alive /\ MoreToSend
  /\ r \in closed
  /\ n' = None
  /\ alive' = (program = "server")
  /\ UNCHANGED <<program, fingerVars, report, acceptVars, readerVars, guestVars>>

AllSent ==
  /\ n # None /\ alive /\ ~MoreToSend
  /\ n' = None
  /\ UNCHANGED <<program, alive, fingerVars, report, acceptVars, readerVars, guestVars>>

\* size and at take no lock, while new_client changes the map: StreamingServer's LoopRaces.
LoopRaces ==
  /\ n # None /\ alive /\ acceptor = "add"
  /\ alive' = FALSE
  /\ UNCHANGED <<program, fingerVars, report, n, acceptVars, readerVars, guestVars>>

-----------------------------------------------------------------------------
(* Device::new_client, on a worker *)

Accept ==
  /\ alive /\ acceptor = "accept"
  /\ next_id < connecting
  /\ acceptor' = "add"
  /\ UNCHANGED <<program, alive, fingerVars, report, n, next_id, connections, early,
                 readerVars, guestVars>>

Add ==
  /\ alive /\ acceptor = "add"
  /\ acceptor' = "send"
  /\ connections' = Added(connections, next_id)
  /\ early' = IF last_slot = None THEN early \cup {next_id} ELSE early
  /\ UNCHANGED <<program, alive, fingerVars, report, n, next_id, readerVars, guestVars>>

\* The description of the device; a reader that has closed stops the acceptor.
SendInfo ==
  /\ alive /\ acceptor = "send"
  /\ acceptor' = IF next_id \in closed THEN "stopped" ELSE "accept"
  /\ next_id' = next_id + 1
  /\ UNCHANGED <<program, alive, fingerVars, report, n, connections, early, readerVars,
                 guestVars>>

ReaderConnects ==
  /\ connecting < MaxReaders
  /\ connecting' = connecting + 1
  /\ UNCHANGED <<program, alive, fingerVars, report, n, acceptVars, closed, guestVars>>

\* Nobody reads from a reader: the device learns of this when it sends.
ReaderCloses(r) ==
  /\ r < connecting /\ r \notin closed
  /\ closed' = closed \cup {r}
  /\ UNCHANGED <<program, alive, fingerVars, report, n, acceptVars, connecting, guestVars>>

-----------------------------------------------------------------------------
\* touch_slots is static: all of it is 0, which is a finger.
Init ==
  /\ program \in {"app", "server"}
  /\ alive = TRUE
  /\ touching = FALSE
  /\ touch_slots = [s \in Slots |-> 0]
  /\ last_slot = None
  /\ report = [names |-> FALSE, slot |-> 0, contact |-> "same"]
  /\ n = None
  /\ connecting = 0
  /\ closed = {}
  /\ acceptor = "accept"
  /\ next_id = 0
  /\ connections = Cleared
  /\ slot = [r \in Readers |-> None]
  /\ down = [r \in Readers |-> {}]
  /\ last_touch = [s \in Slots |-> "unknown"]
  /\ early = {}

Next ==
  \/ PushFingerDown \/ PushFingerMotion \/ PushFingerUp \/ Cancel
  \/ \E finger \in Fingers : InputCallback(finger)
  \/ \E r \in Readers : SendTo(r) \/ SendThrows(r) \/ ReaderCloses(r)
  \/ AllSent \/ LoopRaces
  \/ Accept \/ Add \/ SendInfo
  \/ ReaderConnects

Spec == Init /\ [][Next]_vars

-----------------------------------------------------------------------------
TypeOK ==
  /\ program \in {"app", "server"}
  /\ alive \in BOOLEAN /\ touching \in BOOLEAN
  /\ touch_slots \in [Slots -> {None, Finger}]
  /\ last_slot \in Slots \cup {None}
  /\ report \in [names : BOOLEAN, slot : Slots, contact : Contacts]
  /\ n \in Nat \cup {None}
  /\ connecting \in 0 .. MaxReaders
  /\ closed \subseteq Readers
  /\ acceptor \in {"accept", "add", "send", "stopped"}
  /\ next_id \in 0 .. connecting
  /\ connections \subseteq Readers /\ early \subseteq connections
  /\ slot \in [Readers -> Slots \cup {None}]
  /\ down \in [Readers -> SUBSET Slots]
  /\ last_touch \in [Slots -> {"unknown", "down", "up"}]

\* Every reader up to the first that has closed: what those behind it miss is lost.
Reached == {r \in connections : \A q \in 0 .. r : q \notin closed}

\* The app moves its one finger to whichever slot is free.
Sees(r, s) == IF program = "app" THEN down[r] # {} ELSE s \in down[r]

(***************************************************************************)
(* No finger sticks.  Between two reports, a finger that has gone up is up *)
(* at every reader that is reached, whenever the reader came and whichever *)
(* slots the others move: the slot that is left out of a report, because   *)
(* it was named before, is the reader's.                                   *)
(***************************************************************************)
UpIsUp ==
  n = None => \A r \in Reached : \A s \in Slots : last_touch[s] = "up" => ~Sees(r, s)

(***************************************************************************)
(* A finger that is down is down at every reader that was there from the   *)
(* start, whoever came or left behind it.  In the app this is said of a    *)
(* touch that follows one that went up: the first of all finds no free     *)
(* slot, and neither does one after a cancelled gesture.                   *)
(***************************************************************************)
DownIsDown ==
  n = None => \A r \in Reached \cap early : \A s \in Slots :
                last_touch[s] = "down" => Sees(r, s)
=============================================================================
