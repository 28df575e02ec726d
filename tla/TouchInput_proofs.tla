------------------------- MODULE TouchInput_proofs -------------------------
(***************************************************************************)
(* Proofs about TouchInput, for any number of slots, fingers and readers.  *)
(*                                                                         *)
(* What a reader knows is compared with what it will know when the report  *)
(* that is being sent has reached it: at every reader that is reached this *)
(* slot is the one named last, unless no slot has ever reached it, and     *)
(* the contacts are those of the last touches.  That send_events gets to   *)
(* all of them rests on the keys of connections_, which have no gaps.      *)
(***************************************************************************)
EXTENDS TouchInput, FiniteSetTheorems, TLAPS

\* The keys: the reader being added counts from Add on.
Count == IF acceptor = "send" THEN next_id + 1 ELSE next_id

KeysInv ==
  /\ connections = 0 .. Count - 1
  /\ acceptor \in {"add", "send"} => next_id < connecting

(***************************************************************************)
(* The app's finger is always in slot 0.                                   *)
(***************************************************************************)
AppInv ==
  program = "app" =>
    /\ \A s \in Slots : s # 0 => touch_slots[s] = 0 /\ last_touch[s] = "unknown"
    /\ touching => touch_slots[0] = 0
    /\ last_touch[0] = "up" => touch_slots[0] = None
    /\ \A r \in Readers : down[r] \subseteq {0} /\ slot[r] \in {0, None}
    /\ report.slot = 0

\* The report is of the slot named last, and without one nobody has been told a slot.
ReportInv ==
  /\ n # None =>
       /\ report.slot = last_slot
       /\ report.contact = "down" => last_touch[last_slot] # "up"
  /\ last_slot = None =>
       /\ n = None
       /\ \A s \in Slots : last_touch[s] = "unknown"
  /\ \A r \in Readers : slot[r] = None => down[r] = {}

\* What a reader knows once it has the report.
Informed(r) == n = None \/ r < n
SlotThen(r) == IF Informed(r) THEN slot[r] ELSE SlotOf(r)
DownThen(r) == IF Informed(r) THEN down[r] ELSE DownAfter(r)

Agrees(r) ==
  /\ SlotThen(r) \in {None, last_slot}
  /\ \A s \in Slots : last_touch[s] = "up" => s \notin DownThen(r)
  /\ r \in early => /\ SlotThen(r) = last_slot
                    /\ \A s \in Slots : last_touch[s] = "down" => s \in DownThen(r)

\* A reader that is yet to be added knows nothing.
NewInv == \A r \in Readers \ connections : slot[r] = None /\ down[r] = {}

IInv ==
  /\ TypeOK /\ KeysInv /\ AppInv /\ ReportInv /\ NewInv
  /\ \A r \in Reached : Agrees(r)
-----------------------------------------------------------------------------
(* The slots *)

LEMMA SlotZero == 0 \in Slots /\ None \notin Slots /\ None # 0
  BY TouchAssumption DEF Slots, None

LEMMA FreeSlot ==
  ASSUME TypeOK, AppInv, program = "app", find_touch_slot(None) # None
  PROVE  find_touch_slot(None) = 0 /\ touch_slots[0] = None
<1> DEFINE found == {s \in Slots : touch_slots[s] = None}
<1>1. found \subseteq {0}
  BY SlotZero DEF AppInv
<1>2. found # {}
  BY DEF find_touch_slot
<1>3. found = {0}
  BY <1>1, <1>2
<1>4. find_touch_slot(None) = CHOOSE s \in {0} : \A t \in {0} : s <= t
  BY <1>2, <1>3 DEF find_touch_slot
<1> QED BY <1>3, <1>4

LEMMA NoFreeSlot ==
  ASSUME AppInv, program = "app", find_touch_slot(None) = None
  PROVE  touch_slots[0] # None
<1> DEFINE found == {s \in Slots : touch_slots[s] = None}
<1>1. found \subseteq {0}
  BY SlotZero DEF AppInv
<1>2. CASE found = {0}
  <2>1. find_touch_slot(None) = CHOOSE s \in {0} : \A t \in {0} : s <= t
    BY <1>2 DEF find_touch_slot
  <2> QED BY <2>1, SlotZero
<1> QED BY <1>1, <1>2, SlotZero

LEMMA HeldSlot ==
  ASSUME TypeOK, AppInv, program = "app", touching
  PROVE  find_touch_slot(Finger) = 0
<1> DEFINE found == {s \in Slots : touch_slots[s] = Finger}
           Least(s) == s \in found /\ \A t \in found : s <= t
<1>1. 0 \in found
  BY SlotZero DEF AppInv, Finger
<1>2. Least(0)
  BY <1>1 DEF Slots
<1>3. \A s : Least(s) => s = 0
  BY <1>1 DEF Slots
<1>4. find_touch_slot(Finger) = CHOOSE s \in found : \A t \in found : s <= t
  BY <1>1 DEF find_touch_slot
<1>5. Least(find_touch_slot(Finger))
  BY <1>2, <1>4
<1> QED BY <1>3, <1>5

(***************************************************************************)
(* What the steps that begin a report have in common: the slot, what       *)
(* happens to its contact, and what is noted of the touch.                 *)
(***************************************************************************)
Begins(s, contact) ==
  /\ s \in Slots /\ contact \in Contacts
  /\ Pushes(s, contact)
  /\ \/ contact = "same" /\ last_touch' = last_touch
     \/ \E x \in {"unknown", contact} \ {"same"} :
          contact # "same" /\ last_touch' = [last_touch EXCEPT ![s] = x]

Touches ==
  \/ PushFingerDown \/ PushFingerMotion \/ PushFingerUp \/ Cancel
  \/ \E finger \in Fingers : InputCallback(finger)

\* A touch begins a report, which in the app is of slot 0, or changes no slot.
LEMMA TouchBegins ==
  ASSUME TypeOK, AppInv, Touches
  PROVE  \/ \E s \in Slots, contact \in Contacts :
              Begins(s, contact) /\ (program = "app" => s = 0)
         \/ /\ Ignores /\ program = "app"
            /\ last_touch' = [last_touch EXCEPT ![0] = "unknown"]
<1>1. CASE PushFingerDown
  <2>1. last_touch' = [last_touch EXCEPT ![0] = AppDown] /\ AppDown \in {"unknown", "down"}
    BY <1>1 DEF PushFingerDown, Finger, AppDown
  <2>2. CASE find_touch_slot(None) = None
    <3>1. Ignores /\ program = "app"
      BY <1>1, <2>2 DEF PushFingerDown
    <3>2. touch_slots[0] # None
      BY <2>2, <3>1, NoFreeSlot
    <3>3. AppDown = "unknown"
      BY <3>1, <3>2 DEF AppDown, AppInv, Finger
    <3> QED BY <2>1, <3>1, <3>3
  <2>3. CASE find_touch_slot(None) # None
    <3>1. find_touch_slot(None) = 0
      BY <1>1, <2>3, FreeSlot DEF PushFingerDown
    <3>2. Pushes(0, "down")
      BY <1>1, <2>3, <3>1 DEF PushFingerDown
    <3>3. Begins(0, "down")
      BY <2>1, <3>2, SlotZero DEF Begins, Contacts
    <3> QED BY <3>3, SlotZero DEF Contacts
  <2> QED BY <2>2, <2>3
<1>2. CASE PushFingerMotion
  <2>1. find_touch_slot(Finger) = 0
    BY <1>2, HeldSlot DEF PushFingerMotion
  <2>2. Begins(0, "same")
    BY <1>2, <2>1, SlotZero DEF PushFingerMotion, Begins, Contacts
  <2> QED BY <2>2, SlotZero DEF Contacts
<1>3. CASE PushFingerUp
  <2>1. find_touch_slot(Finger) = 0
    BY <1>3, HeldSlot DEF PushFingerUp
  <2>2. Pushes(0, "up") /\ last_touch' = [last_touch EXCEPT ![0] = "up"]
    BY <1>3, <2>1 DEF PushFingerUp, Finger
  <2>3. Begins(0, "up")
    BY <2>2, SlotZero DEF Begins, Contacts
  <2> QED BY <2>3, SlotZero DEF Contacts
<1>4. CASE Cancel
  BY <1>4 DEF Cancel, Finger
<1>5. ASSUME NEW finger \in Fingers, InputCallback(finger)
      PROVE  \E s \in Slots, contact \in Contacts :
               Begins(s, contact) /\ (program = "app" => s = 0)
  <2>1. finger % MaxFingers \in Slots /\ program # "app"
    BY <1>5, TouchAssumption DEF Slots, InputCallback
  <2>2. PICK contact \in Contacts :
          /\ Pushes(finger % MaxFingers, contact)
          /\ last_touch' =
               IF contact = "same" THEN last_touch
               ELSE [last_touch EXCEPT ![finger % MaxFingers] = contact]
    BY <1>5 DEF InputCallback
  <2>3. Begins(finger % MaxFingers, contact)
    BY <2>1, <2>2 DEF Begins
  <2> QED BY <2>1, <2>3
<1> QED BY <1>1, <1>2, <1>3, <1>4, <1>5 DEF Touches
-----------------------------------------------------------------------------
(* Types and keys *)

Others ==
  \/ \E r \in Readers : SendTo(r) \/ SendThrows(r) \/ ReaderCloses(r)
  \/ AllSent \/ LoopRaces
  \/ Accept \/ Add \/ SendInfo
  \/ ReaderConnects

LEMMA Steps == Next <=> Touches \/ Others
  BY DEF Next, Touches, Others

LEMMA InitHolds == Init => IInv
<1> SUFFICES ASSUME Init PROVE IInv
  OBVIOUS
<1>1. TypeOK
  <2>1. /\ touch_slots \in [Slots -> {None, Finger}]
        /\ last_touch \in [Slots -> {"unknown", "down", "up"}]
        /\ slot \in [Readers -> Slots \cup {None}]
        /\ down \in [Readers -> SUBSET Slots]
    BY DEF Init, Finger
  <2>2. report \in [names : BOOLEAN, slot : Slots, contact : Contacts]
    BY SlotZero DEF Init, Contacts
  <2>3. connecting \in 0 .. MaxReaders /\ next_id \in 0 .. connecting
    BY TouchAssumption DEF Init
  <2> QED BY <2>1, <2>2, <2>3 DEF Init, TypeOK, Cleared
<1>2. KeysInv
  BY DEF Init, KeysInv, Count, Cleared
<1>3. AppInv
  BY SlotZero DEF Init, AppInv
<1>4. ReportInv /\ NewInv
  BY DEF Init, ReportInv, NewInv
<1>5. Reached = {}
  BY DEF Init, Reached, Cleared
<1> QED BY <1>1, <1>2, <1>3, <1>4, <1>5 DEF IInv

LEMMA TouchTypes ==
  ASSUME TypeOK, Touches
  PROVE  /\ program' = program /\ touching' \in BOOLEAN
         /\ touch_slots' \in [Slots -> {None, Finger}]
<1>1. CASE PushFingerDown
  BY <1>1 DEF PushFingerDown, Ignores, Pushes, TypeOK
<1>2. CASE PushFingerMotion
  BY <1>2 DEF PushFingerMotion, Pushes, TypeOK
<1>3. CASE PushFingerUp
  BY <1>3 DEF PushFingerUp, Freed, Pushes, TypeOK
<1>4. CASE Cancel
  BY <1>4 DEF Cancel, Ignores, TypeOK
<1>5. CASE \E finger \in Fingers : InputCallback(finger)
  BY <1>5 DEF InputCallback, Pushes, TypeOK
<1> QED BY <1>1, <1>2, <1>3, <1>4, <1>5 DEF Touches

LEMMA DownTypes ==
  ASSUME TypeOK, NEW r \in Readers
  PROVE  /\ SlotOf(r) \in Slots \cup {None}
         /\ DownAfter(r) \in SUBSET Slots
<1>1. /\ report.slot \in Slots /\ report.contact \in Contacts
      /\ slot[r] \in Slots \cup {None} /\ down[r] \subseteq Slots
  BY DEF TypeOK
<1>2. SlotOf(r) \in Slots \cup {None}
  BY <1>1 DEF SlotOf
<1> QED BY <1>1, <1>2 DEF DownAfter, Contacts

LEMMA TypeStep == IInv /\ [Next]_vars => TypeOK'
<1> SUFFICES ASSUME IInv, [Next]_vars PROVE TypeOK'
  OBVIOUS
<1> USE DEF IInv
<1>1. CASE Touches
  <2>1. /\ program' = program /\ touching' \in BOOLEAN
        /\ touch_slots' \in [Slots -> {None, Finger}]
    BY <1>1, TouchTypes
  <2>2. ASSUME NEW s \in Slots, NEW contact \in Contacts, Begins(s, contact)
        PROVE  TypeOK'
    <3>1. last_touch' \in [Slots -> {"unknown", "down", "up"}]
      BY <2>2 DEF Begins, Contacts, TypeOK
    <3>2. report' \in [names : BOOLEAN, slot : Slots, contact : Contacts]
      BY <2>2 DEF Begins, Pushes, Named
    <3> QED
      BY <2>1, <2>2, <3>1, <3>2
      DEF Begins, Pushes, TypeOK, acceptVars, readerVars, guestVars
  <2>3. CASE Ignores /\ last_touch' = [last_touch EXCEPT ![0] = "unknown"]
    BY <2>1, <2>3 DEF Ignores, TypeOK, acceptVars, readerVars, guestVars
  <2> QED BY <1>1, <2>2, <2>3, TouchBegins
<1>2. ASSUME NEW r \in Readers, SendTo(r) PROVE TypeOK'
  <2>1. /\ slot' \in [Readers -> Slots \cup {None}]
        /\ down' \in [Readers -> SUBSET Slots]
    BY <1>2, DownTypes DEF SendTo, TypeOK
  <2>2. n' \in Nat
    BY <1>2 DEF SendTo, Readers
  <2> QED
    BY <1>2, <2>1, <2>2 DEF SendTo, TypeOK, fingerVars, acceptVars, readerVars
<1>3. ASSUME NEW r \in Readers, SendThrows(r) PROVE TypeOK'
  BY <1>3 DEF SendThrows, TypeOK, fingerVars, acceptVars, readerVars, guestVars
<1>4. ASSUME NEW r \in Readers, ReaderCloses(r) PROVE TypeOK'
  BY <1>4 DEF ReaderCloses, TypeOK, fingerVars, acceptVars, guestVars
<1>5. CASE AllSent \/ LoopRaces
  BY <1>5 DEF AllSent, LoopRaces, TypeOK, fingerVars, acceptVars, readerVars, guestVars
<1>6. CASE Accept
  BY <1>6 DEF Accept, TypeOK, fingerVars, readerVars, guestVars
<1>7. CASE Add
  <2>1. next_id \in Readers
    BY <1>7, TouchAssumption DEF Add, KeysInv, TypeOK, Readers
  <2> QED BY <1>7, <2>1 DEF Add, Added, TypeOK, fingerVars, readerVars, guestVars
<1>8. CASE SendInfo
  <2>1. next_id + 1 \in 0 .. connecting
    BY <1>8 DEF SendInfo, KeysInv, TypeOK
  <2> QED BY <1>8, <2>1 DEF SendInfo, TypeOK, fingerVars, readerVars, guestVars
<1>9. CASE ReaderConnects
  <2>1. connecting' \in 0 .. MaxReaders /\ next_id \in 0 .. connecting'
    BY <1>9, TouchAssumption DEF ReaderConnects, TypeOK
  <2> QED BY <1>9, <2>1 DEF ReaderConnects, TypeOK, fingerVars, acceptVars, guestVars
<1>10. CASE UNCHANGED vars
  BY <1>10 DEF vars, TypeOK, fingerVars, acceptVars, readerVars, guestVars
<1> QED
  BY <1>1, <1>2, <1>3, <1>4, <1>5, <1>6, <1>7, <1>8, <1>9, <1>10, Steps DEF Others

LEMMA KeysStep == IInv /\ [Next]_vars => KeysInv'
<1> SUFFICES ASSUME IInv, [Next]_vars PROVE KeysInv'
  OBVIOUS
<1>1. TypeOK /\ KeysInv /\ next_id \in Nat /\ connecting \in Nat
  BY DEF IInv, TypeOK
<1>2. ASSUME UNCHANGED <<acceptor, next_id, connections>>,
             connecting' \in Nat, connecting <= connecting'
      PROVE  KeysInv'
  <2>1. Count' = Count
    BY <1>2 DEF Count
  <2> QED BY <1>1, <1>2, <2>1 DEF KeysInv
<1>3. CASE Accept
  BY <1>1, <1>3 DEF Accept, KeysInv, Count, readerVars
<1>4. CASE Add
  BY <1>1, <1>4 DEF Add, Added, KeysInv, Count, readerVars
<1>5. CASE SendInfo
  BY <1>1, <1>5 DEF SendInfo, KeysInv, Count, readerVars
<1>6. ASSUME Touches \/ AllSent \/ LoopRaces \/ ReaderConnects
             \/ \E r \in Readers : SendTo(r) \/ SendThrows(r) \/ ReaderCloses(r)
      PROVE  KeysInv'
  <2>1. UNCHANGED acceptVars /\ (connecting' = connecting \/ connecting' = connecting + 1)
    BY <1>6 DEF Touches, PushFingerDown, PushFingerMotion, PushFingerUp, Cancel,
                InputCallback, Pushes, Ignores, AllSent, LoopRaces, ReaderConnects,
                SendTo, SendThrows, ReaderCloses, readerVars
  <2> QED BY <1>1, <1>2, <2>1 DEF acceptVars
<1>7. CASE UNCHANGED vars
  BY <1>1, <1>2, <1>7 DEF vars, acceptVars, readerVars
<1> QED BY <1>3, <1>4, <1>5, <1>6, <1>7, Steps DEF Others

\* send_events gets to every key.
LEMMA SizeIsCount ==
  ASSUME TypeOK, KeysInv
  PROVE  Size(connections) = Count /\ Count \in Nat
<1>1. Count \in Nat
  BY DEF Count, TypeOK
<1>2. Cardinality(0 .. Count - 1) = Count
  BY <1>1, FS_Interval
<1> QED BY <1>1, <1>2 DEF Size, KeysInv
-----------------------------------------------------------------------------
(* The fingers *)

LEMMA AppStep == IInv /\ [Next]_vars => AppInv'
<1> SUFFICES ASSUME IInv, [Next]_vars, program' = "app" PROVE AppInv'
  BY DEF AppInv
<1>1. TypeOK /\ AppInv
  BY DEF IInv
<1>2. ASSUME UNCHANGED <<fingerVars, report, guestVars, program>> PROVE AppInv'
  BY <1>1, <1>2 DEF AppInv, fingerVars, guestVars
<1>3. ASSUME NEW r \in Readers, SendTo(r) PROVE AppInv'
  <2>1. UNCHANGED <<program, fingerVars, report>> /\ program = "app"
    BY <1>3 DEF SendTo
  <2>2. report.slot = 0 /\ down[r] \subseteq {0} /\ slot[r] \in {0, None}
    BY <1>1, <2>1 DEF AppInv
  <2>3. SlotOf(r) \in {0, None}
    BY <2>2 DEF SlotOf
  <2>4. DownAfter(r) \subseteq {0}
    <3>1. report.contact \in Contacts
      BY <1>1 DEF TypeOK
    <3> QED BY <2>2, <2>3, <3>1 DEF DownAfter, Contacts
  <2>5. \A q \in Readers : down'[q] \subseteq {0} /\ slot'[q] \in {0, None}
    BY <1>1, <1>3, <2>1, <2>3, <2>4 DEF SendTo, AppInv, TypeOK
  <2> QED BY <1>1, <2>1, <2>5 DEF AppInv, fingerVars
<1>4. CASE Touches
  <2>1. program = "app" /\ program' = program
    BY <1>1, <1>4, TouchTypes
  <2>2. CASE PushFingerDown
    <3>1. \A s \in Slots : s # 0 => touch_slots'[s] = 0 /\ last_touch'[s] = "unknown"
      <4>1. touch_slots' = touch_slots \/ touch_slots' = [touch_slots EXCEPT ![0] = 0]
        BY <1>1, <2>1, <2>2, FreeSlot DEF PushFingerDown, Ignores, Finger
      <4>2. last_touch' = [last_touch EXCEPT ![0] = AppDown]
        BY <2>2 DEF PushFingerDown, Finger
      <4> QED BY <1>1, <2>1, <4>1, <4>2 DEF AppInv, TypeOK
    <3>2. touch_slots'[0] = 0
      <4>1. CASE find_touch_slot(None) = None
        <5>1. touch_slots[0] # None
          BY <1>1, <2>1, <4>1, NoFreeSlot
        <5> QED BY <1>1, <2>2, <4>1, <5>1, SlotZero DEF PushFingerDown, Ignores, TypeOK, Finger
      <4>2. CASE find_touch_slot(None) # None
        BY <1>1, <2>1, <2>2, <4>2, FreeSlot, SlotZero DEF PushFingerDown, TypeOK, Finger
      <4> QED BY <4>1, <4>2
    <3>3. last_touch'[0] # "up"
      BY <1>1, <2>2, SlotZero DEF PushFingerDown, AppDown, Finger, TypeOK
    <3>4. UNCHANGED guestVars /\ report'.slot = 0
      BY <1>1, <2>1, <2>2, FreeSlot DEF PushFingerDown, Pushes, Ignores, AppInv
    <3> QED BY <1>1, <2>1, <3>1, <3>2, <3>3, <3>4 DEF AppInv, guestVars
  <2>3. CASE PushFingerMotion
    <3>1. UNCHANGED <<touching, touch_slots, last_touch, guestVars>> /\ report'.slot = 0
      BY <1>1, <2>1, <2>3, HeldSlot DEF PushFingerMotion, Pushes
    <3> QED BY <1>1, <2>1, <3>1 DEF AppInv, guestVars
  <2>4. CASE PushFingerUp
    <3>1. /\ touch_slots' = [touch_slots EXCEPT ![0] = None]
          /\ last_touch' = [last_touch EXCEPT ![0] = "up"]
          /\ touching' = FALSE
          /\ UNCHANGED guestVars /\ report'.slot = 0
      BY <1>1, <2>1, <2>4, HeldSlot DEF PushFingerUp, Pushes, Freed, Finger
    <3>2. /\ \A s \in Slots : s # 0 =>
               touch_slots'[s] = touch_slots[s] /\ last_touch'[s] = last_touch[s]
          /\ touch_slots'[0] = None
      BY <1>1, <3>1, SlotZero DEF TypeOK
    <3> QED BY <1>1, <2>1, <3>1, <3>2 DEF AppInv, guestVars
  <2>5. CASE Cancel
    <3>1. /\ last_touch' = [last_touch EXCEPT ![0] = "unknown"]
          /\ touching' = FALSE
          /\ UNCHANGED <<touch_slots, guestVars, report>>
      BY <2>5 DEF Cancel, Ignores, Finger
    <3>2. /\ \A s \in Slots : s # 0 => last_touch'[s] = last_touch[s]
          /\ last_touch'[0] = "unknown"
      BY <1>1, <3>1, SlotZero DEF TypeOK
    <3> QED BY <1>1, <2>1, <3>1, <3>2 DEF AppInv, guestVars
  <2>6. CASE \E finger \in Fingers : InputCallback(finger)
    BY <2>1, <2>6 DEF InputCallback
  <2> QED BY <1>4, <2>2, <2>3, <2>4, <2>5, <2>6 DEF Touches
<1>5. CASE \E r \in Readers : SendThrows(r) \/ ReaderCloses(r)
  BY <1>2, <1>5 DEF SendThrows, ReaderCloses
<1>6. CASE AllSent \/ LoopRaces \/ Accept \/ Add \/ SendInfo \/ ReaderConnects
  BY <1>2, <1>6 DEF AllSent, LoopRaces, Accept, Add, SendInfo, ReaderConnects
<1>7. CASE UNCHANGED vars
  BY <1>2, <1>7 DEF vars
<1> QED BY <1>3, <1>4, <1>5, <1>6, <1>7, Steps DEF Others

LEMMA ReportStep == IInv /\ [Next]_vars => ReportInv' /\ NewInv'
<1> SUFFICES ASSUME IInv, [Next]_vars PROVE ReportInv' /\ NewInv'
  OBVIOUS
<1>1. TypeOK /\ KeysInv /\ AppInv /\ ReportInv /\ NewInv
  BY DEF IInv
<1>2. ASSUME UNCHANGED <<last_slot, report, last_touch, guestVars>>,
             n' = n \/ n' = None, connections \subseteq connections'
      PROVE  ReportInv' /\ NewInv'
  BY <1>1, <1>2 DEF ReportInv, NewInv, guestVars
<1>3. CASE Touches
  <2>1. ASSUME NEW s \in Slots, NEW contact \in Contacts, Begins(s, contact)
        PROVE  ReportInv' /\ NewInv'
    <3>1. /\ n' = 0 /\ report'.slot = s /\ last_slot' = s
          /\ UNCHANGED <<slot, down, connections>>
      BY <2>1 DEF Begins, Pushes, guestVars, acceptVars
    <3>2. report'.contact = "down" => last_touch'[s] # "up"
      <4>1. report'.contact = contact
        BY <2>1 DEF Begins, Pushes
      <4>2. contact = "down" => last_touch'[s] \in {"unknown", "down"}
        BY <1>1, <2>1 DEF Begins, TypeOK
      <4> QED BY <4>1, <4>2
    <3> QED BY <1>1, <3>1, <3>2, SlotZero DEF ReportInv, NewInv
  <2>2. ASSUME Ignores, last_touch' = [last_touch EXCEPT ![0] = "unknown"]
        PROVE  ReportInv' /\ NewInv'
    <3>1. n = None /\ UNCHANGED <<last_slot, report, n, slot, down, connections>>
      BY <2>2 DEF Ignores, guestVars, acceptVars
    <3>2. \A s \in Slots : last_touch'[s] \in {last_touch[s], "unknown"}
      BY <1>1, <2>2 DEF TypeOK
    <3> QED BY <1>1, <3>1, <3>2 DEF ReportInv, NewInv
  <2> QED BY <1>1, <1>3, <2>1, <2>2, TouchBegins
<1>4. ASSUME NEW r \in Readers, SendTo(r) PROVE ReportInv' /\ NewInv'
  <2>1. /\ n = r /\ n # None /\ n' # None
        /\ UNCHANGED <<last_slot, report, last_touch, connections>>
        /\ slot' = [slot EXCEPT ![r] = SlotOf(r)] /\ down' = [down EXCEPT ![r] = DownAfter(r)]
    BY <1>4 DEF SendTo, fingerVars, acceptVars, Readers, None
  <2>2. r \in connections
    <3>1. r < Count /\ Count \in Nat
      BY <1>1, <1>4, SizeIsCount DEF SendTo, MoreToSend
    <3> QED BY <1>1, <3>1 DEF KeysInv, Readers
  <2>3. SlotOf(r) = None => DownAfter(r) = {}
    <3>1. report.slot # None /\ report.contact \in Contacts
      BY <1>1, SlotZero DEF TypeOK
    <3>2. SlotOf(r) = None => slot[r] = None
      BY <3>1 DEF SlotOf
    <3>3. slot[r] = None => down[r] = {}
      BY <1>1 DEF ReportInv
    <3> QED BY <3>1, <3>2, <3>3 DEF DownAfter, Contacts
  <2>4. \A q \in Readers : slot'[q] = None => down'[q] = {}
    BY <1>1, <2>1, <2>3 DEF ReportInv, TypeOK
  <2>5. \A q \in Readers \ {r} : slot'[q] = slot[q] /\ down'[q] = down[q]
    BY <1>1, <2>1 DEF TypeOK
  <2>6. ReportInv'
    BY <1>1, <2>1, <2>4 DEF ReportInv
  <2>7. NewInv'
    BY <1>1, <2>1, <2>2, <2>5 DEF NewInv
  <2> QED BY <2>6, <2>7
<1>5. CASE \E r \in Readers : SendThrows(r) \/ ReaderCloses(r)
  BY <1>2, <1>5 DEF SendThrows, ReaderCloses, fingerVars, acceptVars
<1>6. CASE AllSent \/ LoopRaces \/ Accept \/ Add \/ SendInfo \/ ReaderConnects
  BY <1>2, <1>6
  DEF AllSent, LoopRaces, Accept, Add, Added, SendInfo, ReaderConnects, fingerVars, acceptVars
<1>7. CASE UNCHANGED vars
  BY <1>2, <1>7 DEF vars, fingerVars, acceptVars
<1> QED BY <1>3, <1>4, <1>5, <1>6, <1>7, Steps DEF Others
-----------------------------------------------------------------------------
(* What the readers know *)

\* A reader of which nothing changes.
LEMMA StillAgrees ==
  ASSUME NEW r \in Readers, Agrees(r),
         UNCHANGED <<last_slot, last_touch, report>>,
         slot'[r] = slot[r], down'[r] = down[r],
         Informed(r) <=> Informed(r)', r \in early' => r \in early
  PROVE  Agrees(r)'
BY DEF Agrees, SlotThen, DownThen, Informed, SlotOf, DownAfter

\* A report that is begun: every reader will know its slot, unless it knows none.
LEMMA BeginAgrees ==
  ASSUME IInv, NEW r \in Reached, NEW s \in Slots, NEW contact \in Contacts,
         Begins(s, contact)
  PROVE  Agrees(r)'
<1>1. r \in Readers /\ TypeOK /\ ReportInv /\ Agrees(r)
  BY DEF IInv, Reached, TypeOK
<1>2. /\ n = None /\ n' = 0 /\ last_slot' = s
      /\ report'.names = (last_slot # s) /\ report'.slot = s /\ report'.contact = contact
      /\ UNCHANGED <<slot, down, early>>
  BY DEF Begins, Pushes, Named, acceptVars, guestVars
<1>3. /\ slot[r] \in {None, last_slot} /\ (r \in early => slot[r] = last_slot)
      /\ \A t \in Slots : last_touch[t] = "up" => t \notin down[r]
      /\ r \in early => \A t \in Slots : last_touch[t] = "down" => t \in down[r]
      /\ slot[r] = None => down[r] = {}
  BY <1>1, <1>2 DEF Agrees, SlotThen, DownThen, Informed, ReportInv
<1>4. ~Informed(r)'
  BY <1>1, <1>2 DEF Informed, Readers, None
<1>5. SlotOf(r)' \in {None, s} /\ (r \in early => SlotOf(r)' = s)
  BY <1>2, <1>3 DEF SlotOf
<1>6. SlotOf(r)' = None => slot[r] = None
  BY <1>2, SlotZero DEF SlotOf
<1>7. DownAfter(r)' = [down |-> down[r] \cup ({SlotOf(r)'} \ {None}),
                       up |-> down[r] \ ({SlotOf(r)'} \ {None}), same |-> down[r]][contact]
  BY <1>2 DEF DownAfter
<1>8. \A t \in Slots : last_touch'[t] = "up" => t \notin DownAfter(r)'
  <2>1. CASE contact = "same"
    BY <1>3, <1>7, <2>1 DEF Begins
  <2>2. CASE contact = "down"
    <3>1. \A t \in Slots : last_touch'[t] = "up" => t # s /\ last_touch[t] = "up"
      BY <1>1, <2>2 DEF Begins, TypeOK
    <3>2. DownAfter(r)' \subseteq down[r] \cup {s}
      BY <1>5, <1>7, <2>2
    <3> QED BY <1>3, <3>1, <3>2
  <2>3. CASE contact = "up"
    <3>1. \A t \in Slots : last_touch'[t] = "up" => t = s \/ last_touch[t] = "up"
      BY <1>1, <2>3 DEF Begins, TypeOK
    <3>2. DownAfter(r)' \subseteq down[r] \ {s}
      <4>1. CASE SlotOf(r)' = None
        BY <1>3, <1>6, <1>7, <2>3, <4>1
      <4>2. CASE SlotOf(r)' = s
        BY <1>7, <2>3, <4>2, SlotZero
      <4> QED BY <1>5, <4>1, <4>2
    <3> QED BY <1>3, <3>1, <3>2
  <2> QED BY <2>1, <2>2, <2>3 DEF Contacts
<1>9. ASSUME r \in early, NEW t \in Slots, last_touch'[t] = "down"
      PROVE  t \in DownAfter(r)'
  <2>1. SlotOf(r)' = s
    BY <1>5, <1>9
  <2>2. CASE contact = "same"
    BY <1>3, <1>7, <1>9, <2>2 DEF Begins
  <2>3. CASE contact = "down"
    <3>1. t = s \/ last_touch[t] = "down"
      BY <1>1, <1>9, <2>3 DEF Begins, TypeOK
    <3>2. DownAfter(r)' = down[r] \cup {s}
      BY <1>7, <2>1, <2>3, SlotZero
    <3> QED BY <1>3, <1>9, <3>1, <3>2
  <2>4. CASE contact = "up"
    <3>1. t # s /\ last_touch[t] = "down"
      BY <1>1, <1>9, <2>4 DEF Begins, TypeOK
    <3>2. DownAfter(r)' = down[r] \ {s}
      BY <1>7, <2>1, <2>4, SlotZero
    <3> QED BY <1>3, <1>9, <3>1, <3>2
  <2> QED BY <2>2, <2>3, <2>4 DEF Contacts
<1> QED BY <1>2, <1>4, <1>5, <1>8, <1>9 DEF Agrees, SlotThen, DownThen

LEMMA AgreeStep == IInv /\ [Next]_vars => (\A r \in Reached : Agrees(r))'
<1> SUFFICES ASSUME IInv, [Next]_vars, NEW r \in Reached' PROVE Agrees(r)'
  BY DEF Reached
<1>1. /\ TypeOK /\ KeysInv /\ ReportInv /\ NewInv /\ TypeOK'
      /\ \A q \in Reached : Agrees(q)
  BY TypeStep DEF IInv
<1>2. r \in Readers
  BY <1>1 DEF Reached, TypeOK
<1>3. ASSUME connections' = connections, closed \subseteq closed' PROVE r \in Reached
  BY <1>3 DEF Reached
<1>4. CASE Touches
  <2>1. ASSUME NEW s \in Slots, NEW contact \in Contacts, Begins(s, contact)
        PROVE  Agrees(r)'
    BY <1>3, <2>1, BeginAgrees DEF Begins, Pushes, acceptVars, readerVars
  <2>2. ASSUME Ignores, last_touch' = [last_touch EXCEPT ![0] = "unknown"]
        PROVE  Agrees(r)'
    <3>1. /\ UNCHANGED <<last_slot, report, n, slot, down, early, connections, closed>>
          /\ \A t \in Slots : last_touch'[t] \in {last_touch[t], "unknown"}
      BY <1>1, <2>2 DEF Ignores, acceptVars, readerVars, guestVars, TypeOK
    <3>2. Agrees(r)
      BY <1>1, <1>3, <3>1
    <3> QED
      BY <3>1, <3>2 DEF Agrees, SlotThen, DownThen, Informed, SlotOf, DownAfter
  <2> QED BY <1>1, <1>4, <2>1, <2>2, TouchBegins DEF IInv
<1>5. ASSUME NEW q \in Readers, SendTo(q) PROVE Agrees(r)'
  <2>1. /\ n = q /\ n' = q + 1 /\ UNCHANGED <<last_slot, last_touch, report, early>>
        /\ slot' = [slot EXCEPT ![q] = SlotOf(q)] /\ down' = [down EXCEPT ![q] = DownAfter(q)]
        /\ UNCHANGED <<connections, closed>>
    BY <1>5 DEF SendTo, fingerVars, acceptVars, readerVars
  <2>2. Agrees(r)
    BY <1>1, <1>3, <2>1
  <2>3. CASE r = q
    <3>1. ~Informed(r) /\ Informed(r)'
      BY <1>2, <2>1, <2>3 DEF Informed, Readers, None
    <3>2. slot'[r] = SlotOf(r) /\ down'[r] = DownAfter(r)
      BY <1>1, <2>1, <2>3 DEF TypeOK
    <3> QED BY <2>1, <2>2, <3>1, <3>2 DEF Agrees, SlotThen, DownThen
  <2>4. CASE r # q
    <3>1. Informed(r) <=> Informed(r)'
      BY <1>2, <2>1, <2>4 DEF Informed, Readers, None
    <3>2. slot'[r] = slot[r] /\ down'[r] = down[r]
      BY <1>1, <1>2, <2>1, <2>4 DEF TypeOK
    <3> QED BY <1>2, <2>1, <2>2, <3>1, <3>2, StillAgrees
  <2> QED BY <2>3, <2>4
<1>6. ASSUME NEW q \in Readers, SendThrows(q) PROVE Agrees(r)'
  <2>1. /\ n = q /\ n' = None /\ q \in closed
        /\ UNCHANGED <<last_slot, last_touch, report, early, slot, down, connections, closed>>
    BY <1>6 DEF SendThrows, fingerVars, acceptVars, readerVars, guestVars
  <2>2. r \in Reached /\ r < q
    <3>1. r \in Reached
      BY <1>3, <2>1
    <3>2. q \notin 0 .. r
      BY <2>1, <3>1 DEF Reached
    <3> QED BY <1>2, <3>1, <3>2 DEF Readers
  <2>3. Informed(r) /\ Informed(r)'
    BY <2>1, <2>2 DEF Informed
  <2> QED BY <1>1, <1>2, <2>1, <2>2, <2>3, StillAgrees
<1>7. CASE AllSent
  <2>1. /\ n # None /\ n' = None /\ ~(n < Size(connections))
        /\ UNCHANGED <<last_slot, last_touch, report, early, slot, down, connections, closed>>
    BY <1>7 DEF AllSent, MoreToSend, fingerVars, acceptVars, readerVars, guestVars
  <2>2. r \in Reached
    BY <1>3, <2>1
  <2>3. r < n
    <3>1. r \in 0 .. Count - 1
      BY <1>1, <2>2 DEF Reached, KeysInv
    <3>2. n \in Nat /\ Count \in Nat /\ ~(n < Count)
      BY <1>1, <2>1, SizeIsCount DEF TypeOK
    <3> QED BY <1>2, <3>1, <3>2 DEF Readers
  <2>4. Informed(r) /\ Informed(r)'
    BY <2>1, <2>3 DEF Informed
  <2> QED BY <1>1, <1>2, <2>1, <2>2, <2>4, StillAgrees
<1>8. CASE Add
  <2>1. /\ UNCHANGED <<last_slot, last_touch, report, n, slot, down, closed>>
        /\ connections' = connections \cup {next_id}
        /\ early' = IF last_slot = None THEN early \cup {next_id} ELSE early
    BY <1>8 DEF Add, Added, fingerVars, readerVars, guestVars
  <2>2. CASE r \in connections
    <3>1. r \in Reached
      BY <2>1, <2>2 DEF Reached
    <3>2. r # next_id
      BY <1>1, <1>8, <2>2 DEF KeysInv, Count, Add, TypeOK
    <3> QED BY <1>1, <1>2, <2>1, <3>1, <3>2, StillAgrees DEF Informed
  <2>3. CASE r \notin connections
    <3>1. slot[r] = None /\ down[r] = {} /\ r \notin early
      BY <1>1, <1>2, <2>3 DEF NewInv, TypeOK
    <3>2. CASE last_slot = None
      <4>1. n = None /\ \A s \in Slots : last_touch[s] = "unknown"
        BY <1>1, <3>2 DEF ReportInv
      <4> QED BY <2>1, <3>1, <3>2, <4>1 DEF Agrees, SlotThen, DownThen, Informed
    <3>3. CASE last_slot # None
      <4>1. r \notin early'
        BY <2>1, <3>1, <3>3
      <4>2. n # None => report.slot = last_slot
        BY <1>1 DEF ReportInv
      <4>3. SlotThen(r) \in {None, last_slot}
        BY <3>1, <4>2 DEF SlotThen, SlotOf, Informed
      <4>4. \A s \in Slots : last_touch[s] = "up" => s \notin DownThen(r)
        <5>1. CASE Informed(r)
          BY <3>1, <5>1 DEF DownThen
        <5>2. CASE ~Informed(r)
          <6>1. /\ n # None /\ report.contact \in Contacts
                /\ SlotOf(r) \in {None, last_slot}
            BY <1>1, <3>1, <4>2, <5>2 DEF Informed, SlotOf, TypeOK
          <6>2. DownAfter(r) \subseteq {last_slot}
            BY <3>1, <6>1 DEF DownAfter, Contacts
          <6>3. report.contact # "down" => DownAfter(r) = {}
            BY <3>1, <6>1 DEF DownAfter, Contacts
          <6>4. report.contact = "down" => last_touch[last_slot] # "up"
            BY <1>1, <6>1 DEF ReportInv
          <6> QED BY <5>2, <6>2, <6>3, <6>4 DEF DownThen
        <5> QED BY <5>1, <5>2
      <4> QED BY <2>1, <4>1, <4>3, <4>4
              DEF Agrees, SlotThen, DownThen, Informed, SlotOf, DownAfter
    <3> QED BY <3>2, <3>3
  <2> QED BY <2>2, <2>3
<1>9. CASE LoopRaces \/ Accept \/ SendInfo \/ ReaderConnects
           \/ \E q \in Readers : ReaderCloses(q)
  <2>1. /\ UNCHANGED <<last_slot, last_touch, report, n, early, slot, down, connections>>
        /\ closed \subseteq closed'
    BY <1>9 DEF LoopRaces, Accept, SendInfo, ReaderConnects, ReaderCloses, fingerVars,
                acceptVars, readerVars, guestVars
  <2> QED BY <1>1, <1>2, <1>3, <2>1, StillAgrees DEF Informed
<1>10. CASE UNCHANGED vars
  <2>1. UNCHANGED <<last_slot, last_touch, report, n, early, slot, down, connections, closed>>
    BY <1>10 DEF vars, fingerVars, acceptVars, readerVars, guestVars
  <2> QED BY <1>1, <1>2, <1>3, <2>1, StillAgrees DEF Informed
<1> QED BY <1>4, <1>5, <1>6, <1>7, <1>8, <1>9, <1>10, Steps DEF Others
-----------------------------------------------------------------------------
LEMMA Inductive == Spec => []IInv
<1>1. IInv /\ [Next]_vars => IInv'
  BY TypeStep, KeysStep, AppStep, ReportStep, AgreeStep DEF IInv
<1> QED BY InitHolds, <1>1, PTL DEF Spec

\* Types: whoever connects, the keys are readers and the contacts are in slots.
THEOREM TypesCorrect == Spec => []TypeOK
<1>1. IInv => TypeOK
  BY DEF IInv
<1> QED BY Inductive, <1>1, PTL

(***************************************************************************)
(* No finger sticks: between two reports of Device::send_events a finger   *)
(* that has gone up is up at every reader that is reached.                 *)
(***************************************************************************)
THEOREM NoFingerSticks == Spec => []UpIsUp
<1>1. IInv => UpIsUp
  <2> SUFFICES ASSUME IInv, n = None, NEW r \in Reached, NEW s \in Slots, last_touch[s] = "up"
               PROVE  ~Sees(r, s)
    BY DEF UpIsUp
  <2>1. r \in Readers /\ AppInv
    BY DEF IInv, TypeOK, Reached
  <2>2. s \notin down[r]
    BY DEF IInv, Agrees, DownThen, Informed
  <2>3. ASSUME program = "app" PROVE down[r] = {}
    <3>1. s = 0
      BY <2>1, <2>3 DEF AppInv
    <3>2. down[r] \subseteq {0}
      BY <2>1, <2>3 DEF AppInv
    <3> QED BY <2>2, <3>1, <3>2
  <2> QED BY <2>2, <2>3 DEF Sees
<1> QED BY Inductive, <1>1, PTL

(***************************************************************************)
(* No touch is missed: a finger that is down is down at every reader that  *)
(* was added before the first report and is reached.                       *)
(***************************************************************************)
THEOREM NoTouchIsMissed == Spec => []DownIsDown
<1>1. IInv => DownIsDown
  <2> SUFFICES ASSUME IInv, n = None, NEW r \in Reached \cap early, NEW s \in Slots,
                      last_touch[s] = "down"
               PROVE  Sees(r, s)
    BY DEF DownIsDown
  <2>1. s \in down[r]
    BY DEF IInv, Agrees, DownThen, Informed
  <2> QED BY <2>1 DEF Sees
<1> QED BY Inductive, <1>1, PTL
=============================================================================
