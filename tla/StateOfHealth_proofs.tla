------------------------ MODULE StateOfHealth_proofs ------------------------
(***************************************************************************)
(* Proofs about StateOfHealth for any set of capacitances and any number of    *)
(* requests of the IOP and time-outs of the chip: its types, what is saved, and  *)
(* how far a save is from its answer.                                         *)
(***************************************************************************)
EXTENDS StateOfHealth, TLAPS

Measuring == long /\ sohState \notin {"CalcWait", "CalcInit"}
Wanted == [initial |-> toCpu1.initial, current |-> toCpu1.current]

\* The two CPUs agree on how far a request is, whatever the handler is at.
Handshake ==
  /\ startSaveCapacitance <=> sohState \in {"SaveNew", "SaveCurrent"}
  /\ request > 0 => startSaveCapacitance
  /\ toCpu1.available <=> request = 2
  /\ sohState \in {"VerifySoHFromFlash", "CompareWithFlash", "SaveNew", "SaveCurrent"} => long
  /\ Measuring /\ request < 2 => check = 0 /\ ~toCpu2.saved
  /\ request = 2 /\ check = 0 => ~toCpu2.saved
  /\ check = 1 => request = 2 /\ ~toCpu2.saved
  /\ request = 2 /\ check = 2 => toCpu2.saved

Core == TypeOK /\ Handshake

\* A request is saved before a reading can begin, and read back before the next one.
StoreInv ==
  /\ store.phase # "rest" => store.command # "Write"
  /\ store.phase = "rest" /\ store.command = "Wait" => store.valid
  /\ store.valid => store.phase = "rest" /\ store.command # "Write"
  /\ store.available <=> (store.phase \in {"save", "write"} \/ store.command = "Write")
  /\ store.valid \/ store.available => shown = stored /\ store.free # "used"
  /\ store.phase = "write" /\ store.type = "SerialNumber" => store.new = shown

\* From the minute of charging to the request, CPU1 shows what is stored.
MeasureInv ==
  /\ Measuring /\ request < 2 => store.valid /\ toCpu2.initial = stored.initial
  /\ sohState \in {"VerifySoHFromFlash", "CompareWithFlash", "SaveNew", "SaveCurrent"} =>
       currentCapacitance \in Capacitances
  /\ sohState = "CompareWithFlash" => stored.initial \in Capacitances
  /\ sohState = "SaveNew" /\ request < 2 => stored.initial \notin Capacitances
  /\ sohState = "SaveCurrent" /\ request < 2 =>
       stored.initial \in Capacitances /\ currentCapacitance <= stored.initial

\* From the request to its answer.
RequestInv ==
  /\ request = 2 => /\ Wanted.current <= Wanted.initial
                    /\ stored.initial \in Capacitances => stored.initial = Wanted.initial
  /\ request = 2 /\ check = 0 => store.valid
  /\ check = 1 /\ ~store.available => stored = Wanted
  /\ request = 2 /\ check = 2 => stored = Wanted /\ ~store.available
  /\ store.available /\ store.type = "Capacitance" => check = 1 /\ store.new = Wanted
  /\ store.available /\ store.type = "SerialNumber" => check # 1 /\ request # 2

Ordered == StoreInv /\ MeasureInv /\ RequestInv
IInv == Core /\ (undisturbed => Ordered)

LEMMA ValueFacts ==
  /\ \A c \in Capacitances : c \in Int /\ c > 0 /\ c # Blank /\ c # Unknown
  /\ Unknown \in Values /\ Blank \in Values /\ Capacitances \subseteq Values
  /\ Values \subseteq Int
  /\ BlankPair \in Pairs /\ UnknownPair \in Pairs
  BY CapacitancesAssumption DEF Blank, Unknown, Values, BlankPair, UnknownPair, Pairs

LEMMA MixedType == \A p, q \in Pairs : Mixed(p, q) \subseteq Pairs
<1> SUFFICES ASSUME NEW p \in Pairs, NEW q \in Pairs PROVE Mixed(p, q) \subseteq Pairs
  OBVIOUS
<1>1. {p.initial, q.initial} \subseteq Values /\ {p.current, q.current} \subseteq Values
  BY DEF Pairs
<1> QED
  BY <1>1 DEF Mixed, Pairs

LEMMA EntryType == ASSUME TypeOK PROVE Entry \in Pairs /\ Base \in Pairs
<1>1. Base \in Pairs /\ store.new \in Pairs
  BY ValueFacts DEF TypeOK, Stores, Base
<1>2. /\ Base.initial \in Values /\ Base.current \in Values
      /\ store.new.initial \in Values /\ store.new.current \in Values
  BY <1>1 DEF Pairs
<1> QED
  BY <1>1, <1>2 DEF Entry, Pairs

LEMMA TornType == ASSUME TypeOK PROVE Torn \subseteq Pairs
<1>1. Entry \in Pairs /\ Base \in Pairs /\ stored \in Pairs /\ BlankPair \in Pairs
  BY EntryType, ValueFacts DEF TypeOK
<1>2. Mixed(Entry, Base) \subseteq Pairs
  BY <1>1, MixedType
<1> QED
  BY <1>1, <1>2 DEF Torn

\* A whole entry is programmed into a slot that is blank.
LEMMA EntryWhole == ASSUME TypeOK, store.free # "used" PROVE Entry = store.new
<1>1. Base = BlankPair /\ Base.initial = Blank /\ Base.current = Blank
  BY DEF Base, BlankPair
<1>2. store.new = [initial |-> store.new.initial, current |-> store.new.current]
  BY DEF TypeOK, Stores, Pairs
<1> QED
  BY <1>1, <1>2 DEF Entry

LEMMA HandshakeKept ==
  ASSUME Core, UNCHANGED <<sohState, long, startSaveCapacitance, request, toCpu1, toCpu2, check>>
  PROVE  Handshake'
  BY DEF Core, Handshake, Measuring

-----------------------------------------------------------------------------
(* The handler of the settings.                                             *)

LEMMA EndSaveKeepsTypes ==
  ASSUME TypeOK, EndSave, stored' \in Pairs, count' \in Counts, undisturbed' \in BOOLEAN,
         UNCHANGED <<mode, cpu2, toCpu2, check>>
  PROVE  TypeOK'
<1>1. store' \in Stores
  BY DEF TypeOK, EndSave, Stores
<1> QED
  BY <1>1 DEF TypeOK, EndSave, cpu2

LEMMA HandlerKeepsTypes == ASSUME TypeOK, HandleAppVars PROVE TypeOK'
<1>1. UNCHANGED <<mode, cpu2, toCpu2, check>>
  BY DEF HandleAppVars
<1>2. CASE TakeCommand
  <2>1. store' \in Stores
    BY <1>2 DEF TypeOK, TakeCommand, Stores
  <2> QED
    BY <1>1, <1>2, <2>1 DEF TypeOK, TakeCommand, cpu2, history
<1>3. CASE Prepare
  <2>1. store' \in Stores
    BY <1>3 DEF TypeOK, Prepare, Stores
  <2> QED
    BY <1>1, <1>3, <2>1 DEF TypeOK, Prepare, cpu2, history
<1>4. CASE Saved
  BY <1>1, <1>4, EntryType, EndSaveKeepsTypes DEF Saved, TypeOK, history
<1>5. CASE SaveTimesOut
  <2>1. count' \in Counts
    BY <1>5, BoundsAssumption DEF SaveTimesOut, TypeOK, Counts
  <2> QED
    BY <1>1, <1>5, <2>1, TornType, EndSaveKeepsTypes DEF SaveTimesOut
<1>6. CASE Read
  <2>1. store' \in Stores
    BY <1>6 DEF TypeOK, Read, Stores
  <2> QED
    BY <1>1, <1>6, <2>1 DEF TypeOK, Read, cpu2, history
<1> QED
  BY <1>2, <1>3, <1>4, <1>5, <1>6 DEF HandleAppVars

LEMMA HandlerKeepsCore == ASSUME Core, HandleAppVars PROVE Core'
<1>1. Handshake'
  BY HandshakeKept DEF HandleAppVars, cpu2
<1> QED
  BY <1>1, HandlerKeepsTypes DEF Core

LEMMA TakeCommandKeeps ==
  ASSUME Core, Ordered, TakeCommand, UNCHANGED <<mode, cpu2, toCpu2, check>> PROVE Ordered'
<1>1. StoreInv'
  BY DEF Core, Ordered, TypeOK, TakeCommand, Stores, StoreInv
<1>2. MeasureInv'
  BY DEF Core, Ordered, TypeOK, TakeCommand, Stores, MeasureInv, Measuring, cpu2
<1>3. RequestInv'
  BY DEF Core, Ordered, TypeOK, TakeCommand, Stores, StoreInv, RequestInv, Wanted, cpu2
<1> QED
  BY <1>1, <1>2, <1>3 DEF Ordered

LEMMA PrepareKeeps ==
  ASSUME Core, Ordered, Prepare, UNCHANGED <<mode, cpu2, toCpu2, check>> PROVE Ordered'
<1>1. StoreInv'
  BY DEF Core, Ordered, TypeOK, Prepare, Stores, StoreInv
<1>2. MeasureInv'
  BY DEF Core, Ordered, TypeOK, Prepare, Stores, MeasureInv, Measuring, cpu2
<1>3. RequestInv'
  BY DEF Core, Ordered, TypeOK, Prepare, Stores, StoreInv, RequestInv, Wanted, cpu2
<1> QED
  BY <1>1, <1>2, <1>3 DEF Ordered

\* What a save that nothing has disturbed leaves in the flash.
LEMMA SavedEntry ==
  ASSUME Core, Ordered, Saved
  PROVE  /\ store.available /\ ~store.valid
         /\ stored' = IF store.type = "Capacitance" THEN Wanted ELSE stored
<1>1. store.available /\ ~store.valid /\ shown = stored /\ store.free # "used"
  BY DEF Core, TypeOK, Stores, Ordered, StoreInv, Saved
<1>2. stored' = store.new
  BY <1>1, EntryWhole DEF Saved, Core
<1>3. CASE store.type = "Capacitance"
  BY <1>1, <1>2, <1>3 DEF Ordered, RequestInv
<1>4. CASE store.type # "Capacitance"
  <2>1. store.type = "SerialNumber" /\ store.phase = "write"
    BY <1>4 DEF Core, TypeOK, Stores, Saved
  <2> QED
    BY <1>1, <1>2, <1>4, <2>1 DEF Ordered, StoreInv
<1> QED
  BY <1>1, <1>3, <1>4

LEMMA SavedKeeps ==
  ASSUME Core, Ordered, Saved, UNCHANGED <<mode, cpu2, toCpu2, check>> PROVE Ordered'
<1>1. /\ store.available /\ ~store.valid /\ store.phase = "write" /\ store.command # "Write"
      /\ stored' = IF store.type = "Capacitance" THEN Wanted ELSE stored
  BY SavedEntry DEF Saved, Ordered, StoreInv
<1>2. /\ ~store'.available /\ ~store'.valid /\ store'.phase = "read"
      /\ store'.command = store.command
  BY <1>1 DEF Core, TypeOK, Saved, EndSave, Stores
<1>3. StoreInv'
  BY <1>1, <1>2 DEF StoreInv
<1>4. store.type = "Capacitance" \/ store.type = "SerialNumber"
  BY DEF Core, TypeOK, Stores
<1>5. ~(Measuring /\ request < 2)
  BY <1>1 DEF Ordered, MeasureInv
<1>6. MeasureInv'
  <2>1. UNCHANGED <<sohState, long, currentCapacitance, request>>
    BY DEF cpu2
  <2>2. /\ sohState # "CompareWithFlash"
        /\ sohState \in {"SaveNew", "SaveCurrent"} => ~(request < 2)
    BY <1>5 DEF Core, TypeOK, Handshake, Measuring
  <2> QED
    BY <1>5, <2>1, <2>2 DEF Ordered, MeasureInv, Measuring
<1>7. RequestInv'
  <2>1. Wanted' = Wanted /\ UNCHANGED <<request, check>>
    BY DEF Wanted, cpu2
  <2>2. CASE store.type = "Capacitance"
    <3>1. stored' = Wanted /\ check = 1
      BY <1>1, <2>2 DEF Ordered, RequestInv
    <3> QED
      BY <1>2, <2>1, <3>1 DEF Ordered, RequestInv
  <2>3. CASE store.type = "SerialNumber"
    <3>1. stored' = stored /\ check # 1 /\ request # 2
      BY <1>1, <2>3 DEF Ordered, RequestInv
    <3> QED
      BY <1>2, <2>1, <3>1 DEF RequestInv
  <2> QED
    BY <1>4, <2>2, <2>3
<1> QED
  BY <1>3, <1>6, <1>7 DEF Ordered

LEMMA ReadKeeps ==
  ASSUME Core, Ordered, Read, UNCHANGED <<mode, cpu2, toCpu2, check>> PROVE Ordered'
<1>1. PICK slot \in {"first", "blank"} :
        store' = [store EXCEPT !.valid = TRUE, !.phase = "rest", !.free = slot]
  BY DEF Read
<1>2. shown' = stored /\ stored' = stored /\ store.phase = "read"
  BY DEF Read
<1>3. StoreInv'
  BY <1>1, <1>2 DEF Core, TypeOK, Stores, Ordered, StoreInv
<1>4. MeasureInv'
  BY <1>1, <1>2 DEF Core, TypeOK, Stores, Ordered, MeasureInv, Measuring, cpu2
<1>5. RequestInv'
  BY <1>1, <1>2 DEF Core, TypeOK, Stores, Ordered, RequestInv, Wanted, cpu2
<1> QED
  BY <1>3, <1>4, <1>5 DEF Ordered

LEMMA HandlerKeeps == ASSUME IInv, HandleAppVars PROVE IInv'
<1>1. UNCHANGED <<mode, cpu2, toCpu2, check>>
  BY DEF HandleAppVars
<1>2. CASE SaveTimesOut
  BY <1>2, HandlerKeepsCore DEF IInv, SaveTimesOut
<1>3. CASE ~SaveTimesOut
  <2>1. undisturbed' = undisturbed
    BY <1>3 DEF HandleAppVars, TakeCommand, Prepare, Saved, Read, history
  <2> QED
    BY <1>1, <1>3, <2>1, HandlerKeepsCore, TakeCommandKeeps, PrepareKeeps, SavedKeeps, ReadKeeps
       DEF IInv, HandleAppVars
<1> QED
  BY <1>2, <1>3

-----------------------------------------------------------------------------
(* What the IOP asks for.                                                    *)

LEMMA RequestType ==
  ASSUME TypeOK, NEW type \in {"Capacitance", "SerialNumber"}, NEW new \in Pairs,
         store' \in AppVarsSaveRequest(type, new)
  PROVE  /\ store' \in Stores
         /\ store'.command = "Write" /\ store'.available /\ ~store'.valid /\ store'.type = type
         /\ store'.phase = store.phase /\ store'.free = store.free
         /\ store.phase # "write" => store'.new = new
<1>1. PICK n : /\ n \in IF store.phase = "write" THEN Mixed(store.new, new) ELSE {new}
               /\ store' = [store EXCEPT !.command = "Write", !.new = n, !.available = TRUE,
                                         !.valid = FALSE, !.type = type]
  BY DEF AppVarsSaveRequest
<1>2. n \in Pairs
  BY <1>1, MixedType DEF TypeOK, Stores
<1> QED
  BY <1>1, <1>2 DEF TypeOK, Stores

LEMMA SerialKeeps == ASSUME IInv, SaveSerialNumberToFlash PROVE IInv'
<1>1. UNCHANGED <<mode, cpu2, toCpu2, check, shown, stored>> /\ count' \in Counts
  BY BoundsAssumption DEF SaveSerialNumberToFlash, Asked, IInv, Core, TypeOK, Counts
<1>2. /\ store' \in Stores /\ store'.command = "Write" /\ store'.available /\ ~store'.valid
      /\ store'.type = "SerialNumber" /\ store'.phase = store.phase /\ store'.free = store.free
  BY RequestType, ValueFacts DEF SaveSerialNumberToFlash, IInv, Core
<1>3. undisturbed' \in BOOLEAN
  BY DEF SaveSerialNumberToFlash, IInv, Core, TypeOK
<1>4. TypeOK'
  BY <1>1, <1>2, <1>3 DEF IInv, Core, TypeOK, cpu2
<1>5. Handshake'
  BY <1>1, HandshakeKept DEF IInv, cpu2
<1>6. ASSUME undisturbed' PROVE Ordered'
  <2>1. Ordered /\ Free /\ ~Measuring
    BY <1>6 DEF SaveSerialNumberToFlash, IInv, Measuring
  <2>2. store.valid /\ store.phase = "rest"
    BY <2>1 DEF Ordered, StoreInv, Free
  <2>3. request # 2 /\ check # 1
    BY <2>1 DEF IInv, Core, Handshake, Measuring
  <2>4. StoreInv'
    BY <1>1, <1>2, <2>1, <2>2 DEF Ordered, StoreInv
  <2>5. MeasureInv'
    BY <1>1, <2>1 DEF Ordered, MeasureInv, Measuring, cpu2
  <2>6. RequestInv'
    BY <1>1, <1>2, <2>3 DEF RequestInv, cpu2
  <2> QED
    BY <2>4, <2>5, <2>6 DEF Ordered
<1> QED
  BY <1>4, <1>5, <1>6 DEF IInv, Core

LEMMA RestoreKeeps == ASSUME IInv, RetriveSerialNumberFromFlash PROVE IInv'
<1>1. UNCHANGED <<mode, cpu2, toCpu2, check, shown, stored>> /\ count' \in Counts
  BY BoundsAssumption DEF RetriveSerialNumberFromFlash, Asked, IInv, Core, TypeOK, Counts
<1>2. /\ store' \in Stores /\ store'.command = "Read" /\ store'.available = store.available
      /\ store'.valid = store.valid /\ store'.type = store.type /\ store'.new = store.new
      /\ store'.phase = store.phase /\ store'.free = store.free
  BY DEF RetriveSerialNumberFromFlash, IInv, Core, TypeOK, Stores
<1>3. undisturbed' \in BOOLEAN
  BY DEF RetriveSerialNumberFromFlash, IInv, Core, TypeOK
<1>4. TypeOK'
  BY <1>1, <1>2, <1>3 DEF IInv, Core, TypeOK, cpu2
<1>5. Handshake'
  BY <1>1, HandshakeKept DEF IInv, cpu2
<1>6. ASSUME undisturbed' PROVE Ordered'
  <2>1. Ordered /\ store.command # "Write"
    BY <1>6 DEF RetriveSerialNumberFromFlash, IInv
  <2>2. StoreInv'
    BY <1>1, <1>2, <2>1 DEF Ordered, StoreInv
  <2>3. MeasureInv' /\ RequestInv'
    BY <1>1, <1>2, <2>1 DEF Ordered, MeasureInv, RequestInv, Measuring, Wanted, cpu2
  <2> QED
    BY <2>2, <2>3 DEF Ordered
<1> QED
  BY <1>4, <1>5, <1>6 DEF IInv, Core

-----------------------------------------------------------------------------
(* check_SoH.                                                               *)

LEMMA PublishType ==
  ASSUME TypeOK, NEW s \in BOOLEAN, NEW v, Publish(s, v)
  PROVE  /\ toCpu2' \in [saved : BOOLEAN, initial : Values, current : Values]
         /\ toCpu2'.saved = s
         /\ v => toCpu2'.initial = shown.initial
<1>1. shown.initial \in Values /\ shown.current \in Values
  BY DEF TypeOK, Pairs
<1> QED
  BY <1>1, ValueFacts DEF Publish

LEMMA AwaitNewCapacitanceKeeps ==
  ASSUME Core, AwaitNewCapacitance, UNCHANGED <<mode, cpu2, shown, stored, history>>
  PROVE  Core' /\ (Ordered => Ordered')
<1>1. CASE toCpu1.available
  <2>1. store' \in AppVarsSaveRequest("Capacitance", Wanted) /\ check = 0 /\ check' = 1
    BY <1>1 DEF AwaitNewCapacitance, Wanted
  <2>2. request = 2 /\ Wanted \in Pairs
    BY <1>1 DEF Core, Handshake, TypeOK, Wanted, Pairs
  <2>3. toCpu2' \in [saved : BOOLEAN, initial : Values, current : Values] /\ ~toCpu2'.saved
    BY PublishType DEF AwaitNewCapacitance, Core
  <2>4. /\ store' \in Stores
        /\ store'.command = "Write" /\ store'.available /\ ~store'.valid
        /\ store'.type = "Capacitance" /\ store'.phase = store.phase /\ store'.free = store.free
        /\ store.phase # "write" => store'.new = Wanted
    BY <2>1, <2>2, RequestType DEF Core
  <2>5. TypeOK'
    BY <2>1, <2>3, <2>4 DEF Core, TypeOK, cpu2, history
  <2>6. Handshake'
    BY <2>1, <2>2, <2>3 DEF Core, Handshake, Measuring, cpu2
  <2>7. ASSUME Ordered PROVE Ordered'
    <3>1. store.valid /\ store.phase = "rest"
      BY <2>1, <2>2, <2>7 DEF Ordered, StoreInv, RequestInv
    <3>2. StoreInv'
      BY <2>4, <2>7, <3>1 DEF Ordered, StoreInv
    <3>3. MeasureInv'
      BY <2>2, <2>7 DEF Ordered, MeasureInv, Measuring, cpu2
    <3>4. Wanted' = Wanted /\ request' = request
      BY DEF Wanted, cpu2
    <3>5. RequestInv'
      BY <2>1, <2>4, <2>7, <3>1, <3>4 DEF Ordered, RequestInv
    <3> QED
      BY <3>2, <3>3, <3>5 DEF Ordered
  <2> QED
    BY <2>5, <2>6, <2>7 DEF Core
<1>2. CASE ~toCpu1.available
  <2>1. UNCHANGED store /\ check = 0 /\ check' = 0
    BY <1>2 DEF AwaitNewCapacitance
  <2>2. /\ toCpu2' \in [saved : BOOLEAN, initial : Values, current : Values]
        /\ ~toCpu2'.saved /\ (store.valid => toCpu2'.initial = shown.initial)
    BY <2>1, PublishType DEF AwaitNewCapacitance, Core
  <2>3. TypeOK'
    BY <2>1, <2>2 DEF Core, TypeOK, Stores, cpu2, history
  <2>4. Handshake'
    BY <2>1, <2>2 DEF Core, Handshake, Measuring, cpu2
  <2>5. ASSUME Ordered PROVE Ordered'
    <3>1. StoreInv'
      BY <2>1, <2>5 DEF Ordered, StoreInv
    <3>2. MeasureInv'
      BY <2>1, <2>2, <2>5 DEF Ordered, MeasureInv, StoreInv, Measuring, cpu2
    <3>3. RequestInv'
      BY <2>1, <2>2, <2>5 DEF Ordered, RequestInv, Wanted, cpu2
    <3> QED
      BY <3>1, <3>2, <3>3 DEF Ordered
  <2> QED
    BY <2>3, <2>4, <2>5 DEF Core
<1> QED
  BY <1>1, <1>2

LEMMA AwaitSaveKeeps ==
  ASSUME Core, AwaitSave, UNCHANGED <<mode, cpu2, shown, stored, history>>
  PROVE  Core' /\ (Ordered => Ordered')
<1>1. /\ check = 1 /\ check' = (IF store.available THEN 1 ELSE 2)
      /\ request = 2 /\ ~toCpu2.saved /\ UNCHANGED store
  BY DEF AwaitSave, Core, Handshake
<1>2. ~store.available \/ toCpu2.saved \in BOOLEAN
  BY DEF Core, TypeOK, Stores
<1>3. /\ toCpu2' \in [saved : BOOLEAN, initial : Values, current : Values]
      /\ toCpu2'.saved <=> ~store.available
  BY <1>1, <1>2, PublishType DEF AwaitSave, Core, TypeOK, Stores
<1>4. TypeOK'
  BY <1>1, <1>3 DEF Core, TypeOK, Stores, cpu2, history
<1>5. Handshake'
  BY <1>1, <1>3 DEF Core, Handshake, Measuring, cpu2
<1>6. ASSUME Ordered PROVE Ordered'
  <2>1. StoreInv'
    BY <1>1, <1>6 DEF Ordered, StoreInv
  <2>2. MeasureInv'
    BY <1>1, <1>6 DEF Ordered, MeasureInv, Measuring, cpu2
  <2>3. RequestInv'
    BY <1>1, <1>3, <1>6 DEF Ordered, RequestInv, Wanted, cpu2
  <2> QED
    BY <2>1, <2>2, <2>3 DEF Ordered
<1> QED
  BY <1>4, <1>5, <1>6 DEF Core

LEMMA AwaitAcknowledgeKeeps ==
  ASSUME Core, AwaitAcknowledge, UNCHANGED <<mode, cpu2, shown, stored, history>>
  PROVE  Core' /\ (Ordered => Ordered')
<1>1. /\ check = 2 /\ check' = (IF toCpu1.available THEN 2 ELSE 0) /\ UNCHANGED store
      /\ ~(Measuring /\ request < 2)
  BY DEF AwaitAcknowledge, Core, Handshake
<1>2. /\ toCpu2' \in [saved : BOOLEAN, initial : Values, current : Values]
      /\ toCpu2'.saved = toCpu2.saved
  BY PublishType DEF AwaitAcknowledge, Core, TypeOK
<1>3. TypeOK'
  BY <1>1, <1>2 DEF Core, TypeOK, Stores, cpu2, history
<1>4. Handshake'
  BY <1>1, <1>2 DEF Core, Handshake, Measuring, cpu2
<1>5. ASSUME Ordered PROVE Ordered'
  <2>1. StoreInv'
    BY <1>1, <1>5 DEF Ordered, StoreInv
  <2>2. MeasureInv'
    BY <1>1, <1>5 DEF Ordered, MeasureInv, Measuring, cpu2
  <2>3. RequestInv'
    BY <1>1, <1>5 DEF Core, Handshake, Ordered, RequestInv, Wanted, cpu2
  <2> QED
    BY <2>1, <2>2, <2>3 DEF Ordered
<1> QED
  BY <1>3, <1>4, <1>5 DEF Core

LEMMA CheckKeeps == ASSUME IInv, CheckSoH PROVE IInv'
  BY AwaitNewCapacitanceKeeps, AwaitSaveKeeps, AwaitAcknowledgeKeeps DEF CheckSoH, IInv, history

-----------------------------------------------------------------------------
(* energy_storage_check.  What CPU1 keeps is not touched.                      *)

LEMMA CalcKeepsCore ==
  ASSUME Core, CalcWait \/ CalcInit \/ CalcCapacitance \/ CalcEnd, UNCHANGED <<mode, cpu1, history>>
  PROVE  Core' /\ request = 0 /\ UNCHANGED <<startSaveCapacitance, request, toCpu1>>
<1>1. TypeOK'
  <2>1. CASE CalcWait
    BY <2>1 DEF Core, TypeOK, CalcWait, SohStates, cpu1, history
  <2>2. CASE CalcInit
    BY <2>2 DEF Core, TypeOK, CalcInit, SohStates, cpu1, history
  <2>3. CASE CalcCapacitance
    BY <2>3 DEF Core, TypeOK, CalcCapacitance, SohStates, cpu1, history
  <2>4. CASE CalcEnd
    BY <2>4, ValueFacts DEF Core, TypeOK, CalcEnd, SohStates, cpu1, history
  <2> QED
    BY <2>1, <2>2, <2>3, <2>4
<1>2. UNCHANGED <<startSaveCapacitance, request, toCpu1>> /\ request = 0
  BY DEF Core, TypeOK, Handshake, CalcWait, CalcInit, CalcCapacitance, CalcEnd
<1>3. Handshake'
  <2>1. CASE CalcWait
    BY <2>1, <1>2 DEF Core, Handshake, CalcWait, Measuring, cpu1
  <2>2. CASE CalcInit
    BY <2>2, <1>2 DEF Core, Handshake, CalcInit, Measuring, cpu1
  <2>3. CASE CalcCapacitance /\ sohState' = "CalcCapacitance"
    BY <2>3, <1>2 DEF Core, Handshake, CalcCapacitance, Settled, Measuring, cpu1
  <2>4. CASE CalcCapacitance /\ sohState' = "CalcEnd"
    BY <2>4, <1>2 DEF Core, Handshake, CalcCapacitance, Measuring, cpu1
  <2>5. CASE CalcEnd
    BY <2>5, <1>2 DEF Core, Handshake, CalcEnd, Measuring, cpu1
  <2> QED
    BY <2>1, <2>2, <2>3, <2>4, <2>5 DEF CalcCapacitance
<1> QED
  BY <1>1, <1>2, <1>3 DEF Core

\* Before the request is made.
LEMMA Untouched ==
  ASSUME Ordered, UNCHANGED cpu1 PROVE StoreInv' /\ (UNCHANGED <<request, toCpu1>> => RequestInv')
  BY DEF Ordered, StoreInv, RequestInv, Wanted, cpu1

LEMMA CalcKeeps ==
  ASSUME IInv, CalcWait \/ CalcInit \/ CalcCapacitance \/ CalcEnd, UNCHANGED <<mode, cpu1, history>>
  PROVE  IInv'
<1>1. Core' /\ request = 0 /\ UNCHANGED <<startSaveCapacitance, request, toCpu1>>
  BY CalcKeepsCore DEF IInv
<1>2. ASSUME Ordered PROVE MeasureInv'
  <2>1. CASE CalcWait
    BY <2>1, <1>1, <1>2 DEF Ordered, MeasureInv, CalcWait, Measuring, cpu1
  <2>2. CASE CalcInit
    BY <2>2, <1>1, <1>2 DEF Ordered, MeasureInv, CalcInit, Measuring, cpu1
  <2>3. CASE CalcCapacitance /\ sohState' = "CalcCapacitance"
    <3>1. store.valid /\ toCpu2.initial = stored.initial
      BY <2>3, <1>2 DEF CalcCapacitance, Settled, Ordered, StoreInv, MeasureInv
    <3> QED
      BY <2>3, <1>1, <3>1 DEF MeasureInv, Measuring, cpu1
  <2>4. CASE CalcCapacitance /\ sohState' = "CalcEnd"
    BY <2>4, <1>1, <1>2 DEF Ordered, MeasureInv, CalcCapacitance, Measuring, cpu1
  <2>5. CASE CalcEnd
    BY <2>5, <1>1, <1>2 DEF Ordered, MeasureInv, CalcEnd, Measuring, cpu1
  <2> QED
    BY <2>1, <2>2, <2>3, <2>4, <2>5 DEF CalcCapacitance
<1> QED
  BY <1>1, <1>2, Untouched DEF IInv, Ordered, history

LEMMA VerifyKeeps ==
  ASSUME IInv, VerifySoHFromFlash, UNCHANGED <<mode, cpu1, history>> PROVE IInv'
<1>1. /\ UNCHANGED <<long, request, toCpu1, currentCapacitance>> /\ request = 0 /\ long
      /\ ~startSaveCapacitance
      /\ \/ /\ sohState' = "SaveNew" /\ startSaveCapacitance' = TRUE
            /\ toCpu2.initial \in {Blank, Unknown}
         \/ /\ sohState' = "CompareWithFlash" /\ startSaveCapacitance' = FALSE
            /\ toCpu2.initial \notin {Blank, Unknown}
  BY DEF IInv, Core, TypeOK, Handshake, VerifySoHFromFlash
<1>2. TypeOK'
  BY <1>1 DEF IInv, Core, TypeOK, SohStates, cpu1, history
<1>3. Measuring /\ sohState = "VerifySoHFromFlash"
  BY <1>1 DEF Measuring, VerifySoHFromFlash
<1>4. Handshake'
  BY <1>1, <1>3 DEF IInv, Core, Handshake, Measuring, cpu1
<1>5. ASSUME Ordered PROVE MeasureInv'
  <2>1. store.valid /\ toCpu2.initial = stored.initial /\ currentCapacitance \in Capacitances
    BY <1>1, <1>3, <1>5 DEF Ordered, MeasureInv
  <2>2. toCpu2.initial \in {Blank, Unknown} <=> stored.initial \notin Capacitances
    BY <2>1, ValueFacts DEF IInv, Core, TypeOK, Pairs, Values
  <2> QED
    BY <1>1, <2>1, <2>2 DEF MeasureInv, Measuring, cpu1
<1> QED
  BY <1>1, <1>2, <1>4, <1>5, Untouched DEF IInv, Core, Ordered, history

LEMMA CompareKeeps ==
  ASSUME IInv, CompareWithFlash, UNCHANGED <<mode, cpu1, history>> PROVE IInv'
<1>1. /\ UNCHANGED <<long, request, toCpu1>> /\ request = 0 /\ long /\ ~startSaveCapacitance
      /\ sohState' = "SaveCurrent" /\ startSaveCapacitance' = TRUE
  BY DEF IInv, Core, TypeOK, Handshake, CompareWithFlash
<1>2. currentCapacitance' \in Values \ {Blank}
  BY DEF IInv, Core, TypeOK, CompareWithFlash
<1>3. TypeOK'
  BY <1>1, <1>2 DEF IInv, Core, TypeOK, SohStates, cpu1, history
<1>4. Measuring /\ sohState = "CompareWithFlash"
  BY <1>1 DEF Measuring, CompareWithFlash
<1>5. Handshake'
  BY <1>1, <1>4 DEF IInv, Core, Handshake, Measuring, cpu1
<1>6. ASSUME Ordered PROVE MeasureInv'
  <2>1. /\ store.valid /\ toCpu2.initial = stored.initial
        /\ currentCapacitance \in Capacitances /\ stored.initial \in Capacitances
    BY <1>1, <1>4, <1>6 DEF Ordered, MeasureInv
  <2>2. stored.initial # Blank
    BY <2>1, ValueFacts
  <2>3. currentCapacitance' = IF currentCapacitance >= stored.initial THEN stored.initial
                                                                     ELSE currentCapacitance
    BY <2>1, <2>2 DEF CompareWithFlash
  <2>4. currentCapacitance \in Int /\ stored.initial \in Int
    BY <2>1, ValueFacts
  <2>5. currentCapacitance' \in Capacitances /\ currentCapacitance' <= stored.initial
    BY <2>1, <2>3, <2>4
  <2> QED
    BY <1>1, <2>1, <2>5 DEF MeasureInv, Measuring, cpu1
<1> QED
  BY <1>1, <1>3, <1>5, <1>6, Untouched DEF IInv, Core, Ordered, history

\* What SaveNew and SaveCurrent have in common: they differ in the initial value.
LEMMA RequestKeepsCore ==
  ASSUME Core, sohState \in {"SaveNew", "SaveCurrent"}, NEW STATE i, i \in Values, RequestSave(i),
         UNCHANGED <<long, currentCapacitance, mode, cpu1, history>>
  PROVE  Core'
<1>1. long /\ startSaveCapacitance /\ Measuring
  BY DEF Core, Handshake, Measuring
<1>2. CASE request = 0
  <2>1. request' = 1 /\ UNCHANGED <<sohState, startSaveCapacitance, toCpu1>>
    BY <1>2 DEF RequestSave
  <2>2. TypeOK'
    BY <2>1 DEF Core, TypeOK, cpu1, history
  <2>3. Handshake'
    BY <2>1, <1>1, <1>2 DEF Core, Handshake, Measuring, cpu1
  <2> QED
    BY <2>2, <2>3 DEF Core
<1>3. CASE request = 1
  <2>1. /\ toCpu1' = [available |-> TRUE, initial |-> i, current |-> currentCapacitance]
        /\ request' = 2 /\ UNCHANGED <<sohState, startSaveCapacitance>>
    BY <1>3 DEF RequestSave
  <2>2. toCpu1' \in [available : BOOLEAN, initial : Values, current : Values]
    BY <2>1 DEF Core, TypeOK
  <2>3. TypeOK'
    BY <2>1, <2>2 DEF Core, TypeOK, cpu1, history
  <2>4. check = 0 /\ ~toCpu2.saved
    BY <1>1, <1>3 DEF Core, Handshake
  <2>5. Handshake'
    BY <2>1, <2>4, <1>1, <1>3 DEF Core, Handshake, Measuring, cpu1
  <2> QED
    BY <2>3, <2>5 DEF Core
<1>4. CASE request = 2
  <2>1. /\ toCpu1' = [toCpu1 EXCEPT !.available = FALSE] /\ toCpu2.saved
        /\ startSaveCapacitance' = FALSE
        /\ request' = 0 /\ sohState' = "CalcWait"
    BY <1>4 DEF RequestSave
  <2>2. TypeOK'
    <3>1. toCpu1' \in [available : BOOLEAN, initial : Values, current : Values]
      BY <2>1 DEF Core, TypeOK
    <3>2. currentCapacitance' \in Values \ {Blank} /\ long' \in BOOLEAN
      BY DEF Core, TypeOK
    <3>3. sohState' \in SohStates /\ request' \in 0 .. 2
      BY <2>1 DEF SohStates
    <3>4. startSaveCapacitance' \in BOOLEAN
      BY <2>1, Zenon
    <3>5. UNCHANGED <<mode, toCpu2, check, store, shown, stored, count, undisturbed>>
      BY DEF cpu1, history
    <3> QED
      BY <3>1, <3>2, <3>3, <3>4, <3>5 DEF Core, TypeOK
  <2>3. check = 2
    BY <2>1, <1>4 DEF Core, TypeOK, Handshake
  <2>4. Handshake'
    BY <2>1, <2>3 DEF Core, TypeOK, Handshake, Measuring, cpu1
  <2> QED
    BY <2>2, <2>4 DEF Core
<1> QED
  BY <1>2, <1>3, <1>4 DEF RequestSave

LEMMA RequestKeeps ==
  ASSUME Core, Ordered, sohState \in {"SaveNew", "SaveCurrent"}, NEW STATE i, RequestSave(i),
         request < 2 => /\ i \in Capacitances /\ currentCapacitance <= i
                        /\ stored.initial \in Capacitances => i = stored.initial,
         UNCHANGED <<long, currentCapacitance, mode, cpu1>>
  PROVE  Ordered'
<1>1. long /\ currentCapacitance \in Capacitances /\ startSaveCapacitance /\ StoreInv'
  BY Untouched DEF Core, Handshake, Ordered, MeasureInv
<1>2. CASE request = 0
  <2>1. request' = 1 /\ UNCHANGED <<sohState, startSaveCapacitance, toCpu1>>
    BY <1>2 DEF RequestSave
  <2>2. MeasureInv'
    BY <2>1, <1>1, <1>2 DEF Ordered, MeasureInv, Measuring, cpu1
  <2>3. RequestInv'
    BY <2>1, <1>2 DEF Ordered, RequestInv, Wanted, cpu1
  <2> QED
    BY <2>2, <2>3, <1>1 DEF Ordered
<1>3. CASE request = 1
  <2>1. /\ toCpu1' = [available |-> TRUE, initial |-> i, current |-> currentCapacitance]
        /\ request' = 2 /\ UNCHANGED <<sohState, startSaveCapacitance>>
    BY <1>3 DEF RequestSave
  <2>2. store.valid /\ ~store.available /\ check = 0
    BY <1>1, <1>3 DEF Core, Handshake, Ordered, StoreInv, MeasureInv, Measuring
  <2>3. MeasureInv'
    BY <2>1, <1>1 DEF Ordered, MeasureInv, Measuring, cpu1
  <2>4. Wanted' = [initial |-> i, current |-> currentCapacitance]
    BY <2>1 DEF Wanted
  <2>5. RequestInv'
    BY <1>1, <1>3, <2>1, <2>2, <2>4 DEF RequestInv, cpu1
  <2> QED
    BY <2>3, <2>5, <1>1 DEF Ordered
<1>4. CASE request = 2
  <2>1. toCpu2.saved /\ request' = 0 /\ sohState' = "CalcWait"
    BY <1>4 DEF RequestSave
  <2>2. check = 2 /\ ~store.available
    BY <2>1, <1>4 DEF Core, TypeOK, Handshake, Ordered, RequestInv
  <2>3. MeasureInv'
    BY <2>1 DEF MeasureInv, Measuring
  <2>4. RequestInv'
    BY <2>1, <2>2 DEF RequestInv, cpu1
  <2> QED
    BY <2>3, <2>4, <1>1 DEF Ordered
<1> QED
  BY <1>2, <1>3, <1>4 DEF RequestSave

LEMMA SaveKeeps ==
  ASSUME IInv, SaveNew \/ SaveCurrent, UNCHANGED <<mode, cpu1, history>> PROVE IInv'
<1>1. currentCapacitance \in Values /\ toCpu2.initial \in Values
  BY DEF IInv, Core, TypeOK
<1>2. Core'
  BY <1>1, RequestKeepsCore DEF IInv, SaveNew, SaveCurrent
<1>3. ASSUME Ordered, SaveNew PROVE Ordered'
  <2>1. currentCapacitance \in Capacitances
    BY <1>3 DEF SaveNew, Ordered, MeasureInv
  <2>2. currentCapacitance <= currentCapacitance
    BY <2>1, ValueFacts
  <2>3. request < 2 => stored.initial \notin Capacitances
    BY <1>3 DEF SaveNew, Ordered, MeasureInv
  <2> QED
    BY <1>3, <2>1, <2>2, <2>3, RequestKeeps DEF SaveNew, IInv
<1>4. ASSUME Ordered, SaveCurrent PROVE Ordered'
  <2>1. request < 2 => /\ toCpu2.initial = stored.initial /\ stored.initial \in Capacitances
                       /\ currentCapacitance <= stored.initial
    BY <1>4 DEF SaveCurrent, IInv, Core, Handshake, Ordered, MeasureInv, Measuring
  <2> QED
    BY <1>4, <2>1, RequestKeeps DEF SaveCurrent, IInv
<1> QED
  BY <1>2, <1>3, <1>4 DEF IInv, history

-----------------------------------------------------------------------------
LEMMA BootKeeps ==
  /\ stored \in Pairs /\ count \in Counts /\ undisturbed \in BOOLEAN
  /\ Booted(mode, sohState, long, currentCapacitance, startSaveCapacitance, request,
            toCpu1, toCpu2, check, store, shown)
  => IInv
<1> SUFFICES ASSUME stored \in Pairs, count \in Counts, undisturbed \in BOOLEAN,
                    Booted(mode, sohState, long, currentCapacitance, startSaveCapacitance,
                           request, toCpu1, toCpu2, check, store, shown)
             PROVE  IInv
  OBVIOUS
<1>1. TypeOK
  <2>1. toCpu1 \in [available : BOOLEAN, initial : Values, current : Values]
        /\ toCpu2 \in [saved : BOOLEAN, initial : Values, current : Values]
    BY ValueFacts DEF Booted
  <2>2. store \in Stores /\ shown \in Pairs
    BY ValueFacts DEF Booted, Stores
  <2>3. currentCapacitance \in Values \ {Blank}
    BY ValueFacts DEF Booted, Unknown, Blank
  <2>4. mode \in Modes /\ sohState \in SohStates
    BY DEF Booted, Modes, SohStates
  <2>5. long \in BOOLEAN /\ startSaveCapacitance \in BOOLEAN
    BY DEF Booted
  <2>6. request \in 0 .. 2 /\ check \in 0 .. 2
    BY DEF Booted
  <2> QED
    BY <2>1, <2>2, <2>3, <2>4, <2>5, <2>6 DEF TypeOK
<1>2. StoreInv
  BY DEF Booted, StoreInv
<1>3. Handshake /\ MeasureInv /\ RequestInv
  BY DEF Booted, Handshake, MeasureInv, RequestInv, Measuring
<1> QED
  BY <1>1, <1>2, <1>3 DEF IInv, Core, Ordered

THEOREM Initially == Init => IInv
<1>1. Init => count \in Counts
  BY BoundsAssumption DEF Init, Counts
<1> QED
  BY <1>1, BootKeeps, ValueFacts DEF Init

LEMMA StepKeepsIInv == ASSUME IInv, [Next]_vars PROVE IInv'
<1>1. CASE EnergyStorageCheck
  BY <1>1, CalcKeeps, VerifyKeeps, CompareKeeps, SaveKeeps DEF EnergyStorageCheck
<1>2. CASE HandleAppVars
  BY <1>2, HandlerKeeps
<1>3. CASE CheckSoH
  BY <1>3, CheckKeeps
<1>4. CASE SaveSerialNumberToFlash
  BY <1>4, SerialKeeps
<1>5. CASE RetriveSerialNumberFromFlash
  BY <1>5, RestoreKeeps
<1>6. CASE ModeChange
  BY <1>6 DEF ModeChange, IInv, Core, TypeOK, Handshake, Ordered, StoreInv, MeasureInv,
              RequestInv, Measuring, Wanted, cpu1, cpu2, history
<1>7. CASE Reset
  <2>1. (stored \in Pairs /\ count \in Counts /\ undisturbed \in BOOLEAN)'
    BY <1>7, TornType DEF Reset, IInv, Core, TypeOK
  <2>2. Booted(mode, sohState, long, currentCapacitance, startSaveCapacitance, request,
               toCpu1, toCpu2, check, store, shown)'
    BY <1>7 DEF Reset, Booted
  <2> QED
    BY <2>1, <2>2, BootKeeps, PTL
<1>8. CASE UNCHANGED vars
  BY <1>8 DEF vars, IInv, Core, TypeOK, Handshake, Ordered, StoreInv, MeasureInv,
              RequestInv, Measuring, Wanted, cpu1, cpu2, history
<1> QED
  BY <1>1, <1>2, <1>3, <1>4, <1>5, <1>6, <1>7, <1>8 DEF Next

(* The inductive invariant holds in every reachable state.                    *)
THEOREM Invariance == Spec => []IInv
<1>1. Init => IInv
  BY Initially
<1>2. IInv /\ [Next]_vars => IInv'
  BY StepKeepsIInv
<1> QED
  BY <1>1, <1>2, PTL DEF Spec

(* Every reachable state of the measurement, its request and the handler is well     *)
(* typed (energy_storage.c:84-130, check_CPU2.c:36-75, application_vars.c:54-72).       *)
THEOREM TypeCorrect == Spec => []TypeOK
<1>1. IInv => TypeOK
  BY DEF IInv, Core
<1> QED
  BY <1>1, Invariance, PTL

(* An answer that CPU2 takes for its own is its own, and the flash holds what was     *)
(* asked for, whatever the IOP saved before and however the reset before it fell, until  *)
(* something disturbs the handler (energy_storage.c:97, check_CPU2.c:50).             *)
THEOREM SavedAsAsked == Spec => []SavedIsAsked
<1>1. IInv => SavedIsAsked
  BY DEF IInv, Core, TypeOK, Handshake, Ordered, RequestInv, Wanted, SavedIsAsked, AsAsked
<1> QED
  BY <1>1, Invariance, PTL

LEMMA ResetLoses == ASSUME Reset, ~ResetInSave PROVE stored' = stored
<1>1. store.phase \notin {"save", "write"}
  BY DEF Reset, Booted, ResetInSave
<1> QED
  BY <1>1 DEF Reset, Torn

(* A stored initial capacitance is kept and bounds every later one, by every step but  *)
(* those that disturb the handler and a reset in the middle of a save                *)
(* (energy_storage.c:240-272).                                                 *)
THEOREM InitialCapacitanceKept == Spec => InitialKept
<1>1. ASSUME IInv, [Next]_vars, Replaced, undisturbed, undisturbed', ~ResetInSave
      PROVE  stored'.initial = stored.initial /\ stored'.current <= stored.initial
  <2>1. Saved
    BY <1>1, ResetLoses DEF Replaced, Next, vars, EnergyStorageCheck, HandleAppVars, TakeCommand,
       Prepare, SaveTimesOut, Read, CheckSoH, SaveSerialNumberToFlash,
       RetriveSerialNumberFromFlash, Asked, ModeChange, cpu1
  <2>2. store.available /\ stored' = IF store.type = "Capacitance" THEN Wanted ELSE stored
    BY <1>1, <2>1, SavedEntry DEF IInv
  <2>3. stored' = Wanted /\ store.type = "Capacitance"
    BY <1>1, <2>2 DEF Replaced
  <2>4. check = 1 /\ request = 2
    BY <1>1, <2>2, <2>3 DEF IInv, Core, Handshake, Ordered, RequestInv
  <2>5. Wanted.initial = stored.initial /\ Wanted.current <= Wanted.initial
    BY <1>1, <2>4 DEF IInv, Ordered, RequestInv, Replaced
  <2> QED
    BY <2>3, <2>5
<1>2. IInv /\ [Next]_vars =>
        [Replaced /\ undisturbed /\ undisturbed' /\ ~ResetInSave =>
           stored'.initial = stored.initial /\ stored'.current <= stored.initial]_vars
  BY <1>1
<1> QED
  BY <1>2, Invariance, PTL DEF Spec, InitialKept

-----------------------------------------------------------------------------
(* How far a save is from its answer: the safety half of SaveAnswered.        *)

\* The handler's steps from where it is to the end of a save.
StoreAhead ==
  CASE store.phase = "save" -> 2
    [] store.phase = "write" -> 1
    [] store.phase = "read" -> 4
    [] OTHER -> 3

\* The steps from the start of a save to its end.
AnswerAhead ==
  IF ~startSaveCapacitance THEN 0
  ELSE IF request = 0 THEN 9
  ELSE IF request = 1 THEN 8
  ELSE IF check = 0 THEN 7
  ELSE IF check = 2 THEN 1
  ELSE IF store.available THEN 2 + StoreAhead ELSE 2

\* Who takes the next one.
NextIsCpu2 == AnswerAhead \in {9, 8, 1}
NextIsCpu1 == AnswerAhead \in {7, 2}
NextIsStore == AnswerAhead \in 3 .. 6

\* CPU1 waits for a save that a reading has taken the command of.
Lost == check = 1 /\ Overtaken

\* The IOP asks for another save before CPU1 has seen the end of this one.
AskedAgain == AnswerAhead = 2 /\ SaveSerialNumberToFlash

AnswerCounts ==
  startSaveCapacitance /\ ~Lost /\ ~Reset /\ ~AskedAgain =>
    IF \/ NextIsCpu2 /\ EnergyStorageCheck
       \/ NextIsCpu1 /\ CheckSoH
       \/ NextIsStore /\ HandleAppVars
    THEN AnswerAhead' < AnswerAhead ELSE AnswerAhead' = AnswerAhead

LEMMA StoreAheadType == StoreAhead \in 1 .. 4
  BY DEF StoreAhead

\* What a save depends on.
LEMMA AheadKept ==
  ASSUME Core, startSaveCapacitance, UNCHANGED <<startSaveCapacitance, request, check>>,
         check = 1 => \/ ~store.available /\ ~store'.available
                      \/ /\ store.available /\ store'.available
                         /\ store'.phase = store.phase
  PROVE  AnswerAhead' = AnswerAhead
<1>1. check \in 0 .. 2
  BY DEF Core, TypeOK
<1>2. CASE check # 1
  BY <1>1, <1>2 DEF AnswerAhead
<1>3. CASE check = 1 /\ ~store.available /\ ~store'.available
  BY <1>3 DEF AnswerAhead
<1>4. CASE check = 1 /\ store.available /\ store'.available /\ store'.phase = store.phase
  <2>1. StoreAhead' = StoreAhead
    BY <1>4 DEF StoreAhead
  <2> QED
    BY <1>4, <2>1 DEF AnswerAhead
<1> QED
  BY <1>2, <1>3, <1>4

LEMMA Cpu2Answers ==
  ASSUME Core, startSaveCapacitance, EnergyStorageCheck
  PROVE  /\ NextIsCpu2 => AnswerAhead' < AnswerAhead
         /\ ~NextIsCpu2 => AnswerAhead' = AnswerAhead
<1>1. PICK i : RequestSave(i)
  BY DEF EnergyStorageCheck, Core, Handshake, CalcWait, CalcInit, CalcCapacitance, CalcEnd,
     VerifySoHFromFlash, CompareWithFlash, SaveNew, SaveCurrent
<1>2. UNCHANGED <<check, store, toCpu2>>
  BY DEF EnergyStorageCheck, cpu1
<1>3. CASE request = 0
  BY <1>1, <1>2, <1>3 DEF RequestSave, AnswerAhead, NextIsCpu2
<1>4. CASE request = 1
  <2>1. check = 0
    BY <1>4 DEF Core, Handshake, Measuring
  <2>2. AnswerAhead = 8 /\ AnswerAhead' = 7
    BY <1>1, <1>2, <1>4, <2>1 DEF RequestSave, AnswerAhead
  <2> QED
    BY <2>2 DEF NextIsCpu2
<1>5. CASE request = 2
  <2>1. toCpu2.saved /\ ~startSaveCapacitance'
    BY <1>1, <1>5 DEF RequestSave
  <2>2. check = 2
    BY <1>5, <2>1 DEF Core, TypeOK, Handshake
  <2>3. AnswerAhead = 1 /\ AnswerAhead' = 0
    BY <1>5, <2>1, <2>2 DEF AnswerAhead
  <2> QED
    BY <2>3 DEF NextIsCpu2
<1> QED
  BY <1>1, <1>3, <1>4, <1>5 DEF RequestSave

LEMMA Cpu1Answers ==
  ASSUME Core, startSaveCapacitance, CheckSoH
  PROVE  /\ NextIsCpu1 => AnswerAhead' < AnswerAhead
         /\ ~NextIsCpu1 => AnswerAhead' = AnswerAhead
<1>1. UNCHANGED <<startSaveCapacitance, request, toCpu1>>
  BY DEF CheckSoH, cpu2
<1>2. request \in 0 .. 2 /\ check \in 0 .. 2 /\ (toCpu1.available <=> request = 2)
  BY DEF Core, TypeOK, Handshake
<1>3. CASE AwaitNewCapacitance
  <2>1. CASE request = 2
    <3>1. check = 0 /\ check' = 1 /\ AnswerAhead = 7
      BY <1>1, <1>2, <1>3, <2>1 DEF AwaitNewCapacitance, AnswerAhead
    <3>2. AnswerAhead' = 2 \/ AnswerAhead' = 2 + StoreAhead'
      BY <1>1, <2>1, <3>1 DEF AnswerAhead
    <3>3. StoreAhead' \in 1 .. 4
      BY DEF StoreAhead
    <3>4. \A n \in 1 .. 4 : 2 + n < 7
      OBVIOUS
    <3>5. AnswerAhead' < 7
      BY <3>2, <3>3, <3>4
    <3> QED
      BY <3>1, <3>5 DEF NextIsCpu1
  <2>2. CASE request # 2
    <3>1. UNCHANGED <<check, store>>
      BY <1>2, <1>3, <2>2 DEF AwaitNewCapacitance
    <3>2. ~NextIsCpu1
      BY <1>2, <2>2 DEF NextIsCpu1, AnswerAhead
    <3>3. check # 1
      BY <1>3 DEF AwaitNewCapacitance
    <3> QED
      BY <1>1, <3>1, <3>2, <3>3, AheadKept
  <2> QED
    BY <2>1, <2>2
<1>4. CASE AwaitSave
  <2>1. check = 1 /\ request = 2 /\ UNCHANGED store
    BY <1>4 DEF AwaitSave, Core, Handshake
  <2>2. CASE store.available
    <3>1. check' = check
      BY <1>4, <2>1, <2>2 DEF AwaitSave
    <3>2. AnswerAhead = 2 + StoreAhead
      BY <2>1, <2>2 DEF AnswerAhead
    <3>3. ~NextIsCpu1
      BY <3>2, StoreAheadType DEF NextIsCpu1
    <3> QED
      BY <1>1, <2>1, <2>2, <3>1, <3>3, AheadKept
  <2>3. CASE ~store.available
    <3>1. check' = 2
      BY <1>4, <2>3 DEF AwaitSave
    <3>2. AnswerAhead = 2 /\ AnswerAhead' = 1
      BY <1>1, <2>1, <2>3, <3>1 DEF AnswerAhead
    <3> QED
      BY <3>2 DEF NextIsCpu1
  <2> QED
    BY <2>2, <2>3
<1>5. CASE AwaitAcknowledge
  <2>1. check = 2 /\ request = 2
    BY <1>2, <1>5 DEF AwaitAcknowledge, Core, Handshake, Measuring, TypeOK
  <2>2. check' = check
    BY <1>2, <1>5, <2>1 DEF AwaitAcknowledge
  <2>3. ~NextIsCpu1
    BY <2>1 DEF NextIsCpu1, AnswerAhead
  <2> QED
    BY <1>1, <2>1, <2>2, <2>3, AheadKept
<1> QED
  BY <1>3, <1>4, <1>5 DEF CheckSoH

LEMMA StoreAnswers ==
  ASSUME Core, startSaveCapacitance, ~Lost, HandleAppVars
  PROVE  /\ NextIsStore => AnswerAhead' < AnswerAhead
         /\ ~NextIsStore => AnswerAhead' = AnswerAhead
<1>1. UNCHANGED <<startSaveCapacitance, request, check>> /\ store \in Stores
  BY DEF HandleAppVars, cpu2, Core, TypeOK
<1>2. request \in 0 .. 2 /\ check \in 0 .. 2 /\ (check = 1 => request = 2)
  BY DEF Core, TypeOK, Handshake
<1>3. CASE check # 1
  <2>1. ~NextIsStore
    BY <1>2, <1>3 DEF NextIsStore, AnswerAhead
  <2> QED
    BY <1>1, <1>3, <2>1, AheadKept
<1>4. CASE check = 1 /\ ~store.available
  <2>1. ~store'.available
    BY <1>1, <1>4 DEF HandleAppVars, TakeCommand, Prepare, Saved, SaveTimesOut, EndSave, Read, Stores
  <2>2. AnswerAhead = 2
    BY <1>2, <1>4 DEF AnswerAhead
  <2> QED
    BY <1>1, <1>4, <2>1, <2>2, AheadKept DEF NextIsStore
<1>5. CASE check = 1 /\ store.available
  <2>1. AnswerAhead = 2 + StoreAhead /\ NextIsStore
    <3>1. AnswerAhead = 2 + StoreAhead
      BY <1>2, <1>5 DEF AnswerAhead
    <3> QED
      BY <3>1, StoreAheadType DEF NextIsStore
  <2>2. store.command = "Write" \/ store.phase \in {"save", "write"}
    BY <1>5 DEF Lost, Overtaken
  <2>3. store'.available => AnswerAhead' = 2 + StoreAhead'
    BY <1>1, <1>2, <1>5 DEF AnswerAhead
  <2>4. ~store'.available => AnswerAhead' = 2
    BY <1>1, <1>2, <1>5 DEF AnswerAhead
  <2>5. CASE TakeCommand
    <3>1. store.command = "Write" /\ store.phase = "rest"
      BY <2>2, <2>5 DEF TakeCommand
    <3>2. store'.available /\ store'.phase = "save"
      BY <1>1, <1>5, <2>5, <3>1 DEF TakeCommand, Stores
    <3>3. StoreAhead = 3 /\ StoreAhead' = 2
      BY <3>1, <3>2 DEF StoreAhead
    <3> QED
      BY <2>1, <2>3, <3>2, <3>3
  <2>6. CASE Prepare
    <3>1. store'.available /\ store'.phase = "write" /\ store.phase = "save"
      BY <1>1, <1>5, <2>6 DEF Prepare, Stores
    <3>2. StoreAhead = 2 /\ StoreAhead' = 1
      BY <3>1 DEF StoreAhead
    <3> QED
      BY <2>1, <2>3, <3>1, <3>2
  <2>7. CASE Saved \/ SaveTimesOut
    <3>1. ~store'.available
      BY <1>1, <2>7 DEF Saved, SaveTimesOut, EndSave, Stores
    <3>2. \A n \in 1 .. 4 : 2 < 2 + n
      OBVIOUS
    <3> QED
      BY <2>1, <2>4, <3>1, <3>2, StoreAheadType
  <2>8. CASE Read
    <3>1. store'.available /\ store'.phase = "rest" /\ store.phase = "read"
      BY <1>1, <1>5, <2>8 DEF Read, Stores
    <3>2. StoreAhead = 4 /\ StoreAhead' = 3
      BY <3>1 DEF StoreAhead
    <3> QED
      BY <2>1, <2>3, <3>1, <3>2
  <2> QED
    BY <2>5, <2>6, <2>7, <2>8 DEF HandleAppVars
<1> QED
  BY <1>3, <1>4, <1>5

\* What the IOP asks for does not make the way longer.
LEMMA IopAnswers ==
  ASSUME Core, startSaveCapacitance, ~AskedAgain,
         SaveSerialNumberToFlash \/ RetriveSerialNumberFromFlash
  PROVE  AnswerAhead' = AnswerAhead
<1>1. UNCHANGED <<startSaveCapacitance, request, check>> /\ store \in Stores
  BY DEF SaveSerialNumberToFlash, RetriveSerialNumberFromFlash, Asked, cpu2, Core, TypeOK
<1>2. CASE RetriveSerialNumberFromFlash
  <2>1. store'.available = store.available /\ store'.phase = store.phase
    BY <1>1, <1>2 DEF RetriveSerialNumberFromFlash, Stores
  <2>2. store.available \in BOOLEAN
    BY <1>1 DEF Stores
  <2> QED
    BY <1>1, <2>1, <2>2, AheadKept
<1>3. CASE SaveSerialNumberToFlash
  <2>1. store'.available /\ store'.phase = store.phase
    BY <1>3, RequestType, ValueFacts DEF SaveSerialNumberToFlash, Core
  <2>2. check = 1 => store.available
    <3>1. SUFFICES ASSUME check = 1, ~store.available PROVE FALSE
      OBVIOUS
    <3>2. AnswerAhead = 2
      BY <3>1 DEF Core, Handshake, AnswerAhead
    <3> QED
      BY <1>3, <3>2 DEF AskedAgain
  <2> QED
    BY <1>1, <2>1, <2>2, AheadKept
<1> QED
  BY <1>2, <1>3

LEMMA AnswerNear == ASSUME Core, [Next]_vars PROVE AnswerCounts
<1> DEFINE Taken == \/ NextIsCpu2 /\ EnergyStorageCheck
                    \/ NextIsCpu1 /\ CheckSoH
                    \/ NextIsStore /\ HandleAppVars
<1> SUFFICES ASSUME startSaveCapacitance, ~Lost, ~Reset, ~AskedAgain
             PROVE  (Taken => AnswerAhead' < AnswerAhead) /\ (~Taken => AnswerAhead' = AnswerAhead)
  BY DEF AnswerCounts
<1>1. CASE Taken
  BY <1>1, Cpu2Answers, Cpu1Answers, StoreAnswers
<1>2. CASE ~Taken
  <2>1. ModeChange \/ UNCHANGED vars => AnswerAhead' = AnswerAhead
    <3>1. ModeChange \/ UNCHANGED vars =>
            UNCHANGED <<startSaveCapacitance, request, check, store>>
      BY DEF ModeChange, vars, cpu1, cpu2
    <3>2. store.available \in BOOLEAN
      BY DEF Core, TypeOK, Stores
    <3> QED
      BY <3>1, <3>2, AheadKept
  <2>2. AnswerAhead' = AnswerAhead
    BY <1>2, <2>1, Cpu2Answers, Cpu1Answers, StoreAnswers, IopAnswers DEF Next
  <2> QED
    BY <1>2, <2>2
<1> QED
  BY <1>1, <1>2

(* A save of the capacitances is at most nine steps from its end.  CPU2, CPU1 or the    *)
(* handler has to take the next one and takes it with its next action; no serial number  *)
(* read or saved, no time-out and no other CPU makes the way longer, unless the IOP asks  *)
(* for one more save before CPU1 has seen the end of this one.  It is lost only once a    *)
(* reading has replaced its command.  With the fairness of the three, that is what lets   *)
(* SaveAnswered hold (energy_storage.c:97, check_CPU2.c:60, application_vars.c:351).      *)
THEOREM AnswerNears ==
  Spec => [](startSaveCapacitance => AnswerAhead \in 1 .. 9) /\ [][AnswerCounts]_vars
<1>1. IInv => Core
  BY DEF IInv
<1>2. Core /\ [Next]_vars => [AnswerCounts]_vars
  BY AnswerNear
<1>3. startSaveCapacitance => AnswerAhead \in 1 .. 9
  <2>1. \A n \in 1 .. 4 : 2 + n \in 1 .. 9
    OBVIOUS
  <2> QED
    BY <2>1, StoreAheadType DEF AnswerAhead
<1> QED
  BY <1>1, <1>2, <1>3, Invariance, PTL DEF Spec
=============================================================================
