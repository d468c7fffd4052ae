----------------------- MODULE DcBusProtection_proofs -----------------------
(***************************************************************************)
(* Proofs about DcBusProtection and its disturbances, for any waits and any   *)
(* number of disturbances: its types, how many faults the disturbances can    *)
(* lead to, and how far a trip or a bus that stays wrong is from a fault.      *)
(***************************************************************************)
EXTENDS MCDcBusProtection, TLAPS

\* Types, with the count of looks while the under-voltage handler waits.
Types ==
  /\ TypeOK
  /\ stateBUV = "Wait" => BUVWaitCount <= UNDER_COUNT
  /\ disturbances \in Nat /\ faults \in Nat

Ind(p) == IF p THEN 1 ELSE 0

\* A trip that is reported, and that the handlers, or the short-circuit check
\* among them, have yet to see in this turn.
Pending == efuse_top_half_flag /\ step \notin {"TEMP", "report"}
Unchecked == efuse_top_half_flag /\ step \notin {"LOC", "TEMP", "report"}

\* What is left of the disturbances; each has left at most one of these.
Traces ==
  Ind(bus = "over" \/ stateBOV = "StopMainStateMachine")
  + Ind(load # "normal" \/ stateLOC = "StopMainStateMachine")
  + Ind("Vin" \in occurred) + Ind("BB" \in occurred) + Ind(Pending)

\* The next tick leads to Fault, or may.
Doomed == (faultNext \/ dpmuErrorOcurredFlag) /\ controller # "fault"

\* The faults that may follow when all is calm: one of the next tick, one of each
\* handler that is to stop the unit, and two of a pending trip, which raises an
\* error itself and has the over-current handler raise another.
Ahead ==
  Ind(stateBOV = "StopMainStateMachine") + Ind(stateLOC = "StopMainStateMachine")
  + Ind(Pending) + Ind(Unchecked)
Debt == Ind(Doomed) + Ahead

Balance == IF Calm THEN faults + Debt <= disturbances + 2 ELSE faults = 0

IInv == Types /\ Traces <= disturbances /\ Balance

-----------------------------------------------------------------------------
LEMMA IndType == \A p : Ind(p) \in 0 .. 1
  BY DEF Ind

LEMMA CountsType == Traces \in Nat /\ Ahead \in Nat /\ Debt \in Nat
<1>1. \A a, b, c, d, e \in 0 .. 1 : a + b + c + d + e \in Nat
  OBVIOUS
<1>2. Ahead \in Nat
  BY IndType DEF Ahead
<1> QED
  BY <1>1, <1>2, IndType DEF Traces, Debt

\* What is left of the disturbances bounds what may follow.
LEMMA DebtBound == Debt <= Traces + 2
<1>1. /\ Ind(stateBOV = "StopMainStateMachine") <= Ind(bus = "over" \/ stateBOV = "StopMainStateMachine")
      /\ Ind(stateLOC = "StopMainStateMachine") <= Ind(load # "normal" \/ stateLOC = "StopMainStateMachine")
  BY DEF Ind
<1>2. \A b, l, sb, sl, v, w, p, u, d \in 0 .. 1 :
        sb <= b /\ sl <= l => d + (sb + sl + p + u) <= b + l + v + w + p + 2
  OBVIOUS
<1> QED
  BY <1>1, <1>2, IndType DEF Traces, Debt, Ahead

-----------------------------------------------------------------------------
(* Types.                                                                   *)

LEMMA WaitType == DOMAIN Wait = {"BOV", "LOC", "BUV"} /\ \A h \in DOMAIN Wait : Wait[h] \in Nat
  BY WaitAssumption DEF Wait

LEMMA InitTypes == MCInit => Types
<1> SUFFICES ASSUME MCInit PROVE Types
  OBVIOUS
<1>1. DOMAIN age = DOMAIN Wait /\ \A h \in DOMAIN Wait : age[h] \in 0 .. Wait[h] + 1
  BY WaitType DEF MCInit, Init
<1>2. samples \in [Fuses -> 0 .. 2] /\ BUVWaitCount \in 0 .. UNDER_COUNT + 1
  BY WaitAssumption DEF MCInit, Init
<1> QED
  BY <1>1, <1>2 DEF MCInit, Init, Types, TypeOK, Fuses, Steps, HandlerStates

\* The ages stay in their range when one of them is restarted.
LEMMA RestartType ==
  ASSUME TypeOK, NEW h \in DOMAIN Wait, Restart(h) \/ UNCHANGED age
  PROVE  DOMAIN age' = DOMAIN Wait /\ \A g \in DOMAIN Wait : age'[g] \in 0 .. Wait[g] + 1
  BY WaitType DEF TypeOK, Restart

LEMMA TickKeepsTypes == ASSUME TypeOK, Tick PROVE TypeOK'
<1>1. /\ controller' \in {"down", "up", "fault"}
      /\ DPMUInitializedFlag' \in BOOLEAN /\ test_update_of_error_codes' \in BOOLEAN
      /\ dpmuErrorOcurredFlag' \in BOOLEAN
  BY DEF TypeOK, Tick, OwnTick, RequestedTick, FaultTick, StartTick, OtherTick, FaultOr
<1> QED
  BY <1>1 DEF TypeOK, Tick, OwnTick, RequestedTick, AfterTick, tops, handlers, sensors

LEMMA EfuseKeepsTypes ==
  ASSUME TypeOK, NEW f \in Fuses, NEW next \in Steps, HandleEfuse(f, next)
  PROVE  TypeOK'
<1>1. samples' \in [Fuses -> 0 .. 2] /\ occurred' \subseteq Fuses
  BY DEF TypeOK, HandleEfuse, tops
<1>2. efuse_top_half_flag' \in BOOLEAN /\ faultNext' \in BOOLEAN
  BY DEF TypeOK, HandleEfuse, tops
<1> QED
  BY <1>1, <1>2 DEF TypeOK, HandleEfuse, At, shared, handlers, sensors

LEMMA PersistType ==
  ASSUME NEW h, NEW s \in HandlerStates, NEW limit
  PROVE  Persist(h, s, limit) \in HandlerStates
  BY DEF Persist, HandlerStates

LEMMA OverVoltageKeepsTypes == ASSUME TypeOK, HandleDCBusOverVoltage PROVE TypeOK'
<1>1. DOMAIN age' = DOMAIN Wait /\ \A g \in DOMAIN Wait : age'[g] \in 0 .. Wait[g] + 1
  BY RestartType, WaitType DEF HandleDCBusOverVoltage, TouchTime
<1>2. stateBOV' \in HandlerStates
  BY PersistType DEF TypeOK, HandleDCBusOverVoltage
<1>3. dpmuErrorOcurredFlag' \in BOOLEAN
  BY DEF TypeOK, HandleDCBusOverVoltage, Raise
<1> QED
  BY <1>1, <1>2, <1>3 DEF TypeOK, HandleDCBusOverVoltage, At, Steps, tops, sensors

LEMMA OverCurrentKeepsTypes == ASSUME TypeOK, HandleLoadOverCurrent PROVE TypeOK'
<1>1. DOMAIN age' = DOMAIN Wait /\ \A g \in DOMAIN Wait : age'[g] \in 0 .. Wait[g] + 1
  BY RestartType, WaitType DEF HandleLoadOverCurrent, TouchTime
<1>2. stateLOC' \in HandlerStates
  <2>1. Persist("LOC", stateLOC, load # "normal") \in HandlerStates
    BY PersistType DEF TypeOK
  <2> QED
    BY <2>1 DEF HandleLoadOverCurrent, HandlerStates
<1>3. dpmuErrorOcurredFlag' \in BOOLEAN
  BY DEF TypeOK, HandleLoadOverCurrent, Raise
<1> QED
  BY <1>1, <1>2, <1>3 DEF TypeOK, HandleLoadOverCurrent, At, Steps, tops, sensors

LEMMA UnderVoltageKeepsTypes ==
  ASSUME Types, HandleDCBusUnderVoltage
  PROVE  TypeOK' /\ (stateBUV' = "Wait" => BUVWaitCount' <= UNDER_COUNT)
<1> USE DEF Types
<1>1. DOMAIN age' = DOMAIN Wait /\ \A g \in DOMAIN Wait : age'[g] \in 0 .. Wait[g] + 1
  <2>1. Restart("BUV") \/ UNCHANGED age
    BY DEF HandleDCBusUnderVoltage
  <2> QED
    BY <2>1, RestartType, WaitType
<1>2. /\ stateBUV' \in HandlerStates /\ BUVWaitCount' \in 0 .. UNDER_COUNT + 1
      /\ stateBUV' = "Wait" => BUVWaitCount' <= UNDER_COUNT
  <2>1. CASE stateBUV = "Init"
    BY <2>1, WaitAssumption DEF TypeOK, HandleDCBusUnderVoltage, HandlerStates
  <2>2. CASE stateBUV = "Wait" /\ Elapsed("BUV")
    <3>1. /\ BUVWaitCount' = IF bus = "collapsed" THEN BUVWaitCount ELSE BUVWaitCount + 1
          /\ stateBUV' = CASE bus = "collapsed" -> "StopMainStateMachine"
                           [] bus # "collapsed" /\ LookedEnough(BUVWaitCount') -> "Init"
                           [] OTHER -> "Wait"
      BY <2>2 DEF HandleDCBusUnderVoltage
    <3>2. BUVWaitCount \in 0 .. UNDER_COUNT
      BY <2>2, WaitAssumption DEF TypeOK
    <3>3. CASE bus = "collapsed"
      BY <3>1, <3>2, <3>3, WaitAssumption DEF HandlerStates
    <3>4. CASE bus # "collapsed"
      BY <3>1, <3>2, <3>4, WaitAssumption DEF HandlerStates, LookedEnough
    <3> QED
      BY <3>3, <3>4
  <2>3. CASE stateBUV = "Wait" /\ ~Elapsed("BUV")
    BY <2>3 DEF TypeOK, HandleDCBusUnderVoltage, HandlerStates
  <2>4. CASE stateBUV \in {"StopMainStateMachine", "End"}
    BY <2>4 DEF TypeOK, HandleDCBusUnderVoltage, HandlerStates
  <2> QED
    BY <2>1, <2>2, <2>3, <2>4 DEF TypeOK, HandlerStates
<1> QED
  BY <1>1, <1>2 DEF TypeOK, HandleDCBusUnderVoltage, At, Steps, shared, tops, sensors

LEMMA LoopKeepsTypes ==
  ASSUME Types, SuperLoop
  PROVE  TypeOK' /\ (stateBUV' = "Wait" => BUVWaitCount' <= UNDER_COUNT)
<1> USE DEF Types
<1>1. CASE Report
  <2>1. /\ UNCHANGED <<controller, faultNext, occurred, samples, sensors>>
        /\ UNCHANGED shared /\ UNCHANGED handlers
        /\ efuse_top_half_flag' \in BOOLEAN /\ step' \in Steps
    BY <1>1 DEF Report, At, Steps
  <2> QED
    BY <2>1 DEF TypeOK, shared, handlers, sensors
<1>2. CASE handleEfuseVinOccurence
  <2>1. TypeOK'
    BY <1>2, EfuseKeepsTypes DEF handleEfuseVinOccurence, Fuses, Steps
  <2> QED
    BY <1>2, <2>1 DEF handleEfuseVinOccurence, HandleEfuse, handlers
<1>3. CASE handleEFuseBBOccurence
  <2>1. TypeOK'
    BY <1>3, EfuseKeepsTypes DEF handleEFuseBBOccurence, Fuses, Steps
  <2> QED
    BY <1>3, <2>1 DEF handleEFuseBBOccurence, HandleEfuse, handlers
<1>4. CASE Check
  BY <1>4 DEF TypeOK, Check, Steps, shared, tops, handlers, sensors
<1>5. CASE HandleDCBusOverVoltage
  BY <1>5, OverVoltageKeepsTypes DEF HandleDCBusOverVoltage
<1>6. CASE HandleDCBusUnderVoltage
  BY <1>6, UnderVoltageKeepsTypes
<1>7. CASE HandleDCBusShortCircuit
  BY <1>7 DEF TypeOK, HandleDCBusShortCircuit, At, Raise, Steps, tops, handlers, sensors
<1>8. CASE HandleLoadOverCurrent
  BY <1>8, OverCurrentKeepsTypes DEF HandleLoadOverCurrent
<1>9. CASE HandleOverTemperature
  BY <1>9 DEF TypeOK, HandleOverTemperature, At, Steps, shared, tops, sensors
<1> QED
  BY <1>1, <1>2, <1>3, <1>4, <1>5, <1>6, <1>7, <1>8, <1>9 DEF SuperLoop

LEMMA RestKeepsTypes ==
  ASSUME Types, NEW f \in Fuses, EfuseInterrupt(f) \/ INT_myCPUTIMER2_ISR \/ Reading
  PROVE  TypeOK' /\ UNCHANGED <<stateBUV, BUVWaitCount>>
<1> USE DEF Types
<1>1. CASE EfuseInterrupt(f)
  BY <1>1 DEF TypeOK, EfuseInterrupt, shared, handlers, sensors
<1>2. CASE INT_myCPUTIMER2_ISR
  <2>1. DOMAIN age' = DOMAIN Wait
    BY <1>2 DEF INT_myCPUTIMER2_ISR
  <2>2. ASSUME NEW h \in DOMAIN Wait PROVE age'[h] \in 0 .. Wait[h] + 1
    BY <1>2, WaitType DEF TypeOK, INT_myCPUTIMER2_ISR
  <2> QED
    BY <1>2, <2>1, <2>2 DEF TypeOK, INT_myCPUTIMER2_ISR, shared, tops, sensors
<1>3. CASE Reading
  BY <1>3 DEF TypeOK, Reading, Bus, Load, Temperature, shared, tops, handlers
<1> QED
  BY <1>1, <1>2, <1>3

LEMMA NextKeepsTypes == ASSUME Types, [MCNext]_mcVars PROVE Types'
<1> USE DEF Types
<1>1. disturbances' \in Nat /\ faults' \in Nat
  BY DEF MCNext, Step, Disturb, mcVars
<1>2. CASE Tick
  BY <1>1, <1>2, TickKeepsTypes DEF Tick, OwnTick, RequestedTick, AfterTick, handlers
<1>3. CASE SuperLoop
  BY <1>1, <1>3, LoopKeepsTypes
<1>4. CASE INT_myCPUTIMER2_ISR \/ Reading \/ \E f \in Fuses : EfuseInterrupt(f)
  BY <1>1, <1>4, RestKeepsTypes DEF Fuses
<1>5. CASE UNCHANGED mcVars
  BY <1>1, <1>5 DEF TypeOK, mcVars, vars, shared, tops, handlers, sensors
<1> QED
  BY <1>2, <1>3, <1>4, <1>5 DEF MCNext, Step, Disturb, Calming, Tick

\* Every reachable state is well typed; a count of looks at an under-voltage stays
\* within its bound (error_handling_CPU2.c).
THEOREM TypeCorrect == LiveSpec => []TypeOK
<1>1. Types => TypeOK
  BY DEF Types
<1> QED
  BY InitTypes, NextKeepsTypes, <1>1, PTL DEF LiveSpec

-----------------------------------------------------------------------------
(* The faults.                                                              *)

\* What a step that does not disturb the unit does to the two counts.
Pays ==
  /\ Traces' <= Traces
  /\ Calm => Calm' /\ Debt' + Ind(controller # "fault" /\ controller' = "fault") <= Debt

\* A tick pays for the fault it makes.
LEMMA TickPays == ASSUME TypeOK, OwnTick PROVE Pays
<1>1. UNCHANGED <<occurred, efuse_top_half_flag, stateBOV, stateLOC, step, bus, load>>
  BY DEF OwnTick, AfterTick, tops, handlers, sensors
<1>2. Traces' = Traces /\ (Calm => Calm')
  BY <1>1 DEF Traces, Calm, Pending
<1>3. Ind(Doomed)' + Ind(controller # "fault" /\ controller' = "fault") <= Ind(Doomed)
  <2>1. faultNext' = FALSE
    BY DEF OwnTick, AfterTick
  <2>2. CASE controller = "fault"
    BY <2>1, <2>2 DEF OwnTick, FaultTick, StartTick, OtherTick, Doomed, Ind
  <2>3. CASE controller # "fault" /\ controller' = "fault"
    <3>1. Doomed
      BY <2>3 DEF OwnTick, FaultTick, StartTick, OtherTick, FaultOr, Doomed
    <3>2. ~Doomed'
      BY <2>3 DEF Doomed
    <3> QED
      BY <2>3, <3>1, <3>2 DEF Ind
  <2>4. CASE controller # "fault" /\ controller' # "fault"
    <3>1. ~dpmuErrorOcurredFlag /\ UNCHANGED dpmuErrorOcurredFlag
      <4>1. PICK c : controller' = FaultOr(c) /\ UNCHANGED dpmuErrorOcurredFlag
        BY <2>4 DEF OwnTick, FaultTick, StartTick, OtherTick
      <4> QED
        BY <2>4, <4>1 DEF FaultOr
    <3>2. ~Doomed'
      BY <2>1, <3>1 DEF Doomed
    <3> QED
      BY <2>4, <3>2, IndType DEF Ind
  <2> QED
    BY <2>2, <2>3, <2>4
<1>4. Ahead' = Ahead
  BY <1>1 DEF Ahead, Pending, Unchecked
<1>5. \A d, e, n, r \in Nat : d + n <= e => (d + r) + n <= e + r
  OBVIOUS
<1>6. Debt' + Ind(controller # "fault" /\ controller' = "fault") <= Debt
  BY <1>3, <1>4, <1>5, IndType, CountsType DEF Debt
<1> QED
  BY <1>2, <1>6, CountsType DEF Pays

LEMMA IndMonotone == \A p, q : (p => q) => Ind(p) <= Ind(q)
  BY DEF Ind

LEMMA PersistStops ==
  ASSUME NEW h, NEW s, NEW limit, Persist(h, s, limit) = "StopMainStateMachine"
  PROVE  limit /\ s # "StopMainStateMachine"
  BY DEF Persist

\* A step that raises no error, starts no stop and reports no trip owes nothing new.
LEMMA QuietPays ==
  ASSUME UNCHANGED <<controller, faultNext, dpmuErrorOcurredFlag, occurred, stateBOV, stateLOC>>,
         bus' \in {bus, "normal"}, load' \in {load, "normal"},
         Pending' => Pending, Unchecked' => Unchecked
  PROVE  Pays
<1>1. /\ Ind(bus = "over" \/ stateBOV = "StopMainStateMachine")'
           <= Ind(bus = "over" \/ stateBOV = "StopMainStateMachine")
      /\ Ind(load # "normal" \/ stateLOC = "StopMainStateMachine")'
           <= Ind(load # "normal" \/ stateLOC = "StopMainStateMachine")
  BY DEF Ind
<1>2. Ind(Pending)' <= Ind(Pending) /\ Ind(Unchecked)' <= Ind(Unchecked)
  BY DEF Ind
<1>3. Traces' <= Traces
  <2>1. \A a, b, c, d, e, a2, b2, e2 \in 0 .. 1 :
          a2 <= a /\ b2 <= b /\ e2 <= e => a2 + b2 + c + d + e2 <= a + b + c + d + e
    OBVIOUS
  <2> QED
    BY <1>1, <1>2, <2>1, IndType DEF Traces
<1>4. Debt' + Ind(controller # "fault" /\ controller' = "fault") <= Debt
  <2>1. Ind(Doomed)' = Ind(Doomed) /\ Ind(controller # "fault" /\ controller' = "fault") = 0
    BY DEF Doomed, Ind
  <2>2. \A o, b, l, p, u, p2, u2 \in 0 .. 1 :
          p2 <= p /\ u2 <= u => (o + (b + l + p2 + u2)) + 0 <= o + (b + l + p + u)
    OBVIOUS
  <2> QED
    BY <1>2, <2>1, <2>2, IndType DEF Debt, Ahead
<1>5. Calm => Calm'
  BY DEF Calm
<1> QED
  BY <1>3, <1>4, <1>5 DEF Pays

LEMMA EfusePays ==
  ASSUME NEW f \in Fuses, NEW next \in {"BB", "check"}, HandleEfuse(f, next)
  PROVE  Pays
<1>2. /\ UNCHANGED <<controller, dpmuErrorOcurredFlag, stateBOV, stateLOC, bus, load>>
      /\ step = f /\ step' = next
  BY DEF HandleEfuse, At, shared, handlers, sensors
<1>3. CASE UNCHANGED <<faultNext, occurred, efuse_top_half_flag>>
  <2>1. (Pending' => Pending) /\ (Unchecked' => Unchecked)
    BY <1>2, <1>3 DEF Pending, Unchecked, Fuses
  <2> QED
    BY <1>2, <1>3, <2>1, QuietPays
<1>4. CASE f \in occurred /\ occurred' = occurred \ {f}
  <2>1. ~Calm
    BY <1>4 DEF Calm
  <2>2. /\ Ind("Vin" \in occurred)' + Ind("BB" \in occurred)' + 1
             = Ind("Vin" \in occurred) + Ind("BB" \in occurred)
    BY <1>4 DEF Ind, Fuses
  <2>3. Ind(Pending)' <= Ind(Pending) + 1
    BY IndType
  <2>4. \A b, l, v, w, p, v2, w2, p2 \in 0 .. 1 :
          v2 + w2 + 1 = v + w /\ p2 <= p + 1 => b + l + v2 + w2 + p2 <= b + l + v + w + p
    OBVIOUS
  <2>5. Traces' <= Traces
    BY <1>2, <2>2, <2>3, <2>4, IndType DEF Traces
  <2> QED
    BY <2>1, <2>5 DEF Pays
<1> QED
  BY <1>3, <1>4 DEF HandleEfuse, tops

LEMMA OverVoltagePays == ASSUME TypeOK, HandleDCBusOverVoltage PROVE Pays
<1>1. /\ UNCHANGED <<controller, faultNext, occurred, efuse_top_half_flag, stateLOC, bus, load>>
      /\ step = "BOV" /\ step' = "BUV"
      /\ stateBOV' = Persist("BOV", stateBOV, bus = "over")
      /\ Raise(stateBOV = "StopMainStateMachine")
  BY DEF HandleDCBusOverVoltage, At, tops, sensors
<1>2. UNCHANGED <<Ind(Pending), Ind(Unchecked)>>
  BY <1>1 DEF Pending, Unchecked
<1>3. stateBOV' = "StopMainStateMachine" => bus = "over"
  BY <1>1, PersistStops
<1>4. Traces' <= Traces
  <2>1. Ind(bus = "over" \/ stateBOV = "StopMainStateMachine")'
          <= Ind(bus = "over" \/ stateBOV = "StopMainStateMachine")
    BY <1>1, <1>3 DEF Ind
  <2>2. \A a, b, c, d, e, a2 \in 0 .. 1 : a2 <= a => a2 + b + c + d + e <= a + b + c + d + e
    OBVIOUS
  <2> QED
    BY <1>1, <1>2, <2>1, <2>2, IndType DEF Traces
<1>5. ASSUME Calm
      PROVE  Debt' + Ind(controller # "fault" /\ controller' = "fault") <= Debt
  <2>1. Ind(stateBOV = "StopMainStateMachine")' = 0
    BY <1>3, <1>5 DEF Calm, Ind
  <2>2. Ind(Doomed)' <= Ind(Doomed) + Ind(stateBOV = "StopMainStateMachine")
    <3>1. Doomed' => Doomed \/ stateBOV = "StopMainStateMachine"
      BY <1>1 DEF Raise, Doomed
    <3> QED
      BY <3>1 DEF Ind
  <2>3. Ind(controller # "fault" /\ controller' = "fault") = 0
    BY <1>1 DEF Ind
  <2>4. \A o, b, l, p, u, o2 \in 0 .. 1 :
          o2 <= o + b => (o2 + (0 + l + p + u)) + 0 <= o + (b + l + p + u)
    OBVIOUS
  <2> QED
    BY <1>1, <1>2, <2>1, <2>2, <2>3, <2>4, IndType DEF Debt, Ahead
<1>6. Calm => Calm'
  BY <1>1 DEF Calm
<1> QED
  BY <1>4, <1>5, <1>6 DEF Pays

LEMMA ShortCircuitPays == ASSUME TypeOK, HandleDCBusShortCircuit PROVE Pays
<1>1. /\ UNCHANGED <<controller, faultNext, occurred, efuse_top_half_flag, stateBOV, stateLOC>>
      /\ UNCHANGED <<bus, load>>
      /\ step = "SC" /\ step' = "LOC"
      /\ Raise(load = "short" \/ efuse_top_half_flag)
  BY DEF HandleDCBusShortCircuit, At, tops, handlers, sensors
<1>2. UNCHANGED Ind(Pending)
  BY <1>1 DEF Pending
<1>3. Traces' <= Traces
  BY <1>1, <1>2, CountsType DEF Traces
<1>4. ASSUME Calm
      PROVE  Debt' + Ind(controller # "fault" /\ controller' = "fault") <= Debt
  <2>1. Ind(Unchecked)' = 0 /\ Ind(controller # "fault" /\ controller' = "fault") = 0
    BY <1>1 DEF Unchecked, Ind
  <2>2. Ind(Doomed)' <= Ind(Doomed) + Ind(Unchecked)
    <3>1. Doomed' => Doomed \/ Unchecked
      BY <1>1, <1>4 DEF Raise, Doomed, Unchecked, Calm
    <3> QED
      BY <3>1 DEF Ind
  <2>3. \A o, b, l, p, u, o2 \in 0 .. 1 :
          o2 <= o + u => (o2 + (b + l + p + 0)) + 0 <= o + (b + l + p + u)
    OBVIOUS
  <2> QED
    BY <1>1, <1>2, <2>1, <2>2, <2>3, IndType DEF Debt, Ahead
<1>5. Calm => Calm'
  BY <1>1 DEF Calm
<1> QED
  BY <1>3, <1>4, <1>5 DEF Pays

\* The over-current handler may owe a stop for a trip and raise one for an older stop.
LEMMA OverCurrentPays == ASSUME TypeOK, HandleLoadOverCurrent PROVE Pays
<1>1. /\ UNCHANGED <<controller, faultNext, occurred, efuse_top_half_flag, stateBOV, bus, load>>
      /\ step = "LOC" /\ step' = "TEMP"
      /\ stateLOC' = IF efuse_top_half_flag THEN "StopMainStateMachine"
                     ELSE Persist("LOC", stateLOC, load # "normal")
      /\ Raise(stateLOC = "StopMainStateMachine")
  BY DEF HandleLoadOverCurrent, At, tops, sensors
<1>2. /\ Ind(Pending)' = 0 /\ Ind(Unchecked)' = 0 /\ Ind(Unchecked) = 0
      /\ Ind(Pending) = Ind(efuse_top_half_flag)
  BY <1>1 DEF Pending, Unchecked, Ind
<1>3. stateLOC' = "StopMainStateMachine" => efuse_top_half_flag \/ load # "normal"
  BY <1>1, PersistStops
<1>4. Traces' <= Traces
  <2>1. Ind(load # "normal" \/ stateLOC = "StopMainStateMachine")'
          <= Ind(load # "normal" \/ stateLOC = "StopMainStateMachine") + Ind(efuse_top_half_flag)
    BY <1>1, <1>3 DEF Ind
  <2>2. \A a, b, c, d, e, b2 \in 0 .. 1 : b2 <= b + e => a + b2 + c + d + 0 <= a + b + c + d + e
    OBVIOUS
  <2> QED
    BY <1>1, <1>2, <2>1, <2>2, IndType DEF Traces
<1>5. ASSUME Calm
      PROVE  Debt' + Ind(controller # "fault" /\ controller' = "fault") <= Debt
  <2>1. Ind(stateLOC = "StopMainStateMachine")' <= Ind(efuse_top_half_flag)
    BY <1>3, <1>5 DEF Calm, Ind
  <2>2. Ind(Doomed)' <= Ind(Doomed) + Ind(stateLOC = "StopMainStateMachine")
    <3>1. Doomed' => Doomed \/ stateLOC = "StopMainStateMachine"
      BY <1>1 DEF Raise, Doomed
    <3> QED
      BY <3>1 DEF Ind
  <2>3. Ind(controller # "fault" /\ controller' = "fault") = 0
    BY <1>1 DEF Ind
  <2>4. \A o, b, l, p, o2, l2 \in 0 .. 1 :
          o2 <= o + l /\ l2 <= p => (o2 + (b + l2 + 0 + 0)) + 0 <= o + (b + l + p + 0)
    OBVIOUS
  <2> QED
    BY <1>1, <1>2, <2>1, <2>2, <2>3, <2>4, IndType DEF Debt, Ahead
<1>6. Calm => Calm'
  BY <1>1 DEF Calm
<1> QED
  BY <1>4, <1>5, <1>6 DEF Pays

LEMMA LoopPays == ASSUME TypeOK, SuperLoop PROVE Pays
<1>1. CASE Report
  BY <1>1, QuietPays DEF Report, At, Pending, Unchecked, shared, handlers, sensors
<1>2. CASE handleEfuseVinOccurence \/ handleEFuseBBOccurence
  BY <1>2, EfusePays DEF handleEfuseVinOccurence, handleEFuseBBOccurence, Fuses
<1>3. CASE Check
  BY <1>3, QuietPays DEF Check, Pending, Unchecked, shared, tops, handlers, sensors
<1>4. CASE HandleDCBusUnderVoltage
  BY <1>4, QuietPays DEF HandleDCBusUnderVoltage, At, Pending, Unchecked, shared, tops, sensors
<1>5. CASE HandleOverTemperature
  BY <1>5, QuietPays DEF HandleOverTemperature, At, Pending, Unchecked, shared, tops, sensors
<1> QED
  BY <1>1, <1>2, <1>3, <1>4, <1>5, OverVoltagePays, ShortCircuitPays, OverCurrentPays DEF SuperLoop

LEMMA StepPays ==
  ASSUME TypeOK, OwnTick \/ SuperLoop \/ INT_myCPUTIMER2_ISR \/ Calming
  PROVE  Pays
<1>1. CASE INT_myCPUTIMER2_ISR
  BY <1>1, QuietPays DEF INT_myCPUTIMER2_ISR, Pending, Unchecked, shared, tops, sensors
<1>2. CASE Calming
  BY <1>2, QuietPays DEF Calming, Reading, Pending, Unchecked, shared, tops, handlers
<1> QED
  BY <1>1, <1>2, TickPays, LoopPays

\* A disturbance leaves one trace more.
LEMMA DisturbanceTraces ==
  ASSUME TypeOK, Reading \/ RequestedTick \/ \E f \in Fuses : EfuseInterrupt(f)
  PROVE  Traces' <= Traces + 1
<1> DEFINE b == Ind(bus = "over" \/ stateBOV = "StopMainStateMachine")
           l == Ind(load # "normal" \/ stateLOC = "StopMainStateMachine")
           v == Ind("Vin" \in occurred)
           w == Ind("BB" \in occurred)
<1>1. UNCHANGED <<efuse_top_half_flag, step, stateBOV, stateLOC>>
  BY DEF Reading, RequestedTick, AfterTick, EfuseInterrupt, tops, handlers
<1>2. UNCHANGED Ind(Pending)
  BY <1>1 DEF Pending
<1>3. /\ b' <= b + 1 /\ l' <= l + 1 /\ v' <= v + 1 /\ w' <= w + 1
  BY IndType
<1>4. \/ UNCHANGED <<l, v, w>> \/ UNCHANGED <<b, v, w>> \/ UNCHANGED <<b, l, v>>
      \/ UNCHANGED <<b, l, w>>
  <2>1. CASE Reading
    BY <1>1, <2>1 DEF Reading, Bus, Load, Temperature, tops
  <2>2. CASE RequestedTick
    BY <1>1, <2>2 DEF RequestedTick, AfterTick, tops, sensors
  <2>3. CASE EfuseInterrupt("Vin")
    BY <1>1, <2>3 DEF EfuseInterrupt, sensors, Ind
  <2>4. CASE EfuseInterrupt("BB")
    BY <1>1, <2>4 DEF EfuseInterrupt, sensors, Ind
  <2> QED
    BY <2>1, <2>2, <2>3, <2>4 DEF Fuses
<1>5. \A b1, l1, v1, w1, p, b2, l2, v2, w2 \in 0 .. 1 :
        /\ b2 <= b1 + 1 /\ l2 <= l1 + 1 /\ v2 <= v1 + 1 /\ w2 <= w1 + 1
        /\ \/ l2 = l1 /\ v2 = v1 /\ w2 = w1
           \/ b2 = b1 /\ v2 = v1 /\ w2 = w1
           \/ b2 = b1 /\ l2 = l1 /\ v2 = v1
           \/ b2 = b1 /\ l2 = l1 /\ w2 = w1
        => b2 + l2 + v2 + w2 + p <= b1 + l1 + v1 + w1 + p + 1
  OBVIOUS
<1> QED
  BY <1>2, <1>3, <1>4, <1>5, IndType DEF Traces

-----------------------------------------------------------------------------
LEMMA Initially == MCInit => IInv
<1> SUFFICES ASSUME MCInit PROVE IInv
  OBVIOUS
<1>1. Traces = 0 /\ Debt = 0
  BY DEF MCInit, Init, Traces, Debt, Ahead, Pending, Unchecked, Doomed, Ind
<1> QED
  BY <1>1, InitTypes DEF IInv, Balance, MCInit

LEMMA Inductive == ASSUME IInv, [MCNext]_mcVars PROVE IInv'
<1>1. Types' /\ Types
  BY NextKeepsTypes DEF IInv
<1>2. /\ Traces \in Nat /\ Traces' \in Nat /\ Debt \in Nat /\ Debt' \in Nat
      /\ Debt' <= Traces' + 2
      /\ disturbances \in Nat /\ disturbances' \in Nat /\ faults \in Nat /\ faults' \in Nat
  <2>1. (Traces \in Nat /\ Ahead \in Nat /\ Debt \in Nat)'
    BY CountsType, PTL
  <2>2. (Debt <= Traces + 2)'
    BY DebtBound, PTL
  <2> QED
    BY <1>1, <2>1, <2>2, CountsType DEF Types
<1>3. \A f, x, y, d \in Nat : f = 0 /\ x <= y + 2 /\ y <= d => f + x <= d + 2
  OBVIOUS
<1>4. CASE UNCHANGED disturbances /\ Pays
           /\ faults' = CASE ~Calm -> 0
                          [] Calm /\ controller # "fault" /\ controller' = "fault"
                                  /\ faults < MaxDisturbances + 3 -> faults + 1
                          [] OTHER -> faults
  <2>1. CASE ~Calm
    <3>1. faults' = 0 /\ Traces' <= disturbances'
      BY <1>2, <1>4, <2>1 DEF IInv, Pays
    <3>2. faults' + Debt' <= disturbances' + 2
      BY <1>2, <1>3, <3>1
    <3>3. Balance'
      BY <3>1, <3>2, Zenon DEF Balance
    <3> QED
      BY <1>1, <3>1, <3>3 DEF IInv
  <2>2. CASE Calm
    <3>1. faults' <= faults + Ind(controller # "fault" /\ controller' = "fault")
      BY <1>2, <1>4, <2>2 DEF Ind
    <3>2. /\ Calm' /\ Debt' + Ind(controller # "fault" /\ controller' = "fault") <= Debt
          /\ faults + Debt <= disturbances + 2
          /\ Ind(controller # "fault" /\ controller' = "fault") \in 0 .. 1
      BY <1>4, <2>2, IndType DEF Pays, IInv, Balance
    <3>3. faults' + Debt' <= disturbances' + 2
      BY <1>2, <1>4, <3>1, <3>2
    <3> QED
      BY <1>1, <1>2, <1>4, <3>2, <3>3 DEF IInv, Balance, Pays
  <2> QED
    BY <2>1, <2>2
<1>5. CASE Disturb
  <2>1. Traces' <= Traces + 1
    BY <1>1, <1>5, DisturbanceTraces DEF Disturb, Types
  <2> QED
    <3>1. faults' = 0 /\ Traces' <= disturbances'
      BY <1>2, <1>5, <2>1 DEF IInv, Disturb
    <3>2. faults' + Debt' <= disturbances' + 2
      BY <1>2, <1>3, <3>1
    <3>3. Balance'
      BY <3>1, <3>2, Zenon DEF Balance
    <3> QED
      BY <1>1, <3>1, <3>3 DEF IInv
<1>6. CASE UNCHANGED mcVars
  BY <1>6 DEF IInv, Types, TypeOK, Balance, Traces, Debt, Ahead, Pending, Unchecked, Doomed, Calm,
     mcVars, vars, shared, tops, handlers, sensors
<1>7. CASE Step(OwnTick) \/ Step(SuperLoop) \/ Step(INT_myCPUTIMER2_ISR) \/ Step(Calming)
  BY <1>1, <1>4, <1>7, StepPays DEF Step, Types
<1> QED
  BY <1>5, <1>6, <1>7 DEF MCNext

\* However many disturbances there were, at most two faults more than that follow the
\* last of them (HandleLoadOverCurrent, HandleDCBusShortCircuit, handleEfuseVinOccurence).
THEOREM FaultsBounded == LiveSpec => []FewFaults
<1>1. IInv => FewFaults
  <2> SUFFICES ASSUME IInv PROVE FewFaults
    OBVIOUS
  <2> QED
    BY CountsType DEF IInv, Types, Balance, FewFaults
<1> QED
  BY Initially, Inductive, <1>1, PTL DEF LiveSpec

-----------------------------------------------------------------------------
(* How near a shutdown is.                                                  *)

\* A turn of the super loop while the protections are on.
After == [report |-> "Vin", Vin |-> "BB", BB |-> "check", check |-> "BOV", BOV |-> "BUV",
          BUV |-> "SC", SC |-> "LOC", LOC |-> "TEMP", TEMP |-> "report"]
Place == [report |-> 0, Vin |-> 1, BB |-> 2, check |-> 3, BOV |-> 4, BUV |-> 5,
          SC |-> 6, LOC |-> 7, TEMP |-> 8]

\* The steps of the super loop up to and including step s.
StepsTo(s) == IF Place[step] <= Place[s] THEN Place[s] - Place[step] + 1
                                         ELSE Place[s] - Place[step] + 10

\* A unit that is up has its protections on; the over-current handler has taken
\* notice of a trip that it has passed.
Watched ==
  /\ controller = "up" => test_update_of_error_codes
  /\ efuse_top_half_flag /\ step = "TEMP" => stateLOC = "StopMainStateMachine"

\* A unit that is up has had a trip confirmed that has not raised its error yet.
TripWaits ==
  /\ controller = "up" /\ ~dpmuErrorOcurredFlag
  /\ (efuse_top_half_flag /\ step # "report") \/ stateLOC = "StopMainStateMachine"

\* The steps of the super loop up to the one that raises the error.
TripAhead ==
  CASE efuse_top_half_flag /\ step \notin {"LOC", "TEMP", "report"} -> StepsTo("SC")
    [] ~(efuse_top_half_flag /\ step \notin {"LOC", "TEMP", "report"})
         /\ stateLOC = "StopMainStateMachine" -> StepsTo("LOC")
    [] OTHER -> 10

(* A trip that waits raises its error, unless the unit is in Fault before it, or  *)
(* it still waits and every step of the super loop has brought it nearer.         *)
TripCounts ==
  TripWaits =>
    \/ controller' = "fault"
    \/ controller' = "up" /\ dpmuErrorOcurredFlag'
    \/ TripWaits' /\ IF step' = step THEN TripAhead' = TripAhead ELSE TripAhead' < TripAhead

(* An error that is raised stays so until the next tick, which goes to Fault.     *)
ErrorCounts ==
  dpmuErrorOcurredFlag /\ controller = "up" =>
    \/ controller' = "fault"
    \/ controller' = "up" /\ dpmuErrorOcurredFlag' /\ ~OwnTick /\ ~RequestedTick

(* While a unit is up the super loop leaves out none of the protections.          *)
WholeTurns == controller = "up" /\ step' # step => step' = After[step]

\* What a tick does to a unit that is up.
LEMMA TickOfUp ==
  ASSUME OwnTick \/ RequestedTick, controller = "up"
  PROVE  /\ UNCHANGED <<tops, handlers, step, sensors, test_update_of_error_codes,
                        dpmuErrorOcurredFlag>>
         /\ controller' \in {"up", "fault"}
         /\ dpmuErrorOcurredFlag => controller' = "fault"
  BY DEF OwnTick, RequestedTick, AfterTick, FaultTick, StartTick, OtherTick, FaultOr

\* What the interrupts and the sensors leave alone.
LEMMA EventsKeep ==
  ASSUME INT_myCPUTIMER2_ISR \/ Reading \/ \E f \in Fuses : EfuseInterrupt(f)
  PROVE  /\ UNCHANGED <<controller, shared, step, efuse_top_half_flag>>
         /\ UNCHANGED <<stateBOV, stateLOC>>
<1>1. CASE INT_myCPUTIMER2_ISR BY <1>1 DEF INT_myCPUTIMER2_ISR, tops
<1>2. CASE Reading BY <1>2 DEF Reading, tops, handlers
<1>3. CASE \E f \in Fuses : EfuseInterrupt(f) BY <1>3 DEF EfuseInterrupt, handlers
<1> QED BY <1>1, <1>2, <1>3

\* What a step of the super loop leaves alone.
LEMMA LoopKeeps ==
  ASSUME SuperLoop
  PROVE  /\ UNCHANGED <<controller, test_update_of_error_codes, sensors>>
         /\ dpmuErrorOcurredFlag => dpmuErrorOcurredFlag'
         /\ step' = IF step = "check" /\ ~test_update_of_error_codes THEN "report" ELSE After[step]
<1> USE DEF shared, At, After, Raise
<1>1. CASE Report BY <1>1 DEF Report
<1>2. CASE handleEfuseVinOccurence \/ handleEFuseBBOccurence
  BY <1>2 DEF handleEfuseVinOccurence, handleEFuseBBOccurence, HandleEfuse
<1>3. CASE Check BY <1>3 DEF Check
<1>4. CASE HandleDCBusOverVoltage BY <1>4 DEF HandleDCBusOverVoltage
<1>5. CASE HandleDCBusUnderVoltage BY <1>5 DEF HandleDCBusUnderVoltage
<1>6. CASE HandleDCBusShortCircuit BY <1>6 DEF HandleDCBusShortCircuit
<1>7. CASE HandleLoadOverCurrent BY <1>7 DEF HandleLoadOverCurrent
<1>8. CASE HandleOverTemperature BY <1>8 DEF HandleOverTemperature
<1> QED BY <1>1, <1>2, <1>3, <1>4, <1>5, <1>6, <1>7, <1>8 DEF SuperLoop

\* The kinds of steps there are.
LEMMA Kinds ==
  ASSUME [MCNext]_mcVars
  PROVE  \/ OwnTick \/ RequestedTick
         \/ SuperLoop
         \/ INT_myCPUTIMER2_ISR \/ Reading \/ \E f \in Fuses : EfuseInterrupt(f)
         \/ UNCHANGED vars
  BY DEF MCNext, Step, Disturb, Calming, mcVars
LEMMA WatchedKept == ASSUME TypeOK, Watched, [MCNext]_mcVars PROVE Watched'
<1>1. CASE OwnTick \/ RequestedTick
  <2>1. controller' = "up" => test_update_of_error_codes'
    BY <1>1 DEF Watched, OwnTick, RequestedTick, FaultTick, StartTick, OtherTick, FaultOr
  <2> QED BY <1>1, <2>1 DEF Watched, OwnTick, RequestedTick, AfterTick, tops, handlers
<1>2. CASE SuperLoop
  <2>1. controller' = "up" => test_update_of_error_codes'
    BY <1>2, LoopKeeps DEF Watched
  <2>2. efuse_top_half_flag' /\ step' = "TEMP" => stateLOC' = "StopMainStateMachine"
    <3> SUFFICES ASSUME efuse_top_half_flag', step' = "TEMP"
                 PROVE  stateLOC' = "StopMainStateMachine"
      OBVIOUS
    <3>1. step = "LOC" BY <1>2, LoopKeeps DEF After, TypeOK, Steps
    <3>2. HandleLoadOverCurrent
      BY <1>2, <3>1 DEF SuperLoop, At, Report, handleEfuseVinOccurence, handleEFuseBBOccurence,
                        HandleEfuse, Check, HandleDCBusOverVoltage, HandleDCBusUnderVoltage,
                        HandleDCBusShortCircuit, HandleOverTemperature
    <3> QED BY <3>2 DEF HandleLoadOverCurrent, tops
  <2> QED BY <2>1, <2>2 DEF Watched
<1>3. CASE INT_myCPUTIMER2_ISR \/ Reading \/ \E f \in Fuses : EfuseInterrupt(f)
  BY <1>3, EventsKeep DEF Watched, shared
<1>4. CASE UNCHANGED vars BY <1>4 DEF Watched, vars, shared, tops, handlers
<1> QED BY <1>1, <1>2, <1>3, <1>4, Kinds

\* The steps of the super loop, each at its place.
LEMMA LoopAt ==
  ASSUME SuperLoop
  PROVE  /\ step = "report" => Report
         /\ step = "Vin" => HandleEfuse("Vin", "BB")
         /\ step = "BB" => HandleEfuse("BB", "check")
         /\ step = "check" => Check
         /\ step = "BOV" => HandleDCBusOverVoltage
         /\ step = "BUV" => HandleDCBusUnderVoltage
         /\ step = "SC" => HandleDCBusShortCircuit
         /\ step = "LOC" => HandleLoadOverCurrent
         /\ step = "TEMP" => HandleOverTemperature
  BY DEF SuperLoop, At, Report, handleEfuseVinOccurence, handleEFuseBBOccurence, HandleEfuse, Check,
         HandleDCBusOverVoltage, HandleDCBusUnderVoltage, HandleDCBusShortCircuit,
         HandleLoadOverCurrent, HandleOverTemperature

LEMMA TripRange == TypeOK => TripAhead \in 1 .. 10
<1> SUFFICES ASSUME TypeOK PROVE TripAhead \in 1 .. 10 OBVIOUS
<1>1. step \in Steps BY DEF TypeOK
<1>2. \A s \in Steps : StepsTo(s) \in 1 .. 10 BY <1>1 DEF StepsTo, Place, Steps
<1>3. TripAhead \in {StepsTo("SC"), StepsTo("LOC"), 10} BY DEF TripAhead
<1> QED BY <1>2, <1>3 DEF Steps

LEMMA LoopNears ==
  ASSUME TypeOK, Watched, SuperLoop, TripWaits
  PROVE  /\ controller' = "up"
         /\ dpmuErrorOcurredFlag' \/ (TripWaits' /\ TripAhead' < TripAhead)
<1> SUFFICES ASSUME ~dpmuErrorOcurredFlag' PROVE TripWaits' /\ TripAhead' < TripAhead
  BY LoopKeeps DEF TripWaits
<1>1. controller' = "up" /\ step' = After[step]
  BY LoopKeeps DEF TripWaits, Watched
<1> DEFINE stop == "StopMainStateMachine"
<1>2. CASE step = "report"
  <2>1. stateLOC = stop /\ stateLOC' = stop /\ ~efuse_top_half_flag' /\ step' = "Vin"
    BY <1>1, <1>2, LoopAt DEF TripWaits, Report, handlers, After
  <2> QED BY <1>1, <1>2, <2>1 DEF TripWaits, TripAhead, StepsTo, Place
<1>3. CASE step \in {"Vin", "BB"}
  <2>1. stateLOC' = stateLOC /\ (efuse_top_half_flag => efuse_top_half_flag')
    <3>1. PICK f, next : HandleEfuse(f, next) BY <1>3, LoopAt
    <3>2. stateLOC' = stateLOC BY <3>1 DEF HandleEfuse, handlers
    <3>3. efuse_top_half_flag => efuse_top_half_flag'
      <4>1. CASE efuse_top_half_flag' = efuse_top_half_flag BY <4>1
      <4>2. CASE \E over \in BOOLEAN : efuse_top_half_flag' = (efuse_top_half_flag \/ over)
        BY <4>2, Zenon
      <4>3. \/ efuse_top_half_flag' = efuse_top_half_flag
            \/ \E over \in BOOLEAN : efuse_top_half_flag' = (efuse_top_half_flag \/ over)
        BY <3>1, Zenon DEF HandleEfuse, tops
      <4> QED BY <4>1, <4>2, <4>3
    <3> QED BY <3>2, <3>3
  <2>2. efuse_top_half_flag \/ stateLOC = stop BY <1>3 DEF TripWaits
  <2>3. step' = After[step] BY <1>1
  <2> QED BY <1>1, <1>3, <2>1, <2>2, <2>3 DEF TripWaits, TripAhead, StepsTo, Place, After
<1>4. CASE step \in {"check", "BOV", "BUV"}
  <2>1. stateLOC' = stateLOC /\ (efuse_top_half_flag => efuse_top_half_flag')
        /\ (efuse_top_half_flag' => efuse_top_half_flag)
    BY <1>4, LoopAt DEF Check, HandleDCBusOverVoltage, HandleDCBusUnderVoltage, handlers, tops
  <2>2. efuse_top_half_flag \/ stateLOC = stop BY <1>4 DEF TripWaits
  <2> QED BY <1>1, <1>4, <2>1, <2>2 DEF TripWaits, TripAhead, StepsTo, Place, After
<1>5. CASE step = "SC"
  <2>0. HandleDCBusShortCircuit BY <1>5, LoopAt
  <2>1. stateLOC' = stateLOC /\ ~efuse_top_half_flag /\ ~efuse_top_half_flag'
    <3>1. stateLOC' = stateLOC /\ efuse_top_half_flag' = efuse_top_half_flag
      BY <2>0 DEF HandleDCBusShortCircuit, handlers, tops
    <3>2. ~efuse_top_half_flag BY <2>0, Zenon DEF HandleDCBusShortCircuit, Raise
    <3> QED BY <3>1, <3>2
  <2>2. stateLOC = stop BY <1>5, <2>1 DEF TripWaits
  <2> QED BY <1>1, <1>5, <2>1, <2>2 DEF TripWaits, TripAhead, StepsTo, Place, After
<1>6. CASE step = "LOC"
  <2>1. stateLOC # stop BY <1>6, LoopAt DEF HandleLoadOverCurrent, Raise
  <2>2. efuse_top_half_flag /\ stateLOC' = stop /\ step' = "TEMP"
    BY <1>1, <1>6, <2>1, LoopAt DEF HandleLoadOverCurrent, TripWaits, After
  <2>3. TripAhead = 10 BY <1>6, <2>1 DEF TripAhead
  <2>4. TripAhead' = 9 BY <2>2 DEF TripAhead, StepsTo, Place
  <2> QED BY <1>1, <2>2, <2>3, <2>4 DEF TripWaits
<1>7. CASE step = "TEMP"
  <2>1. stateLOC = stop BY <1>7 DEF TripWaits, Watched
  <2>2. stateLOC' = stop /\ step' = "report"
    BY <1>1, <1>7, <2>1, LoopAt DEF HandleOverTemperature, After
  <2> QED BY <1>1, <1>7, <2>1, <2>2 DEF TripWaits, TripAhead, StepsTo, Place
<1> QED BY <1>2, <1>3, <1>4, <1>5, <1>6, <1>7 DEF TypeOK, Steps

(* An over-current that two samples have confirmed is at most ten steps of the    *)
(* super loop from the error that it raises, and that error one tick from Fault,  *)
(* for any waits and whatever else happens: the loop runs all of its protections  *)
(* while the unit is up, and a turn that has already gone past the short-circuit  *)
(* check ends in the over-current handler of the next one (DCDC.c:448-454).       *)
THEOREM TripNears ==
  LiveSpec => /\ [](TripAhead \in 1 .. 10)
              /\ [][TripCounts /\ ErrorCounts /\ WholeTurns]_mcVars
<1>1. MCInit => Watched BY DEF MCInit, Init, Watched
<1>2. IInv /\ Watched /\ [MCNext]_mcVars => Watched'
  BY WatchedKept DEF IInv, Types
<1>3. IInv => TripAhead \in 1 .. 10 BY TripRange DEF IInv, Types
<1>4. IInv /\ Watched /\ [MCNext]_mcVars => TripCounts /\ ErrorCounts /\ WholeTurns
  <2> SUFFICES ASSUME TypeOK, Watched, [MCNext]_mcVars
               PROVE  TripCounts /\ ErrorCounts /\ WholeTurns
    BY DEF IInv, Types
  <2>1. CASE OwnTick \/ RequestedTick
    <3>1. TripCounts
      <4> SUFFICES ASSUME TripWaits, controller' # "fault"
                   PROVE  TripWaits' /\ step' = step /\ TripAhead' = TripAhead
        BY DEF TripCounts
      <4> QED BY <2>1, TickOfUp DEF TripWaits, TripAhead, StepsTo, tops, handlers
    <3>2. ErrorCounts BY <2>1, TickOfUp DEF ErrorCounts
    <3>3. WholeTurns BY <2>1, TickOfUp DEF WholeTurns
    <3> QED BY <3>1, <3>2, <3>3
  <2>2. CASE SuperLoop
    <3>1. TripCounts
      <4> SUFFICES ASSUME TripWaits, ~dpmuErrorOcurredFlag' PROVE TripWaits' /\ TripAhead' < TripAhead
                                                            /\ step' # step
        BY <2>2, LoopNears DEF TripCounts
      <4>1. step' = After[step] BY <2>2, LoopKeeps DEF TripWaits, Watched
      <4>2. step' # step BY <4>1 DEF After, TypeOK, Steps
      <4> QED BY <2>2, <4>2, LoopNears
    <3>2. ErrorCounts
      <4>1. step' # step BY <2>2, LoopKeeps DEF After, TypeOK, Steps
      <4>2. ~OwnTick /\ ~RequestedTick BY <4>1 DEF OwnTick, RequestedTick, AfterTick
      <4> QED BY <2>2, <4>2, LoopKeeps DEF ErrorCounts
    <3>3. WholeTurns BY <2>2, LoopKeeps DEF WholeTurns, Watched
    <3> QED BY <3>1, <3>2, <3>3
  <2>3. CASE \/ INT_myCPUTIMER2_ISR \/ Reading \/ \E f \in Fuses : EfuseInterrupt(f)
             \/ UNCHANGED vars
    <3>1. UNCHANGED <<controller, shared, step, efuse_top_half_flag, stateLOC>>
      BY <2>3, EventsKeep DEF vars, tops, handlers
    <3>2. TripCounts
      BY <3>1 DEF TripCounts, TripWaits, TripAhead, StepsTo, shared
    <3>3. ErrorCounts
      <4>1. CASE OwnTick \/ RequestedTick BY <4>1, TickOfUp DEF ErrorCounts
      <4>2. CASE ~(OwnTick \/ RequestedTick) BY <3>1, <4>2 DEF ErrorCounts, shared
      <4> QED BY <4>1, <4>2
    <3>4. WholeTurns BY <3>1 DEF WholeTurns
    <3> QED BY <3>2, <3>3, <3>4
  <2> QED BY <2>1, <2>2, <2>3, Kinds
<1> QED BY <1>1, <1>2, <1>3, <1>4, Initially, Inductive, PTL DEF LiveSpec
-----------------------------------------------------------------------------
(* Readings that persist above their limits.                                *)

Handlers == {"BOV", "LOC"}
StateOf(h) == IF h = "BOV" THEN stateBOV ELSE stateLOC
Exceeds(h) == IF h = "BOV" THEN bus = "over" ELSE load # "normal"
Persists(h) == controller = "up" /\ ~dpmuErrorOcurredFlag /\ Exceeds(h)

\* What a handler still has before it: its wait by the millisecond, and a turn of
\* the super loop for each of its other states.
Rank(s, w, a) ==
  CASE s = "StopMainStateMachine" -> 1
    [] s = "Wait" -> w + 3 - a
    [] s = "Init" -> w + 4
    [] s = "End" -> w + 5
PersistAhead(h) == Rank(StateOf(h), Wait[h], age[h])

\* What takes a handler on: the time while it waits, otherwise its turn.
Turns(h) == IF StateOf(h) = "Wait" /\ ~Elapsed(h) THEN INT_myCPUTIMER2_ISR
                                                 ELSE step = h /\ step' # step

(* While a reading stays above its limit nothing takes its handler back, and what *)
(* the handler waits for takes it on.                                             *)
PersistCounts(h) ==
  Persists(h) =>
    /\ controller' \in {"up", "fault"}
    /\ Persists(h)' => /\ PersistAhead(h)' <= PersistAhead(h)
                       /\ Turns(h) => PersistAhead(h)' < PersistAhead(h)

LEMMA PersistRange ==
  ASSUME TypeOK, NEW h \in Handlers
  PROVE  /\ Wait[h] \in Nat /\ age[h] \in 0 .. Wait[h] + 1 /\ StateOf(h) \in HandlerStates
         /\ PersistAhead(h) \in 1 .. Wait[h] + 5
<1>1. Wait[h] \in Nat /\ h \in DOMAIN Wait BY WaitType DEF Handlers
<1>2. age[h] \in 0 .. Wait[h] + 1 BY <1>1 DEF TypeOK
<1>3. StateOf(h) \in HandlerStates BY DEF TypeOK, StateOf
<1>4. \A s \in HandlerStates, w \in Nat : \A a \in 0 .. w + 1 : Rank(s, w, a) \in 1 .. w + 5
  BY DEF Rank, HandlerStates
<1> QED BY <1>1, <1>2, <1>3, <1>4 DEF PersistAhead

\* A handler whose state and age are left alone keeps its rank.
LEMMA RankKept ==
  ASSUME NEW h \in Handlers, StateOf(h)' = StateOf(h), age'[h] = age[h]
  PROVE  PersistAhead(h)' = PersistAhead(h)
  BY DEF PersistAhead, Wait

\* A turn of a handler whose reading is above its limit.
LEMMA RankOfTurn ==
  ASSUME TypeOK, NEW h \in Handlers, StateOf(h) # "StopMainStateMachine", ~dpmuErrorOcurredFlag,
         StateOf(h)' \in {Persist(h, StateOf(h), TRUE), "StopMainStateMachine"},
         TouchTime(h, StateOf(h))
  PROVE  /\ PersistAhead(h)' <= PersistAhead(h)
         /\ ~(StateOf(h) = "Wait" /\ ~Elapsed(h)) => PersistAhead(h)' < PersistAhead(h)
<1> DEFINE s == StateOf(h)
           w == Wait[h]
           a == age[h]
<1>1. w \in Nat /\ a \in 0 .. w + 1 /\ s \in HandlerStates /\ PersistAhead(h) \in 1 .. w + 5
  BY PersistRange
<1>2. PersistAhead(h)' = Rank(StateOf(h)', w, age'[h]) BY DEF PersistAhead, Wait
<1>3. PersistAhead(h) = Rank(s, w, a) BY DEF PersistAhead
<1>4. s = "Init" => age'[h] = 0
  BY WaitType DEF TouchTime, Restart, TypeOK, Handlers
<1>5. s \in {"Wait", "End"} => age'[h] = a BY DEF TouchTime
<1>6. Elapsed(h) <=> a = w + 1 BY <1>1 DEF Elapsed
<1>7. CASE StateOf(h)' = "StopMainStateMachine"
  <2>1. PersistAhead(h)' = 1 BY <1>2, <1>7 DEF Rank
  <2>2. Rank(s, w, a) > 1
    <3> HIDE DEF s, w, a
    <3> QED BY <1>1, s # "StopMainStateMachine" DEF Rank, HandlerStates, s
  <2> QED BY <1>1, <1>3, <2>1, <2>2
<1>8. CASE StateOf(h)' = Persist(h, s, TRUE)
  <2>1. CASE s = "Init"
    <3>1. StateOf(h)' = "Wait" BY <1>8, <2>1 DEF Persist
    <3>2. PersistAhead(h)' = w + 3 - 0 /\ PersistAhead(h) = w + 4
      BY <1>2, <1>3, <1>4, <2>1, <3>1 DEF Rank
    <3> QED BY <1>1, <3>2
  <2>2. CASE s = "Wait" /\ Elapsed(h)
    <3>1. StateOf(h)' = "StopMainStateMachine" BY <1>8, <2>2 DEF Persist
    <3> QED BY <1>7, <3>1
  <2>3. CASE s = "Wait" /\ ~Elapsed(h)
    <3>1. StateOf(h)' = s BY <1>8, <2>3 DEF Persist
    <3>2. PersistAhead(h)' = PersistAhead(h) BY <1>5, <2>3, <3>1, RankKept
    <3> QED BY <1>1, <2>3, <3>2
  <2>4. CASE s = "End"
    <3>1. StateOf(h)' = "Init" BY <1>8, <2>4 DEF Persist
    <3>2. PersistAhead(h)' = w + 4 /\ PersistAhead(h) = w + 5
      BY <1>2, <1>3, <2>4, <3>1 DEF Rank
    <3> QED BY <1>1, <3>2
  <2> QED BY <1>1, <2>1, <2>2, <2>3, <2>4 DEF HandlerStates
<1> QED BY <1>7, <1>8
\* The steps of the super loop that belong to another handler, or to none.
LEMMA OtherTurnsKeep ==
  ASSUME TypeOK, SuperLoop, NEW h \in Handlers, step # h
  PROVE  StateOf(h)' = StateOf(h) /\ age'[h] = age[h]
<1>1. CASE step \in {"report", "Vin", "BB", "check", "SC", "TEMP"}
  BY <1>1, LoopAt DEF Report, HandleEfuse, Check, HandleDCBusShortCircuit, HandleOverTemperature,
                      handlers, StateOf
<1>2. ASSUME NEW g \in {"BOV", "LOC", "BUV"}, g # h, Restart(g) \/ UNCHANGED age
      PROVE  age'[h] = age[h]
  BY <1>2, WaitType DEF TypeOK, Restart, Handlers
<1>3. CASE step = "BOV"
  <2>1. HandleDCBusOverVoltage BY <1>3, LoopAt
  <2>2. Restart("BOV") \/ UNCHANGED age BY <2>1 DEF HandleDCBusOverVoltage, TouchTime
  <2> QED BY <1>2, <1>3, <2>1, <2>2 DEF HandleDCBusOverVoltage, StateOf, Handlers
<1>4. CASE step = "LOC"
  <2>1. HandleLoadOverCurrent BY <1>4, LoopAt
  <2>2. Restart("LOC") \/ UNCHANGED age BY <2>1 DEF HandleLoadOverCurrent, TouchTime
  <2> QED BY <1>2, <1>4, <2>1, <2>2 DEF HandleLoadOverCurrent, StateOf, Handlers
<1>5. CASE step = "BUV"
  <2>1. HandleDCBusUnderVoltage BY <1>5, LoopAt
  <2>2. Restart("BUV") \/ UNCHANGED age BY <2>1 DEF HandleDCBusUnderVoltage
  <2> QED BY <1>2, <2>1, <2>2 DEF HandleDCBusUnderVoltage, StateOf, Handlers
<1> QED BY <1>1, <1>3, <1>4, <1>5 DEF TypeOK, Steps

LEMMA OwnTurnNears ==
  ASSUME TypeOK, SuperLoop, NEW h \in Handlers, step = h, Persists(h), ~dpmuErrorOcurredFlag'
  PROVE  /\ PersistAhead(h)' <= PersistAhead(h)
         /\ ~(StateOf(h) = "Wait" /\ ~Elapsed(h)) => PersistAhead(h)' < PersistAhead(h)
<1>1. CASE h = "BOV"
  <2>1. HandleDCBusOverVoltage BY <1>1, LoopAt
  <2>2. stateBOV # "StopMainStateMachine" BY <2>1 DEF HandleDCBusOverVoltage, Raise
  <2>3. StateOf(h)' = Persist(h, StateOf(h), TRUE) /\ TouchTime(h, StateOf(h))
    BY <1>1, <2>1 DEF HandleDCBusOverVoltage, StateOf, Persists, Exceeds
  <2> QED BY <1>1, <2>2, <2>3, RankOfTurn DEF Persists, StateOf
<1>2. CASE h = "LOC"
  <2>1. HandleLoadOverCurrent BY <1>2, LoopAt
  <2>2. stateLOC # "StopMainStateMachine" BY <2>1 DEF HandleLoadOverCurrent, Raise
  <2>3. /\ StateOf(h)' \in {Persist(h, StateOf(h), TRUE), "StopMainStateMachine"}
        /\ TouchTime(h, StateOf(h))
    BY <1>2, <2>1 DEF HandleLoadOverCurrent, StateOf, Persists, Exceeds
  <2> QED BY <1>2, <2>2, <2>3, RankOfTurn DEF Persists, StateOf
<1> QED BY <1>1, <1>2 DEF Handlers

LEMMA TimeNears ==
  ASSUME TypeOK, INT_myCPUTIMER2_ISR, NEW h \in Handlers
  PROVE  /\ PersistAhead(h)' <= PersistAhead(h)
         /\ StateOf(h) = "Wait" /\ ~Elapsed(h) => PersistAhead(h)' < PersistAhead(h)
<1>1. /\ StateOf(h)' = StateOf(h)
      /\ age'[h] = IF StateOf(h) = "Wait" /\ age[h] <= Wait[h] THEN age[h] + 1 ELSE age[h]
  BY WaitType DEF INT_myCPUTIMER2_ISR, StateOf, Handlers
<1>2. /\ Wait[h] \in Nat /\ age[h] \in 0 .. Wait[h] + 1 /\ PersistAhead(h) \in 1 .. Wait[h] + 5
  BY PersistRange
<1>3. CASE StateOf(h) = "Wait" /\ age[h] <= Wait[h]
  <2>1. PersistAhead(h) = Wait[h] + 3 - age[h] BY <1>3 DEF PersistAhead, Rank
  <2>2. PersistAhead(h)' = Wait[h] + 3 - (age[h] + 1) BY <1>1, <1>3 DEF PersistAhead, Rank, Wait
  <2> QED BY <1>2, <2>1, <2>2
<1>4. CASE ~(StateOf(h) = "Wait" /\ age[h] <= Wait[h])
  <2>1. PersistAhead(h)' = PersistAhead(h) BY <1>1, <1>4, RankKept
  <2>2. ~(StateOf(h) = "Wait" /\ ~Elapsed(h)) BY <1>2, <1>4 DEF Elapsed
  <2> QED BY <1>2, <2>1, <2>2
<1> QED BY <1>3, <1>4

(* While the bus is above its limit, or the load draws too much, each turn of its *)
(* handler and each millisecond of its wait takes a unit that is up nearer to the *)
(* error that shuts it down, for any wait: neither the other handlers nor what    *)
(* the controller does takes the handler back, and a trip only takes it on        *)
(* (error_handling_CPU2.c:33-85, 124-177).                                        *)
THEOREM PersistNears ==
  LiveSpec => /\ [](\A h \in Handlers : PersistAhead(h) \in 1 .. Wait[h] + 5)
              /\ [][\A h \in Handlers : PersistCounts(h)]_mcVars
<1>1. IInv => \A h \in Handlers : PersistAhead(h) \in 1 .. Wait[h] + 5
  BY PersistRange DEF IInv, Types
<1>2. IInv /\ [MCNext]_mcVars => \A h \in Handlers : PersistCounts(h)
  <2> SUFFICES ASSUME TypeOK, [MCNext]_mcVars, NEW h \in Handlers, Persists(h)
               PROVE  /\ controller' \in {"up", "fault"}
                      /\ Persists(h)' => /\ PersistAhead(h)' <= PersistAhead(h)
                                         /\ Turns(h) => PersistAhead(h)' < PersistAhead(h)
    BY DEF IInv, Types, PersistCounts
  <2>1. PersistAhead(h) \in 1 .. Wait[h] + 5 /\ Wait[h] \in Nat BY PersistRange
  <2>2. ASSUME StateOf(h)' = StateOf(h), age' = age, step' = step
        PROVE  /\ PersistAhead(h)' <= PersistAhead(h)
               /\ Turns(h) => PersistAhead(h)' < PersistAhead(h)
    <3>1. PersistAhead(h)' = PersistAhead(h) BY <2>2, RankKept
    <3>2. ~Turns(h)
      <4>1. CASE INT_myCPUTIMER2_ISR
        <5>1. age' # age
          <6>1. PICK g \in DOMAIN Wait : /\ [BOV |-> stateBOV, BUV |-> stateBUV, LOC |-> stateLOC][g] = "Wait"
                                        /\ age[g] <= Wait[g]
            BY <4>1 DEF INT_myCPUTIMER2_ISR
          <6>2. age'[g] = age[g] + 1 BY <4>1, <6>1 DEF INT_myCPUTIMER2_ISR
          <6>3. age[g] \in Nat BY WaitType DEF TypeOK
          <6> QED BY <6>2, <6>3
        <5> QED BY <2>2, <5>1
      <4>2. CASE ~INT_myCPUTIMER2_ISR BY <2>2, <4>2 DEF Turns
      <4> QED BY <4>1, <4>2
    <3> QED BY <2>1, <3>1, <3>2
  <2>3. CASE OwnTick \/ RequestedTick
    BY <2>2, <2>3, TickOfUp DEF Persists, StateOf, handlers
  <2>4. CASE SuperLoop
    <3>1. controller' = "up" BY <2>4, LoopKeeps DEF Persists
    <3>2. step' # step BY <2>4, LoopKeeps DEF After, TypeOK, Steps
    <3>3. ~INT_myCPUTIMER2_ISR BY <3>2 DEF INT_myCPUTIMER2_ISR
    <3>4. CASE step = h
      BY <2>4, <3>1, <3>3, <3>4, OwnTurnNears DEF Persists, Turns
    <3>5. CASE step # h
      <4>1. PersistAhead(h)' = PersistAhead(h) BY <2>4, <3>5, OtherTurnsKeep, RankKept
      <4>2. ~Turns(h) BY <3>3, <3>5 DEF Turns
      <4> QED BY <2>1, <3>1, <4>1, <4>2
    <3> QED BY <3>4, <3>5
  <2>5. CASE INT_myCPUTIMER2_ISR
    <3>1. controller' = "up" /\ step' = step BY <2>5, EventsKeep DEF Persists
    <3>2. Turns(h) => StateOf(h) = "Wait" /\ ~Elapsed(h) BY <3>1 DEF Turns
    <3> QED BY <2>5, <3>1, <3>2, TimeNears
  <2>6. CASE Reading \/ \E f \in Fuses : EfuseInterrupt(f)
    <3>1. controller' = "up" /\ step' = step /\ UNCHANGED <<stateBOV, stateLOC>>
      BY <2>6, EventsKeep DEF Persists
    <3>2. age' = age BY <2>6 DEF Reading, EfuseInterrupt, handlers
    <3> QED BY <2>2, <3>1, <3>2 DEF StateOf
  <2>7. CASE UNCHANGED vars
    BY <2>2, <2>7 DEF vars, handlers, Persists, StateOf
  <2> QED BY <2>3, <2>4, <2>5, <2>6, <2>7, Kinds
<1> QED BY <1>1, <1>2, Initially, Inductive, PTL DEF LiveSpec
=============================================================================
