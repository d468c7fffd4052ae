------------------------ MODULE StateMachine_proofs ------------------------
(***************************************************************************)
(* Proofs about StateMachine, for every value of its constants.             *)
(*                                                                          *)
(* A tick is a case followed by EndOfTick.  The lemmas on EndOfTick say,    *)
(* once for all cases, where a tick can lead; each case then contributes    *)
(* only its own transition and its own outputs.                             *)
(***************************************************************************)
EXTENDS StateMachine, TLAPS

-----------------------------------------------------------------------------
(* The tail of a tick.                                                      *)

USE DEF Charging, Regulating, VoltageRegulating, BalancingStates, Starting,
        Stopping, States

\* The targets of commands and of the safe state are states.
LEMMA TargetsAreStates ==
  ASSUME NEW s \in States, NEW r \in Requests, NEW i \in BOOLEAN, NEW n \in States
  PROVE  /\ IdleTarget(s) \in States
         /\ Commanded(s, r, i) \in States
         /\ SafeState(s, n) \in States
<1>1. IdleTarget(s) \in States
  BY SMT DEF IdleTarget
<1>2. Commanded(s, r, i) \in States
  BY <1>1, SMT DEF Commanded
<1>3. SafeState(s, n) \in States
  BY SMT DEF SafeState
<1> QED BY <1>1, <1>2, <1>3

\* What a tick does to the variables its tail writes keeps their types.
LEMMA EndOfTickTypes ==
  ASSUME TypeOK, NEW n \in States, NEW i \in BOOLEAN, NEW e \in BOOLEAN,
         EndOfTick(n, i, e)
  PROVE  /\ State_Before' \in States
         /\ State_Current' \in States
         /\ State_Next' = State_Current'
         /\ DPMUInitializedFlag' \in BOOLEAN
         /\ DPMUSwitchesStatesOK' \in BOOLEAN
         /\ iopRequest' = NoRequest
         /\ emergency' \in BOOLEAN
         /\ dpmu_default_flag' = dpmu_default_flag
         /\ mainLoop' = mainLoop
<1> DEFINE ok == VerifiedSwitches(closed')
           commanded == AfterEmergency(n, i)
<1>1. ok \in BOOLEAN
  BY DEF VerifiedSwitches, SwitchesOK, TypeOK
<1>2. commanded \in States
  <2>1. AfterCommand(n, i) \in States
    BY TargetsAreStates DEF AfterCommand, TypeOK
  <2> QED BY <2>1 DEF AfterEmergency
<1>3. SafeState(State_Current, commanded) \in States
  BY <1>2, SMT DEF SafeState, TypeOK
<1>4. State_Current' \in States
  BY <1>2, <1>3 DEF EndOfTick
<1>5. Deinitialises(State_Current) \in BOOLEAN
  BY DEF Deinitialises
<1>6. DPMUInitializedFlag' = (i /\ (ok \/ ~Deinitialises(State_Current)))
  BY DEF EndOfTick
<1>7. /\ State_Before' = State_Current /\ State_Next' = State_Current'
      /\ DPMUSwitchesStatesOK' = ok /\ iopRequest' = NoRequest
      /\ emergency' = (emergency /\ iopRequest = "Fault")
      /\ UNCHANGED <<dpmu_default_flag, mainLoop>>
  BY DEF EndOfTick
<1>8. State_Before' \in States
  BY <1>7 DEF TypeOK
<1>9. DPMUInitializedFlag' \in BOOLEAN /\ DPMUSwitchesStatesOK' \in BOOLEAN
  BY <1>1, <1>5, <1>6, <1>7
<1>10. emergency' \in BOOLEAN
  BY <1>7 DEF TypeOK
<1> QED BY <1>4, <1>7, <1>8, <1>9, <1>10

-----------------------------------------------------------------------------
(* Type correctness.                                                        *)

LEMMA TypeInit == Init => TypeOK
<1> SUFFICES ASSUME Init
             PROVE  TypeOK
  OBVIOUS
<1>1. inrush \in InrushLimiter
  BY InrushAssumption DEF Init, InrushLimiter
<1>2. statics \in TickStatics
  BY SamplesAssumption DEF Init, TickStatics
<1>3. PrestateCounter \in 0 .. CounterMod - 1
  BY DelayAssumption DEF Init
<1>4. dpmu_default_flag \in BOOLEAN
  BY EnvironmentAssumption DEF Init
<1> QED BY <1>1, <1>2, <1>3, <1>4 DEF Init, TypeOK

\* The variables a case of the switch writes, before the tail of the tick.
CaseTypes ==
  /\ closed' \subseteq Switches
  /\ running' \subseteq Converters
  /\ inrush' \in InrushLimiter
  /\ PrestateCounter' \in 0 .. CounterMod - 1
  /\ dpmuErrorOcurredFlag' \in BOOLEAN
  /\ test_update_of_error_codes' \in BOOLEAN
  /\ statics' \in TickStatics

LEMMA TickTypes ==
  ASSUME TypeOK, CaseTypes, NEW n \in States, NEW i \in BOOLEAN, NEW e \in BOOLEAN,
         EndOfTick(n, i, e)
  PROVE  TypeOK'
<1>1. iopRequest' = NoRequest /\ State_Next' = State_Current'
  BY EndOfTickTypes
<1>2. /\ State_Before' \in States /\ State_Current' \in States
      /\ DPMUInitializedFlag' \in BOOLEAN /\ DPMUSwitchesStatesOK' \in BOOLEAN
      /\ emergency' \in BOOLEAN /\ dpmu_default_flag' = dpmu_default_flag
      /\ mainLoop' = mainLoop
  BY EndOfTickTypes
<1> QED BY <1>1, <1>2 DEF TypeOK, CaseTypes

\* A case that goes on with n and does not touch the error flags.
LEMMA ProceedTypes ==
  ASSUME TypeOK, NEW n \in States, Proceed(n),
         closed' \subseteq Switches, running' \subseteq Converters,
         inrush' \in InrushLimiter,
         PrestateCounter' \in 0 .. CounterMod - 1,
         statics' \in TickStatics
  PROVE  TypeOK'
<1>1. CaseTypes
  BY DEF CaseTypes, Proceed, errors, TypeOK
<1>2. EndOfTick(n, DPMUInitializedFlag, dpmuErrorOcurredFlag)
  BY DEF Proceed
<1> QED BY <1>1, <1>2, TickTypes DEF TypeOK

LEMMA TypeStep == TypeOK /\ [Next]_vars => TypeOK'
<1> SUFFICES ASSUME TypeOK, [Next]_vars
             PROVE  TypeOK'
  OBVIOUS
<1> USE DEF TypeOK, hardware, Switches, Converters
<1>1. CASE PreInitialized
  BY <1>1, ProceedTypes DEF PreInitialized
<1>2. CASE Initialize
  <2>1. PICK appInfo \in BOOLEAN, calibrated \in {statics.calibrationComplete, TRUE} :
          IF ~DPMUInitializedFlag /\ appInfo
          THEN /\ statics' = [statics EXCEPT !.calibrationComplete = calibrated]
               /\ IF calibrated
                  THEN /\ test_update_of_error_codes' = TRUE
                       /\ closed' = {}
                       /\ EndOfTick(IF dpmu_default_flag THEN "SoftstartInitDefault"
                                                         ELSE "SoftstartInitRedundant",
                                    FALSE, dpmuErrorOcurredFlag)
                       /\ UNCHANGED dpmuErrorOcurredFlag
                  ELSE /\ UNCHANGED closed
                       /\ Proceed(State_Next)
          ELSE /\ UNCHANGED <<closed, statics>>
               /\ Proceed(State_Before)
    BY <1>2 DEF Initialize
  <2>2. UNCHANGED <<running, inrush, PrestateCounter>>
    BY <1>2 DEF Initialize
  <2>3. calibrated \in BOOLEAN
    BY <2>1 DEF TickStatics
  <2>4. CASE ~DPMUInitializedFlag /\ appInfo /\ calibrated
    <3> DEFINE n == IF dpmu_default_flag THEN "SoftstartInitDefault"
                                         ELSE "SoftstartInitRedundant"
    <3>1. EndOfTick(n, FALSE, dpmuErrorOcurredFlag)
      BY <2>1, <2>4
    <3>4. statics' \in TickStatics
      BY <2>1, <2>3, <2>4 DEF TickStatics
    <3>5. /\ test_update_of_error_codes' = TRUE /\ closed' = {}
          /\ UNCHANGED dpmuErrorOcurredFlag
      BY <2>1, <2>4
    <3>2. CaseTypes
      BY <2>2, <3>4, <3>5 DEF CaseTypes
    <3>3. n \in States
      OBVIOUS
    <3> HIDE DEF n
    <3> QED BY <3>1, <3>2, <3>3, TickTypes
  <2>5. CASE ~DPMUInitializedFlag /\ appInfo /\ ~calibrated
    <3>1. Proceed(State_Next) /\ UNCHANGED closed
      BY <2>1, <2>5
    <3>2. statics' \in TickStatics
      BY <2>1, <2>3, <2>5 DEF TickStatics
    <3> QED BY <3>1, <3>2, <2>2, ProceedTypes
  <2>6. CASE ~(~DPMUInitializedFlag /\ appInfo)
    <3>1. Proceed(State_Before) /\ UNCHANGED <<closed, statics>>
      BY <2>1, <2>6
    <3> QED BY <3>1, <2>2, ProceedTypes
  <2> QED BY <2>3, <2>4, <2>5, <2>6
<1>3. CASE SoftstartInitDefault \/ SoftstartInitRedundant
  <2>1. /\ inrush' = [on |-> TRUE, duty |-> 1, count |-> 0]
        /\ Proceed("Softstart")
        /\ UNCHANGED <<running, PrestateCounter, statics>>
        /\ closed' \subseteq Switches
    BY <1>3 DEF SoftstartInitDefault, SoftstartInitRedundant, StartInrush
  <2>2. inrush' \in InrushLimiter
    BY <2>1, InrushAssumption DEF InrushLimiter
  <2> QED BY <2>1, <2>2, ProceedTypes
<1>4. CASE Softstart
  <2>1. CASE DoneWithInrush
    <3>1. /\ closed' = closed \cup {"Qinb", "Qsb"}
          /\ inrush' = [on |-> FALSE, duty |-> 0, count |-> 0]
          /\ EndOfTick("Idle", TRUE, dpmuErrorOcurredFlag)
          /\ UNCHANGED <<errors, running, PrestateCounter, statics>>
      BY <1>4, <2>1 DEF Softstart
    <3>3. inrush' \in InrushLimiter
      BY <3>1, InrushAssumption DEF InrushLimiter
    <3>2. CaseTypes
      BY <3>1, <3>3 DEF CaseTypes, errors
    <3> QED BY <3>1, <3>2, TickTypes
  <2>2. CASE ~DoneWithInrush
    <3>1. /\ inrush' = InrushStep
          /\ Proceed(State_Next)
          /\ UNCHANGED <<closed, running, PrestateCounter, statics>>
      BY <1>4, <2>2 DEF Softstart
    <3>2. inrush' \in InrushLimiter
      <4>1. CASE inrush.count > INRUSH_DELAY
        <5>1. inrush' = [on |-> inrush.on, duty |-> inrush.duty + 1, count |-> 0]
          BY <3>1, <4>1 DEF InrushStep, InrushLimiter
        <5>2. inrush.duty + 1 \in 0 .. MaxDuty
          BY <2>2, <4>1, InrushAssumption DEF DoneWithInrush, InrushLimiter
        <5> QED BY <5>1, <5>2, InrushAssumption DEF InrushLimiter
      <4>2. CASE ~(inrush.count > INRUSH_DELAY)
        <5>1. inrush' = [inrush EXCEPT !.count = @ + 1]
          BY <3>1, <4>2 DEF InrushStep
        <5>2. inrush.count + 1 \in 0 .. INRUSH_DELAY + 1
          BY <4>2, InrushAssumption DEF InrushLimiter
        <5> QED BY <5>1, <5>2 DEF InrushLimiter
      <4> QED BY <4>1, <4>2
    <3> QED BY <3>1, <3>2, ProceedTypes
  <2> QED BY <2>1, <2>2
<1>5. CASE TrickleChargeInit
  <2>1. PICK charged \in BOOLEAN :
          IF charged
          THEN /\ UNCHANGED <<running, PrestateCounter, closed>>
               /\ Proceed("ChargeInit")
          ELSE /\ running' = running \cup {"DCDC"}
               /\ PrestateCounter' = DELAY
               /\ UNCHANGED closed
               /\ Proceed("TrickleChargeDelay")
    BY <1>5 DEF TrickleChargeInit
  <2>2. UNCHANGED <<closed, inrush, statics>>
    BY <1>5, <2>1 DEF TrickleChargeInit
  <2>3. /\ running' \in {running, running \cup {"DCDC"}}
        /\ PrestateCounter' \in {PrestateCounter, DELAY}
    BY <2>1
  <2>5. running' \subseteq Converters /\ PrestateCounter' \in 0 .. CounterMod - 1
    BY <2>3, DelayAssumption
  <2>4. Proceed("ChargeInit") \/ Proceed("TrickleChargeDelay")
    BY <2>1
  <2> QED BY <2>2, <2>4, <2>5, ProceedTypes
<1>6. CASE TrickleChargeDelay
  <2> DEFINE n == IF PrestateCounter' = 0 THEN "TrickleCharge" ELSE State_Next
  <2>1. UNCHANGED <<hardware, statics>> /\ Proceed(n)
    BY <1>6 DEF TrickleChargeDelay
  <2>2. PrestateCounter' \in 0 .. CounterMod - 1
    <3>1. PrestateCounter' = (PrestateCounter + CounterMod - 1) % CounterMod
      BY <1>6 DEF TrickleChargeDelay
    <3>2. PrestateCounter + CounterMod - 1 \in Nat /\ CounterMod \in Nat \ {0}
      BY DelayAssumption
    <3> QED BY <3>1, <3>2
  <2>3. n \in States
    OBVIOUS
  <2> HIDE DEF n
  <2> QED BY <2>1, <2>2, <2>3, ProceedTypes
<1>7. CASE TrickleCharge
  <2>1. /\ UNCHANGED <<closed, inrush, PrestateCounter, statics>>
        /\ running' \subseteq Converters
        /\ Proceed("StopEPWMs") \/ Proceed("ChargeInit") \/ Proceed(State_Next)
    BY <1>7 DEF TrickleCharge
  <2> QED BY <2>1, ProceedTypes
<1>8. CASE ChargeInit
  <2>1. /\ UNCHANGED <<hardware, PrestateCounter>> /\ Proceed("ChargeRamp")
        /\ statics' = [statics EXCEPT !.EPMWStarted = FALSE]
    BY <1>8 DEF ChargeInit
  <2>2. statics' \in TickStatics
    BY <2>1 DEF TickStatics
  <2> QED BY <2>1, <2>2, ProceedTypes
<1>9. CASE ChargeRamp
  <2>1. /\ running' = IF statics.EPMWStarted THEN running ELSE running \cup {"DCDC"}
        /\ statics' = [statics EXCEPT !.EPMWStarted = TRUE]
        /\ UNCHANGED <<closed, inrush, PrestateCounter>>
        /\ Proceed("Charge") \/ Proceed(State_Next)
    BY <1>9 DEF ChargeRamp
  <2>2. statics' \in TickStatics
    BY <2>1 DEF TickStatics
  <2>3. running' \subseteq Converters
    BY <2>1
  <2> QED BY <2>1, <2>2, <2>3, ProceedTypes
<1>10. CASE Charge
  <2>1. /\ UNCHANGED <<hardware, PrestateCounter, statics>>
        /\ Proceed("BalancingInit") \/ Proceed("ChargeStop") \/ Proceed(State_Next)
    BY <1>10 DEF Charge
  <2> QED BY <2>1, ProceedTypes
<1>11. CASE ChargeStop \/ RegulateStop
  <2>1. /\ UNCHANGED <<hardware, PrestateCounter, statics>>
        /\ Proceed("StopEPWMs") \/ Proceed(State_Next)
    BY <1>11 DEF ChargeStop, RegulateStop, WaitForLowCurrent
  <2> QED BY <2>1, ProceedTypes
<1>12. CASE BalancingInit
  <2>1. /\ UNCHANGED <<closed, inrush, PrestateCounter, statics>>
        /\ running' \subseteq Converters
        /\ Proceed("Balancing") \/ Proceed(State_Next)
    BY <1>12 DEF BalancingInit
  <2> QED BY <2>1, ProceedTypes
<1>13. CASE Balancing
  <2>1. /\ UNCHANGED <<closed, inrush, PrestateCounter, statics>>
        /\ running' \subseteq Converters
        /\ Proceed("ChargeInit") \/ Proceed(State_Next)
    BY <1>13 DEF Balancing
  <2> QED BY <2>1, ProceedTypes
<1>14. CASE BalancingStop
  BY <1>14, ProceedTypes DEF BalancingStop
<1>15. CASE RegulateInit
  <2>1. /\ UNCHANGED <<closed, inrush, PrestateCounter>>
        /\ running' \subseteq Converters
        /\ Proceed("Regulate")
    BY <1>15 DEF RegulateInit
  <2>2. statics' \in TickStatics
    BY <1>15 DEF RegulateInit, TickStatics
  <2> QED BY <2>1, <2>2, ProceedTypes
<1>16. CASE Regulate
  <2>1. PICK demand \in BOOLEAN : EnableOrDisblePWM(demand)
    BY <1>16 DEF Regulate, BoostDemands, TickStatics
  <2>2. /\ UNCHANGED <<closed, inrush, PrestateCounter>>
        /\ \E next \in {State_Next, "RegulateStop", "RegulateVoltageInit"} : Proceed(next)
    BY <1>16 DEF Regulate
  <2>3. statics' \in TickStatics
    <3>1. SamplesTaken \in 0 .. SAMPLES
      BY SamplesAssumption DEF SamplesTaken, TickStatics
    <3> QED BY <2>1, <3>1 DEF EnableOrDisblePWM, TickStatics
  <2>4. running' \subseteq Converters
    BY <2>1 DEF EnableOrDisblePWM
  <2> QED BY <2>2, <2>3, <2>4, ProceedTypes
<1>17. CASE RegulateVoltageInit
  <2>1. /\ UNCHANGED <<inrush, PrestateCounter, statics>>
        /\ closed' \subseteq Switches /\ running' \subseteq Converters
        /\ Proceed("RegulateVoltage")
    BY <1>17 DEF RegulateVoltageInit
  <2> QED BY <2>1, ProceedTypes
<1>18. CASE RegulateVoltage
  <2>1. /\ UNCHANGED <<hardware, PrestateCounter, statics>>
        /\ Proceed("RegulateVoltageStop") \/ Proceed(State_Next)
    BY <1>18 DEF RegulateVoltage
  <2> QED BY <2>1, ProceedTypes
<1>19. CASE RegulateVoltageStop
  <2>1. CaseTypes
    BY <1>19 DEF RegulateVoltageStop, CaseTypes, errors
  <2> QED BY <1>19, <2>1, TickTypes DEF RegulateVoltageStop
<1>20. CASE Fault
  <2>1. inrush' = [inrush EXCEPT !.duty = 0] /\ running' = {} /\ closed' = {}
    BY <1>20 DEF Fault, StopAllEPWMs
  <2>2. inrush' \in InrushLimiter
    BY <2>1, InrushAssumption DEF InrushLimiter
  <2>3. /\ PrestateCounter' = 0 /\ test_update_of_error_codes' = FALSE
        /\ dpmuErrorOcurredFlag' = FALSE /\ UNCHANGED statics
    BY <1>20 DEF Fault
  <2>5. PrestateCounter' \in 0 .. CounterMod - 1
    BY <2>3, DelayAssumption
  <2>4. CaseTypes
    BY <2>1, <2>2, <2>3, <2>5 DEF CaseTypes
  <2> QED BY <1>20, <2>4, TickTypes DEF Fault
<1>21. CASE StopEPWMs
  <2>1. /\ UNCHANGED <<closed, PrestateCounter, statics>> /\ running' = {}
        /\ inrush' = [inrush EXCEPT !.duty = 0]
        /\ Proceed("Idle")
    BY <1>21 DEF StopEPWMs, StopAllEPWMs
  <2>2. inrush' \in InrushLimiter
    BY <2>1, InrushAssumption DEF InrushLimiter
  <2> QED BY <2>1, <2>2, ProceedTypes
<1>22. CASE Idle
  BY <1>22, ProceedTypes DEF Idle
<1>23. CASE Cpu1
  <2>1. UNCHANGED <<stateVector, flags, hardware, PrestateCounter, errors, statics, mainLoop>>
    BY <1>23 DEF Cpu1, IOPRequest, EmergencyShutDown, PowerSourceType
  <2>2. iopRequest' \in Requests \cup {NoRequest}
    BY <1>23 DEF Cpu1, IOPRequest, EmergencyShutDown, PowerSourceType
  <2>3. emergency' \in BOOLEAN
    BY <1>23, EnvironmentAssumption DEF Cpu1, IOPRequest, EmergencyShutDown, PowerSourceType
  <2>4. dpmu_default_flag' \in BOOLEAN
    BY <1>23, EnvironmentAssumption DEF Cpu1, IOPRequest, EmergencyShutDown, PowerSourceType
  <2> QED BY <2>1, <2>2, <2>3, <2>4 DEF stateVector, flags, errors
<1>24. CASE AcceptSwitchCommand \/ EndProtection \/ BeginProtection
  <2>1. UNCHANGED <<stateVector, flags, hardware, PrestateCounter, errors, statics, cpu1>>
    BY <1>24 DEF AcceptSwitchCommand, BeginProtection, EndProtection
  <2>2. mainLoop' \in {"idle", "switching", "protecting"}
    BY <1>24 DEF AcceptSwitchCommand, BeginProtection, EndProtection
  <2> QED BY <2>1, <2>2 DEF stateVector, flags, errors, cpu1
<1>25. CASE SwitchCommand \/ InputTripInterrupt
  <2>1. UNCHANGED <<stateVector, flags, running, inrush, PrestateCounter, errors,
                    statics, cpu1>>
    BY <1>25 DEF SwitchCommand, InputTripInterrupt
  <2>2. closed' \subseteq Switches /\ mainLoop' \in {"idle", "switching", "protecting"}
    BY <1>25 DEF SwitchCommand, InputTripInterrupt
  <2> QED BY <2>1, <2>2 DEF stateVector, flags, errors, cpu1
<1>26. CASE VerifyDPMUSwitchesOK
  <2>1. UNCHANGED <<stateVector, DPMUInitializedFlag, hardware, PrestateCounter,
                    errors, statics, cpu1, mainLoop>>
    BY <1>26 DEF VerifyDPMUSwitchesOK
  <2>2. DPMUSwitchesStatesOK' \in BOOLEAN
    BY <1>26 DEF VerifyDPMUSwitchesOK, SwitchesOK
  <2> QED BY <2>1, <2>2 DEF stateVector, errors, cpu1
<1>27. CASE EfuseVinTrip \/ EfuseBBTrip
  <2>1. UNCHANGED <<State_Before, State_Current, flags, inrush, PrestateCounter,
                    errors, statics, cpu1, mainLoop>>
    BY <1>27 DEF EfuseVinTrip, EfuseBBTrip
  <2>2. closed' \subseteq Switches /\ running' \subseteq Converters /\ State_Next' = "Fault"
    BY <1>27 DEF EfuseVinTrip, EfuseBBTrip
  <2> QED BY <2>1, <2>2 DEF flags, errors, cpu1
<1>28. CASE \/ OverVoltageDetected \/ OverVoltagePersists \/ UnderVoltagePersists
            \/ ShortCircuit \/ StopMainStateMachine
  <2>1. PICK o \in SUBSET Switches, stopped \in BOOLEAN, e \in BOOLEAN : Protect(o, stopped, e)
    BY <1>28 DEF OverVoltageDetected, OverVoltagePersists, UnderVoltagePersists,
                 ShortCircuit, StopMainStateMachine
  <2>2. UNCHANGED <<stateVector, flags, PrestateCounter, test_update_of_error_codes,
                    statics, cpu1, mainLoop>>
    BY <2>1 DEF Protect
  <2>3. closed' \subseteq Switches /\ dpmuErrorOcurredFlag' \in BOOLEAN
    BY <2>1 DEF Protect
  <2>4. running' \subseteq Converters
    BY <2>1 DEF Protect, StopAllEPWMs
  <2>5. inrush' \in InrushLimiter
    <3>1. CASE stopped
      <4>1. inrush' = [inrush EXCEPT !.duty = 0]
        BY <2>1, <3>1 DEF Protect, StopAllEPWMs
      <4> QED BY <4>1, InrushAssumption DEF InrushLimiter
    <3>2. CASE ~stopped
      BY <2>1, <3>2 DEF Protect
    <3> QED BY <3>1, <3>2
  <2> QED BY <2>2, <2>3, <2>4, <2>5 DEF stateVector, flags, cpu1
<1>29. CASE UNCHANGED vars
  BY <1>29 DEF vars, stateVector, flags, errors, cpu1
<1> QED
  BY <1>1, <1>2, <1>3, <1>4, <1>5, <1>6, <1>7, <1>8, <1>9, <1>10, <1>11, <1>12,
     <1>13, <1>14, <1>15, <1>16, <1>17, <1>18, <1>19, <1>20, <1>21, <1>22, <1>23,
     <1>24, <1>25, <1>26, <1>27, <1>28, <1>29 DEF Next, Tick, MainLoop

\* Every reachable state is well typed; in particular State_Current always has
\* a case of its own in StateMachine(), whose default branch says "should
\* never enter here" (state_machine.c:343-345).
THEOREM TypeCorrect == Spec => []TypeOK
BY TypeInit, TypeStep, PTL DEF Spec

-----------------------------------------------------------------------------
(* Where a tick leads.                                                      *)

\* What the tail of a tick in state s, with the initialised flag at i, can
\* make of the transition of the case.
Diverted(s, i) ==
  {s, "Fault"}
    \cup (IF i THEN {IdleTarget(s)} ELSE {})
    \cup (IF ~i /\ s = "PreInitialized" THEN {"Initialize"} ELSE {})
    \cup (IF i /\ s = "Idle" THEN {"TrickleChargeInit", "RegulateInit"} ELSE {})
    \cup (IF s \in Charging THEN {"ChargeStop"} ELSE {})
    \cup (IF s \in Regulating THEN {"RegulateStop"} ELSE {})

LEMMA CommandDiverts ==
  ASSUME NEW s \in States, NEW r \in Requests, NEW i \in BOOLEAN
  PROVE  Commanded(s, r, i) \in Diverted(s, i)
<1>1. CASE r = "Fault"
  BY <1>1 DEF Commanded, Diverted
<1>2. CASE r = "Initialize" /\ ~i /\ s = "PreInitialized"
  BY <1>2 DEF Commanded, Diverted
<1>3. CASE r = "Idle" /\ i
  BY <1>3 DEF Commanded, Diverted
<1>4. CASE r \in {"TrickleChargeInit", "RegulateInit"} /\ i /\ s = "Idle"
  BY <1>4 DEF Commanded, Diverted
<1>5. CASE /\ r # "Fault" /\ ~(r = "Initialize" /\ ~i /\ s = "PreInitialized")
           /\ ~(r = "Idle" /\ i)
           /\ ~(r \in {"TrickleChargeInit", "RegulateInit"} /\ i /\ s = "Idle")
  BY <1>5 DEF Commanded, Diverted
<1> QED BY <1>1, <1>2, <1>3, <1>4, <1>5

LEMMA SafeStateDiverts ==
  ASSUME NEW s \in States, NEW i \in BOOLEAN, NEW n
  PROVE  SafeState(s, n) \in {n} \cup Diverted(s, i)
<1>1. CASE s \in Charging
  BY <1>1 DEF SafeState, Diverted
<1>2. CASE s \in Regulating
  BY <1>2 DEF SafeState, Diverted
<1>3. CASE s \notin Charging \cup Regulating
  BY <1>3 DEF SafeState, Diverted
<1> QED BY <1>1, <1>2, <1>3

LEMMA EndOfTickLeads ==
  ASSUME TypeOK, NEW n \in States, NEW i \in BOOLEAN, NEW e \in BOOLEAN,
         EndOfTick(n, i, e)
  PROVE  /\ State_Current' \in {n} \cup Diverted(State_Current, i)
         /\ State_Next' = State_Current'
         /\ State_Before' = State_Current
         /\ DPMUInitializedFlag' \in {i, FALSE}
         /\ ~Deinitialises(State_Current) => DPMUInitializedFlag' = i
         /\ mainLoop' = mainLoop
<1> DEFINE ok == VerifiedSwitches(closed')
           commanded == AfterEmergency(n, i)
           reach == {n} \cup Diverted(State_Current, i)
<1>1. ok \in BOOLEAN
  BY DEF VerifiedSwitches, SwitchesOK, TypeOK
<1>2. commanded \in reach
  <2>1. CASE iopRequest = NoRequest
    BY <2>1 DEF AfterEmergency, AfterCommand, Diverted
  <2>2. CASE iopRequest # NoRequest
    <3>1. Commanded(State_Current, iopRequest, i) \in Diverted(State_Current, i)
      BY <2>2, CommandDiverts DEF TypeOK
    <3> QED BY <2>2, <3>1 DEF AfterEmergency, AfterCommand, Diverted
  <2> QED BY <2>1, <2>2
<1>3. SafeState(State_Current, commanded) \in reach
  <2>1. SafeState(State_Current, commanded) \in {commanded} \cup Diverted(State_Current, i)
    BY SafeStateDiverts DEF TypeOK
  <2> QED BY <2>1, <1>2
<1>4. State_Current' \in reach
  <2>1. State_Current' \in {"Fault", commanded, SafeState(State_Current, commanded)}
    BY DEF EndOfTick
  <2>2. "Fault" \in reach
    BY DEF Diverted
  <2> QED BY <2>1, <2>2, <1>2, <1>3
<1>5. State_Next' = State_Current' /\ State_Before' = State_Current /\ mainLoop' = mainLoop
  BY DEF EndOfTick
<1>6. DPMUInitializedFlag' = (i /\ (ok \/ ~Deinitialises(State_Current)))
  BY DEF EndOfTick
<1>7. DPMUInitializedFlag' \in {i, FALSE}
  BY <1>1, <1>6
<1>8. ~Deinitialises(State_Current) => DPMUInitializedFlag' = i
  BY <1>6
<1> QED BY <1>4, <1>5, <1>7, <1>8

LEMMA ProceedLeads ==
  ASSUME TypeOK, NEW n \in States, Proceed(n)
  PROVE  /\ State_Current' \in {n} \cup Diverted(State_Current, DPMUInitializedFlag)
         /\ State_Next' = State_Current'
         /\ State_Before' = State_Current
         /\ DPMUInitializedFlag' \in {DPMUInitializedFlag, FALSE}
         /\ ~Deinitialises(State_Current) => DPMUInitializedFlag' = DPMUInitializedFlag
         /\ mainLoop' = mainLoop
<1>1. EndOfTick(n, DPMUInitializedFlag, dpmuErrorOcurredFlag)
  BY DEF Proceed
<1>2. DPMUInitializedFlag \in BOOLEAN /\ dpmuErrorOcurredFlag \in BOOLEAN
  BY DEF TypeOK
<1> QED BY <1>1, <1>2, EndOfTickLeads

-----------------------------------------------------------------------------
(* What each case does to the state, the converters and the initialised     *)
(* flag, whatever the tail of the tick makes of it.                         *)

Moves ==
  /\ State_Current' \in Successors(State_Current)
  /\ State_Next' = State_Current'
  /\ State_Before' = State_Current
  /\ mainLoop' = mainLoop

Drives ==
  /\ running' \subseteq running \cup
       (IF State_Current \in {"TrickleChargeInit", "ChargeRamp", "Regulate",
                              "RegulateVoltageInit"} THEN {"DCDC"} ELSE {}) \cup
       (IF State_Current = "Balancing" THEN {"CLLC"} ELSE {})
  /\ State_Current \in {"Fault", "StopEPWMs"} => running' = {}
  /\ State_Current = "BalancingInit" /\ State_Current' = "Balancing" => "DCDC" \notin running'
  /\ State_Current = "Balancing" /\ State_Current' = "ChargeInit" => "CLLC" \notin running'

Arms ==
  /\ DPMUInitializedFlag' => DPMUInitializedFlag \/ State_Current = "Softstart"
  /\ State_Current = "Fault" => ~DPMUInitializedFlag'
  /\ State_Current = "Softstart" =>
       /\ DPMUInitializedFlag => DPMUInitializedFlag'
       /\ State_Current' \in {"Idle", "StopEPWMs"} => DPMUInitializedFlag'

\* A state's successors contain it and Fault.
LEMMA SelfSuccessor ==
  ASSUME NEW s \in States
  PROVE  {s, "Fault"} \subseteq Successors(s)
<1>1. CASE s \in Charging \cup Starting
  BY <1>1 DEF Successors
<1>2. CASE s \in Regulating \cup VoltageRegulating \cup BalancingStates
  BY <1>2 DEF Successors
<1>3. CASE s \in Stopping \cup {"PreInitialized", "Idle", "Fault"}
  BY <1>3 DEF Successors
<1> QED BY <1>1, <1>2, <1>3 DEF States

\* A state's successors contain whatever the tail of a tick makes of it.
LEMMA DivertedSuccessors ==
  ASSUME NEW s \in States, NEW i \in BOOLEAN,
         i => DPMUInitializedFlag \/ s = "Softstart",
         s \in {"PreInitialized", "Fault"} \cup (Starting \ {"Softstart"}) => ~i
  PROVE  Diverted(s, i) \subseteq Successors(s)
<1>1. i => IdleTarget(s) \in Successors(s)
  <2>1. CASE s \in Charging \cup {"Softstart"}
    BY <2>1 DEF IdleTarget, Successors
  <2>2. CASE s \in Regulating \cup VoltageRegulating \cup BalancingStates
    BY <2>2 DEF IdleTarget, Successors
  <2>3. CASE s \in Stopping \cup {"Idle"}
    BY <2>3 DEF IdleTarget, Successors
  <2> QED BY <2>1, <2>2, <2>3
<1>2. {s, "Fault"} \subseteq Successors(s)
  BY SelfSuccessor
<1>3. s \in Charging => "ChargeStop" \in Successors(s)
  BY DEF Successors
<1>4. s \in Regulating => "RegulateStop" \in Successors(s)
  BY DEF Successors
<1>5. s = "PreInitialized" => "Initialize" \in Successors(s)
  BY DEF Successors
<1>6. i /\ s = "Idle" => {"TrickleChargeInit", "RegulateInit"} \subseteq Successors(s)
  BY DEF Successors
<1> QED BY <1>1, <1>2, <1>3, <1>4, <1>5, <1>6 DEF Diverted

LEMMA SuccessorsAreStates ==
  ASSUME NEW s \in States
  PROVE  Successors(s) \subseteq States
BY SMTT(30) DEF Successors

LEMMA TailMoves ==
  ASSUME TypeOK, NEW n \in Successors(State_Current),
         NEW i \in BOOLEAN, NEW e \in BOOLEAN, EndOfTick(n, i, e),
         i => DPMUInitializedFlag \/ State_Current = "Softstart",
         State_Current \in {"PreInitialized", "Fault"} \cup (Starting \ {"Softstart"}) => ~i
  PROVE  Moves
<1>1. State_Current \in States
  BY DEF TypeOK
<1>2. n \in States
  BY <1>1, SuccessorsAreStates
<1>3. Diverted(State_Current, i) \subseteq Successors(State_Current)
  BY <1>1, DivertedSuccessors
<1>4. /\ State_Current' \in {n} \cup Diverted(State_Current, i)
      /\ State_Next' = State_Current' /\ State_Before' = State_Current
      /\ mainLoop' = mainLoop
  BY <1>2, EndOfTickLeads
<1> QED BY <1>3, <1>4 DEF Moves

LEMMA CaseMoves ==
  ASSUME TypeOK, ConverterDiscipline, NEW n \in Successors(State_Current), Proceed(n),
         State_Current # "Fault"
  PROVE  Moves
<1>1. DPMUInitializedFlag \in BOOLEAN /\ dpmuErrorOcurredFlag \in BOOLEAN
  BY DEF TypeOK
<1>2. State_Current \in {"PreInitialized"} \cup (Starting \ {"Softstart"}) => ~DPMUInitializedFlag
  BY DEF ConverterDiscipline
<1>3. EndOfTick(n, DPMUInitializedFlag, dpmuErrorOcurredFlag)
  BY DEF Proceed
<1> QED BY <1>1, <1>2, <1>3, TailMoves

LEMMA CaseArms ==
  ASSUME TypeOK, NEW n \in Successors(State_Current), Proceed(n),
         State_Current \notin {"Fault", "Softstart"}
  PROVE  Arms
<1>1. n \in States
  BY SuccessorsAreStates DEF TypeOK
<1> QED BY <1>1, ProceedLeads DEF Arms

LEMMA TickMoves ==
  ASSUME TypeOK, ConverterDiscipline, Tick
  PROVE  Moves /\ Drives /\ Arms
<1> USE DEF In, hardware
<1>a. /\ State_Next \in {State_Current, "Fault"} /\ DPMUInitializedFlag \in BOOLEAN
      /\ dpmuErrorOcurredFlag \in BOOLEAN
  BY DEF ConverterDiscipline, TypeOK
<1>b. State_Current = "Initialize" => State_Before \in {"PreInitialized", "Initialize"}
  BY DEF ConverterDiscipline
<1>1. CASE PreInitialized
  <2>1. State_Current = "PreInitialized" /\ running' = running
    BY <1>1 DEF PreInitialized
  <2>2. PICK n \in {State_Next} : Proceed(n)
    BY <1>1 DEF PreInitialized
  <2>3. n \in Successors(State_Current)
    BY <2>1, <2>2, <1>a DEF Successors
  <2> QED BY <2>1, <2>2, <2>3, CaseMoves, CaseArms DEF Drives
<1>2. CASE Initialize
  <2>1. State_Current = "Initialize" /\ running' = running
    BY <1>2 DEF Initialize
  <2>2. CASE \E n \in {State_Next, State_Before} : Proceed(n)
    <3>1. PICK n \in {State_Next, State_Before} : Proceed(n)
      BY <2>2
    <3>2. n \in Successors(State_Current)
      BY <2>1, <3>1, <1>a, <1>b DEF Successors
    <3>3. Moves /\ Arms
      BY <2>1, <3>1, <3>2, CaseMoves, CaseArms
    <3> QED BY <2>1, <3>3 DEF Drives
  <2>3. CASE \E n \in {"SoftstartInitDefault", "SoftstartInitRedundant"} :
               EndOfTick(n, FALSE, dpmuErrorOcurredFlag)
    <3>1. PICK n \in {"SoftstartInitDefault", "SoftstartInitRedundant"} :
            EndOfTick(n, FALSE, dpmuErrorOcurredFlag)
      BY <2>3
    <3>2. n \in Successors(State_Current) /\ n \in States
      BY <2>1, <3>1 DEF Successors
    <3>3. Moves
      BY <3>1, <3>2, <1>a, TailMoves
    <3>4. DPMUInitializedFlag' = FALSE
      BY <3>1, <3>2, <1>a, EndOfTickLeads
    <3> QED BY <2>1, <3>3, <3>4 DEF Drives, Arms
  <2> QED BY <1>2, <2>2, <2>3 DEF Initialize
<1>3. CASE SoftstartInitDefault
  <2>1. State_Current = "SoftstartInitDefault" /\ running' = running
    BY <1>3 DEF SoftstartInitDefault, StartInrush
  <2>2. PICK n \in {State_Next, "Softstart"} : Proceed(n)
    BY <1>3 DEF SoftstartInitDefault, StartInrush
  <2>3. n \in Successors(State_Current)
    BY <2>1, <2>2, <1>a DEF Successors
  <2> QED BY <2>1, <2>2, <2>3, CaseMoves, CaseArms DEF Drives
<1>4. CASE SoftstartInitRedundant
  <2>1. State_Current = "SoftstartInitRedundant" /\ running' = running
    BY <1>4 DEF SoftstartInitRedundant, StartInrush
  <2>2. PICK n \in {State_Next, "Softstart"} : Proceed(n)
    BY <1>4 DEF SoftstartInitRedundant, StartInrush
  <2>3. n \in Successors(State_Current)
    BY <2>1, <2>2, <1>a DEF Successors
  <2> QED BY <2>1, <2>2, <2>3, CaseMoves, CaseArms DEF Drives
<1>5. CASE Softstart
  <2>1. State_Current = "Softstart" /\ running' = running
    BY <1>5 DEF Softstart
  <2>2. {"Idle", "Softstart", "Fault"} \subseteq Successors(State_Current)
    BY <2>1 DEF Successors
  <2>3. CASE EndOfTick("Idle", TRUE, dpmuErrorOcurredFlag)
    <3>1. Moves
      BY <2>1, <2>2, <2>3, <1>a, TailMoves
    <3>2. DPMUInitializedFlag'
      BY <2>1, <2>3, <1>a, EndOfTickLeads DEF Deinitialises
    <3> QED BY <2>1, <3>1, <3>2 DEF Drives, Arms
  <2>4. CASE Proceed(State_Next)
    <3>1. State_Next \in {"Softstart", "Fault"}
      BY <2>1, <1>a
    <3>2. Moves
      BY <2>1, <2>2, <2>4, <3>1, CaseMoves
    <3>3. /\ State_Current' \in {State_Next} \cup Diverted("Softstart", DPMUInitializedFlag)
          /\ DPMUInitializedFlag' = DPMUInitializedFlag
      BY <2>1, <2>4, <3>1, ProceedLeads DEF Deinitialises
    <3>4. State_Current' \in {"Idle", "StopEPWMs"} => DPMUInitializedFlag
      BY <3>1, <3>3, <1>a DEF Diverted
    <3> QED BY <2>1, <3>2, <3>3, <3>4 DEF Drives, Arms
  <2> QED BY <1>5, <2>3, <2>4 DEF Softstart
<1>6. CASE TrickleChargeInit
  <2>1. State_Current = "TrickleChargeInit" /\ running' \subseteq running \cup {"DCDC"}
    BY <1>6 DEF TrickleChargeInit
  <2>2. PICK n \in {State_Next, "ChargeInit", "TrickleChargeDelay"} : Proceed(n)
    BY <1>6 DEF TrickleChargeInit
  <2>3. n \in Successors(State_Current)
    BY <2>1, <2>2, <1>a DEF Successors
  <2> QED BY <2>1, <2>2, <2>3, CaseMoves, CaseArms DEF Drives
<1>7. CASE TrickleChargeDelay
  <2>1. State_Current = "TrickleChargeDelay" /\ running' = running
    BY <1>7 DEF TrickleChargeDelay
  <2>2. PICK n \in {State_Next, "TrickleCharge"} : Proceed(n)
    BY <1>7 DEF TrickleChargeDelay
  <2>3. n \in Successors(State_Current)
    BY <2>1, <2>2, <1>a DEF Successors
  <2> QED BY <2>1, <2>2, <2>3, CaseMoves, CaseArms DEF Drives
<1>8. CASE TrickleCharge
  <2>1. State_Current = "TrickleCharge" /\ running' \subseteq running
    BY <1>8 DEF TrickleCharge
  <2>2. PICK n \in {State_Next, "StopEPWMs", "ChargeInit"} : Proceed(n)
    BY <1>8 DEF TrickleCharge
  <2>3. n \in Successors(State_Current)
    BY <2>1, <2>2, <1>a DEF Successors
  <2> QED BY <2>1, <2>2, <2>3, CaseMoves, CaseArms DEF Drives
<1>9. CASE ChargeInit
  <2>1. State_Current = "ChargeInit" /\ running' = running
    BY <1>9 DEF ChargeInit
  <2>2. PICK n \in {State_Next, "ChargeRamp"} : Proceed(n)
    BY <1>9 DEF ChargeInit
  <2>3. n \in Successors(State_Current)
    BY <2>1, <2>2, <1>a DEF Successors
  <2> QED BY <2>1, <2>2, <2>3, CaseMoves, CaseArms DEF Drives
<1>10. CASE ChargeRamp
  <2>1. State_Current = "ChargeRamp" /\ running' \subseteq running \cup {"DCDC"}
    BY <1>10 DEF ChargeRamp
  <2>2. PICK n \in {State_Next, "Charge"} : Proceed(n)
    BY <1>10 DEF ChargeRamp
  <2>3. n \in Successors(State_Current)
    BY <2>1, <2>2, <1>a DEF Successors
  <2> QED BY <2>1, <2>2, <2>3, CaseMoves, CaseArms DEF Drives
<1>11. CASE Charge
  <2>1. State_Current = "Charge" /\ running' = running
    BY <1>11 DEF Charge
  <2>2. PICK n \in {State_Next, "BalancingInit", "ChargeStop"} : Proceed(n)
    BY <1>11 DEF Charge
  <2>3. n \in Successors(State_Current)
    BY <2>1, <2>2, <1>a DEF Successors
  <2> QED BY <2>1, <2>2, <2>3, CaseMoves, CaseArms DEF Drives
<1>12. CASE ChargeStop
  <2>1. State_Current = "ChargeStop" /\ running' = running
    BY <1>12 DEF ChargeStop, WaitForLowCurrent
  <2>2. PICK n \in {State_Next, "StopEPWMs"} : Proceed(n)
    BY <1>12 DEF ChargeStop, WaitForLowCurrent
  <2>3. n \in Successors(State_Current)
    BY <2>1, <2>2, <1>a DEF Successors
  <2> QED BY <2>1, <2>2, <2>3, CaseMoves, CaseArms DEF Drives
<1>13. CASE RegulateStop
  <2>1. State_Current = "RegulateStop" /\ running' = running
    BY <1>13 DEF RegulateStop, WaitForLowCurrent
  <2>2. PICK n \in {State_Next, "StopEPWMs"} : Proceed(n)
    BY <1>13 DEF RegulateStop, WaitForLowCurrent
  <2>3. n \in Successors(State_Current)
    BY <2>1, <2>2, <1>a DEF Successors
  <2> QED BY <2>1, <2>2, <2>3, CaseMoves, CaseArms DEF Drives
<1>14. CASE BalancingInit
  <2>1. State_Current = "BalancingInit" /\ running' \subseteq running
    BY <1>14 DEF BalancingInit
  <2>2. PICK n \in {State_Next, "Balancing"} :
          Proceed(n) /\ (n = "Balancing" => "DCDC" \notin running')
    BY <1>14, <2>1, <1>a DEF BalancingInit
  <2>3. n \in Successors(State_Current) /\ n \in {"BalancingInit", "Balancing", "Fault"}
    BY <2>1, <2>2, <1>a DEF Successors
  <2>4. Moves /\ Arms
    BY <2>1, <2>2, <2>3, CaseMoves, CaseArms
  <2>5. State_Current' = "Balancing" => n = "Balancing"
    BY <2>1, <2>2, <2>3, ProceedLeads DEF Diverted, IdleTarget
  <2> QED BY <2>1, <2>2, <2>4, <2>5 DEF Drives
<1>15. CASE Balancing
  <2>1. State_Current = "Balancing" /\ running' \subseteq running \cup {"CLLC"}
    BY <1>15 DEF Balancing
  <2>2. PICK n \in {State_Next, "ChargeInit"} :
          Proceed(n) /\ (n = "ChargeInit" => "CLLC" \notin running')
    BY <1>15, <2>1, <1>a DEF Balancing
  <2>3. n \in Successors(State_Current) /\ n \in {"Balancing", "ChargeInit", "Fault"}
    BY <2>1, <2>2, <1>a DEF Successors
  <2>4. Moves /\ Arms
    BY <2>1, <2>2, <2>3, CaseMoves, CaseArms
  <2>5. State_Current' = "ChargeInit" => n = "ChargeInit"
    BY <2>1, <2>2, <2>3, ProceedLeads DEF Diverted, IdleTarget
  <2> QED BY <2>1, <2>2, <2>4, <2>5 DEF Drives
<1>16. CASE BalancingStop
  <2>1. State_Current = "BalancingStop" /\ running' = running
    BY <1>16 DEF BalancingStop
  <2>2. PICK n \in {State_Next, "StopEPWMs"} : Proceed(n)
    BY <1>16 DEF BalancingStop
  <2>3. n \in Successors(State_Current)
    BY <2>1, <2>2, <1>a DEF Successors
  <2> QED BY <2>1, <2>2, <2>3, CaseMoves, CaseArms DEF Drives
<1>17. CASE RegulateInit
  <2>1. State_Current = "RegulateInit" /\ running' \subseteq running
    BY <1>17 DEF RegulateInit
  <2>2. PICK n \in {State_Next, "Regulate"} : Proceed(n)
    BY <1>17 DEF RegulateInit
  <2>3. n \in Successors(State_Current)
    BY <2>1, <2>2, <1>a DEF Successors
  <2> QED BY <2>1, <2>2, <2>3, CaseMoves, CaseArms DEF Drives
<1>18. CASE Regulate
  <2>1. State_Current = "Regulate" /\ running' \subseteq running \cup {"DCDC"}
    BY <1>18 DEF Regulate, EnableOrDisblePWM
  <2>2. PICK n \in {State_Next, "RegulateStop", "RegulateVoltageInit"} : Proceed(n)
    BY <1>18 DEF Regulate, EnableOrDisblePWM
  <2>3. n \in Successors(State_Current)
    BY <2>1, <2>2, <1>a DEF Successors
  <2> QED BY <2>1, <2>2, <2>3, CaseMoves, CaseArms DEF Drives
<1>19. CASE RegulateVoltageInit
  <2>1. State_Current = "RegulateVoltageInit" /\ running' \subseteq running \cup {"DCDC"}
    BY <1>19 DEF RegulateVoltageInit
  <2>2. PICK n \in {State_Next, "RegulateVoltage"} : Proceed(n)
    BY <1>19 DEF RegulateVoltageInit
  <2>3. n \in Successors(State_Current)
    BY <2>1, <2>2, <1>a DEF Successors
  <2> QED BY <2>1, <2>2, <2>3, CaseMoves, CaseArms DEF Drives
<1>20. CASE RegulateVoltage
  <2>1. State_Current = "RegulateVoltage" /\ running' = running
    BY <1>20 DEF RegulateVoltage
  <2>2. PICK n \in {State_Next, "RegulateVoltageStop"} : Proceed(n)
    BY <1>20 DEF RegulateVoltage
  <2>3. n \in Successors(State_Current)
    BY <2>1, <2>2, <1>a DEF Successors
  <2> QED BY <2>1, <2>2, <2>3, CaseMoves, CaseArms DEF Drives
<1>21. CASE RegulateVoltageStop
  <2>1. State_Current = "RegulateVoltageStop" /\ running' = running
    BY <1>21 DEF RegulateVoltageStop
  <2>2. PICK e \in BOOLEAN : EndOfTick("StopEPWMs", FALSE, e)
    BY <1>21, <1>a DEF RegulateVoltageStop
  <2>3. "StopEPWMs" \in Successors(State_Current) /\ "StopEPWMs" \in States
    BY <2>1 DEF Successors
  <2>4. Moves
    BY <2>2, <2>3, TailMoves
  <2>5. DPMUInitializedFlag' = FALSE
    BY <2>2, <2>3, EndOfTickLeads
  <2> QED BY <2>1, <2>4, <2>5 DEF Drives, Arms
<1>22. CASE Fault
  <2>1. State_Current = "Fault" /\ running' = {}
    BY <1>22 DEF Fault, StopAllEPWMs
  <2>2. PICK e \in BOOLEAN : EndOfTick("PreInitialized", FALSE, e)
    BY <1>22, <1>a DEF Fault
  <2>3. "PreInitialized" \in Successors(State_Current) /\ "PreInitialized" \in States
    BY <2>1 DEF Successors
  <2>4. Moves
    BY <2>2, <2>3, TailMoves
  <2>5. DPMUInitializedFlag' = FALSE
    BY <2>2, <2>3, EndOfTickLeads
  <2> QED BY <2>1, <2>4, <2>5 DEF Drives, Arms
<1>23. CASE StopEPWMs
  <2>1. State_Current = "StopEPWMs" /\ running' = {}
    BY <1>23 DEF StopEPWMs, StopAllEPWMs
  <2>2. PICK n \in {State_Next, "Idle"} : Proceed(n)
    BY <1>23 DEF StopEPWMs, StopAllEPWMs
  <2>3. n \in Successors(State_Current)
    BY <2>1, <2>2, <1>a DEF Successors
  <2> QED BY <2>1, <2>2, <2>3, CaseMoves, CaseArms DEF Drives
<1>24. CASE Idle
  <2>1. State_Current = "Idle" /\ running' = running
    BY <1>24 DEF Idle
  <2>2. PICK n \in {State_Next} : Proceed(n)
    BY <1>24 DEF Idle
  <2>3. n \in Successors(State_Current)
    BY <2>1, <2>2, <1>a DEF Successors
  <2> QED BY <2>1, <2>2, <2>3, CaseMoves, CaseArms DEF Drives
<1> QED
  BY <1>1, <1>2, <1>3, <1>4, <1>5, <1>6, <1>7, <1>8, <1>9, <1>10, <1>11, <1>12,
     <1>13, <1>14, <1>15, <1>16, <1>17, <1>18, <1>19, <1>20, <1>21, <1>22, <1>23, <1>24 DEF Tick

\* Between two ticks nothing starts a converter, moves the state or touches
\* the initialised flag; a trip may put Fault into State_Next.
Quiet ==
  /\ UNCHANGED <<State_Before, State_Current, DPMUInitializedFlag>>
  /\ State_Next' \in {State_Next, "Fault"}
  /\ running' \subseteq running

LEMMA OthersAreQuiet == MainLoop \/ Cpu1 \/ InputTripInterrupt \/ UNCHANGED vars => Quiet
<1> SUFFICES ASSUME MainLoop \/ Cpu1 \/ InputTripInterrupt \/ UNCHANGED vars
             PROVE  Quiet
  OBVIOUS
<1> USE DEF Quiet, stateVector, flags, hardware
<1>1. CASE Cpu1
  BY <1>1 DEF Cpu1, IOPRequest, EmergencyShutDown, PowerSourceType
<1>2. CASE AcceptSwitchCommand \/ SwitchCommand \/ VerifyDPMUSwitchesOK
  BY <1>2 DEF AcceptSwitchCommand, SwitchCommand, VerifyDPMUSwitchesOK
<1>3. CASE EfuseVinTrip \/ EfuseBBTrip \/ InputTripInterrupt
  BY <1>3 DEF EfuseVinTrip, EfuseBBTrip, InputTripInterrupt
<1>4. CASE BeginProtection \/ EndProtection
  BY <1>4 DEF BeginProtection, EndProtection
<1>5. CASE \/ OverVoltageDetected \/ OverVoltagePersists \/ UnderVoltagePersists
           \/ ShortCircuit \/ StopMainStateMachine
  <2>1. PICK o \in SUBSET Switches, stopped \in BOOLEAN, e \in BOOLEAN : Protect(o, stopped, e)
    BY <1>5 DEF OverVoltageDetected, OverVoltagePersists, UnderVoltagePersists,
                ShortCircuit, StopMainStateMachine, Switches
  <2> QED BY <2>1 DEF Protect, StopAllEPWMs
<1>6. CASE UNCHANGED vars
  BY <1>6 DEF vars
<1> QED BY <1>1, <1>2, <1>3, <1>4, <1>5, <1>6 DEF MainLoop

-----------------------------------------------------------------------------
(* The converters.                                                          *)

LEMMA DisciplineInit == Init => ConverterDiscipline
BY DEF Init, ConverterDiscipline, ConvertersStoppedWhenDown, NoCrossConduction, Converters

LEMMA DisciplineTick == TypeOK /\ ConverterDiscipline /\ Tick => ConverterDiscipline'
<1> SUFFICES ASSUME TypeOK, ConverterDiscipline, Tick
             PROVE  ConverterDiscipline'
  OBVIOUS
<1>1. Moves /\ Drives /\ Arms
  BY TickMoves
<1>2. State_Current \in States /\ running \subseteq Converters
  BY DEF TypeOK
<1>3. State_Next' \in {State_Current', "Fault"}
  BY <1>1 DEF Moves
<1>4. State_Current' = "Initialize" => State_Before' \in {"PreInitialized", "Initialize"}
  BY <1>1, <1>2 DEF Moves, Successors
<1>5. State_Current' \in {"PreInitialized"} \cup (Starting \ {"Softstart"})
        => ~DPMUInitializedFlag'
  <2>1. State_Current' \in {"PreInitialized"} \cup (Starting \ {"Softstart"})
          => State_Current \in {"PreInitialized", "Fault"} \cup (Starting \ {"Softstart"})
    BY <1>1, <1>2 DEF Moves, Successors
  <2> QED BY <1>1, <2>1 DEF Arms, ConverterDiscipline
<1>6. "CLLC" \in running'
        => State_Current' \in {"Balancing", "BalancingStop", "StopEPWMs", "Fault"}
  <2>1. "CLLC" \in running'
          => State_Current \in {"Balancing", "BalancingStop"}
    BY <1>1 DEF Drives, ConverterDiscipline
  <2>2. State_Current \in {"Balancing", "BalancingStop"} /\ State_Current' # "ChargeInit"
          => State_Current' \in {"Balancing", "BalancingStop", "StopEPWMs", "Fault"}
    BY <1>1 DEF Moves, Successors
  <2>3. "CLLC" \in running' => State_Current' # "ChargeInit"
    BY <1>1, <2>1 DEF Moves, Successors, Drives
  <2> QED BY <2>1, <2>2, <2>3
<1>7. State_Current' = "Balancing" => "DCDC" \notin running'
  <2>1. State_Current' = "Balancing" => State_Current \in {"BalancingInit", "Balancing"}
    BY <1>1, <1>2 DEF Moves, Successors
  <2> QED BY <1>1, <2>1 DEF Drives, ConverterDiscipline
<1>8. ConvertersStoppedWhenDown'
  <2>1. State_Current' \in Starting \cup {"PreInitialized", "Idle"}
          => State_Current \in Starting \cup {"PreInitialized", "Idle", "Fault", "StopEPWMs"}
    BY <1>1, <1>2 DEF Moves, Successors
  <2> QED BY <1>1, <2>1 DEF Drives, ConverterDiscipline, ConvertersStoppedWhenDown
<1>9. NoCrossConduction'
  BY <1>1, <1>2 DEF Drives, ConverterDiscipline, NoCrossConduction, Converters
<1> QED BY <1>3, <1>4, <1>5, <1>6, <1>7, <1>8, <1>9 DEF ConverterDiscipline

LEMMA DisciplineStep == TypeOK /\ ConverterDiscipline /\ [Next]_vars => ConverterDiscipline'
<1> SUFFICES ASSUME TypeOK, ConverterDiscipline, [Next]_vars
             PROVE  ConverterDiscipline'
  OBVIOUS
<1>1. CASE Tick
  BY <1>1, DisciplineTick
<1>2. CASE ~Tick
  <2>1. Quiet
    BY <1>2, OthersAreQuiet DEF Next
  <2> QED BY <2>1 DEF Quiet, ConverterDiscipline, ConvertersStoppedWhenDown,
                      NoCrossConduction, Converters
<1> QED BY <1>1, <1>2

\* The discipline the converters are driven under, for any requests, power
\* source types and inrush parameters.
THEOREM Discipline == Spec => []ConverterDiscipline
<1>1. TypeOK /\ ConverterDiscipline /\ [Next]_vars => (TypeOK /\ ConverterDiscipline)'
  BY TypeStep, DisciplineStep
<1> QED BY TypeInit, DisciplineInit, <1>1, PTL DEF Spec

\* The DC/DC converter and the CLLC never drive power at the same time.
THEOREM NoCrossConductionHolds == Spec => []NoCrossConduction
<1>1. ConverterDiscipline => NoCrossConduction
  BY DEF ConverterDiscipline
<1> QED BY Discipline, <1>1, PTL

\* No converter runs while the DPMU is down, starting or idle.
THEOREM StoppedWhenDown == Spec => []ConvertersStoppedWhenDown
<1>1. ConverterDiscipline => ConvertersStoppedWhenDown
  BY DEF ConverterDiscipline
<1> QED BY Discipline, <1>1, PTL

\* Every step follows an edge of the transition graph; in particular a DPMU
\* that has lost its initialised flag leaves Idle only for Fault.
THEOREM GraphFollowed == Spec => FollowsGraph
<1>1. TypeOK /\ ConverterDiscipline /\ [Next]_vars
        => [State_Current' \in Successors(State_Current)]_vars
  <2> SUFFICES ASSUME TypeOK, ConverterDiscipline, Next
               PROVE  State_Current' \in Successors(State_Current)
    OBVIOUS
  <2>1. CASE Tick
    BY <2>1, TickMoves DEF Moves
  <2>2. CASE ~Tick
    <3>1. State_Current' = State_Current
      BY <2>2, OthersAreQuiet DEF Next, Quiet
    <3> QED BY <3>1, SelfSuccessor DEF TypeOK
  <2> QED BY <2>1, <2>2
<1> QED BY TypeCorrect, Discipline, <1>1, PTL DEF Spec, FollowsGraph

-----------------------------------------------------------------------------
(* The controller implements DpmuModes.                                     *)

LEMMA ModesInit == Init => DPMU!Init
<1>1. Init => Mode(State_Current) = "down"
  BY DEF Init, Mode, Active
<1>2. Init => Power = "off"
  BY DEF Init, Power
<1> QED BY <1>1, <1>2 DEF Init, DPMU!Init

\* What a change of the running converters is as a change of the power.
LEMMA PowerFalls ==
  ASSUME running \subseteq Converters, NoCrossConduction, running' \subseteq running
  PROVE  Power' \in {Power, "off"}
BY DEF Power, NoCrossConduction, Converters

LEMMA PowerDrives ==
  ASSUME running \subseteq Converters, running' \subseteq Converters,
         NEW c \in Converters, running \subseteq {c}, running' \subseteq running \cup {c}
  PROVE  Power' \in {"off", c} /\ Power \in {"off", c}
BY DEF Power, Converters

LEMMA ModesTick ==
  ASSUME TypeOK, ConverterDiscipline, TypeOK', Tick
  PROVE  [DPMU!Next]_(DPMU!vars)
<1>1. Moves /\ Drives /\ Arms
  BY TickMoves
<1>2. /\ State_Current \in States /\ State_Current' \in Successors(State_Current)
      /\ running \subseteq Converters /\ running' \subseteq Converters
      /\ DPMUInitializedFlag \in BOOLEAN /\ DPMUInitializedFlag' \in BOOLEAN
      /\ NoCrossConduction
  BY <1>1 DEF Moves, TypeOK, ConverterDiscipline
<1>3. DPMUInitializedFlag' => DPMUInitializedFlag \/ State_Current = "Softstart"
  BY <1>1 DEF Arms
<1>4. CASE State_Current = "PreInitialized"
  <2>1. running = {} /\ running' = {} /\ ~DPMUInitializedFlag /\ ~DPMUInitializedFlag'
    BY <1>1, <1>3, <1>4 DEF Drives, ConverterDiscipline, ConvertersStoppedWhenDown
  <2>2. Mode(State_Current) = "down" /\ Mode(State_Current') \in {"down", "starting", "fault"}
    BY <1>2, <1>4 DEF Mode, Successors, Active
  <2>3. Power = "off" /\ Power' = "off"
    BY <2>1 DEF Power
  <2> QED BY <1>2, <2>1, <2>2, <2>3 DEF DPMU!vars, DPMU!Next, DPMU!Down, DPMU!Off
<1>5. CASE State_Current \in Starting
  <2>1. running = {} /\ running' = {}
    BY <1>1, <1>5 DEF Drives, ConverterDiscipline, ConvertersStoppedWhenDown
  <2>2. /\ Mode(State_Current) = "starting"
        /\ Mode(State_Current') \in {"starting", "down", "ready", "stopping", "fault"}
    BY <1>2, <1>5 DEF Mode, Successors, Active
  <2>3. DPMUInitializedFlag => DPMUInitializedFlag'
    BY <1>1, <1>5 DEF Arms, ConverterDiscipline
  <2>4. Mode(State_Current') = "down" => ~DPMUInitializedFlag'
    BY <1>1, <1>2, <1>3, <1>5 DEF Mode, Successors, Active, ConverterDiscipline
  <2>5. Mode(State_Current') \in {"ready", "stopping"} => DPMUInitializedFlag'
    BY <1>1, <1>2, <1>5 DEF Arms, Mode, Successors, Active
  <2>6. Power = "off" /\ Power' = "off"
    BY <2>1 DEF Power
  <2> QED BY <2>2, <2>3, <2>4, <2>5, <2>6 DEF DPMU!Next, DPMU!Starting, DPMU!Off
<1>6. CASE State_Current = "Idle"
  <2>1. running = {} /\ running' = {}
    BY <1>1, <1>6 DEF Drives, ConverterDiscipline, ConvertersStoppedWhenDown
  <2>2. Mode(State_Current) = "ready" /\ Mode(State_Current') \in {"ready", "working", "fault"}
    BY <1>2, <1>6 DEF Mode, Successors, Active
  <2>3. Mode(State_Current') = "working" => DPMUInitializedFlag
    BY <1>2, <1>6 DEF Mode, Successors, Active
  <2>4. Power = "off" /\ Power' = "off"
    BY <2>1 DEF Power
  <2> QED BY <1>2, <1>3, <1>6, <2>2, <2>3, <2>4 DEF DPMU!Next, DPMU!Ready, DPMU!Off, DPMU!Disarm
<1>7. CASE State_Current \in Active
  <2>1. Mode(State_Current) = "working"
    BY <1>7 DEF Mode, Active
  <2>2. Mode(State_Current') \in {"working", "stopping", "fault"}
    <3>1. State_Current' \in Active \cup Stopping \cup {"Fault"}
      BY <1>2, <1>7 DEF Active, Successors
    <3> QED BY <3>1 DEF Mode, Active
  <2>3. Power \in DPMU!Powers /\ Power' \in DPMU!Powers
    BY DEF Power, DPMU!Powers
  <2>4. Power' # Power => "off" \in {Power, Power'}
    <3>1. CASE State_Current \in {"TrickleChargeInit", "ChargeRamp", "Regulate",
                                  "RegulateVoltageInit"}
      <4>1. running \subseteq {"DCDC"} /\ running' \subseteq running \cup {"DCDC"}
        BY <1>1, <1>2, <3>1 DEF Drives, ConverterDiscipline, Converters
      <4> QED BY <1>2, <4>1, PowerDrives DEF Converters
    <3>2. CASE State_Current = "Balancing"
      <4>1. running \subseteq {"CLLC"} /\ running' \subseteq running \cup {"CLLC"}
        BY <1>1, <1>2, <3>2 DEF Drives, ConverterDiscipline, Converters
      <4> QED BY <1>2, <4>1, PowerDrives DEF Converters
    <3>3. CASE State_Current \notin {"TrickleChargeInit", "ChargeRamp", "Regulate",
                                     "RegulateVoltageInit", "Balancing"}
      <4>1. running' \subseteq running
        BY <1>1, <3>3 DEF Drives
      <4> QED BY <1>2, <4>1, PowerFalls
    <3> QED BY <3>1, <3>2, <3>3
  <2>5. State_Current # "Softstart"
    BY <1>7 DEF Active
  <2> QED BY <1>2, <1>3, <2>1, <2>2, <2>3, <2>4, <2>5
          DEF DPMU!Next, DPMU!Working, DPMU!Drive, DPMU!Disarm
<1>8. CASE State_Current \in Stopping
  <2>1. Mode(State_Current) = "stopping" /\ Mode(State_Current') \in {"stopping", "ready", "fault"}
    BY <1>2, <1>8 DEF Mode, Successors, Active
  <2>2. Power' \in {Power, "off"}
    BY <1>1, <1>2, <1>8, PowerFalls DEF Drives
  <2>3. Mode(State_Current') = "ready" => Power' = "off"
    <3>1. Mode(State_Current') = "ready" => State_Current = "StopEPWMs"
      BY <1>2, <1>8 DEF Mode, Successors, Active
    <3> QED BY <1>1, <3>1 DEF Drives, Power
  <2>4. State_Current # "Softstart"
    BY <1>8
  <2> QED BY <1>2, <1>3, <2>1, <2>2, <2>3, <2>4
          DEF DPMU!Next, DPMU!Stopping, DPMU!Drop, DPMU!Disarm
<1>9. CASE State_Current = "Fault"
  <2>1. Mode(State_Current) = "fault" /\ Mode(State_Current') \in {"fault", "down"}
    BY <1>2, <1>9 DEF Mode, Successors, Active
  <2>2. running' = {} /\ ~DPMUInitializedFlag'
    BY <1>1, <1>9 DEF Drives, Arms
  <2>3. Power' = "off"
    BY <2>2 DEF Power
  <2> QED BY <2>1, <2>2, <2>3 DEF DPMU!Next, DPMU!Fault
<1> QED BY <1>2, <1>4, <1>5, <1>6, <1>7, <1>8, <1>9 DEF Active

LEMMA ModesStep ==
  ASSUME TypeOK, ConverterDiscipline, TypeOK', [Next]_vars
  PROVE  [DPMU!Next]_(DPMU!vars)
<1>1. CASE Tick
  BY <1>1, ModesTick
<1>2. CASE ~Tick
  <2>1. Quiet
    BY <1>2, OthersAreQuiet DEF Next
  <2>2. Power' \in {Power, "off"}
    BY <2>1, PowerFalls DEF Quiet, TypeOK, ConverterDiscipline
  <2>3. Mode(State_Current)' = Mode(State_Current) /\ DPMUInitializedFlag' = DPMUInitializedFlag
    BY <2>1 DEF Quiet, Mode
  <2> QED BY <2>2, <2>3 DEF DPMU!Next, DPMU!Trip, DPMU!Drop
<1> QED BY <1>1, <1>2

\* The controller, with its interrupts, its super loop and its commands,
\* implements DpmuModes.
THEOREM Implementation == Spec => ImplementsModes
<1>1. TypeOK /\ ConverterDiscipline /\ TypeOK' /\ [Next]_vars => [DPMU!Next]_(DPMU!vars)
  BY ModesStep
<1> QED BY ModesInit, TypeCorrect, Discipline, <1>1, PTL DEF Spec, ImplementsModes, DPMU!Spec
=============================================================================
