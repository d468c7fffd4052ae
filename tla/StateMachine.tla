--------------------------- MODULE StateMachine ---------------------------
(***************************************************************************)
(* The main state machine of CPU2 (dpmu_cpu2/app/src/state_machine.c) with  *)
(* everything that shares state with it: the ADC interrupt that runs one    *)
(* tick, the super loop of main.c that runs between two ticks, the trip     *)
(* interrupts, and CPU1, which raises the IPC flags a tick consumes.        *)
(*                                                                          *)
(* A tick is one action per case of the switch of StateMachine().  The case *)
(* computes the local value of State_Next; the tail every case shares       *)
(* (command, safe state, error, commit) is EndOfTick.                       *)
(*                                                                          *)
(* Voltages, currents and cell readings only steer branches: each branch    *)
(* condition on them is a nondeterministic choice.                          *)
(*                                                                          *)
(* The definitions introduced by "Slip" are variants with one plausible     *)
(* mistake; the specification does not use them.                            *)
(***************************************************************************)
EXTENDS Naturals, FiniteSets

CONSTANTS Requests,     \* states the IOP asks for over CAN
          DELAY,        \* DELAY_50_SM_CYCLES, ticks of TrickleChargeDelay
          CounterMod,   \* 2^16: PrestateCounter is a 16 bit integer
          INRUSH_DELAY, \* DELAY_100_SM_CYCLES, ticks between two duty steps
          MaxDuty,      \* duty steps of the inrush PWM up to its limit
          SAMPLES,      \* NUMBER_OF_CURRENT_SAMPLES, ticks between two boost references
          PowerSourceTypes, \* values the IOP gives dpmu_default_flag
          Emergencies   \* {TRUE} if flag 2 is ever raised, {} if it is not

NoRequest == "none"

Charging == {"TrickleChargeInit", "TrickleChargeDelay", "TrickleCharge",
             "ChargeInit", "ChargeRamp", "Charge"}
Regulating == {"RegulateInit", "Regulate"}
VoltageRegulating == {"RegulateVoltageInit", "RegulateVoltage"}
BalancingStates == {"BalancingInit", "Balancing"}
Starting == {"Initialize", "SoftstartInitDefault", "SoftstartInitRedundant",
             "Softstart"}
Stopping == {"ChargeStop", "RegulateStop", "RegulateVoltageStop",
             "BalancingStop", "StopEPWMs"}
States == Charging \cup Regulating \cup VoltageRegulating \cup BalancingStates
            \cup Starting \cup Stopping \cup {"PreInitialized", "Idle", "Fault"}

Switches == {"Qlb", "Qsb", "Qinb"}
Converters == {"DCDC", "CLLC"}

ASSUME RequestsAssumption == NoRequest \notin Requests
ASSUME DelayAssumption == DELAY \in Nat \ {0} /\ CounterMod \in Nat /\ DELAY < CounterMod
ASSUME SamplesAssumption == SAMPLES \in Nat
ASSUME InrushAssumption == INRUSH_DELAY \in Nat /\ MaxDuty \in Nat \ {0}
ASSUME EnvironmentAssumption ==
  PowerSourceTypes \subseteq BOOLEAN /\ Emergencies \subseteq {TRUE}

VARIABLES
  State_Before, State_Current, State_Next,   \* StateVector
  DPMUInitializedFlag, DPMUSwitchesStatesOK,
  closed,          \* the switches whose gate is driven on
  running,         \* the converters whose one-shot trip is cleared
  inrush,          \* inrush limiter: PWM enabled, duty, ticks since last step
  PrestateCounter,
  dpmuErrorOcurredFlag, test_update_of_error_codes,
  statics,         \* function-local statics of the tick that survive it
  iopRequest,      \* IPC flag 10 with iop_operation_request_state
  emergency,       \* IPC flag 2
  dpmu_default_flag,
  mainLoop         \* where the super loop stands when it can be preempted

stateVector == <<State_Before, State_Current, State_Next>>
hardware == <<closed, running, inrush>>
errors == <<dpmuErrorOcurredFlag, test_update_of_error_codes>>
flags == <<DPMUInitializedFlag, DPMUSwitchesStatesOK>>
cpu1 == <<iopRequest, emergency, dpmu_default_flag>>
vars == <<stateVector, flags, hardware, PrestateCounter, errors, statics,
          cpu1, mainLoop>>

InrushLimiter == [on : BOOLEAN, duty : 0 .. MaxDuty, count : 0 .. INRUSH_DELAY + 1]
TickStatics == [calibrationComplete : BOOLEAN, EPMWStarted : BOOLEAN,
                PWMDCDC : {"unknown", "started", "stopped"},
                samples : 0 .. SAMPLES,   \* currentSampleCount
                demand : BOOLEAN]         \* I_Ref_Real > 0.01, as the regulation has set it

TypeOK ==
  /\ State_Before \in States
  /\ State_Current \in States
  /\ State_Next \in States
  /\ DPMUInitializedFlag \in BOOLEAN
  /\ DPMUSwitchesStatesOK \in BOOLEAN
  /\ closed \subseteq Switches
  /\ running \subseteq Converters
  /\ inrush \in InrushLimiter
  /\ PrestateCounter \in 0 .. CounterMod - 1
  /\ dpmuErrorOcurredFlag \in BOOLEAN
  /\ test_update_of_error_codes \in BOOLEAN
  /\ statics \in TickStatics
  /\ iopRequest \in Requests \cup {NoRequest}
  /\ emergency \in BOOLEAN
  /\ dpmu_default_flag \in BOOLEAN
  /\ mainLoop \in {"idle", "switching", "protecting"}

Init ==
  /\ State_Before = "PreInitialized"
  /\ State_Current = "PreInitialized"
  /\ State_Next = "PreInitialized"
  /\ DPMUInitializedFlag = FALSE
  /\ DPMUSwitchesStatesOK = FALSE
  /\ closed = {}
  /\ running = {}
  /\ inrush = [on |-> FALSE, duty |-> 0, count |-> 0]
  /\ PrestateCounter = 0
  /\ dpmuErrorOcurredFlag = FALSE
  /\ test_update_of_error_codes = FALSE
  /\ statics = [calibrationComplete |-> FALSE, EPMWStarted |-> FALSE,
                PWMDCDC |-> "unknown", samples |-> 0, demand |-> FALSE]
  /\ iopRequest = NoRequest
  /\ emergency = FALSE
  /\ dpmu_default_flag \in PowerSourceTypes
  /\ mainLoop = "idle"

-----------------------------------------------------------------------------
(* The tail of a tick.                                                      *)

\* Where a request for Idle leads from state s.
IdleTarget(s) ==
  CASE s \in {"PreInitialized", "Initialize", "Idle"} -> s
    [] s \in Regulating -> "RegulateStop"
    [] s \in VoltageRegulating -> "RegulateVoltageStop"
    [] s \in Charging \ {"ChargeRamp"} -> "ChargeStop"
    [] s \in BalancingStates -> "BalancingStop"
    [] OTHER -> "StopEPWMs"

\* State_Next after a tick in state s that found the request r pending: a
\* request not allowed in s replaces the transition of s itself by "stay".
Commanded(s, r, initialised) ==
  CASE r = "Fault" -> "Fault"
    [] r = "Initialize" /\ ~initialised /\ s = "PreInitialized" -> "Initialize"
    [] r = "Idle" /\ initialised -> IdleTarget(s)
    [] r \in {"TrickleChargeInit", "RegulateInit"} /\ initialised /\ s = "Idle" -> r
    [] OTHER -> s

\* The switch pattern the power source type calls for.
SwitchesOK(c) == c = IF dpmu_default_flag THEN Switches ELSE Switches \ {"Qlb"}

\* Slip: ChargeRamp is forgotten, as it is in IdleTarget.
SafeStateNoRamp(s, n) ==
  CASE s \in Charging \ {"ChargeRamp"} -> "ChargeStop"
    [] s \in Regulating -> "RegulateStop"
    [] OTHER -> n

\* The reaction to a wrong switch pattern in state s; n is State_Next so far.
SafeState(s, n) ==
  CASE s \in Charging -> "ChargeStop"
    [] s \in Regulating -> "RegulateStop"
    [] OTHER -> n

\* A wrong pattern in state s takes the DPMU out of its initialised condition.
Deinitialises(s) == s \in Charging \cup Regulating \cup {"Idle"}

\* CheckCommandFromIOP: a Fault request returns before flag 2 is looked at and
\* before the switches are verified again.
AfterCommand(n, initialised) ==
  IF iopRequest = NoRequest THEN n ELSE Commanded(State_Current, iopRequest, initialised)

AfterEmergency(n, initialised) ==
  IF emergency /\ iopRequest # "Fault" THEN "Fault" ELSE AfterCommand(n, initialised)

VerifiedSwitches(c) ==
  IF iopRequest = "Fault" THEN DPMUSwitchesStatesOK ELSE SwitchesOK(c)

EndOfTick(n, initialised, error) ==
  LET ok == VerifiedSwitches(closed')
      commanded == AfterEmergency(n, initialised)
      safe == IF ok THEN commanded ELSE SafeState(State_Current, commanded)
      final == IF error THEN "Fault" ELSE safe
  IN /\ State_Before' = State_Current
     /\ State_Current' = final
     /\ State_Next' = final
     /\ DPMUInitializedFlag' = (initialised /\ (ok \/ ~Deinitialises(State_Current)))
     /\ DPMUSwitchesStatesOK' = ok
     /\ iopRequest' = NoRequest
     /\ emergency' = (emergency /\ iopRequest = "Fault")
     /\ UNCHANGED <<dpmu_default_flag, mainLoop>>

\* A tick that leaves the initialised flag and the error flags alone.
Proceed(n) ==
  /\ EndOfTick(n, DPMUInitializedFlag, dpmuErrorOcurredFlag)
  /\ UNCHANGED errors

In(s) == State_Current = s

-----------------------------------------------------------------------------
(* The cases of StateMachine(), one action each.                            *)

PreInitialized ==
  /\ In("PreInitialized")
  /\ UNCHANGED <<hardware, PrestateCounter, statics>>
  /\ Proceed(State_Next)

\* appInfo stands for DPMUAppInfoInitializedFlag, which CPU1 writes at any
\* time; the calibration takes many ticks the first time and none after it.
Initialize ==
  /\ In("Initialize")
  /\ \E appInfo \in BOOLEAN, calibrated \in {statics.calibrationComplete, TRUE} :
       IF ~DPMUInitializedFlag /\ appInfo
       THEN /\ statics' = [statics EXCEPT !.calibrationComplete = calibrated]
            /\ IF calibrated
               THEN /\ test_update_of_error_codes' = TRUE
                    /\ closed' = {}
                    /\ EndOfTick(IF dpmu_default_flag THEN "SoftstartInitDefault"
                                                      ELSE "SoftstartInitRedundant",
                                 FALSE, dpmuErrorOcurredFlag)
                    /\ UNCHANGED dpmuErrorOcurredFlag
               ELSE /\ UNCHANGED closed
                    /\ Proceed(State_Next)
       ELSE /\ UNCHANGED <<closed, statics>>
            /\ Proceed(State_Before)
  /\ UNCHANGED <<running, inrush, PrestateCounter>>

StartInrush ==
  /\ inrush' = [on |-> TRUE, duty |-> 1, count |-> 0]
  /\ Proceed("Softstart")
  /\ UNCHANGED <<running, PrestateCounter, statics>>

SoftstartInitDefault ==
  /\ In("SoftstartInitDefault")
  /\ closed' = closed \cup {"Qlb", "Qsb"}
  /\ StartInrush

SoftstartInitRedundant ==
  /\ In("SoftstartInitRedundant")
  /\ closed' = (closed \ {"Qlb"}) \cup {"Qsb"}
  /\ StartInrush

\* Slips: the limit is tested on the old duty; it is not tested at all.
DoneWithInrushLate == inrush.count > INRUSH_DELAY /\ inrush.duty > MaxDuty
DoneWithInrushEarly == inrush.count > INRUSH_DELAY

\* DoneWithInrush: the duty grows by one step every INRUSH_DELAY + 2 ticks; the
\* step that would pass the limit is cut to it and ends the ramp.
DoneWithInrush == inrush.count > INRUSH_DELAY /\ inrush.duty + 1 > MaxDuty

InrushStep ==
  IF inrush.count > INRUSH_DELAY
  THEN [inrush EXCEPT !.duty = @ + 1, !.count = 0]
  ELSE [inrush EXCEPT !.count = @ + 1]

\* Slip: the end of the ramp does not set the next state.
SoftstartStays ==
  /\ In("Softstart")
  /\ IF DoneWithInrush
     THEN /\ closed' = closed \cup {"Qinb", "Qsb"}
          /\ inrush' = [on |-> FALSE, duty |-> 0, count |-> 0]
          /\ EndOfTick(State_Next, TRUE, dpmuErrorOcurredFlag)
          /\ UNCHANGED errors
     ELSE /\ inrush' = InrushStep
          /\ UNCHANGED closed
          /\ Proceed(State_Next)
  /\ UNCHANGED <<running, PrestateCounter, statics>>

Softstart ==
  /\ In("Softstart")
  /\ IF DoneWithInrush
     THEN /\ closed' = closed \cup {"Qinb", "Qsb"}
          /\ inrush' = [on |-> FALSE, duty |-> 0, count |-> 0]
          /\ EndOfTick("Idle", TRUE, dpmuErrorOcurredFlag)
          /\ UNCHANGED errors
     ELSE /\ inrush' = InrushStep
          /\ UNCHANGED closed
          /\ Proceed(State_Next)
  /\ UNCHANGED <<running, PrestateCounter, statics>>

\* charged: VStore has reached preconditional_threshold.
TrickleChargeInit ==
  /\ In("TrickleChargeInit")
  /\ \E charged \in BOOLEAN :
       IF charged
       THEN /\ UNCHANGED <<running, PrestateCounter, closed>>
            /\ Proceed("ChargeInit")
       ELSE /\ running' = running \cup {"DCDC"}
            /\ PrestateCounter' = DELAY
            /\ UNCHANGED closed
            /\ Proceed("TrickleChargeDelay")
  /\ UNCHANGED <<inrush, statics>>

\* Slip: the counter stops at 0 and its last tick is recognised by the value 1.
TrickleChargeDelayOnce ==
  /\ In("TrickleChargeDelay")
  /\ PrestateCounter' = IF PrestateCounter = 0 THEN 0 ELSE PrestateCounter - 1
  /\ UNCHANGED <<hardware, statics>>
  /\ Proceed(IF PrestateCounter = 1 THEN "TrickleCharge" ELSE State_Next)

TrickleChargeDelay ==
  /\ In("TrickleChargeDelay")
  /\ PrestateCounter' = (PrestateCounter + CounterMod - 1) % CounterMod
  /\ UNCHANGED <<hardware, statics>>
  /\ Proceed(IF PrestateCounter' = 0 THEN "TrickleCharge" ELSE State_Next)

\* over: a completed reading found a cell above its threshold.
TrickleCharge ==
  /\ In("TrickleCharge")
  /\ \E charged, over \in BOOLEAN :
       /\ running' = IF charged THEN running \ {"DCDC"} ELSE running
       /\ UNCHANGED closed
       /\ Proceed(CASE over -> "StopEPWMs"
                    [] ~over /\ charged -> "ChargeInit"
                    [] OTHER -> State_Next)
  /\ UNCHANGED <<inrush, PrestateCounter, statics>>

ChargeInit ==
  /\ In("ChargeInit")
  /\ statics' = [statics EXCEPT !.EPMWStarted = FALSE]
  /\ UNCHANGED <<hardware, PrestateCounter>>
  /\ Proceed("ChargeRamp")

\* full: the current reference has reached its final value.
ChargeRamp ==
  /\ In("ChargeRamp")
  /\ running' = IF statics.EPMWStarted THEN running ELSE running \cup {"DCDC"}
  /\ statics' = [statics EXCEPT !.EPMWStarted = TRUE]
  /\ UNCHANGED <<closed, inrush, PrestateCounter>>
  /\ \E full \in BOOLEAN : Proceed(IF full THEN "Charge" ELSE State_Next)

\* full: the bank has reached its voltage; over: as in TrickleCharge.
Charge ==
  /\ In("Charge")
  /\ UNCHANGED <<hardware, PrestateCounter, statics>>
  /\ \E full, over \in BOOLEAN :
       Proceed(CASE over -> "BalancingInit"
                 [] ~over /\ full -> "ChargeStop"
                 [] OTHER -> State_Next)

\* low: the bank current has decayed below 0.25 A.
WaitForLowCurrent(s, next) ==
  /\ In(s)
  /\ UNCHANGED <<hardware, PrestateCounter, statics>>
  /\ \E low \in BOOLEAN : Proceed(IF low THEN next ELSE State_Next)

ChargeStop == WaitForLowCurrent("ChargeStop", "StopEPWMs")
RegulateStop == WaitForLowCurrent("RegulateStop", "StopEPWMs")

\* Slip: the DC/DC converter is left running.
BalancingInitDriven ==
  /\ In("BalancingInit")
  /\ UNCHANGED <<hardware, PrestateCounter, statics>>
  /\ \E low \in BOOLEAN : Proceed(IF low THEN "Balancing" ELSE State_Next)

BalancingInit ==
  /\ In("BalancingInit")
  /\ UNCHANGED <<closed, inrush, PrestateCounter, statics>>
  /\ \E low \in BOOLEAN :
       /\ running' = IF low THEN running \ {"DCDC"} ELSE running
       /\ Proceed(IF low THEN "Balancing" ELSE State_Next)

\* Slip: the end of balancing leaves the CLLC running.
BalancingLeavesCllc ==
  /\ In("Balancing")
  /\ UNCHANGED <<closed, inrush, PrestateCounter, statics>>
  /\ \E step \in {"connect", "pause", "done", "other"} :
       /\ running' = CASE step = "connect" -> running \cup {"CLLC"}
                       [] step = "pause" -> running \ {"CLLC"}
                       [] OTHER -> running
       /\ Proceed(IF step = "done" THEN "ChargeInit" ELSE State_Next)

\* One step of BalancingAllCells: it connects a cell and starts the CLLC,
\* stops the CLLC after the discharge time, is done, or does neither.
Balancing ==
  /\ In("Balancing")
  /\ UNCHANGED <<closed, inrush, PrestateCounter, statics>>
  /\ \E step \in {"connect", "pause", "done", "other"} :
       /\ running' = CASE step = "connect" -> running \cup {"CLLC"}
                       [] step \in {"pause", "done"} -> running \ {"CLLC"}
                       [] OTHER -> running
       /\ Proceed(IF step = "done" THEN "ChargeInit" ELSE State_Next)

\* Slip: the next state is not set.
BalancingStopStays ==
  /\ In("BalancingStop")
  /\ UNCHANGED <<hardware, PrestateCounter, statics>>
  /\ Proceed(State_Next)

BalancingStop ==
  /\ In("BalancingStop")
  /\ UNCHANGED <<hardware, PrestateCounter, statics>>
  /\ Proceed("StopEPWMs")

RegulateInit ==
  /\ In("RegulateInit")
  /\ running' = running \ {"DCDC"}
  /\ statics' = [statics EXCEPT !.demand = FALSE]
  /\ UNCHANGED <<closed, inrush, PrestateCounter>>
  /\ Proceed("Regulate")

\* calculate_boost_current keeps the reference until SAMPLES samples are there; their
\* count is not reset when a regulation begins.
BoostDemands == IF statics.samples < SAMPLES THEN {statics.demand} ELSE BOOLEAN
SamplesTaken == IF statics.samples < SAMPLES THEN statics.samples + 1 ELSE 0

\* Slip: a start leaves the flag of the last stop set.
EnableOrDisblePWMStopsOnce(demand) ==
  /\ statics' = [statics EXCEPT !.samples = SamplesTaken, !.demand = demand,
                                !.PWMDCDC = IF demand /\ @ # "stopped" THEN "started" ELSE "stopped"]
  /\ running' = CASE demand /\ statics.PWMDCDC # "started" -> running \cup {"DCDC"}
                  [] ~demand /\ statics.PWMDCDC # "stopped" -> running \ {"DCDC"}
                  [] OTHER -> running

EnableOrDisblePWM(demand) ==
  /\ statics' = [statics EXCEPT !.samples = SamplesTaken, !.demand = demand,
                                !.PWMDCDC = IF demand THEN "started" ELSE "stopped"]
  /\ running' = CASE demand /\ statics.PWMDCDC # "started" -> running \cup {"DCDC"}
                  [] ~demand /\ statics.PWMDCDC # "stopped" -> running \ {"DCDC"}
                  [] OTHER -> running

\* next: the bank is empty, or (tested last) the bus sags under load.
Regulate ==
  /\ In("Regulate")
  /\ \E demand \in BoostDemands : EnableOrDisblePWM(demand)
  /\ UNCHANGED <<closed, inrush, PrestateCounter>>
  /\ \E next \in {State_Next, "RegulateStop", "RegulateVoltageInit"} : Proceed(next)

RegulateVoltageInit ==
  /\ In("RegulateVoltageInit")
  /\ closed' = closed \ {"Qinb"}
  /\ running' = running \cup {"DCDC"}
  /\ UNCHANGED <<inrush, PrestateCounter, statics>>
  /\ Proceed("RegulateVoltage")

\* stop: the bank is empty or the bus is above its maximum.
RegulateVoltage ==
  /\ In("RegulateVoltage")
  /\ UNCHANGED <<hardware, PrestateCounter, statics>>
  /\ \E stop \in BOOLEAN : Proceed(IF stop THEN "RegulateVoltageStop" ELSE State_Next)

RegulateVoltageStop ==
  /\ In("RegulateVoltageStop")
  /\ UNCHANGED <<hardware, PrestateCounter, statics, errors>>
  /\ EndOfTick("StopEPWMs", FALSE, dpmuErrorOcurredFlag)

\* StopAllEPWMs: the inrush duty goes to 0, its PWM is not tripped.
StopAllEPWMs ==
  /\ running' = {}
  /\ inrush' = [inrush EXCEPT !.duty = 0]

\* Slips: the share bus switch stays closed; the initialised flag stays set;
\* the error is tested before it is reset.
FaultKeepsQsb ==
  /\ In("Fault")
  /\ closed' = closed \ {"Qlb", "Qinb"}
  /\ StopAllEPWMs
  /\ PrestateCounter' = 0
  /\ test_update_of_error_codes' = FALSE
  /\ dpmuErrorOcurredFlag' = FALSE
  /\ UNCHANGED statics
  /\ EndOfTick("PreInitialized", FALSE, FALSE)

FaultStaysArmed ==
  /\ In("Fault")
  /\ closed' = {}
  /\ StopAllEPWMs
  /\ PrestateCounter' = 0
  /\ test_update_of_error_codes' = FALSE
  /\ dpmuErrorOcurredFlag' = FALSE
  /\ UNCHANGED statics
  /\ EndOfTick("PreInitialized", DPMUInitializedFlag, FALSE)

FaultKeepsError ==
  /\ In("Fault")
  /\ closed' = {}
  /\ StopAllEPWMs
  /\ PrestateCounter' = 0
  /\ test_update_of_error_codes' = FALSE
  /\ UNCHANGED <<dpmuErrorOcurredFlag, statics>>
  /\ EndOfTick("PreInitialized", FALSE, dpmuErrorOcurredFlag)

Fault ==
  /\ In("Fault")
  /\ closed' = {}
  /\ StopAllEPWMs
  /\ PrestateCounter' = 0
  /\ test_update_of_error_codes' = FALSE
  /\ dpmuErrorOcurredFlag' = FALSE
  /\ UNCHANGED statics
  /\ EndOfTick("PreInitialized", FALSE, FALSE)

\* Slip: nothing is stopped.
StopEPWMsForgotten ==
  /\ In("StopEPWMs")
  /\ UNCHANGED <<hardware, PrestateCounter, statics>>
  /\ Proceed("Idle")

StopEPWMs ==
  /\ In("StopEPWMs")
  /\ StopAllEPWMs
  /\ UNCHANGED <<closed, PrestateCounter, statics>>
  /\ Proceed("Idle")

Idle ==
  /\ In("Idle")
  /\ UNCHANGED <<hardware, PrestateCounter, statics>>
  /\ Proceed(State_Next)

Tick ==
  \/ PreInitialized \/ Initialize
  \/ SoftstartInitDefault \/ SoftstartInitRedundant \/ Softstart
  \/ TrickleChargeInit \/ TrickleChargeDelay \/ TrickleCharge
  \/ ChargeInit \/ ChargeRamp \/ Charge \/ ChargeStop
  \/ BalancingInit \/ Balancing \/ BalancingStop
  \/ RegulateInit \/ Regulate \/ RegulateStop
  \/ RegulateVoltageInit \/ RegulateVoltage \/ RegulateVoltageStop
  \/ Fault \/ StopEPWMs \/ Idle

-----------------------------------------------------------------------------
(* CPU1: the IPC flags and the shared settings.                             *)

\* A second request before the next tick overwrites the first.
IOPRequest ==
  /\ \E r \in Requests : iopRequest' = r
  /\ UNCHANGED <<stateVector, flags, hardware, PrestateCounter, errors, statics,
                 emergency, dpmu_default_flag, mainLoop>>

EmergencyShutDown ==
  /\ emergency' \in Emergencies
  /\ UNCHANGED <<stateVector, flags, hardware, PrestateCounter, errors, statics,
                 iopRequest, dpmu_default_flag, mainLoop>>

PowerSourceType ==
  /\ dpmu_default_flag' \in PowerSourceTypes
  /\ UNCHANGED <<stateVector, flags, hardware, PrestateCounter, errors, statics,
                 iopRequest, emergency, mainLoop>>

-----------------------------------------------------------------------------
(* The super loop.  A tick may run between a test it makes and the effect   *)
(* of that test: mainLoop records the test that has been passed.            *)

\* A switch command from CPU1 has been read and the DPMU is initialised.
AcceptSwitchCommand ==
  /\ mainLoop = "idle"
  /\ DPMUInitializedFlag
  /\ mainLoop' = "switching"
  /\ UNCHANGED <<stateVector, flags, hardware, PrestateCounter, errors, statics, cpu1>>

SwitchCommand ==
  /\ mainLoop = "switching"
  /\ \E q \in Switches : closed' \in {closed \cup {q}, closed \ {q}}
  /\ mainLoop' = "idle"
  /\ UNCHANGED <<stateVector, flags, running, inrush, PrestateCounter, errors,
                 statics, cpu1>>

\* VerifyDPMUSwitchesOK, called once per turn of the super loop.
VerifyDPMUSwitchesOK ==
  /\ mainLoop = "idle"
  /\ DPMUSwitchesStatesOK' = SwitchesOK(closed)
  /\ UNCHANGED <<stateVector, DPMUInitializedFlag, hardware, PrestateCounter,
                 errors, statics, cpu1, mainLoop>>

\* The samples after an eFuse interrupt confirm an over-current: on the input
\* the input switch opens, on the bank the DC/DC converter stops.
EfuseVinTrip ==
  /\ mainLoop = "idle"
  /\ closed' = closed \ {"Qinb"}
  /\ State_Next' = "Fault"
  /\ UNCHANGED <<State_Before, State_Current, flags, running, inrush,
                 PrestateCounter, errors, statics, cpu1, mainLoop>>

EfuseBBTrip ==
  /\ mainLoop = "idle"
  /\ running' = running \ {"DCDC"}
  /\ State_Next' = "Fault"
  /\ UNCHANGED <<State_Before, State_Current, flags, closed, inrush,
                 PrestateCounter, errors, statics, cpu1, mainLoop>>

\* INT_GLOAD_4_3_TZ_ISR opens the share bus switch at once.
InputTripInterrupt ==
  /\ closed' = closed \ {"Qsb"}
  /\ UNCHANGED <<stateVector, flags, running, inrush, PrestateCounter, errors,
                 statics, cpu1, mainLoop>>

\* dcbus_check has found test_update_of_error_codes set.
BeginProtection ==
  /\ mainLoop = "idle"
  /\ test_update_of_error_codes
  /\ mainLoop' = "protecting"
  /\ UNCHANGED <<stateVector, flags, hardware, PrestateCounter, errors, statics, cpu1>>

\* Slip: the flag is assigned where it should be raised.
ProtectAssigns(opened, stopped, error) ==
  /\ mainLoop = "protecting"
  /\ closed' = closed \ opened
  /\ IF stopped THEN StopAllEPWMs ELSE UNCHANGED <<running, inrush>>
  /\ dpmuErrorOcurredFlag' = error
  /\ UNCHANGED <<stateVector, flags, PrestateCounter, test_update_of_error_codes,
                 statics, cpu1, mainLoop>>

\* One effect of a protection: opened are the switches it opens, stopped says
\* that it stops all PWMs, error that it raises dpmuErrorOcurredFlag.
Protect(opened, stopped, error) ==
  /\ mainLoop = "protecting"
  /\ closed' = closed \ opened
  /\ IF stopped THEN StopAllEPWMs ELSE UNCHANGED <<running, inrush>>
  /\ dpmuErrorOcurredFlag' = (dpmuErrorOcurredFlag \/ error)
  /\ UNCHANGED <<stateVector, flags, PrestateCounter, test_update_of_error_codes,
                 statics, cpu1, mainLoop>>

OverVoltageDetected == Protect({"Qlb"}, FALSE, FALSE)
OverVoltagePersists == Protect({"Qinb", "Qsb"}, TRUE, FALSE)
UnderVoltagePersists == Protect({"Qinb"}, TRUE, FALSE)
ShortCircuit == Protect(Switches, TRUE, TRUE)
StopMainStateMachine == Protect({}, FALSE, TRUE)

EndProtection ==
  /\ mainLoop = "protecting"
  /\ mainLoop' = "idle"
  /\ UNCHANGED <<stateVector, flags, hardware, PrestateCounter, errors, statics, cpu1>>

MainLoop ==
  \/ AcceptSwitchCommand \/ SwitchCommand
  \/ VerifyDPMUSwitchesOK
  \/ EfuseVinTrip \/ EfuseBBTrip
  \/ BeginProtection \/ EndProtection
  \/ OverVoltageDetected \/ OverVoltagePersists \/ UnderVoltagePersists
  \/ ShortCircuit \/ StopMainStateMachine

Cpu1 == IOPRequest \/ EmergencyShutDown \/ PowerSourceType

Next == Tick \/ MainLoop \/ Cpu1 \/ InputTripInterrupt

Spec == Init /\ [][Next]_vars

-----------------------------------------------------------------------------
(* Properties.                                                              *)

Active == Charging \cup Regulating \cup VoltageRegulating \cup BalancingStates

\* The DC/DC converter and the CLLC never drive power at the same time: a
\* cell is discharged into a bus the DC/DC converter does not feed.  Every
\* path into and out of Balancing, aborted ones included, has to stop one
\* converter before the other starts (state_machine.c:237-257).
\* BalancingInParallel is what a comment there says instead.
NoCrossConduction == ~(Converters \subseteq running)

\* A regulation that asks for no current leaves the DC/DC converter tripped.  Each
\* flag of EnableOrDisblePWM has to tell what the converter does, in every
\* session after the first as well: both outlive it, and protections, charging
\* and the voltage regulation switch the converter behind their back
\* (state_machine.c:262, 624-647).
NoDemandNoDrive == State_Current = "Regulate" /\ ~statics.demand => "DCDC" \notin running

\* No converter runs while the DPMU is down, starting or idle: every way to
\* those states goes through a stop of all PWMs (state_machine.c:331-335).
ConvertersStoppedWhenDown ==
  State_Current \in Starting \cup {"PreInitialized", "Idle"} => running = {}

\* After Fault at most one switch can be closed again before the next start,
\* by the one switch command the super loop had accepted before the fault
\* and carries out after it (main.c:183-199 against state_machine.c:310-329).
AtMostOneStraggler ==
  State_Current \in {"PreInitialized", "Initialize"} =>
    /\ \A p, q \in closed : p = q
    /\ mainLoop = "switching" => closed = {}

\* An error a protection has raised is cleared only by a tick that leaves all
\* switches open and all converters stopped (error_handling_CPU2.c:28-30).
ErrorNeverLost ==
  [][dpmuErrorOcurredFlag /\ ~dpmuErrorOcurredFlag' => closed' = {} /\ running' = {}]_vars

\* A tick that stays among the charging or among the regulating states has
\* seen the switch pattern its power source type calls for, whatever was
\* requested in the same tick (state_machine.c:356-358).
StaysBehindGoodSwitches ==
  [][\A S \in {Charging, Regulating} :
       State_Current \in S /\ State_Current' \in S => SwitchesOK(closed') \/ ~Tick]_vars

\* A tick closes the input switch of a DPMU that is not initialised only when
\* the inrush PWM is on and its duty has reached the limit
\* (state_machine.c:124-136, 436-461).
InrushBeforeInput ==
  [][~DPMUInitializedFlag /\ "Qinb" \in closed' \ closed /\ Tick =>
       inrush.on /\ inrush.duty = MaxDuty]_vars

\* The transition graph of the controller, with everything a tick may add to
\* the transitions of the switch: commands, the reaction to a wrong switch
\* pattern, emergencies and errors.  The only way out of Idle for a DPMU that
\* has lost its initialised flag is Fault.
Successors(s) ==
  CASE s = "PreInitialized" -> {s, "Initialize", "Fault"}
    [] s = "Initialize" -> {s, "PreInitialized", "SoftstartInitDefault",
                            "SoftstartInitRedundant", "Fault"}
    [] s \in {"SoftstartInitDefault", "SoftstartInitRedundant"} -> {s, "Softstart", "Fault"}
    [] s = "Softstart" -> {s, "Idle", "StopEPWMs", "Fault"}
    [] s = "TrickleChargeInit" ->
         {s, "TrickleChargeDelay", "ChargeInit", "ChargeStop", "Fault"}
    [] s = "TrickleChargeDelay" -> {s, "TrickleCharge", "ChargeStop", "Fault"}
    [] s = "TrickleCharge" -> {s, "ChargeInit", "ChargeStop", "StopEPWMs", "Fault"}
    [] s = "ChargeInit" -> {s, "ChargeRamp", "ChargeStop", "Fault"}
    [] s = "ChargeRamp" -> {s, "Charge", "ChargeStop", "StopEPWMs", "Fault"}
    [] s = "Charge" -> {s, "BalancingInit", "ChargeStop", "Fault"}
    [] s = "BalancingInit" -> {s, "Balancing", "BalancingStop", "Fault"}
    [] s = "Balancing" -> {s, "ChargeInit", "BalancingStop", "Fault"}
    [] s = "RegulateInit" -> {s, "Regulate", "RegulateStop", "Fault"}
    [] s = "Regulate" -> {s, "RegulateStop", "RegulateVoltageInit", "Fault"}
    [] s = "RegulateVoltageInit" -> {s, "RegulateVoltage", "RegulateVoltageStop", "Fault"}
    [] s = "RegulateVoltage" -> {s, "RegulateVoltageStop", "Fault"}
    [] s \in Stopping \ {"StopEPWMs"} -> {s, "StopEPWMs", "Fault"}
    [] s = "StopEPWMs" -> {s, "Idle", "Fault"}
    [] s = "Fault" -> {s, "PreInitialized"}
    [] s = "Idle" -> {s, "Fault"} \cup IF DPMUInitializedFlag
                                       THEN {"TrickleChargeInit", "RegulateInit"} ELSE {}

FollowsGraph == [][State_Current' \in Successors(State_Current)]_vars

\* The inductive invariant behind NoCrossConduction and
\* ConvertersStoppedWhenDown: where each converter may run, what the super loop
\* may have left in State_Next, where Initialize may go back to, and where the
\* initialised flag is certainly off.
ConverterDiscipline ==
  /\ State_Next \in {State_Current, "Fault"}
  /\ State_Current = "Initialize" => State_Before \in {"PreInitialized", "Initialize"}
  /\ State_Current \in {"PreInitialized"} \cup (Starting \ {"Softstart"}) => ~DPMUInitializedFlag
  /\ "CLLC" \in running => State_Current \in {"Balancing", "BalancingStop", "StopEPWMs", "Fault"}
  /\ State_Current = "Balancing" => "DCDC" \notin running
  /\ ConvertersStoppedWhenDown
  /\ NoCrossConduction

\* The controller keeps the promises of DpmuModes.
Mode(s) ==
  CASE s = "PreInitialized" -> "down"
    [] s \in Starting -> "starting"
    [] s = "Idle" -> "ready"
    [] s \in Active -> "working"
    [] s \in Stopping -> "stopping"
    [] s = "Fault" -> "fault"

Power == CASE "DCDC" \in running -> "DCDC"
           [] running = {"CLLC"} -> "CLLC"
           [] OTHER -> "off"

DPMU == INSTANCE DpmuModes WITH mode <- Mode(State_Current),
                                armed <- DPMUInitializedFlag, power <- Power

ImplementsModes == DPMU!Spec

-----------------------------------------------------------------------------
(* What comments of the code say and the code does not do.                  *)

\* "Balancing state supposed to run in parallel with Charge state"
\* (state_machine.c:247): cells are discharged while the bank is charged.
BalancingInParallel == State_Current = "Balancing" => "DCDC" \in running
=============================================================================
