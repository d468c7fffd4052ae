----------------------- MODULE StateMachine_actions -----------------------
(***************************************************************************)
(* Proofs of the action properties of StateMachine, of what a switch        *)
(* command may leave behind, and of how many ticks a soft start, a delay,   *)
(* a stop or an error still takes, for every value of its constants.        *)
(*                                                                          *)
(* TickEffects collects what a tick can do to the switches, the error flag  *)
(* and the inrush limiter; the theorems need nothing else of the cases.     *)
(***************************************************************************)
EXTENDS StateMachine_proofs

USE DEF Charging, Regulating, VoltageRegulating, BalancingStates, Starting,
        Stopping, States

\* What a tick leaves of the switches, the error flag and the inrush limiter.
Effects ==
  /\ \E n, i, e : EndOfTick(n, i, e)
  /\ State_Current # "Fault" => dpmuErrorOcurredFlag' = dpmuErrorOcurredFlag
  /\ State_Current = "Fault" => closed' = {} /\ running' = {}
  /\ State_Current \in {"PreInitialized", "Initialize"} => closed' \in {closed, {}}
  /\ "Qinb" \in closed' \ closed => State_Current = "Softstart" /\ DoneWithInrush
  /\ State_Current \in {"SoftstartInitDefault", "SoftstartInitRedundant"} => inrush'.on
  /\ State_Current = "Softstart" =>
       \/ DoneWithInrush /\ EndOfTick("Idle", TRUE, dpmuErrorOcurredFlag)
       \/ ~DoneWithInrush /\ inrush'.on = inrush.on

\* The cases that neither start nor end a soft start or a fault.
LEMMA PlainEffects ==
  ASSUME \E n : Proceed(n), "Qinb" \in closed' => "Qinb" \in closed,
         State_Current \in {"PreInitialized", "Initialize"} => closed' \in {closed, {}},
         State_Current \notin {"Softstart", "SoftstartInitDefault", "SoftstartInitRedundant",
                              "Fault"}
  PROVE  Effects
<1>1. PICK n : Proceed(n)
  OBVIOUS
<1>2. /\ EndOfTick(n, DPMUInitializedFlag, dpmuErrorOcurredFlag)
      /\ dpmuErrorOcurredFlag' = dpmuErrorOcurredFlag
  BY <1>1 DEF Proceed, errors
<1>3. \E m, i, e : EndOfTick(m, i, e)
  BY <1>2
<1> QED BY <1>2, <1>3 DEF Effects

LEMMA TickEffects == ASSUME TypeOK, Tick PROVE Effects
<1> USE DEF In, hardware
<1>1. CASE PreInitialized
  <2>1. State_Current = "PreInitialized" /\ closed' = closed /\ \E n : Proceed(n)
    BY <1>1 DEF PreInitialized
  <2> QED BY <2>1, PlainEffects
<1>2. CASE Initialize
  <2>1. State_Current = "Initialize"
    BY <1>2 DEF Initialize
  <2>2. CASE closed' = closed /\ \E n \in {State_Next, State_Before} : Proceed(n)
    BY <2>1, <2>2, PlainEffects
  <2>3. CASE /\ closed' = {} /\ dpmuErrorOcurredFlag' = dpmuErrorOcurredFlag
             /\ \E n, i, e : EndOfTick(n, i, e)
    BY <2>1, <2>3 DEF Effects
  <2> QED BY <1>2, <2>2, <2>3 DEF Initialize
<1>3. CASE SoftstartInitDefault \/ SoftstartInitRedundant
  <2>1. /\ State_Current \in {"SoftstartInitDefault", "SoftstartInitRedundant"}
        /\ closed' \subseteq closed \cup {"Qlb", "Qsb"}
        /\ Proceed("Softstart") /\ inrush'.on
    BY <1>3 DEF SoftstartInitDefault, SoftstartInitRedundant, StartInrush
  <2>2. EndOfTick("Softstart", DPMUInitializedFlag, dpmuErrorOcurredFlag)
        /\ dpmuErrorOcurredFlag' = dpmuErrorOcurredFlag
    BY <2>1 DEF Proceed, errors
  <2>3. \E n, i, e : EndOfTick(n, i, e)
    BY <2>2
  <2> QED BY <2>1, <2>2, <2>3 DEF Effects
<1>4. CASE Softstart
  <2>1. State_Current = "Softstart"
    BY <1>4 DEF Softstart
  <2>2. CASE DoneWithInrush
    <3>1. /\ EndOfTick("Idle", TRUE, dpmuErrorOcurredFlag)
          /\ dpmuErrorOcurredFlag' = dpmuErrorOcurredFlag
      BY <1>4, <2>2 DEF Softstart, errors
    <3>2. \E n, i, e : EndOfTick(n, i, e)
      BY <3>1
    <3> QED BY <2>1, <2>2, <3>1, <3>2 DEF Effects
  <2>3. CASE ~DoneWithInrush
    <3>1. closed' = closed /\ inrush' = InrushStep /\ Proceed(State_Next)
      BY <1>4, <2>3 DEF Softstart
    <3>2. /\ EndOfTick(State_Next, DPMUInitializedFlag, dpmuErrorOcurredFlag)
          /\ dpmuErrorOcurredFlag' = dpmuErrorOcurredFlag
      BY <3>1 DEF Proceed, errors
    <3>3. \E n, i, e : EndOfTick(n, i, e)
      BY <3>2
    <3>4. inrush'.on = inrush.on
      BY <3>1 DEF InrushStep, TypeOK, InrushLimiter
    <3> QED BY <2>1, <2>3, <3>1, <3>2, <3>3, <3>4 DEF Effects
  <2> QED BY <2>2, <2>3
<1>5. CASE Fault
  <2>1. /\ State_Current = "Fault" /\ closed' = {} /\ running' = {}
        /\ EndOfTick("PreInitialized", FALSE, FALSE)
    BY <1>5 DEF Fault, StopAllEPWMs
  <2>2. \E n, i, e : EndOfTick(n, i, e)
    BY <2>1
  <2> QED BY <2>1, <2>2 DEF Effects
<1>6. CASE RegulateVoltageStop
  <2>1. /\ State_Current = "RegulateVoltageStop" /\ closed' = closed
        /\ EndOfTick("StopEPWMs", FALSE, dpmuErrorOcurredFlag)
        /\ dpmuErrorOcurredFlag' = dpmuErrorOcurredFlag
    BY <1>6 DEF RegulateVoltageStop, errors
  <2>2. \E n, i, e : EndOfTick(n, i, e)
    BY <2>1
  <2> QED BY <2>1, <2>2 DEF Effects
<1>7. CASE TrickleChargeInit \/ TrickleChargeDelay \/ TrickleCharge
  <2>1. /\ State_Current \in Charging /\ closed' = closed
        /\ \E n : Proceed(n)
    BY <1>7 DEF TrickleChargeInit, TrickleChargeDelay, TrickleCharge
  <2> QED BY <2>1, PlainEffects
<1>8. CASE ChargeInit \/ ChargeRamp \/ Charge \/ ChargeStop
  <2>1. /\ State_Current \in Charging \cup Stopping /\ closed' = closed
        /\ \E n : Proceed(n)
    BY <1>8 DEF ChargeInit, ChargeRamp, Charge, ChargeStop, WaitForLowCurrent
  <2> QED BY <2>1, PlainEffects
<1>9. CASE BalancingInit \/ Balancing \/ BalancingStop
  <2>1. /\ State_Current \in BalancingStates \cup Stopping /\ closed' = closed
        /\ \E n : Proceed(n)
    BY <1>9 DEF BalancingInit, Balancing, BalancingStop
  <2> QED BY <2>1, PlainEffects
<1>10. CASE RegulateInit \/ Regulate \/ RegulateStop
  <2>1. /\ State_Current \in Regulating \cup Stopping /\ closed' = closed
        /\ \E n : Proceed(n)
    BY <1>10 DEF RegulateInit, Regulate, RegulateStop, WaitForLowCurrent
  <2> QED BY <2>1, PlainEffects
<1>11. CASE RegulateVoltageInit \/ RegulateVoltage
  <2>1. /\ State_Current \in VoltageRegulating /\ closed' \subseteq closed
        /\ \E n : Proceed(n)
    BY <1>11 DEF RegulateVoltageInit, RegulateVoltage
  <2> QED BY <2>1, PlainEffects
<1>12. CASE StopEPWMs \/ Idle
  <2>1. /\ State_Current \in Stopping \cup {"Idle"} /\ closed' = closed
        /\ \E n : Proceed(n)
    BY <1>12 DEF StopEPWMs, Idle
  <2> QED BY <2>1, PlainEffects
<1> QED BY <1>1, <1>2, <1>3, <1>4, <1>5, <1>6, <1>7, <1>8, <1>9, <1>10, <1>11, <1>12 DEF Tick

-----------------------------------------------------------------------------
(* What everything but a tick does to the switches and the errors.          *)

\* Only the switch command closes a switch, one at a time, and it ends with it.
Opens ==
  /\ dpmuErrorOcurredFlag => dpmuErrorOcurredFlag'
  /\ inrush'.on = inrush.on
  /\ \/ closed' \subseteq closed
     \/ /\ mainLoop = "switching" /\ mainLoop' = "idle"
        /\ \E q \in Switches : closed' \subseteq closed \cup {q}
  /\ mainLoop' = "switching" => mainLoop = "switching" \/ DPMUInitializedFlag

LEMMA OthersOpen ==
  ASSUME TypeOK, MainLoop \/ Cpu1 \/ InputTripInterrupt \/ UNCHANGED vars
  PROVE  Opens
<1> USE DEF Opens, hardware, errors
<1>1. CASE Cpu1
  BY <1>1 DEF Cpu1, IOPRequest, EmergencyShutDown, PowerSourceType
<1>2. CASE SwitchCommand
  <2>1. /\ mainLoop = "switching" /\ mainLoop' = "idle"
        /\ dpmuErrorOcurredFlag' = dpmuErrorOcurredFlag /\ inrush' = inrush
    BY <1>2 DEF SwitchCommand
  <2>2. PICK q \in Switches : closed' \in {closed \cup {q}, closed \ {q}}
    BY <1>2 DEF SwitchCommand
  <2>3. closed' \subseteq closed \cup {q}
    BY <2>2
  <2> QED BY <2>1, <2>3
<1>3. CASE AcceptSwitchCommand \/ VerifyDPMUSwitchesOK
  BY <1>3 DEF AcceptSwitchCommand, VerifyDPMUSwitchesOK
<1>4. CASE EfuseVinTrip \/ EfuseBBTrip \/ InputTripInterrupt
  BY <1>4 DEF EfuseVinTrip, EfuseBBTrip, InputTripInterrupt
<1>5. CASE BeginProtection \/ EndProtection
  BY <1>5 DEF BeginProtection, EndProtection
<1>6. CASE \/ OverVoltageDetected \/ OverVoltagePersists \/ UnderVoltagePersists
           \/ ShortCircuit \/ StopMainStateMachine
  <2>1. PICK o \in SUBSET Switches, stopped \in BOOLEAN, e \in BOOLEAN : Protect(o, stopped, e)
    BY <1>6 DEF OverVoltageDetected, OverVoltagePersists, UnderVoltagePersists,
                ShortCircuit, StopMainStateMachine, Switches
  <2>2. inrush' \in {inrush, [inrush EXCEPT !.duty = 0]}
    BY <2>1 DEF Protect, StopAllEPWMs
  <2>3. inrush'.on = inrush.on
    BY <2>2 DEF TypeOK, InrushLimiter
  <2>4. closed' \subseteq closed /\ mainLoop' = mainLoop
    BY <2>1 DEF Protect
  <2>5. dpmuErrorOcurredFlag => dpmuErrorOcurredFlag'
    BY <2>1 DEF Protect
  <2> QED BY <2>3, <2>4, <2>5
<1>7. CASE UNCHANGED vars
  BY <1>7 DEF vars
<1> QED BY <1>1, <1>2, <1>3, <1>4, <1>5, <1>6, <1>7 DEF MainLoop

\* A raised error is cleared only together with a full shutdown, for any
\* interleaving of the protections with the ticks.
THEOREM ErrorsKept == Spec => ErrorNeverLost
<1>1. TypeOK /\ [Next]_vars
        => [dpmuErrorOcurredFlag /\ ~dpmuErrorOcurredFlag' => closed' = {} /\ running' = {}]_vars
  <2> SUFFICES ASSUME TypeOK, Next, dpmuErrorOcurredFlag, ~dpmuErrorOcurredFlag'
               PROVE  closed' = {} /\ running' = {}
    OBVIOUS
  <2>1. CASE Tick
    BY <2>1, TickEffects DEF Effects
  <2>2. CASE ~Tick
    BY <2>2, OthersOpen DEF Next, Opens
  <2> QED BY <2>1, <2>2
<1> QED BY TypeCorrect, <1>1, PTL DEF Spec, ErrorNeverLost

-----------------------------------------------------------------------------
(* What a switch command that races with a fault may leave behind.          *)

LEMMA StragglerTick ==
  ASSUME TypeOK, ConverterDiscipline, AtMostOneStraggler, Tick
  PROVE  AtMostOneStraggler'
<1>1. Moves /\ Effects
  BY TickMoves, TickEffects
<1> SUFFICES ASSUME State_Current' \in {"PreInitialized", "Initialize"}
             PROVE  /\ \A p, q \in closed' : p = q
                    /\ mainLoop' = "switching" => closed' = {}
  BY DEF AtMostOneStraggler
<1>2. State_Current \in {"PreInitialized", "Initialize", "Fault"}
  BY <1>1 DEF Moves, Successors, TypeOK
<1>3. closed' \in {closed, {}} /\ (State_Current = "Fault" => closed' = {})
  BY <1>1, <1>2 DEF Effects
<1>4. mainLoop' = mainLoop
  BY <1>1 DEF Moves
<1> QED BY <1>2, <1>3, <1>4 DEF AtMostOneStraggler

LEMMA StragglerStep ==
  TypeOK /\ ConverterDiscipline /\ AtMostOneStraggler /\ [Next]_vars => AtMostOneStraggler'
<1> SUFFICES ASSUME TypeOK, ConverterDiscipline, AtMostOneStraggler, [Next]_vars
             PROVE  AtMostOneStraggler'
  OBVIOUS
<1>1. CASE Tick
  BY <1>1, StragglerTick
<1>2. CASE ~Tick
  <2>1. Quiet /\ Opens
    BY <1>2, OthersAreQuiet, OthersOpen DEF Next
  <2> SUFFICES ASSUME State_Current' \in {"PreInitialized", "Initialize"}
               PROVE  /\ \A p, q \in closed' : p = q
                      /\ mainLoop' = "switching" => closed' = {}
    BY DEF AtMostOneStraggler
  <2>2. State_Current \in {"PreInitialized", "Initialize"} /\ ~DPMUInitializedFlag
    BY <2>1 DEF Quiet, ConverterDiscipline
  <2>3. /\ \A p, q \in closed : p = q
        /\ mainLoop = "switching" => closed = {}
    BY <2>2 DEF AtMostOneStraggler
  <2>4. CASE closed' \subseteq closed
    BY <2>1, <2>2, <2>3, <2>4 DEF Opens
  <2>5. CASE /\ mainLoop = "switching" /\ mainLoop' = "idle"
             /\ \E q \in Switches : closed' \subseteq closed \cup {q}
    BY <2>3, <2>5
  <2> QED BY <2>1, <2>4, <2>5 DEF Opens
<1> QED BY <1>1, <1>2

\* Behind a fault at most the one switch closes that the super loop had been
\* told to close before.
THEOREM Stragglers == Spec => []AtMostOneStraggler
<1>1. Init => AtMostOneStraggler
  BY DEF Init, AtMostOneStraggler
<1>2. TypeOK /\ ConverterDiscipline /\ AtMostOneStraggler /\ [Next]_vars => AtMostOneStraggler'
  BY StragglerStep
<1> QED BY TypeCorrect, Discipline, <1>1, <1>2, PTL DEF Spec

-----------------------------------------------------------------------------
(* Charging and regulating behind a verified switch pattern.                *)

\* A tail that stays among the states of S has verified the switches itself.
LEMMA TailVerifies ==
  ASSUME TypeOK, NEW S \in {Charging, Regulating}, NEW n, NEW i, NEW e, EndOfTick(n, i, e),
         State_Current \in S, State_Current' \in S
  PROVE  SwitchesOK(closed')
<1> DEFINE ok == VerifiedSwitches(closed')
           commanded == AfterEmergency(n, i)
<1>1. State_Current' = IF e THEN "Fault"
                       ELSE IF ok THEN commanded ELSE SafeState(State_Current, commanded)
  BY DEF EndOfTick
<1>2. SafeState(State_Current, commanded) \notin S
  <2>1. CASE State_Current \in Charging
    BY <2>1 DEF SafeState
  <2>2. CASE State_Current \in Regulating
    BY <2>2 DEF SafeState
  <2> QED BY <2>1, <2>2
<1>3. ok /\ State_Current' = commanded
  BY <1>1, <1>2
<1>4. CASE iopRequest = "Fault"
  <2>1. commanded = "Fault"
    BY <1>4 DEF AfterEmergency, AfterCommand, Commanded, NoRequest
  <2> QED BY <2>1, <1>3
<1>5. CASE iopRequest # "Fault"
  BY <1>3, <1>5 DEF VerifiedSwitches
<1> QED BY <1>4, <1>5

\* Whatever is requested, the states of charging and of regulating are kept
\* only by ticks that have seen the right switch pattern.
THEOREM GoodSwitches == Spec => StaysBehindGoodSwitches
<1>1. TypeOK /\ [Next]_vars
        => [\A S \in {Charging, Regulating} :
              State_Current \in S /\ State_Current' \in S => SwitchesOK(closed') \/ ~Tick]_vars
  <2> SUFFICES ASSUME TypeOK, NEW S \in {Charging, Regulating}, Tick,
                      State_Current \in S, State_Current' \in S
               PROVE  SwitchesOK(closed')
    OBVIOUS
  <2>1. PICK n, i, e : EndOfTick(n, i, e)
    BY TickEffects DEF Effects
  <2> QED BY <2>1, TailVerifies
<1> QED BY TypeCorrect, <1>1, PTL DEF Spec, StaysBehindGoodSwitches

-----------------------------------------------------------------------------
(* The input switch and the inrush limiter.                                 *)

\* A soft start that has not initialised the DPMU has its PWM on.
RampOn == State_Current = "Softstart" /\ ~DPMUInitializedFlag => inrush.on

LEMMA RampStep == TypeOK /\ ConverterDiscipline /\ RampOn /\ [Next]_vars => RampOn'
<1> SUFFICES ASSUME TypeOK, ConverterDiscipline, RampOn, [Next]_vars,
                    State_Current' = "Softstart", ~DPMUInitializedFlag'
             PROVE  inrush'.on
  BY DEF RampOn
<1>1. CASE Tick
  <2>1. Moves /\ Arms /\ Effects
    BY <1>1, TickMoves, TickEffects
  <2>2. State_Current \in {"SoftstartInitDefault", "SoftstartInitRedundant", "Softstart"}
    BY <2>1 DEF Moves, Successors, TypeOK
  <2>3. CASE State_Current = "Softstart"
    <3>1. ~DPMUInitializedFlag
      BY <2>1, <2>3 DEF Arms
    <3>2. ~EndOfTick("Idle", TRUE, dpmuErrorOcurredFlag)
      <4>1. ~Deinitialises(State_Current)
        BY <2>3 DEF Deinitialises
      <4> QED BY <4>1 DEF EndOfTick
    <3> QED BY <2>1, <2>3, <3>1, <3>2 DEF Effects, RampOn
  <2>4. CASE State_Current \in {"SoftstartInitDefault", "SoftstartInitRedundant"}
    BY <2>1, <2>4 DEF Effects
  <2> QED BY <2>2, <2>3, <2>4
<1>2. CASE ~Tick
  <2>1. Quiet /\ Opens
    BY <1>2, OthersAreQuiet, OthersOpen DEF Next
  <2> QED BY <2>1 DEF Quiet, Opens, RampOn
<1> QED BY <1>1, <1>2

\* The input switch of a DPMU that is not initialised is closed by a tick only
\* at the end of the inrush ramp, for any number of duty steps and any delay.
THEOREM InrushFirst == Spec => InrushBeforeInput
<1>1. Init => RampOn
  BY DEF Init, RampOn
<1>2. TypeOK /\ RampOn /\ [Next]_vars
        => [~DPMUInitializedFlag /\ "Qinb" \in closed' \ closed /\ Tick =>
              inrush.on /\ inrush.duty = MaxDuty]_vars
  <2> SUFFICES ASSUME TypeOK, RampOn, ~DPMUInitializedFlag, "Qinb" \in closed' \ closed, Tick
               PROVE  inrush.on /\ inrush.duty = MaxDuty
    OBVIOUS
  <2>1. State_Current = "Softstart" /\ DoneWithInrush
    BY TickEffects DEF Effects
  <2>2. inrush.duty \in 0 .. MaxDuty /\ inrush.duty + 1 > MaxDuty /\ MaxDuty \in Nat
    BY <2>1, InrushAssumption DEF DoneWithInrush, TypeOK, InrushLimiter
  <2>3. inrush.duty = MaxDuty
    BY <2>2
  <2> QED BY <2>1, <2>3 DEF RampOn
<1>3. TypeOK /\ ConverterDiscipline /\ RampOn /\ [Next]_vars => RampOn'
  BY RampStep
<1> QED BY TypeCorrect, Discipline, <1>1, <1>2, <1>3, PTL DEF Spec, InrushBeforeInput

-----------------------------------------------------------------------------
(* How many ticks the phases that a counter ends may take.                  *)

StepTicks == INRUSH_DELAY + 2

\* The ticks a soft start has before it, the one that ends it included.
SoftstartAhead ==
  (MaxDuty - inrush.duty) * StepTicks + (INRUSH_DELAY + 1 - inrush.count) + 1

\* The ticks a delay has before it: a counter that is missed at 0 wraps.
DelayAhead == IF PrestateCounter = 0 THEN CounterMod ELSE PrestateCounter

(* A tick of a soft start ends it or brings its end nearer, unless a request     *)
(* takes the place of the last one; the super loop holds it up by a protection.  *)
SoftstartCounts ==
  State_Current = "Softstart" /\ State_Current' = "Softstart" =>
    IF Tick THEN SoftstartAhead' = SoftstartAhead - 1 \/ (SoftstartAhead = 1 /\ iopRequest # NoRequest)
            ELSE SoftstartAhead' = SoftstartAhead \/ mainLoop = "protecting"

(* The delay before trickle charging begins with DELAY ticks before it, and a    *)
(* tick takes one off, unless a request takes the place of the last one.         *)
DelayCounts ==
  State_Current' = "TrickleChargeDelay" =>
    IF State_Current # "TrickleChargeDelay" THEN DelayAhead' = DELAY
    ELSE IF Tick THEN DelayAhead' = DelayAhead - 1 \/ (DelayAhead = 1 /\ iopRequest # NoRequest)
                 ELSE DelayAhead' = DelayAhead

\* Every other case of the switch belongs to another state.
LEMMA TickOf ==
  ASSUME Tick
  PROVE  /\ State_Current = "Softstart" => Softstart
         /\ State_Current = "TrickleChargeDelay" => TrickleChargeDelay
         /\ State_Current = "TrickleChargeInit" => TrickleChargeInit
         /\ State_Current = "Fault" => Fault
         /\ State_Current = "RegulateInit" => RegulateInit
         /\ State_Current = "Regulate" => Regulate
         /\ State_Current = "ChargeStop" => ChargeStop
         /\ State_Current = "RegulateStop" => RegulateStop
         /\ State_Current = "BalancingStop" => BalancingStop
         /\ State_Current = "RegulateVoltageStop" => RegulateVoltageStop
         /\ State_Current = "StopEPWMs" => StopEPWMs
<1> USE DEF In
<1>1. CASE \/ PreInitialized \/ Initialize \/ SoftstartInitDefault \/ SoftstartInitRedundant
           \/ Idle \/ Softstart \/ TrickleChargeInit \/ TrickleChargeDelay
  BY <1>1 DEF PreInitialized, Initialize, SoftstartInitDefault, SoftstartInitRedundant, Idle,
              Softstart, TrickleChargeInit, TrickleChargeDelay
<1>2. CASE \/ TrickleCharge \/ ChargeInit \/ ChargeRamp \/ Charge
           \/ BalancingInit \/ Balancing
  BY <1>2 DEF TrickleCharge, ChargeInit, ChargeRamp, Charge, BalancingInit, Balancing
<1>3. CASE RegulateInit \/ Regulate \/ RegulateVoltageInit \/ RegulateVoltage
  BY <1>3 DEF RegulateInit, Regulate, RegulateVoltageInit, RegulateVoltage
<1>4. CASE Fault \/ StopEPWMs \/ BalancingStop \/ RegulateVoltageStop
  BY <1>4 DEF Fault, StopEPWMs, BalancingStop, RegulateVoltageStop
<1>5. CASE ChargeStop \/ RegulateStop
  BY <1>5 DEF ChargeStop, RegulateStop, WaitForLowCurrent
<1> QED BY <1>1, <1>2, <1>3, <1>4, <1>5 DEF Tick

\* Without a request a tick takes the transition of its case, unless the switch
\* pattern or a fault keep it from it.
LEMMA TailFollows ==
  ASSUME NEW n, NEW i, NEW e, EndOfTick(n, i, e), iopRequest = NoRequest
  PROVE  \/ State_Current' \in {n, "Fault"}
         \/ State_Current \in Charging /\ State_Current' = "ChargeStop"
         \/ State_Current \in Regulating /\ State_Current' = "RegulateStop"
<1> DEFINE commanded == AfterEmergency(n, i)
<1>1. commanded \in {n, "Fault"} BY DEF AfterEmergency, AfterCommand
<1>2. State_Current' \in {"Fault", commanded, SafeState(State_Current, commanded)}
  BY DEF EndOfTick
<1>3. \/ SafeState(State_Current, commanded) = commanded
      \/ State_Current \in Charging /\ SafeState(State_Current, commanded) = "ChargeStop"
      \/ State_Current \in Regulating /\ SafeState(State_Current, commanded) = "RegulateStop"
  BY DEF SafeState
<1> HIDE DEF commanded
<1> QED BY <1>1, <1>2, <1>3

\* What happens between two ticks leaves the statics and the counters alone, but
\* for a protection that takes the inrush duty back.
LEMMA OthersKeepCounts ==
  ASSUME MainLoop \/ Cpu1 \/ InputTripInterrupt \/ UNCHANGED vars
  PROVE  /\ PrestateCounter' = PrestateCounter /\ statics' = statics
         /\ inrush' = inrush \/ mainLoop = "protecting"
<1> USE DEF hardware
<1>1. CASE Cpu1
  BY <1>1 DEF Cpu1, IOPRequest, EmergencyShutDown, PowerSourceType
<1>2. CASE AcceptSwitchCommand \/ SwitchCommand \/ VerifyDPMUSwitchesOK
  BY <1>2 DEF AcceptSwitchCommand, SwitchCommand, VerifyDPMUSwitchesOK
<1>3. CASE EfuseVinTrip \/ EfuseBBTrip \/ InputTripInterrupt
  BY <1>3 DEF EfuseVinTrip, EfuseBBTrip, InputTripInterrupt
<1>4. CASE BeginProtection \/ EndProtection
  BY <1>4 DEF BeginProtection, EndProtection
<1>5. CASE \/ OverVoltageDetected \/ OverVoltagePersists \/ UnderVoltagePersists
           \/ ShortCircuit \/ StopMainStateMachine
  BY <1>5 DEF OverVoltageDetected, OverVoltagePersists, UnderVoltagePersists, ShortCircuit,
              StopMainStateMachine, Protect
<1>6. CASE UNCHANGED vars
  BY <1>6 DEF vars
<1> QED BY <1>1, <1>2, <1>3, <1>4, <1>5, <1>6 DEF MainLoop

\* A duty step takes StepTicks ticks.
LEMMA StepsAhead ==
  /\ StepTicks \in Nat
  /\ \A d \in 0 .. MaxDuty :
       /\ (MaxDuty - d) * StepTicks \in Nat
       /\ (MaxDuty - d) * StepTicks + StepTicks <= (MaxDuty + 1) * StepTicks
       /\ d + 1 <= MaxDuty => (MaxDuty - (d + 1)) * StepTicks = (MaxDuty - d) * StepTicks - StepTicks
<1>1. \A a \in Nat, b \in Nat :
        /\ a * b \in Nat
        /\ (a + 1) * b = a * b + b
        /\ a \in Nat \ {0} => (a - 1) * b = a * b - b
  OBVIOUS
<1>2. \A a, c \in Nat, b \in Nat : a <= c => a * b <= c * b
  <2> SUFFICES ASSUME NEW a \in Nat, NEW c \in Nat, NEW b \in Nat, a <= c PROVE a * b <= c * b
    OBVIOUS
  <2>1. c * b = a * b + (c - a) * b /\ (c - a) * b \in Nat /\ a * b \in Nat
    OBVIOUS
  <2> QED BY <2>1
<1>3. StepTicks \in Nat BY InrushAssumption DEF StepTicks
<1> SUFFICES ASSUME NEW d \in 0 .. MaxDuty
             PROVE  /\ (MaxDuty - d) * StepTicks \in Nat
                    /\ (MaxDuty - d) * StepTicks + StepTicks <= (MaxDuty + 1) * StepTicks
                    /\ d + 1 <= MaxDuty =>
                         (MaxDuty - (d + 1)) * StepTicks = (MaxDuty - d) * StepTicks - StepTicks
  BY <1>3
<1>4. MaxDuty \in Nat /\ MaxDuty - d \in Nat /\ MaxDuty - d <= MaxDuty
  BY InrushAssumption
<1>5. (MaxDuty - d) * StepTicks \in Nat BY <1>1, <1>3, <1>4
<1>6. (MaxDuty - d) * StepTicks <= MaxDuty * StepTicks BY <1>2, <1>3, <1>4
<1>7. (MaxDuty + 1) * StepTicks = MaxDuty * StepTicks + StepTicks /\ MaxDuty * StepTicks \in Nat
  BY <1>1, <1>3, <1>4
<1>8. ASSUME d + 1 <= MaxDuty
      PROVE  (MaxDuty - (d + 1)) * StepTicks = (MaxDuty - d) * StepTicks - StepTicks
  <2>1. MaxDuty - d \in Nat \ {0} /\ MaxDuty - (d + 1) = (MaxDuty - d) - 1 BY <1>4, <1>8
  <2> QED BY <1>1, <1>3, <2>1
<1>9. (MaxDuty - d) * StepTicks + StepTicks <= (MaxDuty + 1) * StepTicks
  BY <1>3, <1>5, <1>6, <1>7
<1> QED BY <1>5, <1>8, <1>9
\* The bounds of the ramp: its full length again after its duty was taken back.
LEMMA SoftstartBounded == TypeOK => SoftstartAhead \in 1 .. (MaxDuty + 1) * StepTicks
<1> SUFFICES ASSUME TypeOK PROVE SoftstartAhead \in 1 .. (MaxDuty + 1) * StepTicks
  OBVIOUS
<1>1. inrush.duty \in 0 .. MaxDuty /\ inrush.count \in 0 .. INRUSH_DELAY + 1
  BY DEF TypeOK, InrushLimiter
<1> DEFINE rest == (MaxDuty - inrush.duty) * StepTicks
           whole == (MaxDuty + 1) * StepTicks
<1>2. rest \in Nat /\ StepTicks \in Nat /\ rest + StepTicks <= whole BY <1>1, StepsAhead
<1>3. MaxDuty \in Nat BY InrushAssumption
<1>4. whole \in Nat
  <2>1. \A a \in Nat, b \in Nat : (a + 1) * b \in Nat OBVIOUS
  <2> QED BY <1>2, <1>3, <2>1
<1>5. SoftstartAhead = rest + (INRUSH_DELAY + 1 - inrush.count) + 1 BY DEF SoftstartAhead
<1> HIDE DEF rest, whole
<1>6. SoftstartAhead \in 1 .. whole BY <1>1, <1>2, <1>4, <1>5, InrushAssumption DEF StepTicks
<1> QED BY <1>6 DEF whole

LEMMA SoftstartTick ==
  ASSUME TypeOK, Softstart, State_Current' = "Softstart"
  PROVE  SoftstartAhead' = SoftstartAhead - 1 \/ (SoftstartAhead = 1 /\ iopRequest # NoRequest)
<1> DEFINE d == inrush.duty
           c == inrush.count
<1>1. d \in 0 .. MaxDuty /\ c \in 0 .. INRUSH_DELAY + 1 /\ INRUSH_DELAY \in Nat /\ MaxDuty \in Nat
  BY InrushAssumption DEF TypeOK, InrushLimiter
<1>2. SoftstartAhead = (MaxDuty - d) * StepTicks + (INRUSH_DELAY + 1 - c) + 1 BY DEF SoftstartAhead
<1>3. CASE DoneWithInrush
  <2>1. d = MaxDuty /\ c = INRUSH_DELAY + 1
    <3>1. c > INRUSH_DELAY /\ d + 1 > MaxDuty BY <1>3 DEF DoneWithInrush
    <3> QED BY <1>1, <3>1
  <2>2. SoftstartAhead = 1
    <3>1. (MaxDuty - d) * StepTicks = 0
      <4>1. \A a \in Nat, b \in Nat : (a - a) * b = 0 OBVIOUS
      <4>2. StepTicks \in Nat BY StepsAhead
      <4> QED BY <1>1, <2>1, <4>1, <4>2
    <3> HIDE DEF d, c
    <3> QED BY <1>1, <1>2, <2>1, <3>1
  <2>3. iopRequest # NoRequest
    <3> SUFFICES ASSUME iopRequest = NoRequest PROVE FALSE OBVIOUS
    <3>1. State_Current = "Softstart" /\ EndOfTick("Idle", TRUE, dpmuErrorOcurredFlag)
      BY <1>3 DEF Softstart, In
    <3> QED BY <3>1, TailFollows
  <2> QED BY <2>2, <2>3
<1>4. CASE ~DoneWithInrush
  <2>1. inrush' = InrushStep BY <1>4 DEF Softstart
  <2>2. CASE c > INRUSH_DELAY
    <3>1. d + 1 <= MaxDuty BY <1>1, <1>4, <2>2 DEF DoneWithInrush
    <3>2. inrush'.duty = d + 1 /\ inrush'.count = 0
      BY <2>1, <2>2 DEF InrushStep, TypeOK, InrushLimiter
    <3>3. SoftstartAhead' = (MaxDuty - (d + 1)) * StepTicks + (INRUSH_DELAY + 1 - 0) + 1
      BY <3>2 DEF SoftstartAhead, StepTicks
    <3> DEFINE rest == (MaxDuty - d) * StepTicks
    <3>4. rest \in Nat /\ (MaxDuty - (d + 1)) * StepTicks = rest - StepTicks
      BY <1>1, <3>1, StepsAhead
    <3>5. c = INRUSH_DELAY + 1 BY <1>1, <2>2
    <3>6. /\ SoftstartAhead = rest + (INRUSH_DELAY + 1 - c) + 1
          /\ SoftstartAhead' = (rest - StepTicks) + (INRUSH_DELAY + 1 - 0) + 1
      BY <1>2, <3>3, <3>4
    <3> HIDE DEF rest, d, c
    <3> QED BY <1>1, <3>4, <3>5, <3>6 DEF StepTicks
  <2>3. CASE ~(c > INRUSH_DELAY)
    <3>1. inrush'.duty = d /\ inrush'.count = c + 1
      BY <2>1, <2>3 DEF InrushStep, TypeOK, InrushLimiter
    <3> DEFINE rest == (MaxDuty - d) * StepTicks
    <3>2. rest \in Nat BY <1>1, StepsAhead
    <3>3. /\ SoftstartAhead = rest + (INRUSH_DELAY + 1 - c) + 1
          /\ SoftstartAhead' = rest + (INRUSH_DELAY + 1 - (c + 1)) + 1
      BY <3>1 DEF SoftstartAhead, StepTicks
    <3> HIDE DEF rest, d, c
    <3> QED BY <1>1, <3>2, <3>3
  <2> QED BY <2>2, <2>3
<1> QED BY <1>3, <1>4

(* A soft start is at most (MaxDuty + 1) * StepTicks ticks from its end, and      *)
(* every tick takes one off: only a request at its last tick and the protections *)
(* can hold it up (DoneWithInrush, state_machine.c:436-461).                     *)
THEOREM SoftstartNears ==
  Spec => [](SoftstartAhead \in 1 .. (MaxDuty + 1) * StepTicks) /\ [][SoftstartCounts]_vars
<1>1. TypeOK /\ [Next]_vars => [SoftstartCounts]_vars
  <2> SUFFICES ASSUME TypeOK, Next, State_Current = "Softstart", State_Current' = "Softstart"
               PROVE  IF Tick
                      THEN \/ SoftstartAhead' = SoftstartAhead - 1
                           \/ SoftstartAhead = 1 /\ iopRequest # NoRequest
                      ELSE SoftstartAhead' = SoftstartAhead \/ mainLoop = "protecting"
    BY DEF SoftstartCounts
  <2>1. CASE Tick BY <2>1, TickOf, SoftstartTick
  <2>2. CASE ~Tick
    <3>1. inrush' = inrush \/ mainLoop = "protecting" BY <2>2, OthersKeepCounts DEF Next
    <3>2. inrush' = inrush => SoftstartAhead' = SoftstartAhead BY DEF SoftstartAhead, StepTicks
    <3> QED BY <2>2, <3>1, <3>2
  <2> QED BY <2>1, <2>2
<1> QED BY TypeCorrect, <1>1, SoftstartBounded, PTL DEF Spec
LEMMA OneTickLess ==
  ASSUME NEW p \in 0 .. CounterMod - 1
  PROVE  (p + CounterMod - 1) % CounterMod = IF p = 0 THEN CounterMod - 1 ELSE p - 1
<1>1. CounterMod \in Nat /\ CounterMod > 1 BY DelayAssumption
<1>2. CASE p = 0 BY <1>1, <1>2
<1>3. CASE p # 0
  <2>1. p - 1 \in 0 .. CounterMod - 1 /\ p + CounterMod - 1 = (p - 1) + CounterMod BY <1>1, <1>3
  <2>2. \A q \in 0 .. CounterMod - 1 : (q + CounterMod) % CounterMod = q BY <1>1
  <2> QED BY <1>3, <2>1, <2>2
<1> QED BY <1>2, <1>3

LEMMA DelayBegins ==
  ASSUME TypeOK, TrickleChargeInit, State_Current' = "TrickleChargeDelay"
  PROVE  DelayAhead' = DELAY
<1>1. State_Current = "TrickleChargeInit" BY DEF TrickleChargeInit, In
<1>2. CASE PrestateCounter' = DELAY BY <1>2, DelayAssumption DEF DelayAhead
<1>3. CASE Proceed("ChargeInit")
  <2>1. EndOfTick("ChargeInit", DPMUInitializedFlag, dpmuErrorOcurredFlag)
    BY <1>3 DEF Proceed
  <2>2. State_Current' \in {"ChargeInit"} \cup Diverted(State_Current, DPMUInitializedFlag)
    BY <2>1, EndOfTickLeads DEF TypeOK
  <2>3. Diverted(State_Current, DPMUInitializedFlag) \subseteq {"TrickleChargeInit", "Fault", "ChargeStop"}
    BY <1>1 DEF Diverted, IdleTarget
  <2> QED BY <2>2, <2>3
<1> QED BY <1>2, <1>3 DEF TrickleChargeInit

LEMMA DelayTick ==
  ASSUME TypeOK, TrickleChargeDelay, State_Current' = "TrickleChargeDelay"
  PROVE  DelayAhead' = DelayAhead - 1 \/ (DelayAhead = 1 /\ iopRequest # NoRequest)
<1>1. PrestateCounter \in 0 .. CounterMod - 1 BY DEF TypeOK
<1>2. PrestateCounter' = IF PrestateCounter = 0 THEN CounterMod - 1 ELSE PrestateCounter - 1
  BY <1>1, OneTickLess DEF TrickleChargeDelay
<1>3. CounterMod \in Nat /\ CounterMod > 1 BY DelayAssumption
<1>4. CASE PrestateCounter = 1
  <2>1. DelayAhead = 1 BY <1>4 DEF DelayAhead
  <2>2. State_Current = "TrickleChargeDelay" /\ Proceed("TrickleCharge")
    BY <1>2, <1>4 DEF TrickleChargeDelay, In
  <2>3. EndOfTick("TrickleCharge", DPMUInitializedFlag, dpmuErrorOcurredFlag)
    BY <2>2 DEF Proceed
  <2>4. iopRequest # NoRequest
    <3> SUFFICES ASSUME iopRequest = NoRequest PROVE FALSE OBVIOUS
    <3> QED BY <2>3, TailFollows
  <2> QED BY <2>1, <2>4
<1>5. CASE PrestateCounter # 1
  BY <1>1, <1>2, <1>3, <1>5 DEF DelayAhead
<1> QED BY <1>4, <1>5

(* A delay is never more than CounterMod ticks from its end; it begins DELAY     *)
(* ticks from it, every tick takes one off, and only a request at its last tick  *)
(* lets the counter wrap (TrickleChargeDelay, state_machine.c:150-156).          *)
THEOREM DelayNears == Spec => [](DelayAhead \in 1 .. CounterMod) /\ [][DelayCounts]_vars
<1>1. TypeOK => DelayAhead \in 1 .. CounterMod BY DelayAssumption DEF TypeOK, DelayAhead
<1>2. TypeOK /\ ConverterDiscipline /\ [Next]_vars => [DelayCounts]_vars
  <2> SUFFICES ASSUME TypeOK, ConverterDiscipline, Next, State_Current' = "TrickleChargeDelay"
               PROVE  DelayCounts
    BY DEF DelayCounts
  <2>1. CASE Tick
    <3>1. State_Current \in {"TrickleChargeInit", "TrickleChargeDelay"}
      <4>1. Moves BY <2>1, TickMoves
      <4> QED BY <4>1 DEF Moves, Successors, TypeOK
    <3> QED BY <2>1, <3>1, TickOf, DelayBegins, DelayTick DEF DelayCounts
  <2>2. CASE ~Tick
    <3>1. State_Current = "TrickleChargeDelay" /\ PrestateCounter' = PrestateCounter
      BY <2>2, OthersAreQuiet, OthersKeepCounts DEF Next, Quiet
    <3>2. DelayAhead' = DelayAhead BY <3>1 DEF DelayAhead
    <3> QED BY <2>2, <3>1, <3>2 DEF DelayCounts
  <2> QED BY <2>1, <2>2
<1> QED BY TypeCorrect, Discipline, <1>1, <1>2, PTL DEF Spec
-----------------------------------------------------------------------------
(* The ways to a fault, through it, and to the end of a stop.               *)

(* A raised error waits for at most two ticks: the first goes to Fault with the  *)
(* error still raised, the second leaves everything open and stopped.            *)
ErrorNearsShutdown ==
  dpmuErrorOcurredFlag =>
    /\ ~Tick => dpmuErrorOcurredFlag' /\ State_Current' = State_Current
    /\ Tick /\ State_Current # "Fault" => dpmuErrorOcurredFlag' /\ State_Current' = "Fault"
    /\ Tick /\ State_Current = "Fault" => closed' = {} /\ running' = {}

(* One tick leaves Fault and each state of stopping that waits for no current,   *)
(* unless a request is pending or flag 2 sends it (back) to Fault.               *)
StopsByATick ==
  Tick /\ iopRequest = NoRequest =>
    /\ State_Current \in {"ChargeStop", "RegulateStop"} =>
         State_Current' \in {State_Current, "StopEPWMs", "Fault"}
    /\ State_Current \in {"BalancingStop", "RegulateVoltageStop"} =>
         State_Current' \in {"StopEPWMs", "Fault"}
    /\ State_Current = "StopEPWMs" => State_Current' \in {"Idle", "Fault"}
    /\ State_Current = "Fault" => State_Current' = IF emergency THEN "Fault" ELSE "PreInitialized"

\* Every case but Fault leaves its tail the error as it found it.
LEMMA TailHasError ==
  ASSUME Tick, State_Current # "Fault"
  PROVE  \E n, i : EndOfTick(n, i, dpmuErrorOcurredFlag)
<1>1. ASSUME \E n : Proceed(n) PROVE \E n, i : EndOfTick(n, i, dpmuErrorOcurredFlag)
  BY <1>1 DEF Proceed
<1>2. CASE PreInitialized \/ SoftstartInitDefault \/ SoftstartInitRedundant \/ Idle \/ StopEPWMs
  BY <1>1, <1>2 DEF PreInitialized, SoftstartInitDefault, SoftstartInitRedundant, StartInrush,
                    Idle, StopEPWMs
<1>3. CASE Initialize BY <1>1, <1>3 DEF Initialize
<1>4. CASE Softstart BY <1>1, <1>4 DEF Softstart
<1>5. CASE TrickleChargeInit \/ TrickleChargeDelay \/ TrickleCharge
  BY <1>1, <1>5 DEF TrickleChargeInit, TrickleChargeDelay, TrickleCharge
<1>6. CASE ChargeInit \/ ChargeRamp \/ Charge \/ ChargeStop \/ RegulateStop
  BY <1>1, <1>6 DEF ChargeInit, ChargeRamp, Charge, ChargeStop, RegulateStop, WaitForLowCurrent
<1>7. CASE BalancingInit \/ Balancing \/ BalancingStop
  BY <1>1, <1>7 DEF BalancingInit, Balancing, BalancingStop
<1>8. CASE RegulateInit \/ Regulate BY <1>1, <1>8 DEF RegulateInit, Regulate
<1>9. CASE RegulateVoltageInit \/ RegulateVoltage \/ RegulateVoltageStop
  BY <1>1, <1>9 DEF RegulateVoltageInit, RegulateVoltage, RegulateVoltageStop
<1>10. CASE Fault BY <1>10 DEF Fault, In
<1> QED BY <1>2, <1>3, <1>4, <1>5, <1>6, <1>7, <1>8, <1>9, <1>10 DEF Tick

(* An error that a protection has raised is a shutdown two ticks later, in every *)
(* state and whatever is requested meanwhile (state_machine.c:310-329, 366-368). *)
THEOREM ErrorNears == Spec => [][ErrorNearsShutdown]_vars
<1>1. TypeOK /\ [Next]_vars => [ErrorNearsShutdown]_vars
  <2> SUFFICES ASSUME TypeOK, Next, dpmuErrorOcurredFlag PROVE ErrorNearsShutdown
    BY DEF ErrorNearsShutdown
  <2>1. CASE ~Tick
    BY <2>1, OthersAreQuiet, OthersOpen DEF Next, Quiet, Opens, ErrorNearsShutdown
  <2>2. CASE Tick /\ State_Current # "Fault"
    <3>1. dpmuErrorOcurredFlag' BY <2>2, TickEffects DEF Effects
    <3>2. PICK n, i : EndOfTick(n, i, dpmuErrorOcurredFlag) BY <2>2, TailHasError
    <3>3. State_Current' = "Fault" BY <3>2 DEF EndOfTick
    <3> QED BY <2>2, <3>1, <3>3 DEF ErrorNearsShutdown
  <2>3. CASE Tick /\ State_Current = "Fault"
    BY <2>3, TickEffects DEF Effects, ErrorNearsShutdown
  <2> QED BY <2>1, <2>2, <2>3
<1> QED BY TypeCorrect, <1>1, PTL DEF Spec

(* A stop needs one tick for each of its states once the bank current is low,    *)
(* and a fault one: without a request no tick is spent for nothing               *)
(* (state_machine.c:254-256, 305-335).                                           *)
THEOREM StopsNear == Spec => [][StopsByATick]_vars
<1>1. TypeOK /\ ConverterDiscipline /\ [Next]_vars => [StopsByATick]_vars
  <2> SUFFICES ASSUME ConverterDiscipline, Tick, iopRequest = NoRequest PROVE StopsByATick
    BY DEF StopsByATick
  <2> USE DEF In, Proceed
  <2>1. State_Next \in {State_Current, "Fault"} BY DEF ConverterDiscipline
  <2>2. ASSUME State_Current \in {"ChargeStop", "RegulateStop"}
        PROVE  State_Current' \in {State_Current, "StopEPWMs", "Fault"}
    <3>1. PICK n \in {"StopEPWMs", State_Next} : Proceed(n)
      BY <2>2, TickOf DEF ChargeStop, RegulateStop, WaitForLowCurrent
    <3> QED BY <2>1, <2>2, <3>1, TailFollows
  <2>3. ASSUME State_Current \in {"BalancingStop", "RegulateVoltageStop"}
        PROVE  State_Current' \in {"StopEPWMs", "Fault"}
    <3>1. PICK i : EndOfTick("StopEPWMs", i, dpmuErrorOcurredFlag)
      BY <2>3, TickOf DEF BalancingStop, RegulateVoltageStop
    <3> QED BY <2>3, <3>1, TailFollows
  <2>4. ASSUME State_Current = "StopEPWMs" PROVE State_Current' \in {"Idle", "Fault"}
    <3>1. EndOfTick("Idle", DPMUInitializedFlag, dpmuErrorOcurredFlag)
      BY <2>4, TickOf DEF StopEPWMs
    <3> QED BY <2>4, <3>1, TailFollows
  <2>5. ASSUME State_Current = "Fault"
        PROVE  State_Current' = IF emergency THEN "Fault" ELSE "PreInitialized"
    <3>1. EndOfTick("PreInitialized", FALSE, FALSE) BY <2>5, TickOf DEF Fault
    <3>2. AfterEmergency("PreInitialized", FALSE) = IF emergency THEN "Fault" ELSE "PreInitialized"
      BY DEF AfterEmergency, AfterCommand, NoRequest
    <3>3. \A n : SafeState(State_Current, n) = n BY <2>5 DEF SafeState
    <3> QED BY <3>1, <3>2, <3>3 DEF EndOfTick
  <2> QED BY <2>2, <2>3, <2>4, <2>5 DEF StopsByATick
<1> QED BY TypeCorrect, Discipline, <1>1, PTL DEF Spec

-----------------------------------------------------------------------------
(* The regulation and the DC/DC converter.                                  *)

\* What the flags of EnableOrDisblePWM know of a converter that is driven.
FlagsTell ==
  State_Current = "Regulate" /\ "DCDC" \in running =>
    statics.demand /\ statics.PWMDCDC = "started"

LEMMA FlagsTick == ASSUME TypeOK, ConverterDiscipline, FlagsTell, Tick PROVE FlagsTell'
<1> SUFFICES ASSUME State_Current' = "Regulate", "DCDC" \in running'
             PROVE  statics'.demand /\ statics'.PWMDCDC = "started"
  BY DEF FlagsTell
<1>1. State_Current' \in Successors(State_Current) /\ State_Current \in States
  BY TickMoves DEF Moves, TypeOK
<1>2. State_Current \in {"RegulateInit", "Regulate"}
  BY <1>1 DEF Successors, States, Charging, Regulating, VoltageRegulating, BalancingStates,
              Starting, Stopping
<1>3. State_Current # "RegulateInit"
  BY TickOf DEF RegulateInit
<1>4. PICK demand \in BoostDemands : EnableOrDisblePWM(demand)
  BY <1>2, <1>3, TickOf DEF Regulate
<1>5. statics'.demand = demand /\ statics'.PWMDCDC = IF demand THEN "started" ELSE "stopped"
  BY <1>4 DEF EnableOrDisblePWM, TypeOK, TickStatics
<1>6. demand
  <2>1. SUFFICES ASSUME ~demand PROVE FALSE
    OBVIOUS
  <2>2. statics.PWMDCDC = "stopped" /\ running' = running
    BY <1>4, <2>1 DEF EnableOrDisblePWM
  <2> QED BY <1>2, <1>3, <2>2 DEF FlagsTell
<1> QED BY <1>5, <1>6

(* While a regulation asks for no current the DC/DC converter is tripped, in every   *)
(* session, whatever the flags of EnableOrDisblePWM and the count of samples were left *)
(* at by the sessions before it (state_machine.c:259-270, 624-647).                  *)
THEOREM DriveDemanded == Spec => []NoDemandNoDrive
<1>1. Init => FlagsTell
  BY DEF Init, FlagsTell
<1>2. TypeOK /\ ConverterDiscipline /\ FlagsTell /\ [Next]_vars => FlagsTell'
  <2> SUFFICES ASSUME TypeOK, ConverterDiscipline, FlagsTell, [Next]_vars PROVE FlagsTell'
    OBVIOUS
  <2>1. CASE Tick
    BY <2>1, FlagsTick
  <2>2. CASE ~Tick
    BY <2>2, OthersAreQuiet, OthersKeepCounts DEF Next, Quiet, FlagsTell
  <2> QED BY <2>1, <2>2
<1>3. FlagsTell => NoDemandNoDrive
  BY DEF FlagsTell, NoDemandNoDrive
<1> QED BY TypeCorrect, Discipline, <1>1, <1>2, <1>3, PTL DEF Spec
=============================================================================
