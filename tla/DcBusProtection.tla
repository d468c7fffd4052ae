-------------------------- MODULE DcBusProtection --------------------------
(***************************************************************************)
(* The protections of the DC bus: the eFuse handlers of handle_top_half_    *)
(* interrupts() (dpmu_cpu2/app/src/main.c, DCDC.c) and the handlers of      *)
(* dcbus_check() (dcbus.c, error_handling_CPU2.c), in the order in which    *)
(* one turn of the super loop runs them, with the main state machine        *)
(* ticking between any two of them.                                         *)
(*                                                                          *)
(* Of the main state machine only what the protections see is kept: whether *)
(* it is down, up or in Fault, and the flags it shares with them; module    *)
(* StateMachine is its model.  Of a reading only its place between the      *)
(* limits is kept.                                                          *)
(***************************************************************************)
EXTENDS Naturals

CONSTANTS OVER_WAIT,    \* 1000 ms: an over-voltage or over-current persists
          UNDER_WAIT,   \* 10 ms: time between two looks at an under-voltage
          UNDER_COUNT   \* 100 looks that find the bus above half its minimum

ASSUME WaitAssumption == OVER_WAIT \in Nat /\ UNDER_WAIT \in Nat /\ UNDER_COUNT \in Nat

Fuses == {"Vin", "BB"}
Steps == {"report", "Vin", "BB", "check", "BOV", "BUV", "SC", "LOC", "TEMP"}

VARIABLES
  controller,      \* the main state machine: down, up (from SoftstartInit on), fault
  faultNext,       \* an eFuse handler has put Fault into State_Next
  DPMUInitializedFlag, test_update_of_error_codes, dpmuErrorOcurredFlag,
  occurred,        \* the fuses whose interrupt has not been dealt with
  samples,         \* eFuseVinCounter, eFuseBBCounter
  efuse_top_half_flag,
  stateBOV, stateBUV, stateLOC, stateTemp,
  age,             \* ticks since lastTime of each waiting handler
  BUVWaitCount,
  step,            \* where the super loop stands
  bus, load, hot   \* what the sensors show

shared == <<DPMUInitializedFlag, test_update_of_error_codes, dpmuErrorOcurredFlag>>
tops == <<occurred, samples, efuse_top_half_flag>>
handlers == <<stateBOV, stateBUV, stateLOC, stateTemp, age, BUVWaitCount>>
sensors == <<bus, load, hot>>
vars == <<controller, faultNext, shared, tops, handlers, step, sensors>>

Wait == [BOV |-> OVER_WAIT, LOC |-> OVER_WAIT, BUV |-> UNDER_WAIT]
HandlerStates == {"Init", "Wait", "StopMainStateMachine", "End"}

TypeOK ==
  /\ controller \in {"down", "up", "fault"}
  /\ faultNext \in BOOLEAN
  /\ DPMUInitializedFlag \in BOOLEAN
  /\ test_update_of_error_codes \in BOOLEAN
  /\ dpmuErrorOcurredFlag \in BOOLEAN
  /\ occurred \subseteq Fuses
  /\ samples \in [Fuses -> 0 .. 2]
  /\ efuse_top_half_flag \in BOOLEAN
  /\ {stateBOV, stateBUV, stateLOC} \subseteq HandlerStates
  /\ stateTemp \in {"Init", "Wait"}
  /\ DOMAIN age = DOMAIN Wait /\ \A h \in DOMAIN Wait : age[h] \in 0 .. Wait[h] + 1
  /\ BUVWaitCount \in 0 .. UNDER_COUNT + 1
  /\ step \in Steps
  /\ bus \in {"normal", "over", "under", "collapsed"}
  /\ load \in {"normal", "over", "short"}
  /\ hot \in BOOLEAN

Init ==
  /\ controller = "down"
  /\ faultNext = FALSE
  /\ DPMUInitializedFlag = FALSE
  /\ test_update_of_error_codes = FALSE
  /\ dpmuErrorOcurredFlag = FALSE
  /\ occurred = {}
  /\ samples = [f \in Fuses |-> 0]
  /\ efuse_top_half_flag = FALSE
  /\ stateBOV = "Init" /\ stateBUV = "Init" /\ stateLOC = "Init" /\ stateTemp = "Init"
  /\ age = [h \in DOMAIN Wait |-> 0]
  /\ BUVWaitCount = 0
  /\ step = "report"
  /\ bus = "normal" /\ load = "normal" /\ hot = FALSE

-----------------------------------------------------------------------------
(* The main state machine, one tick at a time.                              *)

\* A pending error turns any transition into Fault.
FaultOr(c) == IF dpmuErrorOcurredFlag THEN "fault" ELSE c

\* The tick in Fault resets what the protections and the controller share.
FaultTick(c) ==
  /\ controller = "fault"
  /\ controller' = c
  /\ DPMUInitializedFlag' = FALSE
  /\ test_update_of_error_codes' = FALSE
  /\ dpmuErrorOcurredFlag' = FALSE

\* The last tick of Initialize switches the protections on, also if a request
\* that came with it turns its transition to c into another one.
StartTick(c) ==
  /\ controller = "down"
  /\ controller' = FaultOr(c)
  /\ test_update_of_error_codes' = TRUE
  /\ UNCHANGED <<DPMUInitializedFlag, dpmuErrorOcurredFlag>>

\* Every other tick.  The initialised flag comes with the end of Softstart and
\* goes with the safe state.
OtherTick(c) ==
  /\ controller # "fault"
  /\ controller' = FaultOr(c)
  /\ DPMUInitializedFlag' \in IF controller = "up" THEN BOOLEAN ELSE {FALSE}
  /\ UNCHANGED <<test_update_of_error_codes, dpmuErrorOcurredFlag>>

AfterTick == faultNext' = FALSE /\ UNCHANGED <<tops, handlers, step, sensors>>

\* A tick without a request.  A Fault that an eFuse handler has put into
\* State_Next may be overwritten by it.
OwnTick ==
  /\ FaultTick("down") \/ StartTick("up") \/ OtherTick(controller) \/ (faultNext /\ OtherTick("fault"))
  /\ AfterTick

\* A tick on which a request of the IOP decides.
RequestedTick ==
  /\ FaultTick("fault") \/ StartTick("down") \/ StartTick("fault") \/ OtherTick("fault")
  /\ AfterTick

Tick == OwnTick \/ RequestedTick

-----------------------------------------------------------------------------
(* handle_top_half_interrupts.                                              *)

At(s, next) == step = s /\ step' = next

\* The interrupt of an eFuse: on the input INT_GLOAD_4_3_TZ_ISR, on the bank
\* INT_eFuseBB_XINT_ISR.
EfuseInterrupt(f) ==
  /\ occurred' = occurred \cup {f}
  /\ UNCHANGED <<controller, faultNext, shared, samples, efuse_top_half_flag,
                 handlers, step, sensors>>

\* Slip: the trip is taken for reported without clearing it.
ReportKeepsFlag ==
  /\ At("report", "Vin")
  /\ UNCHANGED <<controller, faultNext, shared, tops, handlers, sensors>>

\* The trip of the previous turn is reported to CPU1.
Report ==
  /\ At("report", "Vin")
  /\ efuse_top_half_flag' = FALSE
  /\ UNCHANGED <<controller, faultNext, shared, occurred, samples, handlers, sensors>>

\* Two turns sample the current of fuse f, the third one decides on their
\* average; over: it is above the limit.
HandleEfuse(f, next) ==
  /\ At(f, next)
  /\ IF f \notin occurred
     THEN UNCHANGED <<tops, faultNext>>
     ELSE IF samples[f] < 2
     THEN /\ samples' = [samples EXCEPT ![f] = @ + 1]
          /\ UNCHANGED <<occurred, efuse_top_half_flag, faultNext>>
     ELSE /\ samples' = [samples EXCEPT ![f] = 0]
          /\ occurred' = occurred \ {f}
          /\ \E over \in BOOLEAN :
               /\ efuse_top_half_flag' = (efuse_top_half_flag \/ over)
               /\ faultNext' = (faultNext \/ over)
  /\ UNCHANGED <<controller, shared, handlers, sensors>>

handleEfuseVinOccurence == HandleEfuse("Vin", "BB")
handleEFuseBBOccurence == HandleEfuse("BB", "check")

-----------------------------------------------------------------------------
(* dcbus_check.                                                             *)

\* Slip: the protections run only once after a start.
CheckOnce ==
  /\ step = "check"
  /\ step' = IF test_update_of_error_codes THEN "BOV" ELSE "report"
  /\ test_update_of_error_codes' = FALSE
  /\ UNCHANGED <<controller, faultNext, DPMUInitializedFlag, dpmuErrorOcurredFlag,
                 tops, handlers, sensors>>

Check ==
  /\ step = "check"
  /\ step' = IF test_update_of_error_codes THEN "BOV" ELSE "report"
  /\ UNCHANGED <<controller, faultNext, shared, tops, handlers, sensors>>

Elapsed(h) == age[h] > Wait[h]

\* lastTime = timer_get_ticks().
Restart(h) == age' = [age EXCEPT ![h] = 0]

\* Slips: a wait never ends; the stop is never left.
PersistForever(h, s, limit) ==
  CASE s = "Init" -> IF limit THEN "Wait" ELSE s
    [] s = "StopMainStateMachine" -> "End"
    [] s = "End" /\ ~dpmuErrorOcurredFlag -> "Init"
    [] OTHER -> s

PersistStopped(h, s, limit) ==
  CASE s = "Init" -> IF limit THEN "Wait" ELSE s
    [] s = "Wait" /\ Elapsed(h) -> IF limit THEN "StopMainStateMachine" ELSE "Init"
    [] s = "End" /\ ~dpmuErrorOcurredFlag -> "Init"
    [] OTHER -> s

\* The states that over-voltage and over-current have in common: s becomes s'
\* if limit says that the reading is above its limit.
Persist(h, s, limit) ==
  CASE s = "Init" -> IF limit THEN "Wait" ELSE s
    [] s = "Wait" /\ Elapsed(h) -> IF limit THEN "StopMainStateMachine" ELSE "Init"
    [] s = "StopMainStateMachine" -> "End"
    [] s = "End" /\ ~dpmuErrorOcurredFlag -> "Init"
    [] OTHER -> s

Raise(error) == dpmuErrorOcurredFlag' = (dpmuErrorOcurredFlag \/ error)

TouchTime(h, s) ==
  IF s \in {"Init", "StopMainStateMachine"} THEN Restart(h) ELSE UNCHANGED age

HandleDCBusOverVoltage ==
  /\ At("BOV", "BUV")
  /\ stateBOV' = Persist("BOV", stateBOV, bus = "over")
  /\ TouchTime("BOV", stateBOV)
  /\ Raise(stateBOV = "StopMainStateMachine")
  /\ UNCHANGED <<controller, faultNext, DPMUInitializedFlag, test_update_of_error_codes,
                 tops, stateBUV, stateLOC, stateTemp, BUVWaitCount, sensors>>

\* Slip: one look too many.
LookedOnceMore(count) == count > UNDER_COUNT + 1

\* An under-voltage that has not become worse is given up.
LookedEnough(count) == count > UNDER_COUNT

\* The stop of the controller is commented out: this handler raises no error.
HandleDCBusUnderVoltage ==
  /\ At("BUV", "SC")
  /\ CASE stateBUV = "Init" ->
            LET under == DPMUInitializedFlag /\ bus \in {"under", "collapsed"}
            IN /\ stateBUV' = IF under THEN "Wait" ELSE "Init"
               /\ BUVWaitCount' = IF under THEN 0 ELSE BUVWaitCount
               /\ Restart("BUV")
       [] stateBUV = "Wait" /\ Elapsed("BUV") ->
            /\ BUVWaitCount' = IF bus = "collapsed" THEN BUVWaitCount ELSE BUVWaitCount + 1
            /\ stateBUV' = CASE bus = "collapsed" -> "StopMainStateMachine"
                             [] bus # "collapsed" /\ LookedEnough(BUVWaitCount') -> "Init"
                             [] OTHER -> "Wait"
            /\ Restart("BUV")
       [] stateBUV = "StopMainStateMachine" -> stateBUV' = "End" /\ UNCHANGED <<BUVWaitCount, age>>
       [] stateBUV = "End" -> stateBUV' = "Init" /\ UNCHANGED <<BUVWaitCount, age>>
       [] OTHER -> UNCHANGED <<stateBUV, BUVWaitCount, age>>
  /\ UNCHANGED <<controller, faultNext, shared, tops, stateBOV, stateLOC, stateTemp, sensors>>

HandleDCBusShortCircuit ==
  /\ At("SC", "LOC")
  /\ Raise(load = "short" \/ efuse_top_half_flag)
  /\ UNCHANGED <<controller, faultNext, DPMUInitializedFlag, test_update_of_error_codes,
                 tops, handlers, sensors>>

\* A reported trip takes the over-current handler straight to its stop, which
\* it carries out in the next turn.
HandleLoadOverCurrent ==
  /\ At("LOC", "TEMP")
  /\ stateLOC' = IF efuse_top_half_flag THEN "StopMainStateMachine"
                 ELSE Persist("LOC", stateLOC, load # "normal")
  /\ TouchTime("LOC", stateLOC)
  /\ Raise(stateLOC = "StopMainStateMachine")
  /\ UNCHANGED <<controller, faultNext, DPMUInitializedFlag, test_update_of_error_codes,
                 tops, stateBOV, stateBUV, stateTemp, BUVWaitCount, sensors>>

\* This handler only prints.
HandleOverTemperature ==
  /\ At("TEMP", "report")
  /\ stateTemp' = IF hot THEN "Wait" ELSE "Init"
  /\ UNCHANGED <<controller, faultNext, shared, tops, stateBOV, stateBUV, stateLOC,
                 age, BUVWaitCount, sensors>>

SuperLoop ==
  \/ Report \/ handleEfuseVinOccurence \/ handleEFuseBBOccurence \/ Check
  \/ HandleDCBusOverVoltage \/ HandleDCBusUnderVoltage \/ HandleDCBusShortCircuit
  \/ HandleLoadOverCurrent \/ HandleOverTemperature

-----------------------------------------------------------------------------
(* Time and the sensors.                                                    *)

\* One millisecond; only a handler that waits looks at its age.
INT_myCPUTIMER2_ISR ==
  /\ \E h \in DOMAIN Wait :
       /\ [BOV |-> stateBOV, BUV |-> stateBUV, LOC |-> stateLOC][h] = "Wait"
       /\ age[h] <= Wait[h]
  /\ age' = [h \in DOMAIN Wait |->
               IF /\ [BOV |-> stateBOV, BUV |-> stateBUV, LOC |-> stateLOC][h] = "Wait"
                  /\ age[h] <= Wait[h]
               THEN age[h] + 1 ELSE age[h]]
  /\ UNCHANGED <<controller, faultNext, shared, tops, stateBOV, stateBUV, stateLOC,
                 stateTemp, BUVWaitCount, step, sensors>>

Bus(b) == bus' = b /\ UNCHANGED <<load, hot>>
Load(l) == load' = l /\ UNCHANGED <<bus, hot>>
Temperature(t) == hot' = t /\ UNCHANGED <<bus, load>>

Reading ==
  /\ \/ \E b \in {"normal", "over", "under", "collapsed"} : Bus(b)
     \/ \E l \in {"normal", "over", "short"} : Load(l)
     \/ \E t \in BOOLEAN : Temperature(t)
  /\ UNCHANGED <<controller, faultNext, shared, tops, handlers, step>>

Next ==
  \/ Tick \/ SuperLoop \/ INT_myCPUTIMER2_ISR
  \/ \E f \in Fuses : EfuseInterrupt(f)
  \/ Reading

Spec == Init /\ [][Next]_vars
=============================================================================
