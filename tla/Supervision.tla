----------------------------- MODULE Supervision -----------------------------
(***************************************************************************)
(* What CPU1 watches over in its main loop (main.c:220-262) and what it tells   *)
(* the operator (IOP) and CPU2: the temperatures (temperature_sensor.c), the     *)
(* errors of both CPUs, reported by EMCY messages (error_handling.c), and the     *)
(* settings that CPU2 needs for a start and loses by a fault (check_CPU2.c,       *)
(* initialization_app.c).  CPU2 is seen from here: StateMachine without the      *)
(* states between a start and a fault, DcBusProtection by the errors it shows.   *)
(*                                                                         *)
(* An action of CPU1 is what it does between two accesses to what CPU2 writes.  *)
(***************************************************************************)
EXTENDS Integers

CONSTANTS
  Settings,       \* DPMU_Initialization_Vars_t
  MaxTemperature, \* the setting that limits the temperature
  BusErrors,      \* the errors of CPU2 that are reported
  Bank,           \* number of the sensor that is read last, 3 on the board
  Temperatures,   \* what a sensor may show
  Limit           \* temperature_absolute_max_limit, once it is set

ASSUME SettingsAssumption == MaxTemperature \in Settings
ASSUME BankAssumption == Bank \in Nat
ASSUME TemperaturesAssumption == Temperatures \subseteq -128 .. 127 /\ Limit \in Int /\ Limit >= 0

OVER_TEMPERATURE == "OVER_TEMPERATURE"
EXT_PWR_LOSS_OTHER == "EXT_PWR_LOSS_OTHER"
Errors == BusErrors \cup {OVER_TEMPERATURE}

ASSUME ErrorsAssumption == {OVER_TEMPERATURE, EXT_PWR_LOSS_OTHER} \cap BusErrors = {}

Lowest == -10000
Failed == -20000   \* a reading that I2C did not bring
Readings == Temperatures \cup {Failed}

\* A unit that is starting, ready or works is "other", as is Idle, the 0 of the enum.
MainStates == {"PreInitialized", "Initialize", "other", "Fault"}
Turns == {"comm", "temperature", "state", "copy", "settings", "errors"}

VARIABLES
  mainState,      \* sharedVars_cpu2toCpu1.current_state
  error_code,     \* sharedVars_cpu2toCpu1.error_code
  startRequest,   \* IPC_IOP_REQUEST_CHANGE_OF_STATE with Initialize
  turn,           \* where CPU1 is in its main loop
  DPMUAppInfoInitialized, DPMUAppInfoInitializedFlag,
  lastState,      \* last_read_values.current_state
  sensorNumber, errorI2CFlag, reading, maxTemperature, temperatureHotPoint,
  error_code_CPU1, global_error_code, handled, sent,
  message_sent,   \* of error_no_error
  temperatureMaxLimitReachedFlag,
  open            \* per error, EMCYs that set it minus those that clear it

cpu2 == <<mainState, error_code>>
settings == <<DPMUAppInfoInitialized, DPMUAppInfoInitializedFlag>>
sensors == <<sensorNumber, errorI2CFlag, reading, maxTemperature, temperatureHotPoint,
             error_code_CPU1>>
reports == <<global_error_code, handled, sent, message_sent,
             temperatureMaxLimitReachedFlag, open>>
vars == <<cpu2, startRequest, turn, settings, lastState, sensors, reports>>

TypeOK ==
  /\ mainState \in MainStates /\ error_code \subseteq BusErrors
  /\ startRequest \in BOOLEAN
  /\ turn \in Turns
  /\ DPMUAppInfoInitialized \subseteq Settings /\ DPMUAppInfoInitializedFlag \in BOOLEAN
  /\ lastState \in MainStates
  /\ sensorNumber \in 0 .. Bank + 1 /\ errorI2CFlag \in BOOLEAN
  /\ reading \in Readings
  /\ maxTemperature \in Temperatures \cup {Lowest}
  /\ temperatureHotPoint \in Temperatures \cup {0}
  /\ error_code_CPU1 \subseteq {OVER_TEMPERATURE}
  /\ global_error_code \subseteq Errors \cup {EXT_PWR_LOSS_OTHER}
  /\ handled \subseteq Errors /\ sent \subseteq Errors
  /\ message_sent \in BOOLEAN /\ temperatureMaxLimitReachedFlag \in BOOLEAN
  /\ open \in [Errors -> Int]

Init ==
  /\ mainState = "PreInitialized" /\ error_code = {}
  /\ startRequest = FALSE
  /\ turn = "comm"
  /\ DPMUAppInfoInitialized = {} /\ DPMUAppInfoInitializedFlag = FALSE
  /\ lastState = "other"
  /\ sensorNumber = 0 /\ errorI2CFlag = FALSE /\ reading = Failed
  /\ maxTemperature = Lowest /\ temperatureHotPoint = 0
  /\ error_code_CPU1 = {}
  /\ global_error_code = {} /\ handled = {} /\ sent = {}
  /\ message_sent = FALSE /\ temperatureMaxLimitReachedFlag = FALSE
  /\ open = [e \in Errors |-> 0]

-----------------------------------------------------------------------------
(* coCommTask: what the IOP writes.                                         *)

\* CheckDPMUAppInfoInitializeVars.
Download(idx) ==
  /\ turn = "comm"
  /\ DPMUAppInfoInitialized' = DPMUAppInfoInitialized \cup {idx}
  /\ DPMUAppInfoInitializedFlag' = (DPMUAppInfoInitialized' = Settings)
  /\ UNCHANGED <<cpu2, startRequest, turn, lastState, sensors, reports>>

RequestStart ==
  /\ turn = "comm"
  /\ startRequest' = TRUE
  /\ UNCHANGED <<cpu2, turn, settings, lastState, sensors, reports>>

EndOfComm ==
  /\ turn = "comm"
  /\ turn' = "temperature"
  /\ UNCHANGED <<cpu2, startRequest, settings, lastState, sensors, reports>>

-----------------------------------------------------------------------------
(* readAlltemperatures.                                                     *)

Hotter(r) == IF r \in Temperatures /\ r > maxTemperature THEN r ELSE maxTemperature

ReadSensor(r) ==
  /\ sensorNumber < Bank
  /\ reading' = r
  /\ maxTemperature' = Hotter(r)
  /\ errorI2CFlag' = (errorI2CFlag \/ r = Failed)
  /\ sensorNumber' = sensorNumber + 1
  /\ UNCHANGED temperatureHotPoint

\* Slip: the maximum of a round goes into the next one.
ReadBankKeepingMax(r) ==
  /\ sensorNumber = Bank
  /\ reading' = r
  /\ errorI2CFlag' = (errorI2CFlag \/ r = Failed)
  /\ sensorNumber' = IF errorI2CFlag' THEN Bank + 1 ELSE 0
  /\ IF r = Failed
     THEN UNCHANGED <<maxTemperature, temperatureHotPoint>>
     ELSE temperatureHotPoint' = Hotter(r) /\ maxTemperature' = Hotter(r)

\* The last sensor closes a round, unless it fails.
ReadBank(r) ==
  /\ sensorNumber = Bank
  /\ reading' = r
  /\ errorI2CFlag' = (errorI2CFlag \/ r = Failed)
  /\ sensorNumber' = IF errorI2CFlag' THEN Bank + 1 ELSE 0
  /\ IF r = Failed
     THEN UNCHANGED <<maxTemperature, temperatureHotPoint>>
     ELSE temperatureHotPoint' = Hotter(r) /\ maxTemperature' = Lowest

\* Slip: on to a sensor that is not there.
CheckBusOn ==
  /\ sensorNumber = Bank + 1
  /\ sensorNumber' = sensorNumber + 1
  /\ errorI2CFlag' \in {errorI2CFlag, FALSE}
  /\ UNCHANGED <<reading, maxTemperature, temperatureHotPoint>>

\* A bus that is busy or has not stopped leaves the flag set.
CheckBus ==
  /\ sensorNumber = Bank + 1
  /\ sensorNumber' = 0
  /\ errorI2CFlag' \in {errorI2CFlag, FALSE}
  /\ UNCHANGED <<reading, maxTemperature, temperatureHotPoint>>

ReadAllTemperatures ==
  /\ turn = "temperature"
  /\ turn' = "state"
  /\ (\E r \in Readings : ReadSensor(r) \/ ReadBank(r)) \/ CheckBus
  /\ error_code_CPU1' =
       IF MaxTemperature \in DPMUAppInfoInitialized
       THEN IF temperatureHotPoint' > Limit THEN {OVER_TEMPERATURE} ELSE {}
       ELSE error_code_CPU1
  /\ UNCHANGED <<cpu2, startRequest, settings, lastState, reports>>

\* The two seconds are not over.
NotYet ==
  /\ turn = "temperature"
  /\ turn' = "state"
  /\ UNCHANGED <<cpu2, startRequest, settings, lastState, sensors, reports>>

-----------------------------------------------------------------------------
(* check_current_state reads the state of CPU2 to compare it and again to copy it. *)

CompareState ==
  /\ turn = "state"
  /\ turn' = IF lastState # mainState THEN "copy" ELSE "errors"
  /\ UNCHANGED <<cpu2, startRequest, settings, lastState, sensors, reports>>

\* Slip: CPU2 is not told that it needs new settings.
CopyStateQuietly ==
  /\ turn = "copy"
  /\ lastState' = mainState
  /\ turn' = IF mainState = "Fault" THEN "settings" ELSE "errors"
  /\ UNCHANGED <<cpu2, startRequest, settings, sensors, reports>>

\* With the first half of ResetDPMUAppInfoInitializeVars, which CPU2 sees.
CopyState ==
  /\ turn = "copy"
  /\ lastState' = mainState
  /\ IF mainState = "Fault"
     THEN turn' = "settings" /\ DPMUAppInfoInitializedFlag' = FALSE
     ELSE turn' = "errors" /\ UNCHANGED DPMUAppInfoInitializedFlag
  /\ UNCHANGED <<cpu2, startRequest, DPMUAppInfoInitialized, sensors, reports>>

ResetSettings ==
  /\ turn = "settings"
  /\ DPMUAppInfoInitialized' = {}
  /\ turn' = "errors"
  /\ UNCHANGED <<cpu2, startRequest, DPMUAppInfoInitializedFlag, lastState, sensors, reports>>

-----------------------------------------------------------------------------
(* error_check_for_errors.                                                  *)

\* Slip: an error that is gone stays handled.
HandleOnce(codes) ==
  /\ open' = [e \in Errors |-> open[e] + (IF e \in codes \ handled THEN 1 ELSE 0)
                                     - (IF e \in sent \ codes THEN 1 ELSE 0)]
  /\ handled' = handled \cup (codes \cap Errors)
  /\ sent' = (sent \cap codes) \cup ((codes \cap Errors) \ handled)

\* Each error has a handler of its own: an EMCY when it comes, one when it goes.
Handle(codes) ==
  /\ open' = [e \in Errors |-> open[e] + (IF e \in codes \ handled THEN 1 ELSE 0)
                                     - (IF e \in sent \ codes THEN 1 ELSE 0)]
  /\ handled' = codes \cap Errors
  /\ sent' = (sent \cap codes) \cup ((codes \cap Errors) \ handled)

TellCpu2(codes) ==
  temperatureMaxLimitReachedFlag' =
    (OVER_TEMPERATURE \in codes \ handled
     \/ (temperatureMaxLimitReachedFlag /\ OVER_TEMPERATURE \notin sent \ codes))

error_check_for_errors ==
  /\ turn = "errors"
  /\ turn' = "comm"
  /\ global_error_code' = {EXT_PWR_LOSS_OTHER} \cup error_code \cup error_code_CPU1
  /\ Handle(global_error_code')
  /\ TellCpu2(global_error_code')
  /\ message_sent' = (global_error_code' = {} /\ handled' = {} /\ sent' = {})
  /\ UNCHANGED <<cpu2, startRequest, settings, lastState, sensors>>

-----------------------------------------------------------------------------
(* CPU2.                                                                    *)

\* A tick takes the request, wherever the machine is.
Tick ==
  /\ startRequest' = FALSE
  /\ \/ /\ mainState = "PreInitialized"
        /\ mainState' \in {IF startRequest THEN "Initialize" ELSE "PreInitialized", "Fault"}
     \/ /\ mainState = "Initialize"
        /\ mainState' \in {IF DPMUAppInfoInitializedFlag THEN "other" ELSE "PreInitialized",
                           "Initialize", "Fault"}
     \/ /\ mainState = "other"
        /\ mainState' \in {"other", "Fault"}
     \/ /\ mainState = "Fault"
        /\ mainState' \in {"PreInitialized", "Fault"}
  /\ UNCHANGED <<error_code, turn, settings, lastState, sensors, reports>>

\* The protections run from the start to the fault.
Protect(e) ==
  /\ mainState = "other"
  /\ error_code' \in {error_code \cup {e}, error_code \ {e}}
  /\ UNCHANGED <<mainState, startRequest, turn, settings, lastState, sensors, reports>>

-----------------------------------------------------------------------------
Check == CompareState \/ CopyState \/ ResetSettings

Next ==
  \/ \E idx \in Settings : Download(idx)
  \/ RequestStart \/ EndOfComm
  \/ ReadAllTemperatures \/ NotYet
  \/ Check
  \/ error_check_for_errors
  \/ Tick
  \/ \E e \in BusErrors : Protect(e)

\* The IOP falls silent now and then, the loop goes round, time passes.
Fairness ==
  /\ WF_vars(EndOfComm) /\ WF_vars(NotYet \/ ReadAllTemperatures)
  /\ WF_vars(Check) /\ WF_vars(error_check_for_errors)
  /\ SF_vars(ReadAllTemperatures)

Spec == Init /\ [][Next]_vars /\ Fairness

-----------------------------------------------------------------------------
(* What the IOP has heard of an error and not heard to be gone is what CPU1 saw in  *)
(* its last pass: each error is announced once and cleared once, as often as it     *)
(* comes and goes, and CPU2 is told of the temperature what the IOP is told           *)
(* (error_handling.c:105-297).                                                     *)
OpenIsTrue ==
  /\ \A e \in Errors : open[e] = IF e \in global_error_code THEN 1 ELSE 0
  /\ temperatureMaxLimitReachedFlag <=> open[OVER_TEMPERATURE] = 1

(* CPU2 starts only with all settings written since CPU1 has last seen it in Fault,     *)
(* whenever between the ticks CPU1 looks and clears them (initialization_app.c:18-42,    *)
(* check_CPU2.c:72-95, state_machine.c:79).                                          *)
StartsWithSettings ==
  [][mainState = "Initialize" /\ mainState' = "other" => DPMUAppInfoInitialized = Settings]_vars

\* From some time on, every reading of sensor s is in T.
Shows(s, T) == <>[][sensorNumber = s /\ sensorNumber' # s => reading' \in T]_vars

TooHot == {t \in Temperatures : t > Limit}

OverTemperatureKnown == temperatureMaxLimitReachedFlag /\ open[OVER_TEMPERATURE] = 1

(* While the bank sensor answers and the limit is set, one sensor that stays too hot   *)
(* is reported for good, whatever the others do or fail to do, and a unit that has       *)
(* cooled down is in the end reported so (temperature_sensor.c:385-494,                 *)
(* error_handling.c:265-297).                                                       *)
TemperatureSettles ==
  Shows(Bank, Temperatures) /\ <>[](MaxTemperature \in DPMUAppInfoInitialized) =>
    /\ \A s \in 0 .. Bank : Shows(s, TooHot) => <>[]OverTemperatureKnown
    /\ (\A s \in 0 .. Bank : Shows(s, Readings \ TooHot)) => <>[]~OverTemperatureKnown

(* "check if there are any errors if not, send EMCY OK" (error_handling.c:444-445):    *)
(* when no CPU has an error any more, the IOP is told.                               *)
AllClearSent == <>[](error_code = {} /\ error_code_CPU1 = {}) => <>message_sent
=============================================================================
