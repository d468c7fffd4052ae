------------------------- MODULE Supervision_proofs -------------------------
(***************************************************************************)
(* Proofs about Supervision, for any settings, errors, number of sensors and  *)
(* temperatures: its types, what the IOP and CPU2 are told of the errors, that  *)
(* CPU2 starts with its settings, and how a temperature comes to be reported.   *)
(***************************************************************************)
EXTENDS Supervision, TLAPS

\* Between two passes an error is handled and sent if the last pass has seen it.
HandledIsSeen ==
  /\ handled = global_error_code \cap Errors
  /\ sent = handled

\* The flag that CPU2 reads is down before the first setting is forgotten.
FlagIsTrue ==
  /\ DPMUAppInfoInitializedFlag => DPMUAppInfoInitialized = Settings
  /\ turn = "settings" => ~DPMUAppInfoInitializedFlag

IInv == TypeOK /\ HandledIsSeen /\ OpenIsTrue /\ FlagIsTrue

THEOREM Initially == Init => IInv
<1> SUFFICES ASSUME Init PROVE IInv
  OBVIOUS
<1>1. TypeOK
  <2>1. sensorNumber \in 0 .. Bank + 1
    BY BankAssumption DEF Init
  <2>2. open \in [Errors -> Int]
    BY DEF Init
  <2> QED
    BY <2>1, <2>2 DEF Init, TypeOK, MainStates, Turns, Readings
<1>2. OpenIsTrue
  <2>1. OVER_TEMPERATURE \in Errors
    BY DEF Errors
  <2> QED
    BY <2>1 DEF Init, OpenIsTrue
<1>3. HandledIsSeen /\ FlagIsTrue
  BY DEF Init, HandledIsSeen, FlagIsTrue
<1> QED
  BY <1>1, <1>2, <1>3 DEF IInv

-----------------------------------------------------------------------------
(* The readings.                                                            *)

LEMMA HotterType ==
  ASSUME TypeOK, NEW r \in Readings
  PROVE  /\ Hotter(r) \in Temperatures \cup {Lowest}
         /\ r # Failed => Hotter(r) \in Temperatures
<1>1. Temperatures \subseteq Int /\ \A t \in Temperatures : t > Lowest /\ t # Failed
  BY TemperaturesAssumption DEF Lowest, Failed
<1> QED
  BY <1>1 DEF Hotter, TypeOK, Readings, Lowest, Failed

LEMMA ReadingsType ==
  ASSUME TypeOK, (\E r \in Readings : ReadSensor(r) \/ ReadBank(r)) \/ CheckBus
  PROVE  /\ sensorNumber' \in 0 .. Bank + 1 /\ errorI2CFlag' \in BOOLEAN
         /\ reading' \in Readings
         /\ maxTemperature' \in Temperatures \cup {Lowest}
         /\ temperatureHotPoint' \in Temperatures \cup {0}
<1>1. ASSUME NEW r \in Readings, ReadSensor(r)
      PROVE  /\ sensorNumber' \in 0 .. Bank + 1 /\ errorI2CFlag' \in BOOLEAN
             /\ reading' \in Readings
             /\ maxTemperature' \in Temperatures \cup {Lowest}
             /\ temperatureHotPoint' \in Temperatures \cup {0}
  BY <1>1, HotterType, BankAssumption DEF TypeOK, ReadSensor
<1>2. ASSUME NEW r \in Readings, ReadBank(r)
      PROVE  /\ sensorNumber' \in 0 .. Bank + 1 /\ errorI2CFlag' \in BOOLEAN
             /\ reading' \in Readings
             /\ maxTemperature' \in Temperatures \cup {Lowest}
             /\ temperatureHotPoint' \in Temperatures \cup {0}
  BY <1>2, HotterType, BankAssumption DEF TypeOK, ReadBank
<1>3. CASE CheckBus
  <2>1. errorI2CFlag' \in BOOLEAN
    BY <1>3, Zenon DEF TypeOK, CheckBus
  <2>2. sensorNumber' \in 0 .. Bank + 1
    BY <1>3, BankAssumption DEF CheckBus
  <2> QED
    BY <1>3, <2>1, <2>2 DEF TypeOK, CheckBus
<1> QED
  BY <1>1, <1>2, <1>3

LEMMA ReadingKeepsIInv == ASSUME IInv, ReadAllTemperatures PROVE IInv'
<1>1. TypeOK'
  <2>1. /\ sensorNumber' \in 0 .. Bank + 1 /\ errorI2CFlag' \in BOOLEAN
        /\ reading' \in Readings
        /\ maxTemperature' \in Temperatures \cup {Lowest}
        /\ temperatureHotPoint' \in Temperatures \cup {0}
    BY ReadingsType DEF IInv, ReadAllTemperatures
  <2>2. error_code_CPU1' \subseteq {OVER_TEMPERATURE}
    BY DEF IInv, TypeOK, ReadAllTemperatures
  <2> QED
    BY <2>1, <2>2 DEF IInv, TypeOK, ReadAllTemperatures, cpu2, settings, reports, Turns
<1>2. HandledIsSeen' /\ OpenIsTrue' /\ FlagIsTrue'
  BY DEF IInv, HandledIsSeen, OpenIsTrue, FlagIsTrue, ReadAllTemperatures, settings, reports
<1> QED
  BY <1>1, <1>2 DEF IInv

-----------------------------------------------------------------------------
(* The pass over the errors.                                                *)

LEMMA PassKeepsIInv == ASSUME IInv, error_check_for_errors PROVE IInv'
<1> DEFINE codes == global_error_code'
<1>1. /\ codes = {EXT_PWR_LOSS_OTHER} \cup error_code \cup error_code_CPU1
      /\ Handle(codes) /\ TellCpu2(codes)
  BY DEF error_check_for_errors
<1>2. codes \subseteq Errors \cup {EXT_PWR_LOSS_OTHER}
  BY <1>1 DEF IInv, TypeOK, Errors
<1> HIDE DEF codes
<1>3. HandledIsSeen'
  <2>1. handled' = codes \cap Errors
    BY <1>1 DEF Handle
  <2>2. sent' = handled'
    BY <1>1, <2>1 DEF Handle, IInv, HandledIsSeen
  <2> QED
    BY <2>1, <2>2 DEF HandledIsSeen, codes
<1>4. ASSUME NEW e \in Errors
      PROVE  open'[e] = IF e \in codes THEN 1 ELSE 0
  <2>1. open[e] = IF e \in global_error_code THEN 1 ELSE 0
    BY DEF IInv, OpenIsTrue
  <2>2. (e \in handled <=> e \in global_error_code) /\ (e \in sent <=> e \in global_error_code)
    BY DEF IInv, HandledIsSeen
  <2>3. open'[e] = open[e] + (IF e \in codes \ handled THEN 1 ELSE 0)
                            - (IF e \in sent \ codes THEN 1 ELSE 0)
    BY <1>1 DEF Handle
  <2> QED
    BY <2>1, <2>2, <2>3
<1>5. OpenIsTrue'
  <2>1. OVER_TEMPERATURE \in Errors
    BY DEF Errors
  <2>2. open'[OVER_TEMPERATURE] = IF OVER_TEMPERATURE \in codes THEN 1 ELSE 0
    BY <1>4, <2>1
  <2>3. temperatureMaxLimitReachedFlag <=> OVER_TEMPERATURE \in global_error_code
    BY <2>1 DEF IInv, OpenIsTrue
  <2>4. (OVER_TEMPERATURE \in handled <=> OVER_TEMPERATURE \in global_error_code)
        /\ (OVER_TEMPERATURE \in sent <=> OVER_TEMPERATURE \in global_error_code)
    BY <2>1 DEF IInv, HandledIsSeen
  <2>5. temperatureMaxLimitReachedFlag' <=> OVER_TEMPERATURE \in codes
    BY <1>1, <2>3, <2>4 DEF TellCpu2
  <2>6. \A e \in Errors : open'[e] = IF e \in global_error_code' THEN 1 ELSE 0
    BY <1>4 DEF codes
  <2> QED
    BY <2>2, <2>5, <2>6 DEF OpenIsTrue
<1>6. TypeOK'
  <2>1. handled' \subseteq Errors /\ sent' \subseteq Errors
    BY <1>3 DEF HandledIsSeen
  <2>2. message_sent' \in BOOLEAN /\ turn' \in Turns
    BY DEF error_check_for_errors, Turns
  <2>3. temperatureMaxLimitReachedFlag' \in BOOLEAN
    BY <1>1 DEF TellCpu2, IInv, TypeOK
  <2>4. open' \in [Errors -> Int]
    <3>1. open' = [e \in Errors |-> open'[e]]
      BY <1>1 DEF Handle
    <3> QED
      BY <1>4, <3>1
  <2> QED
    BY <1>2, <2>1, <2>2, <2>3, <2>4
       DEF IInv, TypeOK, error_check_for_errors, cpu2, settings, sensors, codes
<1>7. FlagIsTrue'
  BY DEF IInv, FlagIsTrue, error_check_for_errors, settings
<1> QED
  BY <1>3, <1>5, <1>6, <1>7 DEF IInv

-----------------------------------------------------------------------------
LEMMA StepKeepsIInv == ASSUME IInv, [Next]_vars PROVE IInv'
<1> USE DEF IInv, HandledIsSeen, OpenIsTrue, FlagIsTrue
<1>1. ASSUME NEW idx \in Settings, Download(idx) PROVE IInv'
  BY <1>1 DEF TypeOK, Download, cpu2, sensors, reports
<1>2. CASE RequestStart
  BY <1>2 DEF TypeOK, RequestStart, cpu2, settings, sensors, reports
<1>3. CASE EndOfComm
  BY <1>3 DEF TypeOK, EndOfComm, Turns, cpu2, settings, sensors, reports
<1>4. CASE ReadAllTemperatures
  BY <1>4, ReadingKeepsIInv
<1>5. CASE NotYet
  BY <1>5 DEF TypeOK, NotYet, Turns, cpu2, settings, sensors, reports
<1>6. CASE CompareState
  BY <1>6 DEF TypeOK, CompareState, Turns, cpu2, settings, sensors, reports
<1>7. CASE CopyState
  BY <1>7 DEF TypeOK, CopyState, Turns, cpu2, sensors, reports
<1>8. CASE ResetSettings
  BY <1>8 DEF TypeOK, ResetSettings, Turns, cpu2, sensors, reports
<1>9. CASE error_check_for_errors
  BY <1>9, PassKeepsIInv
<1>10. CASE Tick
  <2>1. /\ startRequest' = FALSE
        /\ UNCHANGED <<error_code, turn, settings, lastState, sensors, reports>>
    BY <1>10 DEF Tick
  <2>2. mainState' \in MainStates
    BY <1>10, Zenon DEF Tick, MainStates
  <2>3. TypeOK'
    BY <2>1, <2>2 DEF TypeOK, settings, sensors, reports
  <2>4. HandledIsSeen' /\ OpenIsTrue' /\ FlagIsTrue'
    BY <2>1 DEF settings, reports
  <2> QED BY <2>3, <2>4
<1>11. ASSUME NEW e \in BusErrors, Protect(e) PROVE IInv'
  BY <1>11 DEF TypeOK, Protect, settings, sensors, reports
<1>12. CASE UNCHANGED vars
  BY <1>12 DEF TypeOK, vars, cpu2, settings, sensors, reports
<1> QED
  BY <1>1, <1>2, <1>3, <1>4, <1>5, <1>6, <1>7, <1>8, <1>9, <1>10, <1>11, <1>12 DEF Next, Check

(* The inductive invariant holds in every reachable state.                    *)
THEOREM Invariance == Spec => []IInv
<1>1. Init => IInv
  BY Initially
<1>2. IInv /\ [Next]_vars => IInv'
  BY StepKeepsIInv
<1> QED
  BY <1>1, <1>2, PTL DEF Spec

(* Every reachable state is well typed.                                      *)
THEOREM TypeCorrect == Spec => []TypeOK
<1>1. IInv => TypeOK
  BY DEF IInv
<1> QED
  BY <1>1, Invariance, PTL

(* The IOP and CPU2 have heard of every error what CPU1 saw in its last pass       *)
(* (error_handling.c:105-297).                                                *)
THEOREM ReportsTrue == Spec => []OpenIsTrue
<1>1. IInv => OpenIsTrue
  BY DEF IInv
<1> QED
  BY <1>1, Invariance, PTL

(* A start has every setting written since the last fault that CPU1 has seen        *)
(* (initialization_app.c:18-42).                                              *)
THEOREM StartsHaveSettings == Spec => StartsWithSettings
<1>1. ASSUME IInv, [Next]_vars, mainState = "Initialize" /\ mainState' = "other"
      PROVE  DPMUAppInfoInitialized = Settings
  <2>1. Tick
    BY <1>1 DEF Next, vars, Download, RequestStart, EndOfComm, ReadAllTemperatures, NotYet,
                Check, CompareState, CopyState, ResetSettings, error_check_for_errors, Protect, cpu2
  <2> QED
    BY <1>1, <2>1 DEF Tick, IInv, FlagIsTrue
<1>2. IInv /\ [Next]_vars =>
        [mainState = "Initialize" /\ mainState' = "other" => DPMUAppInfoInitialized = Settings]_vars
  BY <1>1
<1> QED
  BY <1>2, Invariance, PTL DEF Spec, StartsWithSettings
-----------------------------------------------------------------------------
(* How near a report of the temperature is: the safety half of               *)
(* TemperatureSettles.                                                       *)

\* The limit is set, and what sensor s shows, when it is read, is in T.
Told(s, T) ==
  /\ MaxTemperature \in DPMUAppInfoInitialized
  /\ sensorNumber = s /\ sensorNumber' # s => reading' \in T

\* The last sensor answers, and a round ends.
BankAnswers == sensorNumber = Bank /\ sensorNumber' # Bank /\ reading' \in Temperatures

\* What sensor s has shown is not lost before the round ends.
Carried(s) == sensorNumber \in s + 1 .. Bank => maxTemperature > Limit

HotStage(s) ==
  IF ~Carried(s) THEN 0
  ELSE IF ~(temperatureHotPoint > Limit /\ error_code_CPU1 = {OVER_TEMPERATURE}) THEN 1
  ELSE IF ~OverTemperatureKnown THEN 2 ELSE 3

ClearedKnown == ~temperatureMaxLimitReachedFlag /\ open[OVER_TEMPERATURE] = 0

CoolStage ==
  IF maxTemperature > Limit THEN 0
  ELSE IF ~(temperatureHotPoint <= Limit /\ error_code_CPU1 = {}) THEN 1
  ELSE IF ~ClearedKnown THEN 2 ELSE 3

\* The stages are left one way only, by the end of a round and by a pass over the errors.
Rises(before, after) ==
  /\ after >= before
  /\ BankAnswers => after >= 1 /\ (before >= 1 => after >= 2)
  /\ before = 2 /\ error_check_for_errors => after = 3

HotRises(s) == Told(s, TooHot) => Rises(HotStage(s), HotStage(s)')
CoolRises ==
  (\A s \in 0 .. Bank : Told(s, Readings \ TooHot)) => Rises(CoolStage, CoolStage')

LEMMA Numbers ==
  /\ Limit \in Int /\ Lowest \in Int /\ Lowest < Limit /\ Bank \in Nat
  /\ \A t \in Temperatures : t \in Int /\ t > Lowest /\ t # Failed
  BY TemperaturesAssumption, BankAssumption DEF Lowest, Failed

\* Only a reading that ends touches what the sensors have shown.
LEMMA Quiet ==
  ASSUME [Next]_vars, ~ReadAllTemperatures
  PROVE  UNCHANGED <<sensorNumber, maxTemperature, temperatureHotPoint, error_code_CPU1>>
  BY DEF Next, vars, sensors, Download, RequestStart, EndOfComm, NotYet, Check, CompareState,
     CopyState, ResetSettings, error_check_for_errors, Tick, Protect

\* Only a pass over the errors touches what is reported.
LEMMA Unreported ==
  ASSUME [Next]_vars, ~error_check_for_errors
  PROVE  UNCHANGED <<temperatureMaxLimitReachedFlag, open>>
  BY DEF Next, vars, reports, Download, RequestStart, EndOfComm, ReadAllTemperatures, NotYet, Check,
     CompareState, CopyState, ResetSettings, Tick, Protect

\* A pass reports the error of the temperature as CPU1 has it.
LEMMA PassReports ==
  ASSUME IInv, IInv', error_check_for_errors
  PROVE  /\ error_code_CPU1 = {OVER_TEMPERATURE} => OverTemperatureKnown'
         /\ error_code_CPU1 = {} => ClearedKnown'
<1>1. OVER_TEMPERATURE \in Errors /\ OVER_TEMPERATURE \notin BusErrors
      /\ OVER_TEMPERATURE # EXT_PWR_LOSS_OTHER
  BY ErrorsAssumption DEF Errors, OVER_TEMPERATURE, EXT_PWR_LOSS_OTHER
<1>2. open'[OVER_TEMPERATURE] = IF OVER_TEMPERATURE \in global_error_code' THEN 1 ELSE 0
  BY <1>1 DEF IInv, OpenIsTrue
<1>3. temperatureMaxLimitReachedFlag' <=> open'[OVER_TEMPERATURE] = 1
  BY DEF IInv, OpenIsTrue
<1>4. OVER_TEMPERATURE \in global_error_code' <=> OVER_TEMPERATURE \in error_code_CPU1
  BY <1>1 DEF error_check_for_errors, IInv, TypeOK
<1>5. CASE error_code_CPU1 = {OVER_TEMPERATURE}
  <2>1. open'[OVER_TEMPERATURE] = 1 /\ error_code_CPU1 # {}
    BY <1>2, <1>4, <1>5
  <2> QED
    BY <1>3, <2>1 DEF OverTemperatureKnown
<1>6. CASE error_code_CPU1 # {OVER_TEMPERATURE}
  <2>1. error_code_CPU1 = {} => open'[OVER_TEMPERATURE] = 0
    BY <1>2, <1>4
  <2> QED
    BY <1>3, <1>6, <2>1 DEF ClearedKnown
<1> QED
  BY <1>5, <1>6

\* A reading is that of a sensor before the bank, that of the bank, or none.
LEMMA ReadingKinds ==
  ASSUME IInv, ReadAllTemperatures, MaxTemperature \in DPMUAppInfoInitialized
  PROVE  /\ error_code_CPU1' = IF temperatureHotPoint' > Limit THEN {OVER_TEMPERATURE} ELSE {}
         /\ \/ /\ sensorNumber < Bank /\ sensorNumber' = sensorNumber + 1
               /\ reading' \in Readings /\ maxTemperature' = Hotter(reading')
               /\ UNCHANGED temperatureHotPoint
            \/ /\ sensorNumber = Bank /\ sensorNumber' \in {0, Bank + 1}
               /\ reading' \in Temperatures
               /\ temperatureHotPoint' = Hotter(reading') /\ maxTemperature' = Lowest
            \/ /\ sensorNumber = Bank /\ sensorNumber' = Bank + 1
               /\ reading' = Failed
               /\ UNCHANGED <<maxTemperature, temperatureHotPoint>>
            \/ /\ sensorNumber = Bank + 1 /\ sensorNumber' = 0
               /\ UNCHANGED <<reading, maxTemperature, temperatureHotPoint>>
<1>1. CASE CheckBus
  BY <1>1 DEF ReadAllTemperatures, CheckBus
<1>2. ASSUME NEW r \in Readings, ReadSensor(r)
      PROVE  /\ sensorNumber < Bank /\ sensorNumber' = sensorNumber + 1
             /\ reading' \in Readings /\ maxTemperature' = Hotter(reading')
             /\ UNCHANGED temperatureHotPoint
  BY <1>2 DEF ReadSensor
<1>3. ASSUME NEW r \in Readings, ReadBank(r)
      PROVE  \/ /\ sensorNumber = Bank /\ sensorNumber' \in {0, Bank + 1}
                /\ reading' \in Temperatures
                /\ temperatureHotPoint' = Hotter(reading') /\ maxTemperature' = Lowest
             \/ /\ sensorNumber = Bank /\ sensorNumber' = Bank + 1
                /\ reading' = Failed
                /\ UNCHANGED <<maxTemperature, temperatureHotPoint>>
  BY <1>3 DEF ReadBank, Readings
<1> QED
  BY <1>1, <1>2, <1>3 DEF ReadAllTemperatures

\* The warmest reading so far is among those that Hotter keeps.
LEMMA HotterIs ==
  ASSUME IInv, NEW r \in Readings
  PROVE  /\ Hotter(r) \in Int /\ maxTemperature \in Int /\ Hotter(r) >= maxTemperature
         /\ Hotter(r) \in {r, maxTemperature}
         /\ r \in Temperatures => Hotter(r) >= r
  BY Numbers DEF IInv, TypeOK, Hotter, Readings

LEMMA HotNear ==
  ASSUME Bank > 0, IInv, IInv', [Next]_vars, NEW s \in 0 .. Bank PROVE HotRises(s)
<1> SUFFICES ASSUME Told(s, TooHot) PROVE Rises(HotStage(s), HotStage(s)')
  BY DEF HotRises
<1> DEFINE Hot == temperatureHotPoint > Limit /\ error_code_CPU1 = {OVER_TEMPERATURE}
<1>1. s \in Int /\ 0 <= s /\ s <= Bank /\ sensorNumber \in Int /\ sensorNumber' \in Int
  BY Numbers DEF IInv, TypeOK
<1>2. /\ Carried(s) => Carried(s)'
      /\ Carried(s) /\ Hot => Hot'
      /\ BankAnswers => Carried(s)' /\ (Carried(s) => Hot')
  <2>1. CASE ~ReadAllTemperatures
    <3>1. UNCHANGED <<sensorNumber, maxTemperature, temperatureHotPoint, error_code_CPU1>>
      BY <2>1, Quiet
    <3> QED
      BY <3>1 DEF Carried, BankAnswers
  <2>2. CASE ReadAllTemperatures
    <3>1. error_code_CPU1' = IF temperatureHotPoint' > Limit THEN {OVER_TEMPERATURE} ELSE {}
      BY <2>2, ReadingKinds DEF Told
    <3>2. CASE /\ sensorNumber < Bank /\ sensorNumber' = sensorNumber + 1
               /\ reading' \in Readings /\ maxTemperature' = Hotter(reading')
               /\ UNCHANGED temperatureHotPoint
      <4>1. sensorNumber = s => reading' \in TooHot
        BY <1>1, <3>2 DEF Told
      <4>2. sensorNumber = s => maxTemperature' > Limit
        BY <3>2, <4>1, HotterIs, Numbers DEF TooHot
      <4>3. maxTemperature > Limit => maxTemperature' > Limit
        BY <3>2, HotterIs, Numbers
      <4>4. Carried(s) => Carried(s)'
        <5>1. sensorNumber' \in s + 1 .. Bank => sensorNumber = s \/ sensorNumber \in s + 1 .. Bank
          BY <1>1, <3>2, Numbers
        <5> QED
          BY <4>2, <4>3, <5>1 DEF Carried
      <4> QED
        BY <1>1, <3>1, <3>2, <4>4, Numbers DEF BankAnswers
    <3>3. CASE /\ sensorNumber = Bank /\ sensorNumber' \in {0, Bank + 1}
               /\ reading' \in Temperatures
               /\ temperatureHotPoint' = Hotter(reading') /\ maxTemperature' = Lowest
      <4>1. Carried(s)'
        BY <1>1, <3>3, Numbers DEF Carried
      <4>2. s = Bank => reading' \in TooHot
        BY <1>1, <3>3, Numbers DEF Told
      <4>3. Carried(s) /\ s # Bank => maxTemperature > Limit
        BY <1>1, <3>3, Numbers DEF Carried
      <4>4. reading' \in Readings
        BY <3>3 DEF Readings
      <4>5. Carried(s) => temperatureHotPoint' > Limit
        BY <3>3, <4>2, <4>3, <4>4, HotterIs, Numbers DEF TooHot
      <4> QED
        BY <3>1, <4>1, <4>5
    <3>4. CASE /\ sensorNumber = Bank /\ sensorNumber' = Bank + 1
               /\ reading' = Failed
               /\ UNCHANGED <<maxTemperature, temperatureHotPoint>>
      <4>1. Carried(s)'
        BY <1>1, <3>4, Numbers DEF Carried
      <4>2. ~BankAnswers
        BY <3>4, Numbers DEF BankAnswers
      <4> QED
        BY <3>1, <3>4, <4>1, <4>2
    <3>5. CASE /\ sensorNumber = Bank + 1 /\ sensorNumber' = 0
               /\ UNCHANGED <<reading, maxTemperature, temperatureHotPoint>>
      <4>1. Carried(s)'
        BY <1>1, <3>5, Numbers DEF Carried
      <4>2. ~BankAnswers
        BY <3>5, Numbers DEF BankAnswers
      <4> QED
        BY <3>1, <3>5, <4>1, <4>2
    <3> QED
      BY <2>2, <3>2, <3>3, <3>4, <3>5, ReadingKinds DEF Told
  <2> QED
    BY <2>1, <2>2
<1>3. /\ Hot /\ OverTemperatureKnown => OverTemperatureKnown'
      /\ Hot /\ error_check_for_errors => OverTemperatureKnown'
  BY PassReports, Unreported DEF OverTemperatureKnown
<1>4. /\ HotStage(s) = IF ~Carried(s) THEN 0 ELSE IF ~Hot THEN 1
                       ELSE IF ~OverTemperatureKnown THEN 2 ELSE 3
      /\ HotStage(s)' = IF ~Carried(s)' THEN 0 ELSE IF ~Hot' THEN 1
                        ELSE IF ~OverTemperatureKnown' THEN 2 ELSE 3
  BY DEF HotStage
<1> HIDE DEF Hot
<1> QED
  BY <1>2, <1>3, <1>4 DEF Rises

LEMMA CoolNear ==
  ASSUME Bank > 0, IInv, IInv', [Next]_vars PROVE CoolRises
<1> SUFFICES ASSUME \A s \in 0 .. Bank : Told(s, Readings \ TooHot)
             PROVE  Rises(CoolStage, CoolStage')
  BY DEF CoolRises
<1> DEFINE Low == ~(maxTemperature > Limit)
           Cool == temperatureHotPoint <= Limit /\ error_code_CPU1 = {}
<1>1. /\ MaxTemperature \in DPMUAppInfoInitialized
      /\ sensorNumber \in 0 .. Bank /\ sensorNumber' # sensorNumber => reading' \notin TooHot
  <2>1. 0 \in 0 .. Bank
    BY Numbers
  <2> QED
    BY <2>1 DEF Told
<1>2. sensorNumber \in 0 .. Bank + 1 /\ temperatureHotPoint' \in Int
  <2>1. temperatureHotPoint' \in Temperatures \cup {0}
    BY DEF IInv, TypeOK
  <2> QED
    BY <2>1, Numbers DEF IInv, TypeOK
<1>3. /\ Low => Low'
      /\ Low /\ Cool => Cool'
      /\ BankAnswers => Low' /\ (Low => Cool')
  <2>1. CASE ~ReadAllTemperatures
    <3>1. UNCHANGED <<sensorNumber, maxTemperature, temperatureHotPoint, error_code_CPU1>>
      BY <2>1, Quiet
    <3> QED
      BY <3>1 DEF BankAnswers
  <2>2. CASE ReadAllTemperatures
    <3>1. temperatureHotPoint' <= Limit => error_code_CPU1' = {}
      <4>1. temperatureHotPoint' <= Limit => ~(temperatureHotPoint' > Limit)
        BY <1>2, Numbers
      <4> QED
        BY <1>1, <2>2, <4>1, ReadingKinds
    <3>2. ASSUME reading' \in Readings, sensorNumber \in 0 .. Bank, sensorNumber' # sensorNumber
          PROVE  Low => Hotter(reading') <= Limit
      <4>1. reading' \in Temperatures => ~(reading' > Limit)
        BY <1>1, <3>2 DEF TooHot
      <4>2. CASE reading' \in Temperatures
        BY <3>2, <4>1, <4>2, HotterIs, Numbers
      <4>3. CASE reading' \notin Temperatures
        BY <3>2, <4>3, HotterIs, Numbers DEF Hotter
      <4> QED
        BY <4>2, <4>3
    <3>3. CASE /\ sensorNumber < Bank /\ sensorNumber' = sensorNumber + 1
               /\ reading' \in Readings /\ maxTemperature' = Hotter(reading')
               /\ UNCHANGED temperatureHotPoint
      <4>1. sensorNumber \in 0 .. Bank /\ sensorNumber' # sensorNumber /\ ~BankAnswers
        BY <1>2, <3>3, Numbers DEF BankAnswers
      <4>2. Low => Low'
        BY <3>2, <3>3, <4>1, HotterIs, Numbers
      <4> QED
        BY <3>1, <3>3, <4>1, <4>2
    <3>4. CASE /\ sensorNumber = Bank /\ sensorNumber' \in {0, Bank + 1}
               /\ reading' \in Temperatures
               /\ temperatureHotPoint' = Hotter(reading') /\ maxTemperature' = Lowest
      <4>1. Low'
        BY <3>4, Numbers
      <4>2. Low => temperatureHotPoint' <= Limit
        <5>1. sensorNumber' # sensorNumber
          BY <3>4, Numbers
        <5> QED
          BY <3>2, <3>4, <5>1, Numbers DEF Readings
      <4> QED
        BY <3>1, <4>1, <4>2
    <3>5. CASE /\ sensorNumber = Bank /\ sensorNumber' = Bank + 1
               /\ reading' = Failed
               /\ UNCHANGED <<maxTemperature, temperatureHotPoint>>
      <4>1. ~BankAnswers
        BY <3>5, Numbers DEF BankAnswers
      <4> QED
        BY <3>1, <3>5, <4>1
    <3>6. CASE /\ sensorNumber = Bank + 1 /\ sensorNumber' = 0
               /\ UNCHANGED <<reading, maxTemperature, temperatureHotPoint>>
      <4>1. ~BankAnswers
        BY <3>6, Numbers DEF BankAnswers
      <4> QED
        BY <3>1, <3>6, <4>1
    <3> QED
      BY <1>1, <2>2, <3>3, <3>4, <3>5, <3>6, ReadingKinds
  <2> QED
    BY <2>1, <2>2
<1>4. /\ Cool /\ ClearedKnown => ClearedKnown'
      /\ Cool /\ error_check_for_errors => ClearedKnown'
  BY PassReports, Unreported DEF ClearedKnown
<1>5. /\ CoolStage = IF ~Low THEN 0 ELSE IF ~Cool THEN 1 ELSE IF ~ClearedKnown THEN 2 ELSE 3
      /\ CoolStage' = IF ~Low' THEN 0 ELSE IF ~Cool' THEN 1 ELSE IF ~ClearedKnown' THEN 2 ELSE 3
  BY DEF CoolStage
<1> HIDE DEF Low, Cool
<1> QED
  BY <1>3, <1>4, <1>5 DEF Rises

(* While the limit is set and one sensor stays too hot, the report of it (stage 3) comes   *)
(* nearer by every round that the last sensor ends with an answer and by the next pass      *)
(* over the errors, and nothing that the other sensors show or fail to show, no error of     *)
(* the bus, of CPU2 or of the settings ever takes it back; a unit that is cool everywhere     *)
(* is cleared along the same stages.  With the fairness of the loop, that is what lets        *)
(* TemperatureSettles hold (temperature_sensor.c:385-494, error_handling.c:265-297).          *)
THEOREM ReportNears ==
  ASSUME Bank > 0
  PROVE  Spec => [][CoolRises /\ \A s \in 0 .. Bank : HotRises(s)]_vars
<1>1. IInv /\ IInv' /\ [Next]_vars => [CoolRises /\ \A s \in 0 .. Bank : HotRises(s)]_vars
  BY HotNear, CoolNear
<1> QED
  BY <1>1, Invariance, PTL DEF Spec
=============================================================================
