# Verification of the DPMU firmware

The DPMU is a power unit on a DC bus: it charges a bank of super-capacitor
cells from the bus, balances the cells, and feeds the bus from the bank when the
source fails. Its firmware runs on the two cores of a TI F2838x. This directory
holds TLA+ models of the firmware's own logic, the TLC configurations that check
them, and proofs checked by TLAPS. Paths are relative to the repository;
`cpu2` and `cpu1` stand for `dpmu_cpu2/app/src` and `dpmu_cpu1/app/src`.

## 1. The system

| Component | State it keeps | Operations | Hard behaviour | What makes it correct |
|---|---|---|---|---|
| Main state machine, `cpu2/state_machine.c` | `StateVector`, initialised flag, switch verdict, counters, statics of the tick | one tick per ADC interrupt: 24 cases, then command, safe state, error, commit | a tick preempts the super loop anywhere; the tail overrides the transition of the case | converters never together, nothing driven when down, errors end in shutdown, only known transitions |
| Super loop and ADC interrupt, `cpu2/main.c`, `sensors.c` | the position of the loop | switch commands, eFuse handling, switch verification, bus checks | check-then-act against ticks | no switch stays closed behind a fault |
| Bus protections, `cpu2/dcbus.c`, `error_handling_CPU2.c` | one small machine with a time stamp per protection, the error flag | over-voltage, under-voltage, short circuit, over-current, temperature | waits during which the controller faults and restarts; handlers frozen half-way | what persists shuts the unit down; what is over does not keep it down |
| eFuse trips, `cpu2/DCDC.c` | trip flags, two-sample averages, `efuse_top_half_flag` | trip interrupts, confirmation over three turns of the loop | a write to `State_Next` between two ticks | a confirmed trip shuts the unit down |
| Converter drivers, `cpu2/DCDC.c`, `CLLC.c`, `switches.c`, `hal.h` | which PWM is tripped, which gate is driven | start, stop, stop all | a software flag that disagrees with the hardware | as above |
| Cell reading and balancing, `cpu2/balancing.c`, `switch_matrix.c` | two nested machines in statics, cell connections | read all cells, discharge the highest, stop | machines that survive an aborted session | one cell connected at a time, no discharge of an unconnected cell |
| Energy storage, `cpu2/energy_storage.c` | measurement machine, capacitances, save request | measure while charging, ask CPU1 to save, wait for the answer | two shared structures polled by two CPUs | a save is reported only if that one was made; the initial capacitance stays |
| Timer queue, `cpu2/timer.c`, `cpu1/timer.c` | sorted list of timers, tick count | set, cancel, tick | wrap-around of the tick | used by bench commands only |
| Debug log, command line, DMA set-up (CPU2) | log position; none | copy readings; bench commands | none that concerns control | - |
| CANopen objects, `cpu1/canopen_sdo_*.c`, `co.c` | shared settings, request flag | write a state request or a setting | a request overwritten before it is consumed; saves and readings of the serial number at any time | - |
| Supervision of CPU2, `cpu1/check_CPU2.c`, `initialization_app.c` | last state seen, which settings are written, save handshake | poll the state, answer a save, clear the settings | a state that passes between two polls; a start between two writes | no start without settings written since the last fault seen |
| Errors and EMCY, `cpu1/error_handling.c`, `canopen_emcy.c` | handled and sent bits per error | send once, clear once, tell CPU2 of the temperature | errors that come and go between passes; one bit is never cleared | every error is announced once and revoked once |
| Temperature sensors, `cpu1/temperature_sensor.c` | sensor number, maximum of the round, bus error flag | read one sensor per turn, recover the bus, compare | sensors that fail in the middle of a round | a temperature that stays too high is known |
| Application variables, `cpu1/application_vars.c`, `ext_flash.c` | flash sector used as an append-only list, three nested machines | load, save, erase | a reset between two words; statics of an earlier scan | the last completed save is found again |
| Log, `cpu1/log.c` | ring of entries in the same flash | append, read, erase | shares the flash chip with the settings | an erasure reaches the handler of the settings |
| State-of-health history, `cpu1/state_of_health.c` | samples and a fit | add, fit | floating point | - |
| Clock, serial, I2C, IPC set-up (CPU1) | device state | I/O | - | - |
| Firmware update, watchdog, boot loaders | download position, checksum | receive, verify, start | interrupted download | no incomplete image is started |
| `generate_firmware` | none | add a checksum to a file | none | - |

Vendored code (driverlib, littlefs, protothreads, the CANopen stack, flash API
wrappers) is outside the project.

**Interactions.** CPU1 receives CANopen objects and puts them into
`sharedVars_cpu1toCpu2`; a state request also sets IPC flag 10, which the next
tick on CPU2 consumes. Flag 2 asks for an emergency shutdown; its sender is
commented out in most error handlers, but the receiver is there and is modelled.
Switch commands arrive by IPC message in the super loop of CPU2. The super loop
and the ticks share `StateVector`, `DPMUInitializedFlag`, the switch verdict, the
gates, the PWM trips, `dpmuErrorOcurredFlag` and `test_update_of_error_codes`,
with no lock: the tick preempts the loop, never the reverse. CPU2 publishes
`current_state` and `error_code`, which CPU1 polls.

`PROJECT.json` lists the hazards of this code at their lines, with the properties
that would show each of them.

## 2. Plan

| Step | Module | Subject | State |
|---|---|---|---|
| 1 | `StateMachine`, `MCStateMachine` | main state machine, with everything that shares state with it | done |
| 2 | `DpmuModes` | abstract specification of the controller | done |
| 3 | `StateMachine_proofs`, `StateMachine_actions` | types, converter discipline, transition graph, refinement; switches, errors, inrush ramp | done |
| 4 | `DcBusProtection`, `MCDcBusProtection` | protections and eFuse trips of the super loop, with time | done |
| 5 | `Balancing` | the reader, the balancing machine, the switch matrix they share | done |
| 6 | `StateOfHealth` | how a measured capacitance gets from CPU2 into the flash of CPU1 | done |
| 7 | `AppVars`, `SettingsStore` | the settings in flash with resets; abstract: a store that a save replaces as a whole | done |
| 8 | `Supervision` | temperatures, error reports and the settings of a start, seen by CPU1 | done |
| 9 | `Balancing_proofs`, `StateOfHealth_proofs`, `Supervision_proofs` | their type and safety invariants | done |
| 10 | `AppVars_proofs`, `DcBusProtection_proofs` | types, the next free slot, the refinement of `SettingsStore`; the faults that disturbances can cost | done |
| 11 | `Balancing_readings` | what the means are made of, how long a reading takes | done |
| 12 | the `*_proofs` modules, `StateMachine_actions` | the countdown behind each liveness property | done |
| 13 | `DcBusProtection_proofs` | the countdown behind `Recovers` | open |

Not taken up: the timer queue, which only bench commands use, and the ring of the
CAN log, whose erasure is in `AppVars`.

## 3. `StateMachine`

One action per case of `StateMachine()` (`In(s)` is the case label). A case
computes the state vector's `State_Next` and hands it to `Proceed`/`EndOfTick`,
the tail every tick runs: `CheckCommandFromIOP` (`Commanded`, `AfterCommand`,
`AfterEmergency`), `VerifyDPMUSwitchesOK` (`VerifiedSwitches`: a Fault request
returns before it), `DefineDPMUSafeState` (`SafeState`, `Deinitialises`), the
pending error, the commit. `Tick` is their disjunction and is atomic: the ADC
interrupt is not preempted by the loop, and the trip interrupts touch nothing it
reads twice.

| Variable | Code |
|---|---|
| `State_Before`, `State_Current`, `State_Next` | `StateVector` |
| `DPMUInitializedFlag`, `DPMUSwitchesStatesOK` | the same names |
| `closed` | Qlb, Qsb, Qinb, as the GPIOs read back |
| `running` | converters whose PWM is not tripped |
| `inrush` | `DoneWithInrush`: PWM on, compare value, delay count |
| `PrestateCounter` | `CounterGroup.PrestateCounter`, 16 bits |
| `statics` | calibration finished, `EPMWStarted`, the two flags of `EnableOrDisblePWM`, the sample count of `calculate_boost_current`, whether `I_Ref_Real` is a demand |
| `dpmuErrorOcurredFlag`, `test_update_of_error_codes` | the same names |
| `iopRequest`, `emergency`, `dpmu_default_flag` | flag 10 with its state, flag 2, power source type |
| `mainLoop` | whether the loop is inside a switch command or inside `dcbus_check`, where a tick can come between a test and what follows from it |

Readings are nondeterministic branches. Actions of the super loop are the atomic
pieces between which a tick matters: `AcceptSwitchCommand` (the test of
`DPMUInitialized`) and `SwitchCommand` (the write); `BeginProtection` (the test of
`test_update_of_error_codes`), any `Protect(...)` effects, `EndProtection`.

`DpmuModes` says what the rest of the power system relies on: power only while
working or stopping, no direct hand-over between converters, work begins only
in the ready mode of an armed unit, and arming again takes a fault and a start.
`Mode` and `Power` in `StateMachine` are the refinement mapping.

Definitions introduced by "Slip" are variants with one plausible mistake. No
specification uses them; with one of them in place of the original, the property
`PROJECT.json` names for it fails.

### Runs

| Run | Instance | Question |
|---|---|---|
| `sm_charge` | redundant unit, requests Idle, Initialize, TrickleChargeInit, Fault; delay 2 of a counter mod 4 | can charging, balancing, trips, commands and faults in any order leave converters or switches wrong? |
| `sm_regulate` | default and redundant unit, requests Idle, Initialize, RegulateInit, emergencies; two duty steps | the same for regulation over several sessions: do the flags of `EnableOrDisblePWM` tell what the converter does (`NoDemandNoDrive`), and does the controller implement `DpmuModes`? |
| `sm_liveness` | the charging instance with six disturbances | do errors, faults, stops, soft starts and delays end? |
| `sm_parallel` | charging and balancing only | violated: see section 9 |

Bounds. Requests are split over two instances because charging and regulation
meet only in Idle, StopEPWMs and Fault; each instance has all states of its half and
all of the common ones. A delay of 2 has a first, a middle and a last tick, and a
counter mod 4 makes the decrement below 0 wrap within the run. `INRUSH_DELAY` 0 or 1
and one or two duty steps reach the cut of the last step. `SAMPLES` 1 (25 in the code)
has a tick that only samples and one that computes a demand, and a session can begin at
either. Six
disturbances are enough for a start, a request for work, a request that takes the
last tick of a delay, a trip and an error raised inside the following fault. The
theorems hold for all values.

Fairness (`sm_liveness`). Ticks come from a periodic interrupt: WF on `Tick`. The
loop returns from what it began, there is nothing in it that blocks: WF on
`SwitchCommand \/ EndProtection`. The stop states wait for a bank current that
decays once its reference is 0: WF on leaving them while no request interferes.
Requests, trips and protections are never fair; they are bounded, because each one
may legitimately cost the tick it meets.

## 4. `DcBusProtection`

One turn of the super loop, as far as protections are concerned, in its order:
`Report` (clearing `efuse_top_half_flag`), the two eFuse handlers, the test in
`dcbus_check`, the five handlers. `step` is where the loop stands; each handler is
one action and a tick or an interrupt may come between any two. `OwnTick` and
`RequestedTick` keep of the main state machine what the protections can see: down,
up or Fault, the two flags, and whether a Fault written to `State_Next` survives.
A request on the last tick of `Initialize` leaves the protections on with the
unit still down (`StartTick("down")`), as in the code. `age` is the time since
`lastTime`, cut where it no longer matters; `INT_myCPUTIMER2_ISR` is a millisecond.
Each handler keeps its own `lastTime` and its own machine; `Persist` is what
over-voltage and over-current have in common. Effects on gates and PWMs are in
`StateMachine` (`Protect`).

| Run | Instance | Question |
|---|---|---|
| `bus_protect` | shortest waits, two disturbances | does everything confirmed or persistent reach Fault, how many starts can stale handlers cost, does the unit come up again? |

Bounds. A handler compares the elapsed time with one limit, so a wait of one
tick has all the cases of a wait of 1000. Two disturbances combine any two of a
trip, a bus reading, a load reading, the temperature and a request; with one and
with three the same bound on faults (disturbances + 2) is reached and never
exceeded. That bound is the content of `FewFaults`: one trip can cost three
starts, by `State_Next`, by the short-circuit check and by the over-current
handler that was frozen at its stop.

Fairness. As above, with the timer interrupt, and an operator who starts a unit
that is down (WF on `StartTick("up")`), without whom nothing could be said of
recovery. `Recovers` assumes that bus and load stay normal from some time on.

## 5. `Balancing`

One tick as far as the cells are concerned: the case of the main state machine
(`EnableTick`, `QuietTick`, `BalancingTick`, `BalancingStopTick`, `StopTick`), then
`ReadCellVoltagesStateMachine` (`Reader`), then the next mode. The case hands the
reader the matrix and the flag as it leaves them, because both machines may
move the matrix in one tick. The states of the main machine that do not touch the
cells are one state, `other`; every state may be left for Fault.

| Variable | Code |
|---|---|
| `reader` | statics of `ReadCellVoltagesStateMachine`; `samples` counts what `cellVoltagesTemp` sums up, and only readings taken while the cell was connected |
| `balancing` | statics of `BalancingAllCells`, which survive an aborted session |
| `matrix` | per half the even and the odd address latched, the polarity, which outputs are on; `live` remembers a latch that changed under load |
| `cllc` | halves whose PWM is not tripped |
| `history` | what the properties look back on: sessions cut short, whether the session passed `BALANCE_INIT`, the cells verified since, whether a reading was taken under load |

The cells are numbered as in `switch_matrix.h`, with the number between the halves
that is no cell; addresses and terminals are computed as in the code, so that
`Connects(m, c)` is a statement about the terminals and not an assumption.

Run `balancing`: 3 cells per half, 2 iterations, one settling tick, one aborted
session at any point and any number of complete ones. The read order of three cells
has the last, a lower and an upper cell, as that of 15 has; two iterations have a
first and a last; after one abort the statics are at any of their positions, and
the next session resumes there. With two aborts the same invariants hold (4.8
million states); the proofs cover any number and any odd half. Voltages are
branches. Fairness is WF on `Tick`, the interrupt; `ReadingArrives` needs no more.

A session that is cut short goes on where it was: `DischargesItsCell` and
`DoneMeansVerified` are about sessions that began at `BALANCE_INIT`, which
`history.fresh` marks, while `OneCellConnected` and `PolarityOfItsCell` are about all.

## 6. `AppVars` and `SettingsStore`

One turn of the main loop of CPU1 is one call of `HandleAppVarsOnExternalFlashSM`:
the outer machine (`HAVSM`), the saver (`SNASM`, with the word-by-word access of
`ext_flash.c`) and the scanner (`RAVSM`), each with its start flag and its
statics. An entry has four fields: the two words of the magic number, the
capacitances, the serial number. `Reset` comes between any two steps and keeps only the
flash. A word that is not blank is not programmed, as `ext_flash_non_blocking_write_word`
has it. `EraseEntireFlash` is the log's erasure of the chip.

`SettingsStore` says what the rest of the firmware may rely on: the settings shown
are those stored, a save replaces them by what was shown with one part changed,
and only a reset in the middle of a save may leave anything. Under the refinement
mapping `stored` is what a reading after a reset is meant to find and `shown` is
hidden from the request of a reading to its end.

Nothing guards a request. `SaveSerialNumberToFlash` (CANopen object 0x1010), `check_SoH` and
`RetriveSerialNumberFromFlash` ask for their save or reading without a look at the
handler; the log erases the chip at any step; and `AppVarsSaveRequestReady`, which only
`check_SoH` uses and only to learn the end of its save, shows a pending save and no
reading. So `AppVarsSaveRequest`, `AppVarsReadRequest` and `EraseEntireFlash` are
enabled in every state (the last one unless an erasure is under way), and
`SNAWriteTimeOut` ends a save at any word, as `EXT_FLASH_BUF_WRITE_TIME_OUT` does.

What then holds is not the same throughout. `orderly` remembers whether, since the flash
was last in order, every request and erasure has found the handler at rest (`Free`), no
reading was asked for of a flash that was erased after an earlier one, and no word has
timed out; a reset makes it true again if the flash has no hole. `NextSlotIsBlank` and
`ImplementsStore` are about that time: the abstract store has a `kept`, and promises
nothing once it is false. `SaveEnds` and `OvertakenByRead` are about all states:
a save ends, with its requester told, whatever comes in between, unless it is
`Overtaken`, and the only thing that overtakes it is a reading asked for in the place of
its command. Section 9 says what happens behind `orderly`.

Run `appvars`: 3 slots, one value of the capacitances and one serial number, 3 saves, one
erasure, one reset, one time-out, any number of readings. Three slots have a first, a
middle and a last; the scan begins at the first and three saves fill the sector.
One reset or time-out comes between any two words of any of these saves, and a
second request meets the first at any of its steps. Fairness: the loop goes round, and
the chip completes an erasure.

## 7. `StateOfHealth`

The two super loops side by side; an action is what one does between two accesses to
what the other writes. On CPU2 `energy_storage_check` (`CalcWait` to `SaveCurrent`) with
`requestCPU1ToSaveCapacitancesToFlash` (`RequestSave`); on CPU1 `check_SoH` (`AwaitNewCapacitance`,
`AwaitSave`, `AwaitAcknowledge`, each with `Publish`) and the handler of the settings as its
requesters see it: it takes a command, prepares the entry from what was read and what was
asked for, programs it, and reads it back (`TakeCommand`, `Prepare`, `Saved`, `Read`).
`toCpu1` and `toCpu2` are the shared structures. `store.free` is what the handler knows of
the next slot: when a reading is skipped after a save, it stays on a slot that has been
used, and the words of the next entry that are not blank there are not programmed (`Entry`).
A request that arrives while an entry is programmed gives it the words that are still to come
(`Mixed`).

The IOP saves (`SaveSerialNumberToFlash`) and reads (`RetriveSerialNumberFromFlash`) its serial
number at any step, a word may time out (`SaveTimesOut`), and `Reset` resets both CPUs at
any step, in the middle of a save with any entry that leaves (`Torn`). `undisturbed`
remembers whether, since the last reset, the IOP has asked for something while the
handler was busy or a measurement was ending, or a word has timed out. `SavedIsAsked`
and `InitialKept` hold until then; `SaveAnswered` holds always, with the one exception of
a save whose command a reading has replaced. `InitialKept` also leaves out a reset in the middle
of a save (`ResetInSave`), which may tear the entry that held the capacitance.

Run `soh`: two capacitances, mode changes and resets at any step and in any number, one
request of the IOP, one time-out. Two values let a measurement fall below, on and
above the initial one. `SaveAnswered` needs a bound on the requests: serial numbers saved
one after the other without end would keep `newAppVarsAvailableFlag` up. A
measurement counts only after a minute of charging; `Settled` says that CPU1 has
then done what it had to do, which takes it milliseconds. Fairness: both loops go
round and the flash answers. Runs `soh_serial` and `soh_replaced` are violated: section 9.

## 8. `Supervision`

The main loop of CPU1 in its order (`turn`): what the IOP writes (`Download`, `RequestStart`), one
sensor per turn (`ReadAllTemperatures`), `check_current_state` in its two reads of the shared
state (`CompareState`, `CopyState`) with `ResetDPMUAppInfoInitializeVars` in the two
halves that CPU2 can see between (`CopyState` clears the flag, `ResetSettings` the rest), `error_check_for_errors`.
CPU2 is `Tick`, the start and the fault, and `Protect`, the errors it shows.
`open` counts per error the EMCYs that set it minus those that clear it.

Run `supervision`: sensors 0 to 3, a low and a high temperature or no answer at each
reading, two settings of which one is the limit, one error of CPU2. Two settings
are the least that can be written in part. Fairness: the loop goes round and the two seconds
between rounds pass (SF on `ReadAllTemperatures`, which alternates with `NotYet`).
`TemperatureSettles` assumes that the bank sensor, which closes a round, answers from some
time on. Run `supervision_clear` is violated.

## 9. What the code does not do

- `sm_parallel` (`state_machine.c:247`): the comment says that balancing is supposed to
  run in parallel with charging. `BalancingInit` trips the PWM of the DC/DC converter
  first, and charging begins again when all cells are done. `NoCrossConduction` and
  `ConverterDiscipline` state what the code does, which is the opposite of the
  comment; which of the two is meant is for the team to decide.
- `soh_serial` (`energy_storage.c:246`): an initial capacitance of 0.0 means "none
  stored" to CPU2, and CPU1 publishes 0.0 whenever the settings are being saved
  or read. A serial number saved as a measurement ends makes CPU2 take what it
  has measured for the initial capacitance; the next save replaces the one in flash.
- `soh_replaced` (`application_vars.c:428`): `check_CPU2.c:40` says that the capacitances
  received from CPU2 are saved. A serial number that is asked for while they are takes
  their place in `newAppVars`; one entry is written, without them, and CPU2 is told that
  they are in flash.
- `supervision_clear` (`error_handling.c:57`): every pass sets a bit that has no handler,
  so the message that there are no errors is never sent.

Seen while modelling and kept as notes to hazards; but for the first, no line promises
otherwise:

- A collapsed bus opens Qinb and stops the converters, and the comment in
  `error_handling_CPU2.c:220` says that the main state machine is sent to Fault; the assignment
  on line 221 is commented out. `HandleDCBusUnderVoltage` and `Protect` have it as the
  code does: no error is raised.
- A Fault or Idle request consumed by a tick that goes to a stop state is
  acknowledged and lost. A trip confirmed while the unit is down can be forgotten by a
  unit that starts before the trip is reported. The message of the temperature handler
  announces a Fault it does not raise.
- After an aborted session the mean of the reading under way is wrong:
  `BalancingStop` resets the matrix under the reader, and a session that resumes at
  `BALANCE_CONNECT` moves it while the reader is on. `MeanUndisturbed` is therefore
  about units without an aborted session.
- An entry torn inside its magic number, by a reset between the two words, hides every
  earlier entry from the next scan. `Stored` maps this to nothing stored, which the
  abstract store allows after a reset in a save.
- The handler of the settings is not made for requests that meet it at work. The model
  has all of these, behind `orderly` and `undisturbed`:
  - A reading asked for while the command of a save waits replaces it:
    `newAppVarsAvailableFlag` stays up and CPU2 waits for its answer until another save
    is asked for. This is the exception in `SaveEnds`, `SaveAnswered` and
    `OvertakenByRead`.
  - A save asked for while a scan runs (the one at the start, or the reading back of
    another save) is not read back, since the end of the scan sets `currentAppVarsValid`. RAM
    keeps the old values and the next free address stays on a used slot.
  - A serial number saved before the boot reading is taken turns that reading into a
    save: the capacitances are written as zeros, and the sector is erased first.
  - An erasure by the log during a save or a scan leaves their machines in mid-run. The
    save is lost, and its requester takes the flag that falls for its end.
  - A second save replaces data and type of the first, also word by word while it is being
    programmed.
  - A word that times out ends a save like a complete one.
  - A reading of a flash that was erased after an earlier one takes the blank first slot
    for a valid one. The first entry then goes to the second slot, and the next
    start does not find it.
- A regulation session that begins with a full sample count (one in 26) can find a demand on its
  first tick. If the session before was cut short with the converter running,
  `EnableOrDisblePWM` takes it for started and leaves it off until the demand has dropped
  once. All other sessions begin with a tick without a demand, which sets the flags right.
- A reset in the middle of a save that erased the sector loses the initial capacitance.
- A Fault of one tick between two polls of CPU1 leaves the settings as they were:
  `StartsWithSettings` is about the faults CPU1 has seen. While the limit is not
  written again, the temperature error keeps its last value.
- A bank sensor that stays dead ends no round: an over-temperature of any other
  sensor then stays unreported.

## 10. Proofs

Eight modules hold the proofs: `StateMachine_proofs`, `StateMachine_actions`,
`Balancing_proofs`, `Balancing_readings`, `DcBusProtection_proofs`, `Supervision_proofs`,
`StateOfHealth_proofs`, `AppVars_proofs`.

`StateMachine_proofs` (the first six theorems) and `StateMachine_actions` (the next
five, and four countdowns, below) prove, for all values of the constants that satisfy the named
assumptions (`RequestsAssumption`, `DelayAssumption`, `InrushAssumption`,
`SamplesAssumption`, `EnvironmentAssumption`):

| Theorem | Statement |
|---|---|
| `TypeCorrect` | `Spec => []TypeOK` |
| `Discipline` | `Spec => []ConverterDiscipline` |
| `NoCrossConductionHolds` | `Spec => []NoCrossConduction` |
| `StoppedWhenDown` | `Spec => []ConvertersStoppedWhenDown` |
| `GraphFollowed` | `Spec => FollowsGraph` |
| `Implementation` | `Spec => ImplementsModes` |
| `DriveDemanded` | `Spec => []NoDemandNoDrive` |
| `ErrorsKept` | `Spec => ErrorNeverLost` |
| `Stragglers` | `Spec => []AtMostOneStraggler` |
| `GoodSwitches` | `Spec => StaysBehindGoodSwitches` |
| `InrushFirst` | `Spec => InrushBeforeInput` |

`FollowsGraph` and `ErrorNeverLost` are about single steps and are left to the proofs; the
runs check what they lead to (`ImplementsModes`, `ErrorShutsDown`).

The argument. That the converters never run together is not inductive: a
state Balancing with the DC/DC converter on, or a `State_Next` left over from
somewhere else, would break it. `ConverterDiscipline` adds where each
converter may run, that between ticks `State_Next` is the current state or a Fault
put there by a trip, that `Initialize` can go back only to where it came from, and
where the initialised flag is off. It is itself checked by `sm_charge`. Its
preservation rests on lemmas about the shared tail: what a command and the safe state may
turn a transition into (`CommandDiverts`, `SafeStateDiverts`, `EndOfTickLeads`),
and, from those, on `TickMoves`: the successor of a state and what the tick does
to the converters, one step per case. `OthersAreQuiet` says
that the super loop, CPU1 and the interrupts only stop converters. The graph and the
refinement follow from the same lemmas.

`DriveDemanded` rests on `FlagsTell`: in Regulate, a converter that runs has a demand and
its flag on "started". Protections may trip the converter under a flag that says
started; that direction does no harm to it.

The other four theorems need what a tick does to the switches, the error flag and the
inrush limiter (`TickEffects`) and what the rest may do to them (`OthersOpen`).
`AtMostOneStraggler` is inductive relative to `ConverterDiscipline`: while the
unit is down the initialised flag is off, so no further switch command is
accepted. `InrushBeforeInput` needs `RampOn`: a soft start that has not
initialised the unit has its PWM on, which holds because a protection takes the
duty back but does not trip this PWM. `StaysBehindGoodSwitches` rests on the
order of the tail: only a Fault request skips the verification of the switches, and
it leaves the state anyway.

`Balancing_proofs` proves five theorems for a bank of any odd half, any number of
iterations and settling ticks, and any number of aborts
(`HalfAssumption`, `ReadingAssumption`, `AbortAssumption`):

| Theorem | Statement |
|---|---|
| `TypeCorrect` | `Spec => []TypeOK` |
| `OneCell` | `Spec => []OneCellConnected` |
| `PolarityKept` | `Spec => []PolarityOfItsCell` |
| `DischargesKept` | `Spec => []DischargesItsCell` |
| `VerifiedKept` | `Spec => []DoneMeansVerified` |

The invariant has one part per concern. `MatrixOK` says of a matrix, not of the
variable, that it connects a cell or none and that a polarity that is on is the
cell's: it is carried through reset, connect and polarity as lemmas about these
operators, which rest on the arithmetic of cells, addresses and terminals. `ReaderInv`
bounds the counters. `CountInv` ties `under` to the place of the cell and to the set of
cells verified. `LoadInv` is what makes the readings trustworthy: a reading under
way that was begun under load exists only while the balancing machine discharges or
waits for that reading. `SessionInv` says where the reader rests during a session that
began anew. `ReaderEffect` sums up a tick of the reader; each case of the balancing
machine has a lemma of its own.

`Balancing_readings` proves the sixth property of that run for the same constants:

| Theorem | Statement |
|---|---|
| `Readings` | `Spec => []MeanInv` |
| `MeansKept` | `Spec => []MeanUndisturbed` |
| `WaitsWithReader` | `Spec => []WaitInv` |
| `ReadingNears` | a wait for a reading counts down (below) |

A mean is right if the pass over the cells has taken one sample of each. That
rests on the order of reading being one to one (`NoCellIsReadTwice` and the lemmas
before it: the middle, then the cells above and below it alternately, mapped to
the places of the vectors by `ConvCellNrToIdx`), which is arithmetic about halves of any
odd size. On it `SamplesInv` counts: in a pass, every cell that has been read has
one sample more than the others, and what is not zeroed yet is outside what the next pass
adds to. `ConnectedInv` says that the cell that is being measured is connected, and
`RestInv` that the balancing machine does not move the matrix under the reader; this is
what an aborted session breaks, so `MeanInv` speaks of units without one.

`Supervision_proofs`, for any settings, errors, sensors, temperatures and limit:
`TypeCorrect`, `ReportsTrue` (`[]OpenIsTrue`), `StartsHaveSettings`
(`StartsWithSettings`). `OpenIsTrue` is inductive with `HandledIsSeen`: what is handled is
what was seen in the last pass, and what was sent is handled. The settings need
`FlagIsTrue`: the flag CPU2 looks at is never up without all the settings, which
holds because the flag falls first.

`StateOfHealth_proofs`, for any set of capacitances and any number of requests, time-outs and
resets (`CapacitancesAssumption`, `BoundsAssumption`): `TypeCorrect`, `SavedAsAsked` (`[]SavedIsAsked`),
`InitialCapacitanceKept` (`InitialKept`). The invariant has two layers. `Core` holds
always: the types and `Handshake`, what the two CPUs know of each other whatever the handler is
at. `Ordered` holds while nothing has disturbed the handler: where it can
be at each step of the handshake (`StoreInv`, `RequestInv`), and that CPU1 shows the
stored capacitances when a measurement ends (`MeasureInv`).

`DcBusProtection_proofs`, for any waits (`WaitAssumption`) and any number of
disturbances: `TypeCorrect` and `FaultsBounded` (`LiveSpec => []FewFaults`; fairness plays
no part). The bound is not inductive: what matters is how many faults are
already on their way. `Debt` counts them when all is calm: the next tick, each handler
frozen at its stop, and a reported trip twice, because the short-circuit check
raises an error for it and the over-current handler begins another stop. A step that is no disturbance
never raises `Debt` by more than it takes off (`StepPays`, one lemma per handler), and
a tick that goes to Fault pays one. What a disturbance can leave behind
is counted by `Traces`, at most one each, and `Debt <= Traces + 2`.

`AppVars_proofs`, for a sector of any size, any settings and any number of saves, readings,
erasures, time-outs and resets at any step (`SlotsAssumption`, `WordsAssumption`, `BoundsAssumption`): `TypeCorrect`,
`FreeSlotKept` (`[]NextSlotIsBlank`), `Refinement` (`Spec => ImplementsStore`) and
`OvertakenOnlyByRead` (`Spec => OvertakenByRead`). The types and what the last theorem
needs (`Running`) hold always. The rest of the invariant, `Ordered`, holds while `orderly`
does. It describes the flash
while each machine is under way: `NoHoles` (what follows a blank slot is blank), `FreeIsNext`
(the slots before the next free one hold settings, the others nothing), `SaveProgress`
(which words of the entry are programmed), `ScanProgress` (what the slots passed so far
say of what is stored) and `FoundIsTrue` (the flag that survives from one scan to the next is not wrong
about a torn flash). `Control` says which machine may run at all. `StoredLast` and
`StoredTorn` compute what is stored from the shape of the flash; with them each turn is one
step of the store (`BetweenMaps`, `TurnMaps`, `SaveMaps`, `ResetMaps`).

### Countdowns

TLAPS cannot use fairness. What it can prove of a liveness property is the rest of the
argument: a number that is bounded for every value of the constants, that the
actions whose fairness is assumed take down, and that no other action takes up. TLC checks
the property itself on small constants; the countdown shows that it is no accident of
them, and how long it takes at most.

| Property | Theorem | Countdown | Bound |
|---|---|---|---|
| `SoftstartEnds` | `StateMachine_actions!SoftstartNears` | `SoftstartAhead`, by each tick; a request at the last one and the protections of the loop may hold it up | `(MaxDuty + 1) * StepTicks` ticks |
| `DelayEnds` | `DelayNears` | `DelayAhead`, by each tick, from `DELAY`; only a request at the last one lets the counter wrap | `CounterMod` ticks |
| `ErrorShutsDown` | `ErrorNears` | the tick that goes to Fault, and that of Fault | 2 ticks |
| `StopsInTheEnd`, `FaultIsLeft` | `StopsNear` | the stop states in their order; `ChargeStop` and `RegulateStop` also wait for the current to be low | one tick per state |
| `TripShutsDown` | `DcBusProtection_proofs!TripNears` | `TripAhead`, by each step of the super loop, then the next tick | 10 steps |
| `OverVoltageShutsDown`, `OverCurrentShutsDown` | `PersistNears` | `PersistAhead(h)`, by each turn of the handler and each millisecond of its wait | `Wait[h] + 5` |
| `ReadingArrives` | `Balancing_readings!ReadingNears` | `TicksAhead`, by each tick | `ReadingTicks` |
| `SaveEnds` | `AppVars_proofs!SaveNears` | `TurnsAhead`, while the save is not overtaken, by each turn of the handler but those that wait for the chip, and by the chip; an erasure begins anew | `3 * SLOTS + 15` turns |
| `SaveAnswered` | `StateOfHealth_proofs!AnswerNears` | `AnswerAhead`, by whichever of CPU2, CPU1 and the handler has the next step, while the save is not overtaken; a serial number asked for before CPU1 has seen the end of the save sets it back | 9 steps |
| `TemperatureSettles` | `Supervision_proofs!ReportNears` | the stages `HotStage(s)` and `CoolStage` (they rise), by the end of a round and by a pass over the errors | 3 stages |

With the constants of the code (15 cells per half, 5 iterations, some 200 ticks to
settle) `ReadingTicks` is 30638, about half a second at 17.5 microseconds per tick.

Three of them need an invariant of their own. `Watched` (`TripNears`): a unit that is up has its
protections on, and a trip that the short-circuit check has passed is in the hands of
the over-current handler. `Running` (`SaveNears`): a nested machine that waits to be started has
been told to start, so that no turn of it is spent for nothing, also after an erasure has
left the others in mid-run. `Handshake` (`AnswerNears`): CPU1 has told CPU2 of every save it
is through with. `ReportNears` stands under `Bank > 0`: with one sensor only, its
readings could not be told from no reading.

Only model-checked: the step from a countdown to its liveness property (fairness and
ENABLED are out of the prover's reach), and `Recovers`, whose countdown is not written yet.

## 11. Not modelled

- Control loops, filters, averages, capacitance and health formulas: floating point.
  A bank whose voltage has not risen gives an infinite or negative capacitance; this
  is listed as a hazard without a property.
- Start-up: the initial state is the one after `StateMachineInit`. The ADC
  interrupt is already enabled before (`main.c:89`), which is listed as a hazard.
- Power budgets: `dcbus_check` only sets bits of the error code from them.
- The turns in which the handler of the settings only waits for the chip; an entry is read at once.
  The log's erasure of the chip is in `AppVars` and not in `StateOfHealth`.
- The timer queue of both CPUs: only the bench commands of `cli_cpu1.c` use it.
- The ring of the CAN log (`log.c`), its hand-over with the debug log of CPU2 and its
  transfer. No controller state depends on it; its erasure of the flash is in `AppVars`.
- Firmware update and boot loaders: a checksum over a fixed area, vendor templates and
  flash hardware.
- By far most of the repository's lines are vendored: driverlib and device headers, four
  copies of them, littlefs, the CANopen stack. They are not this program's logic, and
  the firmware's own files are about one part in thirty of all lines.
- The components marked `not_modelled` or `partly` in `PROJECT.json`, each with
  its reason there.
