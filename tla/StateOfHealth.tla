---------------------------- MODULE StateOfHealth ----------------------------
(***************************************************************************)
(* How a measured capacitance of the energy bank reaches the flash.  CPU2      *)
(* measures it while it charges (energy_storage.c) and asks CPU1 to save it     *)
(* (check_CPU2.c) through two structures in shared memory that both poll.  The   *)
(* handler of the settings is seen as its requesters see it (module AppVars):  *)
(* one command, any time to read, to prepare and to program an entry.  The IOP  *)
(* saves and restores its serial number through the same handler, whatever it   *)
(* is at; the erasure of the whole flash by the log is left out.               *)
(*                                                                         *)
(* The two CPUs run side by side; an action is what one of them does between   *)
(* two accesses to what the other writes.                                     *)
(***************************************************************************)
EXTENDS Integers

CONSTANTS
  Capacitances,   \* what may be measured
  MaxRequests, MaxTimeouts   \* bounds for TLC, on what the IOP asks for and the chip fails at

ASSUME CapacitancesAssumption == Capacitances \subseteq Nat \ {0}
ASSUME BoundsAssumption == MaxRequests \in Nat /\ MaxTimeouts \in Nat

Unknown == 0     \* 0.0: CPU1 has nothing to show
Blank == -1      \* 0xFFFFFFFF: read from an erased flash
Values == Capacitances \cup {Unknown, Blank}
Pairs == [initial : Values, current : Values]
BlankPair == [initial |-> Blank, current |-> Blank]
UnknownPair == [initial |-> Unknown, current |-> Unknown]

SohStates == {"CalcWait", "CalcInit", "CalcCapacitance", "CalcEnd", "VerifySoHFromFlash",
              "CompareWithFlash", "SaveNew", "SaveCurrent"}

VARIABLES
  mode,          \* StateVector.State_Current, as far as the measurement sees it
  sohState, long,   \* the measurement, and whether it has charged for a minute
  currentCapacitance,
  startSaveCapacitance, request,  \* requestCPU1ToSaveCapacitancesToFlash
  toCpu1, toCpu2,   \* the shared structures
  check,         \* currState of check_SoH
  store,         \* the handler of the settings
  shown,         \* the capacitances in currentAppVars
  stored,        \* the capacitances of the last entry in flash
  count,         \* of the bounded actions
  undisturbed    \* history: since the last reset, the IOP has asked for nothing while
                 \* the handler was busy or a measurement was ending, and no word has
                 \* timed out

history == <<count, undisturbed>>
cpu2 == <<sohState, long, currentCapacitance, startSaveCapacitance, request, toCpu1>>
cpu1 == <<toCpu2, check, store, shown, stored>>
vars == <<mode, cpu2, cpu1, history>>

Counts == [requests : 0 .. MaxRequests, timeouts : 0 .. MaxTimeouts]
Modes == {"ramp", "Charge", "balancing", "other"}
Stores == [command : {"Read", "Write", "Wait"}, phase : {"rest", "save", "write", "read"},
           available : BOOLEAN, valid : BOOLEAN,
           type : {"Capacitance", "SerialNumber"},
           new : Pairs,                          \* in "write", what will be in the entry
           free : {"first", "blank", "used"}]   \* the slot of the next entry

TypeOK ==
  /\ mode \in Modes
  /\ sohState \in SohStates /\ long \in BOOLEAN
  /\ currentCapacitance \in Values \ {Blank}
  /\ startSaveCapacitance \in BOOLEAN /\ request \in 0 .. 2
  /\ toCpu1 \in [available : BOOLEAN, initial : Values, current : Values]
  /\ toCpu2 \in [saved : BOOLEAN, initial : Values, current : Values]
  /\ check \in 0 .. 2
  /\ store \in Stores
  /\ shown \in Pairs /\ stored \in Pairs
  /\ count \in Counts /\ undisturbed \in BOOLEAN

\* The memory after a reset, and the reading main asks for.
Booted(m, soh, l, cap, start, req, to1, to2, chk, st, sh) ==
  /\ m = "other" /\ soh = "CalcWait" /\ l = FALSE /\ cap = Unknown
  /\ start = FALSE /\ req = 0 /\ chk = 0
  /\ to1 = [available |-> FALSE, initial |-> Unknown, current |-> Unknown]
  /\ to2 = [saved |-> FALSE, initial |-> Unknown, current |-> Unknown]
  /\ st = [command |-> "Read", phase |-> "rest", available |-> FALSE, valid |-> FALSE,
           type |-> "Capacitance", new |-> UnknownPair, free |-> "first"]
  /\ sh = UnknownPair

Init ==
  /\ Booted(mode, sohState, long, currentCapacitance, startSaveCapacitance, request,
            toCpu1, toCpu2, check, store, shown)
  /\ stored = BlankPair
  /\ count = [requests |-> 0, timeouts |-> 0]
  /\ undisturbed = TRUE

-----------------------------------------------------------------------------
(* The handler of the settings.                                             *)

Free == store.phase = "rest" /\ store.command = "Wait" /\ ~store.available

TakeCommand ==
  /\ store.phase = "rest" /\ store.command # "Wait"
  /\ store' = [store EXCEPT
       !.command = "Wait",
       !.phase = CASE store.command = "Write" /\ store.available -> "save"
                   [] store.command = "Read" /\ ~store.valid -> "read"
                   [] OTHER -> "rest"]
  /\ UNCHANGED <<shown, stored, history>>

\* PrepareNewAppVarToSave keeps the part that was not asked for as it was read.  The
\* sector is erased by then if the first slot is the next.
Prepare ==
  /\ store.phase = "save"
  /\ store' = [store EXCEPT !.phase = "write",
                            !.new = IF store.type = "Capacitance" THEN @ ELSE shown]
  /\ UNCHANGED <<shown, stored, history>>

\* What is in the slot before, and after the entry is programmed into its blank words.
Base == IF store.free = "used" THEN stored ELSE BlankPair
Entry ==
  [initial |-> IF Base.initial = Blank THEN store.new.initial ELSE Base.initial,
   current |-> IF Base.current = Blank THEN store.new.current ELSE Base.current]
Mixed(p, q) == [initial : {p.initial, q.initial}, current : {p.current, q.current}]

\* An entry that was saved is not read back if a reading asked for before it has ended
\* since the request (HAVReadInit).
EndSave ==
  /\ store' = [store EXCEPT !.available = FALSE,
                            !.phase = IF store.valid THEN "rest" ELSE "read",
                            !.free = IF @ = "first" THEN @ ELSE "used"]
  /\ UNCHANGED shown

Saved ==
  /\ store.phase = "write"
  /\ stored' = Entry
  /\ EndSave
  /\ UNCHANGED history

\* What a save that is cut short leaves to be read.
Torn ==
  CASE store.phase = "save" -> {stored} \cup {p \in {BlankPair} : store.free = "first"}
    [] store.phase = "write" -> Mixed(Entry, Base) \cup {p \in {stored} : store.free # "first"}
    [] OTHER -> {stored}

\* The chip does not become ready after a word, and the save ends as if it had.
SaveTimesOut ==
  /\ store.phase = "write" /\ count.timeouts < MaxTimeouts
  /\ stored' \in Torn
  /\ EndSave
  /\ count' = [count EXCEPT !.timeouts = @ + 1]
  /\ undisturbed' = FALSE

\* The entry after the last is the next one, in a full or an empty sector the first.
Read ==
  /\ store.phase = "read"
  /\ shown' = stored
  /\ \E slot \in {"first", "blank"} :
       store' = [store EXCEPT !.valid = TRUE, !.phase = "rest", !.free = slot]
  /\ UNCHANGED <<stored, history>>

HandleAppVars ==
  /\ TakeCommand \/ Prepare \/ Saved \/ SaveTimesOut \/ Read
  /\ UNCHANGED <<mode, cpu2, toCpu2, check>>

\* The words that are not yet programmed come from the new request.
AppVarsSaveRequest(type, new) ==
  {[store EXCEPT !.command = "Write", !.new = n, !.available = TRUE, !.valid = FALSE,
                 !.type = type] :
     n \in IF store.phase = "write" THEN Mixed(store.new, new) ELSE {new}}

Asked ==
  /\ count.requests < MaxRequests
  /\ count' = [count EXCEPT !.requests = @ + 1]
  /\ UNCHANGED <<mode, cpu2, toCpu2, check, shown, stored>>

\* The IOP writes the serial number: nobody looks what the handler is at.
SaveSerialNumberToFlash ==
  /\ Asked
  /\ store' \in AppVarsSaveRequest("SerialNumber", UnknownPair)
  /\ undisturbed' =
       (undisturbed /\ Free /\ (sohState \in {"CalcWait", "CalcInit"} \/ ~long))

\* The IOP reads it: the request replaces the command, whatever it is.
RetriveSerialNumberFromFlash ==
  /\ Asked
  /\ store' = [store EXCEPT !.command = "Read"]
  /\ undisturbed' = (undisturbed /\ store.command # "Write")

\* A reset of both CPUs, also in the middle of a save.
Reset ==
  /\ Booted(mode', sohState', long', currentCapacitance', startSaveCapacitance', request',
            toCpu1', toCpu2', check', store', shown')
  /\ stored' \in Torn
  /\ undisturbed' = TRUE
  /\ UNCHANGED count

-----------------------------------------------------------------------------
(* check_SoH on CPU1.                                                       *)

\* RetrieveInitalCapacitanceFromFlash, at the end of each call.
Publish(saved, valid) ==
  toCpu2' = [saved |-> saved, initial |-> IF valid THEN shown.initial ELSE Unknown,
             current |-> IF valid THEN shown.current ELSE Unknown]

AwaitNewCapacitance ==
  /\ check = 0
  /\ IF toCpu1.available
     THEN /\ store' \in AppVarsSaveRequest("Capacitance",
                           [initial |-> toCpu1.initial, current |-> toCpu1.current])
          /\ check' = 1
     ELSE UNCHANGED <<store, check>>
  /\ Publish(FALSE, store'.valid)

\* Slip: the answer comes before the flash is written.
AwaitSaveHasty ==
  /\ check = 1
  /\ check' = 2
  /\ Publish(TRUE, store.valid)
  /\ UNCHANGED store

\* Slip: the answer is not kept until CPU2 has taken it.
AwaitSaveBrief ==
  /\ check = 1
  /\ check' = IF store.available THEN 1 ELSE 0
  /\ Publish(~store.available \/ toCpu2.saved, store.valid)
  /\ UNCHANGED store

AwaitSave ==
  /\ check = 1
  /\ check' = IF store.available THEN 1 ELSE 2
  /\ Publish(~store.available \/ toCpu2.saved, store.valid)
  /\ UNCHANGED store

AwaitAcknowledge ==
  /\ check = 2
  /\ check' = IF toCpu1.available THEN 2 ELSE 0
  /\ Publish(toCpu2.saved, store.valid)
  /\ UNCHANGED store

CheckSoH ==
  /\ AwaitNewCapacitance \/ AwaitSave \/ AwaitAcknowledge
  /\ UNCHANGED <<mode, cpu2, shown, stored, history>>

-----------------------------------------------------------------------------
(* energy_storage_check on CPU2.                                            *)

CalcWait ==
  /\ sohState = "CalcWait" /\ mode = "Charge"
  /\ sohState' = "CalcInit"
  /\ UNCHANGED <<long, currentCapacitance, startSaveCapacitance, request, toCpu1>>

CalcInit ==
  /\ sohState = "CalcInit"
  /\ sohState' = "CalcCapacitance"
  /\ long' = FALSE
  /\ UNCHANGED <<currentCapacitance, startSaveCapacitance, request, toCpu1>>

\* CPU1 has come to rest: a minute of charging is long for what it has to do.
Settled ==
  /\ store.phase = "rest" /\ store.command = "Wait" /\ store.valid
  /\ check = 0 /\ ~toCpu2.saved /\ toCpu2.initial = shown.initial

\* calcAccumlatedCharge until the minute is over, and the end of the charge.
CalcCapacitance ==
  /\ sohState = "CalcCapacitance"
  /\ \/ /\ mode \in {"ramp", "Charge"} /\ Settled
        /\ long' = TRUE
        /\ UNCHANGED sohState
     \/ /\ mode = "other"
        /\ sohState' = "CalcEnd"
        /\ UNCHANGED long
  /\ UNCHANGED <<currentCapacitance, startSaveCapacitance, request, toCpu1>>

CalcEnd ==
  /\ sohState = "CalcEnd"
  /\ IF long
     THEN sohState' = "VerifySoHFromFlash" /\ currentCapacitance' \in Capacitances
     ELSE sohState' = "CalcWait" /\ UNCHANGED currentCapacitance
  /\ UNCHANGED <<long, startSaveCapacitance, request, toCpu1>>

VerifySoHFromFlash ==
  /\ sohState = "VerifySoHFromFlash"
  /\ IF toCpu2.initial \in {Blank, Unknown}
     THEN sohState' = "SaveNew" /\ startSaveCapacitance' = TRUE
     ELSE sohState' = "CompareWithFlash" /\ UNCHANGED startSaveCapacitance
  /\ UNCHANGED <<long, currentCapacitance, request, toCpu1>>

\* The rest of the same call reads the shared value again; a blank one is not a number.
CompareWithFlash ==
  /\ sohState = "CompareWithFlash"
  /\ currentCapacitance' =
       IF toCpu2.initial # Blank /\ currentCapacitance >= toCpu2.initial
       THEN toCpu2.initial ELSE currentCapacitance
  /\ sohState' = "SaveCurrent" /\ startSaveCapacitance' = TRUE
  /\ UNCHANGED <<long, request, toCpu1>>

\* Slip: the request goes back to the state it was in.
RequestSaveStuck(initial) ==
  \/ /\ request = 0 /\ startSaveCapacitance
     /\ request' = 1
     /\ UNCHANGED <<sohState, startSaveCapacitance, toCpu1>>
  \/ /\ request = 1
     /\ toCpu1' = [available |-> TRUE, initial |-> initial, current |-> currentCapacitance]
     /\ request' = 2
     /\ UNCHANGED <<sohState, startSaveCapacitance>>
  \/ /\ request = 2 /\ toCpu2.saved
     /\ toCpu1' = [toCpu1 EXCEPT !.available = FALSE]
     /\ startSaveCapacitance' = FALSE
     /\ request' = 3
     /\ sohState' = "CalcWait"

\* requestCPU1ToSaveCapacitancesToFlash
RequestSave(initial) ==
  \/ /\ request = 0 /\ startSaveCapacitance
     /\ request' = 1
     /\ UNCHANGED <<sohState, startSaveCapacitance, toCpu1>>
  \/ /\ request = 1
     /\ toCpu1' = [available |-> TRUE, initial |-> initial, current |-> currentCapacitance]
     /\ request' = 2
     /\ UNCHANGED <<sohState, startSaveCapacitance>>
  \/ /\ request = 2 /\ toCpu2.saved
     /\ toCpu1' = [toCpu1 EXCEPT !.available = FALSE]
     /\ startSaveCapacitance' = FALSE
     /\ request' = 0
     /\ sohState' = "CalcWait"

SaveNew ==
  sohState = "SaveNew" /\ RequestSave(currentCapacitance) /\ UNCHANGED <<long, currentCapacitance>>

\* Slip: the arguments of SaveNew.
SaveCurrentAsNew ==
  /\ sohState = "SaveCurrent" /\ RequestSave(currentCapacitance)
  /\ UNCHANGED <<long, currentCapacitance>>

SaveCurrent ==
  sohState = "SaveCurrent" /\ RequestSave(toCpu2.initial) /\ UNCHANGED <<long, currentCapacitance>>

EnergyStorageCheck ==
  /\ \/ CalcWait \/ CalcInit \/ CalcCapacitance \/ CalcEnd
     \/ VerifySoHFromFlash \/ CompareWithFlash \/ SaveNew \/ SaveCurrent
  /\ UNCHANGED <<mode, cpu1, history>>

\* The state machine goes on.
ModeChange == mode' \in Modes /\ UNCHANGED <<cpu2, cpu1, history>>

Next ==
  \/ EnergyStorageCheck \/ ModeChange
  \/ HandleAppVars \/ CheckSoH
  \/ SaveSerialNumberToFlash \/ RetriveSerialNumberFromFlash
  \/ Reset

\* Both super loops go round, and the flash answers.
Spec ==
  /\ Init /\ [][Next]_vars
  /\ WF_vars(EnergyStorageCheck) /\ WF_vars(HandleAppVars) /\ WF_vars(CheckSoH)

-----------------------------------------------------------------------------
\* What CPU2 has been told is what it asked for.
AsAsked ==
  request = 2 /\ toCpu2.saved =>
    stored = [initial |-> toCpu1.initial, current |-> toCpu1.current]

(* When CPU2 is told that its capacitances are saved, the flash holds those it asked  *)
(* for: no answer to an earlier request, none before the entry is written, whatever    *)
(* serial numbers were saved before (energy_storage.c:97, check_CPU2.c:50).  Only a     *)
(* time-out of the chip, or a request of the IOP while the handler is busy or the       *)
(* measurement ending, may make it untrue, until the next reset.                      *)
SavedIsAsked == undisturbed => AsAsked

(* "Save capacitances received from CPU2 to flash" (check_CPU2.c:40): they are in the   *)
(* flash when CPU2 is told so, whatever else is asked of the handler.                  *)
CapacitancesReachFlash == AsAsked

(* "Initial Capacitance is the current capacitance When saving for the first time"   *)
(* (energy_storage.c:275): CPU2 takes what it has measured for the initial capacitance *)
(* only if the flash holds none.                                                     *)
FirstTimeOnly ==
  [][sohState' = "SaveNew" /\ sohState # "SaveNew" => stored.initial \notin Capacitances]_vars

Replaced == stored.initial \in Capacitances /\ stored' # stored

\* Only after a reset is a handler at rest with nothing read.
ResetInSave == store.phase \in {"save", "write"} /\ store'.phase = "rest" /\ ~store'.valid

(* A capacitance once stored as the initial one is kept, through restarts, readings *)
(* and saves, and none above it is ever stored: the state of health is at most 100 % *)
(* (energy_storage.c:240-272).  Only what disturbs the handler, and a reset in the     *)
(* middle of a save, may lose it.                                                    *)
InitialKept ==
  [][Replaced /\ undisturbed /\ undisturbed' /\ ~ResetInSave =>
       stored'.initial = stored.initial /\ stored'.current <= stored.initial]_vars

\* A save was asked for, and no command is left that would lead to it.
Overtaken ==
  store.available /\ store.command # "Write" /\ store.phase \notin {"save", "write"}

(* Every capacitance CPU2 starts to save is saved in the end, or a reset takes it,     *)
(* through serial numbers that are saved or read and words that time out: neither CPU   *)
(* is left waiting for the other's field (energy_storage.c:97, check_CPU2.c:60), unless *)
(* a reading of the serial number replaces the command of a save.                     *)
SaveAnswered == startSaveCapacitance ~> (~startSaveCapacitance \/ Overtaken)
=============================================================================
