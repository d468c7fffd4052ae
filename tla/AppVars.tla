------------------------------- MODULE AppVars -------------------------------
(***************************************************************************)
(* The settings in external flash on CPU1: application_vars.c with the        *)
(* non-blocking word access of ext_flash.c.  One turn of the main loop is one *)
(* call of HandleAppVarsOnExternalFlashSM; between turns the other parts of   *)
(* the loop ask for a reading or a save, whatever the handler is at, the log   *)
(* erases the whole flash, or the CPU is reset.                              *)
(*                                                                         *)
(* An entry is the words it is programmed in: the two of the magic number,    *)
(* the capacitances, the serial number.  A word is programmed at once, and a   *)
(* sector erased at once; the turns that only wait for the chip are left out. *)
(***************************************************************************)
EXTENDS Integers, FiniteSets

CONSTANTS
  SLOTS,         \* entries that fit in the sector
  Capacitances, Serials,   \* what is saved
  MaxSaves, MaxErases, MaxResets, MaxTimeouts   \* bounds for TLC

ASSUME SlotsAssumption == SLOTS \in Nat \ {0}
ASSUME BoundsAssumption == {MaxSaves, MaxErases, MaxResets, MaxTimeouts} \subseteq Nat
ASSUME WordsAssumption ==
  Capacitances \cap Serials = {} /\ {"blank", "zero", "magic", "nothing"} \cap (Capacitances \cup Serials) = {}

Slots == 0 .. SLOTS - 1
Words == {"blank", "zero", "magic"} \cup Capacitances \cup Serials
\* 1 and 2 the magic number, 3 the capacitances, 4 the serial number.
Fields == 1 .. 4
Entries == [Fields -> Words]
PartOf(type) == IF type = "Capacitance" THEN 3 ELSE 4
Blank == [f \in Fields |-> "blank"]
Zero == [f \in Fields |-> "zero"]
Valid(entry) == entry[1] = "magic" /\ entry[2] = "magic"
Empty(entry) == entry[1] = "blank" /\ entry[2] = "blank"

HAVStates == {"WaitCommand", "ReadInit", "ReadCurrentAppVars", "SaveInit",
              "SaveNewAppVarsToFlash", "ResetSM"}
SaveStates == {"WaitStart", "Init", "EraseSector", "WaitSectorEraseDone", "PrepareForWrite",
               "Write", "End"}
ReadStates == {"WaitStart", "Init", "VerifyDataValid", "NextAddress", "VerifyNextMemoryEmpty",
               "End"}

VARIABLES
  flash,             \* the sector of the settings
  appVarsCommand, HAVSM,
  currentAppVars, newAppVars, appVarTypeToSave,
  flags,             \* the Boolean globals of application_vars.c
  appVarsNextFree,   \* the slot of appVarsNextFreeAddress
  SNASM, RAVSM,      \* the statics of the two machines, and of the word access
  count,             \* of the bounded actions
  orderly            \* history: since the flash was last in order, no request, erasure
                     \* or time-out has come at a moment the handler is not made for

vars == <<flash, appVarsCommand, HAVSM, currentAppVars, newAppVars, appVarTypeToSave, flags,
          appVarsNextFree, SNASM, RAVSM, count, orderly>>

Flags == [valid : BOOLEAN, available : BOOLEAN, startRead : BOOLEAN, startSave : BOOLEAN,
          resetInitiated : BOOLEAN, resetReady : BOOLEAN]
Savers == [state : SaveStates, slot : Slots, word : Fields]
Counts == [saves : 0 .. MaxSaves, erases : 0 .. MaxErases, resets : 0 .. MaxResets,
           timeouts : 0 .. MaxTimeouts]
\* into: the buffer the pending reading goes to.
Scans == [state : ReadStates, slot : 0 .. SLOTS, into : {"current", "empty"},
          validDataFound : BOOLEAN]

TypeOK ==
  /\ flash \in [Slots -> Entries]
  /\ appVarsCommand \in {"Read", "Write", "Wait"}
  /\ HAVSM \in HAVStates
  /\ currentAppVars \in Entries /\ newAppVars \in Entries
  /\ appVarTypeToSave \in {"Capacitance", "SerialNumber"}
  /\ flags \in Flags
  /\ appVarsNextFree \in Slots
  /\ SNASM \in Savers
  /\ RAVSM \in Scans
  /\ count \in Counts
  /\ orderly \in BOOLEAN

\* The memory after a reset, and the reading main asks for.
Booted(command, hav, current, new, type, flag, free, save, read) ==
  /\ command = "Read" /\ hav = "WaitCommand"
  /\ current = Zero /\ new = Zero /\ type = "Capacitance"
  /\ flag = [valid |-> FALSE, available |-> FALSE, startRead |-> FALSE, startSave |-> FALSE,
             resetInitiated |-> FALSE, resetReady |-> FALSE]
  /\ free = 0
  /\ save = [state |-> "WaitStart", slot |-> 0, word |-> 1]
  /\ read = [state |-> "WaitStart", slot |-> 0, into |-> "current", validDataFound |-> FALSE]

Init ==
  /\ flash = [s \in Slots |-> Blank]
  /\ Booted(appVarsCommand, HAVSM, currentAppVars, newAppVars, appVarTypeToSave, flags,
            appVarsNextFree, SNASM, RAVSM)
  /\ count = [saves |-> 0, erases |-> 0, resets |-> 0, timeouts |-> 0]
  /\ orderly = TRUE

-----------------------------------------------------------------------------
(* Between the turns.                                                       *)

Saving == HAVSM = "SaveNewAppVarsToFlash"

\* The handler is at rest: nobody looks for it before a request, and
\* AppVarsSaveRequestReady would only show that no save is pending.
Free == HAVSM = "WaitCommand" /\ appVarsCommand = "Wait" /\ ~flags.available

\* RetriveSerialNumberFromFlash then calls the handler itself: its calls are turns.  A
\* scan of an erased flash begins with what the last one found.
AppVarsReadRequest ==
  /\ appVarsCommand' = "Read"
  /\ orderly' = (orderly /\ Free /\ ~(RAVSM.validDataFound /\ Empty(flash[0])))
  /\ UNCHANGED <<flash, HAVSM, currentAppVars, newAppVars, appVarTypeToSave, flags,
                 appVarsNextFree, SNASM, RAVSM, count>>

\* The whole entry is handed over, also while the last one is being programmed; the
\* caller fills one part of it.
AppVarsSaveRequest(type, word) ==
  /\ count.saves < MaxSaves
  /\ appVarsCommand' = "Write"
  /\ newAppVars' = [Zero EXCEPT ![PartOf(type)] = word]
  /\ flags' = [flags EXCEPT !.available = TRUE, !.valid = FALSE]
  /\ appVarTypeToSave' = type
  /\ count' = [count EXCEPT !.saves = @ + 1]
  /\ orderly' = (orderly /\ Free)
  /\ UNCHANGED <<flash, HAVSM, currentAppVars, appVarsNextFree, SNASM, RAVSM>>

\* StartEraseEntireFlash of the log, and WaitingEntireEraseDone: the log and the
\* handler take turns.  A chip that is programming a word ignores the command.
EraseEntireFlash ==
  /\ count.erases < MaxErases
  /\ ~flags.resetInitiated
  /\ \/ flash' = [s \in Slots |-> Blank]
     \/ Saving /\ SNASM.state = "Write" /\ UNCHANGED flash
  /\ flags' = [flags EXCEPT !.resetInitiated = TRUE]
  /\ count' = [count EXCEPT !.erases = @ + 1]
  /\ orderly' = (orderly /\ Free)
  /\ UNCHANGED <<appVarsCommand, HAVSM, currentAppVars, newAppVars, appVarTypeToSave,
                 appVarsNextFree, SNASM, RAVSM>>

EntireEraseDone ==
  /\ flags.resetInitiated /\ HAVSM = "ResetSM" /\ ~flags.resetReady
  /\ flags' = [flags EXCEPT !.resetReady = TRUE]
  /\ UNCHANGED <<flash, appVarsCommand, HAVSM, currentAppVars, newAppVars, appVarTypeToSave,
                 appVarsNextFree, SNASM, RAVSM, count, orderly>>

\* A slot that looks empty is blank, and so are those that follow it.
NoHoles == \A s \in Slots : Empty(flash[s]) => \A r \in Slots : r >= s => flash[r] = Blank

Reset ==
  /\ count.resets < MaxResets
  /\ Booted(appVarsCommand', HAVSM', currentAppVars', newAppVars', appVarTypeToSave', flags',
            appVarsNextFree', SNASM', RAVSM')
  /\ count' = [count EXCEPT !.resets = @ + 1]
  /\ orderly' = NoHoles
  /\ UNCHANGED flash

-----------------------------------------------------------------------------
(* The end of a turn: an erasure of the whole flash overrules the case.       *)

Becomes(hav, flag) ==
  /\ HAVSM' = IF flag.resetInitiated THEN "ResetSM" ELSE hav
  /\ flags' = [flag EXCEPT !.resetReady = @ /\ ~flag.resetInitiated]

\* The two machines rest.
NoAccess == UNCHANGED <<flash, currentAppVars, newAppVars, appVarsNextFree, SNASM, RAVSM>>

WaitCommand ==
  /\ HAVSM = "WaitCommand"
  /\ appVarsCommand' = "Wait"
  /\ Becomes(CASE appVarsCommand = "Read" -> "ReadInit"
               [] appVarsCommand = "Write" -> "SaveInit"
               [] OTHER -> "WaitCommand", flags)
  /\ NoAccess

ReadInit ==
  /\ HAVSM = "ReadInit"
  /\ Becomes(IF flags.valid THEN "WaitCommand" ELSE "ReadCurrentAppVars",
             [flags EXCEPT !.startRead = ~flags.valid])
  /\ UNCHANGED appVarsCommand
  /\ NoAccess

\* Slip: the save machine is not told to start.
SaveInitUnstarted ==
  /\ HAVSM = "SaveInit"
  /\ Becomes(IF flags.available THEN "SaveNewAppVarsToFlash" ELSE "WaitCommand", flags)
  /\ UNCHANGED appVarsCommand
  /\ NoAccess

SaveInit ==
  /\ HAVSM = "SaveInit"
  /\ Becomes(IF flags.available THEN "SaveNewAppVarsToFlash" ELSE "WaitCommand",
             [flags EXCEPT !.startSave = @ \/ flags.available])
  /\ UNCHANGED appVarsCommand
  /\ NoAccess

ResetSM ==
  /\ HAVSM = "ResetSM"
  /\ IF flags.resetReady
     THEN /\ appVarsNextFree' = 0
          /\ appVarsCommand' = "Wait"
          /\ Becomes("WaitCommand", [f \in DOMAIN flags |-> FALSE])
     ELSE /\ Becomes("ResetSM", flags)
          /\ UNCHANGED <<appVarsNextFree, appVarsCommand>>
  /\ UNCHANGED <<flash, currentAppVars, newAppVars, SNASM, RAVSM>>

-----------------------------------------------------------------------------
(* SaveNewAppVarsToExtFlash.  Each step has its own effect on the flash.      *)

SaveStep(from, to) ==
  /\ Saving /\ SNASM.state = from
  /\ SNASM' = [SNASM EXCEPT !.state = to]

\* Slip: the entry is saved as the caller handed it over.
MergedWholesale == [f \in Fields |-> IF f \in {1, 2} THEN "magic" ELSE newAppVars[f]]

\* PrepareNewAppVarToSave
Merged ==
  [f \in Fields |->
     IF f \in {1, 2} THEN "magic"
     ELSE IF f = PartOf(appVarTypeToSave) THEN newAppVars[f] ELSE currentAppVars[f]]

SNAWaitStart ==
  /\ SaveStep("WaitStart", IF flags.startSave THEN "Init" ELSE "WaitStart")
  /\ Becomes(HAVSM, [flags EXCEPT !.startSave = FALSE])
  /\ UNCHANGED <<flash, newAppVars>>

SNAInit ==
  /\ SaveStep("Init", IF appVarsNextFree = 0 THEN "EraseSector" ELSE "PrepareForWrite")
  /\ Becomes(HAVSM, flags)
  /\ UNCHANGED <<flash, newAppVars>>

SNAEraseSector ==
  /\ SaveStep("EraseSector", "WaitSectorEraseDone")
  /\ flash' = [s \in Slots |-> Blank]
  /\ Becomes(HAVSM, flags)
  /\ UNCHANGED newAppVars

SNAWaitSectorEraseDone ==
  /\ SaveStep("WaitSectorEraseDone", "PrepareForWrite")
  /\ Becomes(HAVSM, flags)
  /\ UNCHANGED <<flash, newAppVars>>

SNAPrepareForWrite ==
  /\ Saving /\ SNASM.state = "PrepareForWrite"
  /\ newAppVars' = Merged
  /\ SNASM' = [state |-> "Write", slot |-> appVarsNextFree, word |-> 1]
  /\ Becomes(HAVSM, flags)
  /\ UNCHANGED flash

\* A word that is not blank is not programmed, and nobody is told.
Programmed ==
  [flash EXCEPT ![SNASM.slot][SNASM.word] =
     IF @ = "blank" THEN newAppVars[SNASM.word] ELSE @]

\* Slip: one word too many.
SNAWriteOneMore ==
  /\ Saving /\ SNASM.state = "Write"
  /\ flash' = IF flags.resetInitiated THEN flash ELSE Programmed
  /\ SNASM' = IF SNASM.word <= 4 THEN [SNASM EXCEPT !.word = @ + 1]
                                 ELSE [SNASM EXCEPT !.state = "End"]
  /\ Becomes(HAVSM, flags)
  /\ UNCHANGED newAppVars

\* A chip that is erasing itself does not program.
SNAWrite ==
  /\ Saving /\ SNASM.state = "Write"
  /\ flash' = IF flags.resetInitiated THEN flash ELSE Programmed
  /\ SNASM' = IF SNASM.word < 4 THEN [SNASM EXCEPT !.word = @ + 1]
                                ELSE [SNASM EXCEPT !.state = "End"]
  /\ Becomes(HAVSM, flags)
  /\ UNCHANGED newAppVars

\* The chip does not become ready after a word, programmed or not: the save ends as
\* if it had been written (EXT_FLASH_BUF_WRITE_TIME_OUT).
SNAWriteTimeOut ==
  /\ SaveStep("Write", "End")
  /\ count.timeouts < MaxTimeouts
  /\ flash' \in {flash, Programmed}
  /\ Becomes(HAVSM, flags)
  /\ count' = [count EXCEPT !.timeouts = @ + 1]
  /\ orderly' = FALSE
  /\ UNCHANGED <<appVarsCommand, currentAppVars, newAppVars, appVarTypeToSave, appVarsNextFree,
                 RAVSM>>

\* Slip: the request is not taken back.
SNAEndUntold ==
  /\ SaveStep("End", "WaitStart")
  /\ Becomes("ReadInit", flags)
  /\ UNCHANGED <<flash, newAppVars>>

SNAEnd ==
  /\ SaveStep("End", "WaitStart")
  /\ Becomes("ReadInit", [flags EXCEPT !.available = FALSE])
  /\ UNCHANGED <<flash, newAppVars>>

SaveNewAppVarsToFlash ==
  /\ \/ SNAWaitStart \/ SNAInit \/ SNAEraseSector \/ SNAWaitSectorEraseDone
     \/ SNAPrepareForWrite \/ SNAWrite \/ SNAEnd
  /\ UNCHANGED <<appVarsCommand, currentAppVars, appVarsNextFree, RAVSM>>

-----------------------------------------------------------------------------
(* RetriveAppVarsFromExtFlash.                                               *)

Reading == HAVSM = "ReadCurrentAppVars"

\* What the pending reading leaves in currentAppVars.
CurrentRead == IF RAVSM.into = "current" THEN flash[RAVSM.slot] ELSE currentAppVars

RAVWaitStart ==
  /\ Reading /\ RAVSM.state = "WaitStart"
  /\ RAVSM' = [RAVSM EXCEPT !.state = IF flags.startRead THEN "Init" ELSE @]
  /\ Becomes(HAVSM, [flags EXCEPT !.startRead = FALSE])
  /\ UNCHANGED <<currentAppVars, appVarsNextFree>>

RAVInit ==
  /\ Reading /\ RAVSM.state = "Init"
  /\ RAVSM' = [RAVSM EXCEPT !.state = "VerifyDataValid", !.slot = 0, !.into = "current"]
  /\ Becomes(HAVSM, flags)
  /\ UNCHANGED <<currentAppVars, appVarsNextFree>>

RAVVerifyDataValid ==
  /\ Reading /\ RAVSM.state = "VerifyDataValid"
  /\ currentAppVars' = CurrentRead
  /\ RAVSM' = [RAVSM EXCEPT !.state = "NextAddress", !.validDataFound = @ \/ Valid(CurrentRead)]
  /\ Becomes(HAVSM, flags)
  /\ UNCHANGED appVarsNextFree

\* Slip: at the end of the sector the next free address is left alone.
RAVNextAddressKeepsFree ==
  /\ Reading /\ RAVSM.state = "NextAddress"
  /\ RAVSM' = IF RAVSM.slot + 1 = SLOTS
              THEN [RAVSM EXCEPT !.state = "End", !.slot = SLOTS]
              ELSE [RAVSM EXCEPT !.slot = @ + 1, !.into = "empty",
                                 !.state = IF RAVSM.validDataFound
                                           THEN "VerifyNextMemoryEmpty" ELSE "VerifyDataValid"]
  /\ Becomes(HAVSM, flags)
  /\ UNCHANGED <<currentAppVars, appVarsNextFree>>

RAVNextAddress ==
  /\ Reading /\ RAVSM.state = "NextAddress"
  /\ IF RAVSM.slot + 1 = SLOTS
     THEN /\ RAVSM' = [RAVSM EXCEPT !.state = "End", !.slot = SLOTS]
          /\ appVarsNextFree' = 0
     ELSE /\ RAVSM' = [RAVSM EXCEPT !.slot = @ + 1, !.into = "empty",
                                    !.state = IF RAVSM.validDataFound
                                              THEN "VerifyNextMemoryEmpty" ELSE "VerifyDataValid"]
          /\ UNCHANGED appVarsNextFree
  /\ Becomes(HAVSM, flags)
  /\ UNCHANGED currentAppVars

RAVVerifyNextMemoryEmpty ==
  /\ Reading /\ RAVSM.state = "VerifyNextMemoryEmpty"
  /\ IF Empty(flash[RAVSM.slot])
     THEN /\ appVarsNextFree' = RAVSM.slot
          /\ RAVSM' = [RAVSM EXCEPT !.state = "End"]
     ELSE /\ RAVSM' = [RAVSM EXCEPT !.state = "VerifyDataValid", !.validDataFound = FALSE,
                                    !.into = "current"]
          /\ UNCHANGED appVarsNextFree
  /\ Becomes(HAVSM, flags)
  /\ UNCHANGED currentAppVars

RAVEnd ==
  /\ Reading /\ RAVSM.state = "End"
  /\ RAVSM' = [RAVSM EXCEPT !.state = "WaitStart"]
  /\ Becomes("WaitCommand", [flags EXCEPT !.valid = TRUE])
  /\ UNCHANGED <<currentAppVars, appVarsNextFree>>

ReadCurrentAppVars ==
  /\ \/ RAVWaitStart \/ RAVInit \/ RAVVerifyDataValid \/ RAVNextAddress
     \/ RAVVerifyNextMemoryEmpty \/ RAVEnd
  /\ UNCHANGED <<flash, appVarsCommand, newAppVars, SNASM>>

-----------------------------------------------------------------------------
HandleAppVarsOnExternalFlashSM ==
  /\ \/ WaitCommand \/ ReadInit \/ ReadCurrentAppVars \/ SaveInit \/ SaveNewAppVarsToFlash
     \/ ResetSM
  /\ UNCHANGED <<appVarTypeToSave, count, orderly>>

Next ==
  \/ HandleAppVarsOnExternalFlashSM \/ SNAWriteTimeOut
  \/ AppVarsReadRequest
  \/ \E c \in Capacitances : AppVarsSaveRequest("Capacitance", c)
  \/ \E n \in Serials : AppVarsSaveRequest("SerialNumber", n)
  \/ EraseEntireFlash \/ EntireEraseDone
  \/ Reset

\* The loop goes round, and the chip completes an erasure.
Spec ==
  /\ Init /\ [][Next]_vars
  /\ WF_vars(HandleAppVarsOnExternalFlashSM) /\ WF_vars(EntireEraseDone)

-----------------------------------------------------------------------------
SettingsOf(entry) == [cap |-> entry[3], serial |-> entry[4]]
Nothing == [cap |-> "nothing", serial |-> "nothing"]

\* The last entry before the first blank slot, if none before it is torn: what
\* a reading after a reset is meant to find.
Used == {s \in Slots : \A r \in 0 .. s : ~Empty(flash[r])}
Stored ==
  IF Used # {} /\ \A s \in Used : Valid(flash[s])
  THEN SettingsOf(flash[Cardinality(Used) - 1]) ELSE Nothing

Hidden == appVarsCommand = "Read" \/ HAVSM \in {"ReadInit", "ReadCurrentAppVars"}

AllSettings == [cap : Words, serial : Words]
InOrder(settings) == IF orderly THEN settings ELSE Nothing

Store == INSTANCE SettingsStore WITH
  Settings <- AllSettings,
  Changes <- [s \in AllSettings |->
                {[s EXCEPT !.cap = c] : c \in Capacitances}
                \cup {[s EXCEPT !.serial = n] : n \in Serials}],
  Nothing <- Nothing,
  kept <- orderly,
  stored <- InOrder(Stored),
  shown <- InOrder(IF Hidden THEN Nothing ELSE SettingsOf(currentAppVars)),
  resets <- count.resets,
  wanted <- InOrder(IF Saving /\ SNASM.state # "WaitStart" THEN SettingsOf(Merged) ELSE Nothing)

(* As long as requests and erasures find the handler at rest and the chip answers:  *)
(* the settings that are shown are those a reset would find, a save replaces them    *)
(* by what was asked for and nothing else, and no command, scan or erasure of the    *)
(* log touches them otherwise; only a reset in the middle of a save may leave         *)
(* anything, and none puts a flash that was in order out of it                        *)
(* (RetriveAppVarsFromExtFlash, SaveNewAppVarsToExtFlash).                           *)
ImplementsStore == Store!Spec

(* When the handler is at rest and has read the flash, in order so far, the next      *)
(* save goes to a slot that is blank or to the first one, which it erases; otherwise   *)
(* words would be skipped (ext_flash_non_blocking_write_word), also after a torn       *)
(* entry that a reset in the middle of a save has left.                               *)
NextSlotIsBlank ==
  (orderly /\ Free /\ flags.valid) => appVarsNextFree = 0 \/ flash[appVarsNextFree] = Blank

\* A save was asked for, and no command is left that would lead to it.
Overtaken ==
  /\ flags.available /\ ~flags.resetInitiated
  /\ appVarsCommand # "Write" /\ HAVSM \notin {"SaveInit", "SaveNewAppVarsToFlash"}

(* Every save ends, and its requester is told (AppVarsSaveRequestReady), across the     *)
(* nested machines and their start flags, requests and erasures at any moment, resets    *)
(* and time-outs of the chip; unless it is overtaken.                                  *)
SaveEnds == flags.available ~> (~flags.available \/ Overtaken)

(* The only thing that overtakes a save is a reading asked for in the place of its       *)
(* command (application_vars.c:42, 351); no turn, erasure, time-out or other save does.  *)
ReadReplacesWrite == appVarsCommand = "Write" /\ appVarsCommand' = "Read"
OvertakenByRead == [][~Overtaken /\ Overtaken' => ReadReplacesWrite]_vars
=============================================================================
