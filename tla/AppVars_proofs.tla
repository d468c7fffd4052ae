--------------------------- MODULE AppVars_proofs ---------------------------
(***************************************************************************)
(* Proofs about AppVars, for a sector of any size, any settings and any       *)
(* number of saves, erasures, time-outs and resets, whatever overlaps: its     *)
(* types, that it implements SettingsStore, that a save is overtaken by a       *)
(* reading only, and that every turn brings the end of one that is not nearer.  *)
(***************************************************************************)
EXTENDS AppVars, TLAPS, FiniteSetTheorems

Scanning == RAVSM.state \in {"VerifyDataValid", "NextAddress", "VerifyNextMemoryEmpty"}

\* Types, with the slot a scan looks at.
Types == TypeOK /\ (Scanning => RAVSM.slot \in Slots)

-----------------------------------------------------------------------------
(* Types.                                                                   *)

LEMMA EntriesType ==
  /\ Blank \in Entries /\ Zero \in Entries
  /\ "magic" \in Words /\ "blank" \in Words
  /\ \A type \in {"Capacitance", "SerialNumber"} : PartOf(type) \in {3, 4}
  BY DEF Blank, Zero, Entries, Words, Fields, PartOf

LEMMA MergedType == ASSUME TypeOK PROVE Merged \in Entries
  BY EntriesType DEF TypeOK, Merged, Entries, Fields

LEMMA BootedTypes ==
  ASSUME flash' \in [Slots -> Entries],
         Booted(appVarsCommand', HAVSM', currentAppVars', newAppVars', appVarTypeToSave', flags',
                appVarsNextFree', SNASM', RAVSM'),
         count' \in Counts, orderly' \in BOOLEAN
  PROVE  Types'
  BY EntriesType, SlotsAssumption
     DEF Booted, Types, Scanning, TypeOK, HAVStates, Flags, Savers, SaveStates, Scans, ReadStates,
         Slots, Fields

LEMMA InitTypes == Init => Types
<1> SUFFICES ASSUME Init PROVE Types
  OBVIOUS
<1>1. flash \in [Slots -> Entries]
  BY EntriesType DEF Init
<1>2. count \in Counts /\ orderly \in BOOLEAN
  BY BoundsAssumption DEF Init, Counts
<1> QED
  BY <1>1, <1>2, EntriesType, SlotsAssumption
     DEF Init, Booted, Types, Scanning, TypeOK, HAVStates, Flags, Savers, SaveStates, Scans,
         ReadStates, Slots, Fields

LEMMA BetweenKeepsTypes ==
  ASSUME Types,
         \/ AppVarsReadRequest
         \/ \E c \in Capacitances : AppVarsSaveRequest("Capacitance", c)
         \/ \E n \in Serials : AppVarsSaveRequest("SerialNumber", n)
         \/ EraseEntireFlash \/ EntireEraseDone \/ Reset
  PROVE  Types'
<1> USE DEF Types, Scanning
<1>1. CASE AppVarsReadRequest
  <2>1. orderly' \in BOOLEAN
    BY <1>1 DEF AppVarsReadRequest
  <2> QED
    BY <1>1, <2>1 DEF TypeOK, AppVarsReadRequest
<1>2. ASSUME NEW type \in {"Capacitance", "SerialNumber"}, NEW word \in Words,
             AppVarsSaveRequest(type, word)
      PROVE  Types'
  <2>1. newAppVars' \in Entries
    BY <1>2, EntriesType DEF AppVarsSaveRequest, Entries
  <2>2. flags' \in Flags
    BY <1>2 DEF AppVarsSaveRequest, TypeOK, Flags
  <2>3. count' \in Counts
    BY <1>2, BoundsAssumption DEF AppVarsSaveRequest, TypeOK, Counts
  <2>4. orderly' \in BOOLEAN
    BY <1>2 DEF AppVarsSaveRequest
  <2> QED
    BY <1>2, <2>1, <2>2, <2>3, <2>4 DEF AppVarsSaveRequest, TypeOK
<1>3. CASE EraseEntireFlash
  <2>1. flash' \in [Slots -> Entries]
    BY <1>3, EntriesType DEF EraseEntireFlash, TypeOK
  <2>2. flags' \in Flags
    BY <1>3 DEF EraseEntireFlash, TypeOK, Flags
  <2>3. count' \in Counts
    BY <1>3, BoundsAssumption DEF EraseEntireFlash, TypeOK, Counts
  <2>4. orderly' \in BOOLEAN
    BY <1>3 DEF EraseEntireFlash
  <2> QED
    BY <1>3, <2>1, <2>2, <2>3, <2>4 DEF EraseEntireFlash, TypeOK
<1>4. CASE EntireEraseDone
  <2>1. flags' \in Flags
    BY <1>4 DEF EntireEraseDone, TypeOK, Flags
  <2> QED
    BY <1>4, <2>1 DEF EntireEraseDone, TypeOK
<1>5. CASE Reset
  <2>1. count' \in Counts
    BY <1>5, BoundsAssumption DEF Reset, TypeOK, Counts
  <2>2. orderly' \in BOOLEAN
    BY <1>5 DEF Reset, NoHoles
  <2> QED
    BY <1>5, <2>1, <2>2, BootedTypes DEF Reset, TypeOK
<1> QED
  BY <1>1, <1>2, <1>3, <1>4, <1>5 DEF Words

LEMMA BecomesType ==
  ASSUME NEW hav \in HAVStates, NEW flag \in Flags, Becomes(hav, flag)
  PROVE  HAVSM' \in HAVStates /\ flags' \in Flags
  BY DEF Becomes, HAVStates, Flags

LEMMA CommandKeepsTypes ==
  ASSUME Types, WaitCommand \/ ReadInit \/ SaveInit \/ ResetSM, UNCHANGED <<appVarTypeToSave, count, orderly>>
  PROVE  Types'
<1> USE DEF Types, Scanning
<1>1. HAVSM' \in HAVStates /\ flags' \in Flags
  <2>1. PICK hav \in HAVStates, flag \in Flags : Becomes(hav, flag)
    <3>1. CASE WaitCommand
      BY <3>1 DEF WaitCommand, TypeOK, HAVStates
    <3>2. CASE ReadInit
      <4>1. [flags EXCEPT !.startRead = ~flags.valid] \in Flags
        BY DEF TypeOK, Flags
      <4> QED
        BY <3>2, <4>1 DEF ReadInit, HAVStates
    <3>3. CASE SaveInit
      <4>1. [flags EXCEPT !.startSave = @ \/ flags.available] \in Flags
        BY DEF TypeOK, Flags
      <4> QED
        BY <3>3, <4>1 DEF SaveInit, HAVStates
    <3>4. CASE ResetSM
      <4>1. [f \in DOMAIN flags |-> FALSE] \in Flags
        BY DEF TypeOK, Flags
      <4> QED
        BY <3>4, <4>1 DEF ResetSM, TypeOK, HAVStates
    <3> QED
      BY <3>1, <3>2, <3>3, <3>4
  <2> QED
    BY <2>1, BecomesType
<1>2. appVarsCommand' \in {"Read", "Write", "Wait"} /\ appVarsNextFree' \in Slots
  BY SlotsAssumption DEF TypeOK, WaitCommand, ReadInit, SaveInit, ResetSM, NoAccess, Slots
<1>3. UNCHANGED <<flash, currentAppVars, newAppVars, SNASM, RAVSM>>
  BY DEF WaitCommand, ReadInit, SaveInit, ResetSM, NoAccess
<1> QED
  BY <1>1, <1>2, <1>3 DEF TypeOK

LEMMA ProgrammedType == ASSUME TypeOK PROVE Programmed \in [Slots -> Entries]
<1>1. newAppVars[SNASM.word] \in Words /\ SNASM.slot \in Slots /\ SNASM.word \in Fields
  BY DEF TypeOK, Savers, Entries
<1> QED
  BY <1>1 DEF TypeOK, Programmed, Entries

LEMMA TimeOutKeepsTypes == ASSUME Types, SNAWriteTimeOut PROVE Types'
<1> USE DEF Types, Scanning
<1>1. HAVSM' \in HAVStates /\ flags' \in Flags
  BY BecomesType DEF TypeOK, SNAWriteTimeOut
<1>2. flash' \in [Slots -> Entries]
  BY ProgrammedType DEF TypeOK, SNAWriteTimeOut
<1>3. SNASM' \in Savers
  BY DEF TypeOK, SNAWriteTimeOut, SaveStep, Savers, SaveStates
<1>4. count' \in Counts
  BY BoundsAssumption DEF TypeOK, SNAWriteTimeOut, Counts
<1> QED
  BY <1>1, <1>2, <1>3, <1>4 DEF TypeOK, SNAWriteTimeOut

LEMMA SaveKeepsTypes ==
  ASSUME Types, SaveNewAppVarsToFlash, UNCHANGED <<appVarTypeToSave, count, orderly>>
  PROVE  Types'
<1> USE DEF Types, Scanning
<1>1. HAVSM' \in HAVStates /\ flags' \in Flags
  <2>1. /\ [flags EXCEPT !.startSave = FALSE] \in Flags
        /\ [flags EXCEPT !.available = FALSE] \in Flags
        /\ "ReadInit" \in HAVStates
    BY DEF TypeOK, Flags, HAVStates
  <2> QED
    BY <2>1, BecomesType DEF TypeOK, SaveNewAppVarsToFlash, SNAWaitStart, SNAInit, SNAEraseSector,
         SNAWaitSectorEraseDone, SNAPrepareForWrite, SNAWrite, SNAEnd
<1>2. flash' \in [Slots -> Entries]
  <2>1. CASE SNAWrite
    BY <2>1, ProgrammedType DEF TypeOK, SNAWrite
  <2>2. CASE flash' = [s \in Slots |-> Blank]
    BY <2>2, EntriesType
  <2> QED
    BY <2>1, <2>2 DEF TypeOK, SaveNewAppVarsToFlash, SNAWaitStart, SNAInit, SNAEraseSector,
         SNAWaitSectorEraseDone, SNAPrepareForWrite, SNAEnd
<1>3. newAppVars' \in Entries
  BY MergedType DEF TypeOK, SaveNewAppVarsToFlash, SNAWaitStart, SNAInit, SNAEraseSector,
         SNAWaitSectorEraseDone, SNAPrepareForWrite, SNAWrite, SNAEnd
<1>4. SNASM' \in Savers
  <2>1. CASE SNAWrite
    BY <2>1 DEF TypeOK, SNAWrite, Savers, SaveStates, Fields
  <2>2. CASE SNAPrepareForWrite
    BY <2>2 DEF TypeOK, SNAPrepareForWrite, Savers, SaveStates, Fields
  <2>3. \A to \in SaveStates : [SNASM EXCEPT !.state = to] \in Savers
    BY DEF TypeOK, Savers
  <2> QED
    BY <2>1, <2>2, <2>3 DEF SaveNewAppVarsToFlash, SNAWaitStart, SNAInit, SNAEraseSector,
         SNAWaitSectorEraseDone, SNAEnd, SaveStep, SaveStates
<1> QED
  BY <1>1, <1>2, <1>3, <1>4 DEF TypeOK, SaveNewAppVarsToFlash

LEMMA ReadKeepsTypes ==
  ASSUME Types, ReadCurrentAppVars, UNCHANGED <<appVarTypeToSave, count, orderly>>
  PROVE  Types'
<1> USE DEF Types, Scanning
<1>1. HAVSM' \in HAVStates /\ flags' \in Flags
  <2>1. /\ [flags EXCEPT !.startRead = FALSE] \in Flags
        /\ [flags EXCEPT !.valid = TRUE] \in Flags
        /\ "WaitCommand" \in HAVStates
    BY DEF TypeOK, Flags, HAVStates
  <2> QED
    BY <2>1, BecomesType DEF TypeOK, ReadCurrentAppVars, RAVWaitStart, RAVInit, RAVVerifyDataValid,
         RAVNextAddress, RAVVerifyNextMemoryEmpty, RAVEnd
<1>2. /\ RAVSM' \in Scans /\ (Scanning' => RAVSM'.slot \in Slots)
      /\ appVarsNextFree' \in Slots /\ currentAppVars' \in Entries
  <2>1. CASE RAVWaitStart \/ RAVInit \/ RAVEnd
    <3>1. 0 \in Slots /\ 0 \in 0 .. SLOTS
      BY SlotsAssumption DEF Slots
    <3>2. CASE RAVWaitStart
      BY <3>2 DEF TypeOK, RAVWaitStart, Scans, ReadStates
    <3>3. CASE RAVInit
      BY <3>1, <3>3 DEF TypeOK, RAVInit, Scans, ReadStates
    <3>4. CASE RAVEnd
      BY <3>4 DEF TypeOK, RAVEnd, Scans, ReadStates
    <3> QED
      BY <2>1, <3>2, <3>3, <3>4
  <2>2. CASE RAVVerifyDataValid
    <3>1. RAVSM.slot \in Slots /\ RAVSM.slot \in 0 .. SLOTS
      BY <2>2 DEF RAVVerifyDataValid, TypeOK, Scans
    <3>2. CurrentRead \in Entries
      BY <3>1 DEF TypeOK, CurrentRead
    <3>3. RAVSM' \in Scans
      <4>1. (RAVSM.validDataFound \/ Valid(CurrentRead)) \in BOOLEAN
        BY DEF Valid
      <4> HIDE DEF Types
      <4> QED
        BY <2>2, <4>1 DEF Types, TypeOK, RAVVerifyDataValid, Scans, ReadStates
    <3> QED
      BY <2>2, <3>1, <3>2, <3>3 DEF RAVVerifyDataValid, TypeOK, Scans
  <2>3. CASE RAVNextAddress
    <3>1. RAVSM.slot \in Slots
      BY <2>3 DEF RAVNextAddress
    <3>2. CASE RAVSM.slot + 1 = SLOTS
      <4>1. 0 \in Slots /\ SLOTS \in 0 .. SLOTS
        BY SlotsAssumption DEF Slots
      <4>2. /\ RAVSM' = [RAVSM EXCEPT !.state = "End", !.slot = SLOTS]
            /\ appVarsNextFree' = 0 /\ UNCHANGED currentAppVars
        BY <2>3, <3>2 DEF RAVNextAddress
      <4> QED
        BY <4>1, <4>2 DEF TypeOK, Scans, ReadStates
    <3>3. CASE RAVSM.slot + 1 # SLOTS
      <4>1. RAVSM.slot + 1 \in Slots /\ RAVSM.slot + 1 \in 0 .. SLOTS
        BY <3>1, <3>3, SlotsAssumption DEF Slots
      <4>2. RAVSM' = [RAVSM EXCEPT !.slot = @ + 1, !.into = "empty",
                                   !.state = IF RAVSM.validDataFound
                                             THEN "VerifyNextMemoryEmpty" ELSE "VerifyDataValid"]
            /\ UNCHANGED <<appVarsNextFree, currentAppVars>>
        BY <2>3, <3>3 DEF RAVNextAddress
      <4> QED
        BY <4>1, <4>2 DEF TypeOK, Scans, ReadStates
    <3> QED
      BY <3>2, <3>3
  <2>4. CASE RAVVerifyNextMemoryEmpty
    BY <2>4 DEF TypeOK, RAVVerifyNextMemoryEmpty, Scans, ReadStates, Slots
  <2> QED
    BY <2>1, <2>2, <2>3, <2>4 DEF ReadCurrentAppVars
<1> QED
  BY <1>1, <1>2 DEF TypeOK, ReadCurrentAppVars

LEMMA NextKeepsTypes == ASSUME Types, [Next]_vars PROVE Types'
<1>1. CASE UNCHANGED vars
  BY <1>1 DEF Types, Scanning, TypeOK, vars
<1> QED
  BY <1>1, BetweenKeepsTypes, CommandKeepsTypes, SaveKeepsTypes, ReadKeepsTypes, TimeOutKeepsTypes
     DEF Next, HandleAppVarsOnExternalFlashSM

\* Every reachable state is well typed, whatever requests overlap: no slot or word
\* outside the sector is programmed (ext_flash_non_blocking_write_word).
THEOREM TypeCorrect == Spec => []TypeOK
<1>1. Types => TypeOK
  BY DEF Types
<1> QED
  BY InitTypes, NextKeepsTypes, <1>1, PTL DEF Spec

-----------------------------------------------------------------------------
(* What is stored.                                                          *)

LEMMA NotEmptyValid == \A e : Valid(e) => ~Empty(e)
  BY DEF Valid, Empty

LEMMA BlankIsEmpty == Empty(Blank) /\ ~Valid(Blank)
  BY DEF Empty, Valid, Blank, Fields

LEMMA StoredLast ==
  ASSUME NEW n \in Slots, \A s \in Slots : s <= n => Valid(flash[s]),
         \A s \in Slots : s > n => Empty(flash[s])
  PROVE  Stored = SettingsOf(flash[n])
<1>1. Used = 0 .. n
  <2>1. ASSUME NEW s \in Slots, s <= n PROVE s \in Used
    <3>1. \A r \in 0 .. s : r \in Slots /\ r <= n
      BY <2>1, SlotsAssumption DEF Slots
    <3>2. \A r \in 0 .. s : ~Empty(flash[r])
      BY <3>1, NotEmptyValid
    <3> QED
      BY <3>2 DEF Used
  <2>2. ASSUME NEW s \in Slots, s > n PROVE s \notin Used
    <3>1. s \in 0 .. s /\ Empty(flash[s])
      BY <2>2, SlotsAssumption DEF Slots
    <3> QED
      BY <3>1 DEF Used
  <2>3. \A s \in Used : s \in Slots
    BY DEF Used
  <2>4. \A s : s \in 0 .. n <=> s \in Slots /\ ~(s > n)
    BY SlotsAssumption DEF Slots
  <2>5. \A s \in Slots : s <= n <=> ~(s > n)
    BY SlotsAssumption DEF Slots
  <2>6. \A s : s \in Used <=> s \in 0 .. n
    BY <2>1, <2>2, <2>3, <2>4, <2>5
  <2> QED
    BY <2>6
<1>2. Cardinality(Used) - 1 = n
  <2>1. n \in Int /\ n >= 0
    BY SlotsAssumption DEF Slots
  <2>2. Cardinality(0 .. n) = n - 0 + 1
    BY <2>1, FS_Interval
  <2> QED
    BY <1>1, <2>1, <2>2
<1>3. Used # {} /\ \A s \in Used : Valid(flash[s])
  BY <1>1, SlotsAssumption DEF Slots
<1> QED
  BY <1>2, <1>3 DEF Stored

LEMMA StoredTorn ==
  ASSUME NEW n \in Slots, ~Valid(flash[n]), \A s \in Slots : s < n => Valid(flash[s]),
         n > 0 => ~Empty(flash[n])
  PROVE  Stored = Nothing
<1>1. CASE Empty(flash[n])
  <2>1. n = 0
    BY <1>1, SlotsAssumption DEF Slots
  <2>2. \A s \in Slots : 0 \in 0 .. s
    BY SlotsAssumption DEF Slots
  <2>3. Used = {}
    BY <1>1, <2>1, <2>2 DEF Used
  <2> QED
    BY <2>3 DEF Stored
<1>2. CASE ~Empty(flash[n])
  <2>1. \A r \in 0 .. n : ~Empty(flash[r])
    BY <1>2, NotEmptyValid, SlotsAssumption DEF Slots
  <2>2. n \in Used
    BY <2>1 DEF Used
  <2> QED
    BY <2>2 DEF Stored
<1> QED
  BY <1>1, <1>2

LEMMA StoredBlank == ASSUME flash = [s \in Slots |-> Blank] PROVE Stored = Nothing
  BY StoredTorn, BlankIsEmpty, SlotsAssumption DEF Slots

LEMMA StoredType ==
  ASSUME TypeOK PROVE Stored = Nothing \/ Stored \in [cap : Words, serial : Words]
<1> SUFFICES ASSUME Used # {}, Stored = SettingsOf(flash[Cardinality(Used) - 1])
             PROVE  Stored \in [cap : Words, serial : Words]
  BY DEF Stored
<1>1. Cardinality(Used) - 1 \in Slots
  <2>1. Used \subseteq Slots /\ IsFiniteSet(Slots) /\ Cardinality(Slots) = SLOTS
    <3>1. 0 \in Int /\ SLOTS - 1 \in Int /\ ~(0 > SLOTS - 1) /\ (SLOTS - 1) - 0 + 1 = SLOTS
      BY SlotsAssumption
    <3>2. IsFiniteSet(0 .. SLOTS - 1) /\ Cardinality(0 .. SLOTS - 1) = SLOTS
      BY <3>1, FS_Interval
    <3> QED
      BY <3>2 DEF Used, Slots
  <2>2. IsFiniteSet(Used) /\ Cardinality(Used) <= SLOTS
    BY <2>1, FS_Subset
  <2>3. Cardinality(Used) \in Nat /\ Cardinality(Used) # 0
    BY <2>2, FS_CardinalityType, FS_EmptySet
  <2> QED
    BY <2>2, <2>3, SlotsAssumption DEF Slots
<1>2. flash[Cardinality(Used) - 1] \in [Fields -> Words]
  BY <1>1 DEF TypeOK, Entries
<1> QED
  BY <1>2 DEF SettingsOf, Fields

LEMMA StoredKept == ASSUME UNCHANGED flash PROVE Stored' = Stored /\ Used' = Used
  BY DEF Stored, Used

-----------------------------------------------------------------------------
(* What holds in every reachable state that is in order.                      *)

\* Which machine may be under way, and what its command left behind.
Control ==
  /\ HAVSM # "WaitCommand" => appVarsCommand = "Wait"
  /\ flags.available <=>
       appVarsCommand = "Write" \/ HAVSM \in {"SaveInit", "SaveNewAppVarsToFlash"}
         \/ (HAVSM = "ResetSM" /\ flags.available)
  /\ SNASM.state # "WaitStart" => Saving
  /\ RAVSM.state # "WaitStart" => Reading
  /\ Reading => ~flags.valid
  /\ flags.available => ~flags.valid /\
       newAppVars[PartOf(appVarTypeToSave)] \in
         IF appVarTypeToSave = "Capacitance" THEN Capacitances ELSE Serials
  /\ flags.resetInitiated => HAVSM \in {"WaitCommand", "ResetSM"} /\ flash = [s \in Slots |-> Blank]
  /\ HAVSM = "ResetSM" => flags.resetInitiated

\* The first n slots hold settings, the others nothing.
Filled(n) ==
  /\ \A s \in Slots : s < n => Valid(flash[s])
  /\ \A s \in Slots : s >= n => flash[s] = Blank

\* The next free slot, unless a save or a scan has yet to move it.
FreeIsNext ==
  \/ SNASM.state \in {"Write", "End"}
  \/ HAVSM = "ReadInit" /\ ~flags.valid
  \/ Reading /\ RAVSM.state # "End"
  \/ appVarsNextFree = 0 \/ Filled(appVarsNextFree) \/ flags.resetInitiated

\* How far a save has come.
SaveProgress ==
  /\ SNASM.state = "EraseSector" => appVarsNextFree = 0
  /\ SNASM.state \in {"WaitSectorEraseDone", "PrepareForWrite"} => Filled(appVarsNextFree)
  /\ SNASM.state \in {"Write", "End"} =>
       /\ SNASM.slot = appVarsNextFree
       /\ newAppVars = Merged
       /\ \A s \in Slots : s < SNASM.slot => Valid(flash[s])
       /\ \A s \in Slots : s > SNASM.slot => flash[s] = Blank
  /\ SNASM.state = "Write" =>
       flash[SNASM.slot] = [f \in Fields |-> IF f < SNASM.word THEN newAppVars[f] ELSE "blank"]
  /\ SNASM.state = "End" => flash[SNASM.slot] = newAppVars

\* What is shown after a scan.
Shows == Stored = Nothing \/ SettingsOf(currentAppVars) = Stored

\* How far a scan has come.  One that met an entry that is not valid shows anything.
ScanProgress ==
  /\ RAVSM.state = "VerifyDataValid" =>
       IF RAVSM.into = "current"
       THEN /\ \A s \in Slots : s < RAVSM.slot => Valid(flash[s])
            /\ RAVSM.validDataFound => Valid(flash[RAVSM.slot])
            /\ RAVSM.slot > 0 => ~Empty(flash[RAVSM.slot])
       ELSE Stored = Nothing /\ ~Valid(currentAppVars) /\ ~RAVSM.validDataFound
  /\ RAVSM.state = "NextAddress" =>
       IF RAVSM.validDataFound
       THEN /\ \A s \in Slots : s <= RAVSM.slot => Valid(flash[s])
            /\ currentAppVars = flash[RAVSM.slot]
       ELSE Stored = Nothing /\ ~Valid(currentAppVars)
  /\ RAVSM.state = "VerifyNextMemoryEmpty" =>
       /\ RAVSM.slot > 0
       /\ \A s \in Slots : s < RAVSM.slot => Valid(flash[s])
       /\ currentAppVars = flash[RAVSM.slot - 1]
  /\ RAVSM.state = "End" => Shows

\* A flash in which settings were found since the last reset is not torn, and a
\* scan of it does not begin with a blank slot.
FoundIsTrue ==
  RAVSM.validDataFound /\ ~Scanning =>
    /\ SNASM.state # "Write" => \A s \in Slots : Valid(flash[s]) \/ flash[s] = Blank
    /\ (appVarsCommand = "Read" \/ (HAVSM = "ReadInit" /\ ~flags.valid) \/ Reading)
         => ~Empty(flash[0]) \/ flags.resetInitiated

Ordered ==
  /\ Types /\ Control /\ NoHoles /\ FreeIsNext /\ SaveProgress /\ ScanProgress /\ FoundIsTrue
  /\ flags.valid => Shows

IInv == Types /\ (orderly => Ordered)

-----------------------------------------------------------------------------
(* The invariant, between the turns.                                          *)

LEMMA InvDependsOn ==
  ASSUME NoHoles, UNCHANGED flash PROVE NoHoles'
  BY DEF NoHoles

LEMMA InitInv == Init => Ordered /\ IInv
<1> SUFFICES ASSUME Init PROVE Ordered
  BY DEF IInv, Ordered
<1>1. Types
  BY InitTypes
<1>2. NoHoles
  BY DEF Init, NoHoles
<1> QED
  BY <1>1, <1>2
     DEF Init, Booted, Ordered, Control, FreeIsNext, SaveProgress, ScanProgress, FoundIsTrue, Saving, Reading

\* A reset puts in order what has no holes.
LEMMA ResetKeepsInv == ASSUME Types', Reset, orderly' PROVE Ordered'
<1>1. NoHoles'
  BY InvDependsOn DEF Reset
<1> QED
  BY <1>1
     DEF Reset, Booted, Ordered, Control, FreeIsNext, SaveProgress, ScanProgress, FoundIsTrue, Saving, Reading

LEMMA RequestKeepsInv == ASSUME Ordered, Types', AppVarsReadRequest, orderly' PROVE Ordered'
<1>1. /\ Free /\ appVarsCommand' = "Read"
      /\ RAVSM.validDataFound => ~Empty(flash[0])
      /\ UNCHANGED <<flash, HAVSM, currentAppVars, newAppVars, appVarTypeToSave, flags,
                     appVarsNextFree, SNASM, RAVSM>>
  BY DEF AppVarsReadRequest
<1>2. NoHoles' /\ Stored' = Stored
  BY <1>1, InvDependsOn, StoredKept DEF Ordered
<1>3. Control'
  BY <1>1 DEF Ordered, Control, Free, Saving, Reading
<1>4. FreeIsNext' /\ SaveProgress' /\ ScanProgress'
  BY <1>1, <1>2 DEF Ordered, FreeIsNext, SaveProgress, ScanProgress, Filled, Merged, Reading, Shows
<1>5. FoundIsTrue'
  BY <1>1 DEF Ordered, FoundIsTrue, Scanning, Reading
<1> QED
  BY <1>1, <1>2, <1>3, <1>4, <1>5 DEF Ordered, Shows

LEMMA SaveRequestKeepsInv ==
  ASSUME Ordered, Types', orderly',
         NEW type \in {"Capacitance", "SerialNumber"},
         NEW word \in IF type = "Capacitance" THEN Capacitances ELSE Serials,
         AppVarsSaveRequest(type, word)
  PROVE  Ordered'
<1>1. /\ Free /\ appVarsCommand' = "Write" /\ appVarTypeToSave' = type
      /\ newAppVars' = [Zero EXCEPT ![PartOf(type)] = word]
      /\ flags' = [flags EXCEPT !.available = TRUE, !.valid = FALSE]
      /\ UNCHANGED <<flash, HAVSM, currentAppVars, appVarsNextFree, SNASM, RAVSM>>
  BY DEF AppVarsSaveRequest
<1>2. NoHoles' /\ Stored' = Stored
  BY <1>1, InvDependsOn, StoredKept DEF Ordered
<1>3. /\ flags'.available /\ ~flags'.valid /\ flags'.resetInitiated = flags.resetInitiated
  BY <1>1 DEF Ordered, Types, TypeOK, Flags
<1>4. SNASM.state = "WaitStart" /\ RAVSM.state = "WaitStart"
  BY <1>1 DEF Ordered, Control, Free, Saving, Reading
<1>5. Control'
  <2>1. newAppVars'[PartOf(type)] = word
    BY <1>1 DEF Zero, PartOf, Fields
  <2> QED
    BY <1>1, <1>3, <1>4, <2>1 DEF Ordered, Control, Free, Saving, Reading
<1>6. FreeIsNext' /\ SaveProgress' /\ ScanProgress'
  BY <1>1, <1>3, <1>4
     DEF Ordered, FreeIsNext, SaveProgress, ScanProgress, Filled, Reading, Shows, Free
<1>7. FoundIsTrue'
  BY <1>1, <1>3, <1>4 DEF Ordered, FoundIsTrue, Scanning, Reading, Free
<1> QED
  BY <1>2, <1>3, <1>5, <1>6, <1>7 DEF Ordered

LEMMA EraseKeepsInv == ASSUME Ordered, Types', EraseEntireFlash, orderly' PROVE Ordered'
<1>1. /\ Free /\ flash' = [s \in Slots |-> Blank]
      /\ flags' = [flags EXCEPT !.resetInitiated = TRUE]
      /\ UNCHANGED <<appVarsCommand, HAVSM, currentAppVars, newAppVars, appVarTypeToSave,
                     appVarsNextFree, SNASM, RAVSM>>
  BY DEF EraseEntireFlash, Free, Saving
<1>2. NoHoles' /\ Stored' = Nothing
  <2>1. (flash = [s \in Slots |-> Blank] => Stored = Nothing)'
    BY StoredBlank, PTL
  <2> QED
    BY <1>1, <2>1 DEF NoHoles
<1>3. flags'.available = flags.available /\ flags'.resetInitiated /\ flags'.valid = flags.valid
  BY <1>1 DEF Ordered, Types, TypeOK, Flags
<1>4. SNASM.state = "WaitStart" /\ RAVSM.state = "WaitStart"
  BY <1>1 DEF Ordered, Control, Free, Saving, Reading
<1>5. Control'
  BY <1>1, <1>3, <1>4 DEF Ordered, Control, Free, Saving, Reading
<1>6. FreeIsNext' /\ SaveProgress' /\ ScanProgress'
  BY <1>1, <1>3, <1>4 DEF FreeIsNext, SaveProgress, ScanProgress
<1>7. FoundIsTrue'
  BY <1>1, <1>3, <1>4 DEF FoundIsTrue, Reading, Free
<1> QED
  BY <1>2, <1>5, <1>6, <1>7 DEF Ordered, Shows

LEMMA EraseDoneKeepsInv == ASSUME Ordered, Types', EntireEraseDone PROVE Ordered'
<1>1. /\ HAVSM = "ResetSM" /\ flags' = [flags EXCEPT !.resetReady = TRUE]
      /\ UNCHANGED <<flash, appVarsCommand, HAVSM, currentAppVars, newAppVars, appVarTypeToSave,
                     appVarsNextFree, SNASM, RAVSM>>
  BY DEF EntireEraseDone
<1>2. NoHoles' /\ Stored' = Stored
  BY <1>1, InvDependsOn, StoredKept DEF Ordered
<1>3. /\ flags'.available = flags.available /\ flags'.resetInitiated = flags.resetInitiated
      /\ flags'.valid = flags.valid
  BY <1>1 DEF Ordered, Types, TypeOK, Flags
<1>4. SNASM.state = "WaitStart" /\ RAVSM.state = "WaitStart"
  BY <1>1 DEF Ordered, Control, Saving, Reading
<1>5. Control'
  BY <1>1, <1>3, <1>4 DEF Ordered, Control, Saving, Reading
<1>6. FreeIsNext' /\ SaveProgress' /\ ScanProgress'
  BY <1>1, <1>3, <1>4 DEF Ordered, FreeIsNext, SaveProgress, ScanProgress, Reading, Control
<1>7. FoundIsTrue'
  BY <1>1, <1>3, <1>4 DEF Ordered, FoundIsTrue, Reading, Control, Scanning
<1> QED
  BY <1>1, <1>2, <1>3, <1>5, <1>6, <1>7 DEF Ordered, Shows

-----------------------------------------------------------------------------
(* The invariant, in a turn.                                                 *)

LEMMA BecomesFlags ==
  ASSUME NEW hav, NEW flag \in Flags, Becomes(hav, flag)
  PROVE  /\ flags'.valid = flag.valid /\ flags'.available = flag.available
         /\ flags'.resetInitiated = flag.resetInitiated
         /\ HAVSM' = IF flag.resetInitiated THEN "ResetSM" ELSE hav
  BY DEF Becomes, Flags

LEMMA WaitCommandKeepsInv == ASSUME Ordered, Types', WaitCommand, UNCHANGED appVarTypeToSave PROVE Ordered'
<1>1. /\ HAVSM = "WaitCommand" /\ appVarsCommand' = "Wait"
      /\ UNCHANGED <<flash, currentAppVars, newAppVars, appVarTypeToSave, appVarsNextFree,
                     SNASM, RAVSM>>
  BY DEF WaitCommand, NoAccess
<1>2. /\ flags'.valid = flags.valid /\ flags'.available = flags.available
      /\ flags'.resetInitiated = flags.resetInitiated
      /\ HAVSM' = IF flags.resetInitiated THEN "ResetSM"
                  ELSE CASE appVarsCommand = "Read" -> "ReadInit"
                         [] appVarsCommand = "Write" -> "SaveInit"
                         [] OTHER -> "WaitCommand"
  BY BecomesFlags DEF Ordered, Types, TypeOK, WaitCommand
<1>3. NoHoles' /\ Stored' = Stored
  BY <1>1, InvDependsOn, StoredKept DEF Ordered
<1>4. SNASM.state = "WaitStart" /\ RAVSM.state = "WaitStart"
  BY <1>1 DEF Ordered, Control, Saving, Reading
<1>5. Control'
  BY <1>1, <1>2, <1>4 DEF Ordered, Types, TypeOK, Control, Saving, Reading
<1>6. FreeIsNext' /\ SaveProgress' /\ ScanProgress'
  BY <1>1, <1>2, <1>4 DEF Ordered, FreeIsNext, SaveProgress, ScanProgress, Reading, Filled
<1>7. FoundIsTrue'
  BY <1>1, <1>2, <1>4 DEF Ordered, FoundIsTrue, Reading, Scanning
<1> QED
  BY <1>1, <1>2, <1>3, <1>5, <1>6, <1>7 DEF Ordered, Shows

LEMMA ReadInitKeepsInv == ASSUME Ordered, Types', ReadInit, UNCHANGED appVarTypeToSave PROVE Ordered'
<1>1. /\ HAVSM = "ReadInit"
      /\ UNCHANGED <<flash, appVarsCommand, currentAppVars, newAppVars, appVarTypeToSave,
                     appVarsNextFree, SNASM, RAVSM>>
  BY DEF ReadInit, NoAccess
<1>2. ~flags.resetInitiated
  BY <1>1 DEF Ordered, Control
<1>3. /\ flags'.valid = flags.valid /\ flags'.available = flags.available
      /\ ~flags'.resetInitiated
      /\ HAVSM' = IF flags.valid THEN "WaitCommand" ELSE "ReadCurrentAppVars"
  <2>1. [flags EXCEPT !.startRead = ~flags.valid] \in Flags
    BY DEF Ordered, Types, TypeOK, Flags
  <2> QED
    BY <1>2, <2>1, BecomesFlags DEF Ordered, Types, TypeOK, ReadInit, Flags
<1>4. NoHoles' /\ Stored' = Stored
  BY <1>1, InvDependsOn, StoredKept DEF Ordered
<1>5. SNASM.state = "WaitStart" /\ RAVSM.state = "WaitStart"
  BY <1>1 DEF Ordered, Control, Saving, Reading
<1>6. Control'
  BY <1>1, <1>2, <1>3, <1>5 DEF Ordered, Control, Saving, Reading
<1>7. FreeIsNext' /\ SaveProgress' /\ ScanProgress'
  BY <1>1, <1>2, <1>3, <1>5 DEF Ordered, FreeIsNext, SaveProgress, ScanProgress, Reading, Filled
<1>8. FoundIsTrue'
  BY <1>1, <1>2, <1>3, <1>5 DEF Ordered, FoundIsTrue, Reading, Scanning, Control
<1> QED
  BY <1>1, <1>3, <1>4, <1>6, <1>7, <1>8 DEF Ordered, Shows

LEMMA SaveInitKeepsInv == ASSUME Ordered, Types', SaveInit, UNCHANGED appVarTypeToSave PROVE Ordered'
<1>1. /\ HAVSM = "SaveInit"
      /\ UNCHANGED <<flash, appVarsCommand, currentAppVars, newAppVars, appVarTypeToSave,
                     appVarsNextFree, SNASM, RAVSM>>
  BY DEF SaveInit, NoAccess
<1>2. ~flags.resetInitiated /\ flags.available
  BY <1>1 DEF Ordered, Control
<1>3. /\ flags'.valid = flags.valid /\ flags'.available
      /\ ~flags'.resetInitiated
      /\ HAVSM' = "SaveNewAppVarsToFlash"
  <2>1. [flags EXCEPT !.startSave = @ \/ flags.available] \in Flags
    BY DEF Ordered, Types, TypeOK, Flags
  <2> QED
    BY <1>2, <2>1, BecomesFlags DEF Ordered, Types, TypeOK, SaveInit, Flags
<1>4. NoHoles' /\ Stored' = Stored
  BY <1>1, InvDependsOn, StoredKept DEF Ordered
<1>5. SNASM.state = "WaitStart" /\ RAVSM.state = "WaitStart"
  BY <1>1 DEF Ordered, Control, Saving, Reading
<1>6. Control'
  BY <1>1, <1>2, <1>3, <1>5 DEF Ordered, Control, Saving, Reading
<1>7. FreeIsNext' /\ SaveProgress' /\ ScanProgress'
  BY <1>1, <1>2, <1>3, <1>5 DEF Ordered, FreeIsNext, SaveProgress, ScanProgress, Reading, Filled
<1>8. FoundIsTrue'
  BY <1>1, <1>2, <1>3, <1>5 DEF Ordered, FoundIsTrue, Reading, Scanning, Control
<1> QED
  BY <1>1, <1>2, <1>3, <1>4, <1>6, <1>7, <1>8 DEF Ordered, Control

LEMMA ResetSMKeepsInv == ASSUME Ordered, Types', ResetSM, UNCHANGED appVarTypeToSave PROVE Ordered'
<1>1. /\ HAVSM = "ResetSM"
      /\ UNCHANGED <<flash, currentAppVars, newAppVars, appVarTypeToSave, SNASM, RAVSM>>
  BY DEF ResetSM
<1>2. flags.resetInitiated /\ flash = [s \in Slots |-> Blank] /\ appVarsCommand = "Wait"
  BY <1>1 DEF Ordered, Control
<1>3. NoHoles' /\ Stored' = Stored
  BY <1>1, InvDependsOn, StoredKept DEF Ordered
<1>4. SNASM.state = "WaitStart" /\ RAVSM.state = "WaitStart"
  BY <1>1 DEF Ordered, Control, Saving, Reading
<1>5. CASE ~flags.resetReady
  <2>1. /\ flags'.valid = flags.valid /\ flags'.available = flags.available
        /\ flags'.resetInitiated = flags.resetInitiated /\ HAVSM' = "ResetSM"
        /\ UNCHANGED <<appVarsCommand, appVarsNextFree>>
    BY <1>2, <1>5, BecomesFlags DEF Ordered, Types, TypeOK, ResetSM
  <2>2. Control'
    BY <1>1, <1>2, <1>4, <2>1 DEF Ordered, Control, Saving, Reading
  <2>3. FreeIsNext' /\ SaveProgress' /\ ScanProgress'
    BY <1>1, <1>2, <1>4, <2>1 DEF FreeIsNext, SaveProgress, ScanProgress
  <2>4. FoundIsTrue'
    BY <1>1, <1>2, <1>4, <2>1 DEF Ordered, FoundIsTrue, Reading, Scanning
  <2> QED
    BY <1>1, <1>3, <2>1, <2>2, <2>3, <2>4 DEF Ordered, Shows
<1>6. CASE flags.resetReady
  <2>1. /\ ~flags'.valid /\ ~flags'.available /\ ~flags'.resetInitiated /\ HAVSM' = "WaitCommand"
        /\ appVarsCommand' = "Wait" /\ appVarsNextFree' = 0
    BY <1>6 DEF Ordered, Types, TypeOK, Flags, ResetSM, Becomes
  <2>2. Control'
    BY <1>1, <1>2, <1>4, <2>1 DEF Control, Saving, Reading
  <2>3. FreeIsNext' /\ SaveProgress' /\ ScanProgress'
    BY <1>1, <1>2, <1>4, <2>1 DEF FreeIsNext, SaveProgress, ScanProgress
  <2>4. FoundIsTrue'
    BY <1>1, <1>2, <1>4, <2>1 DEF FoundIsTrue, Reading, Scanning
  <2> QED
    BY <1>3, <2>1, <2>2, <2>3, <2>4 DEF Ordered
<1> QED
  BY <1>5, <1>6

LEMMA ScanFlags ==
  ASSUME Ordered, Types', ReadCurrentAppVars
  PROVE  /\ ~flags.resetInitiated /\ ~flags'.resetInitiated
         /\ ~flags.available /\ ~flags'.available
         /\ IF RAVSM.state = "End" THEN HAVSM' = "WaitCommand" /\ flags'.valid
            ELSE HAVSM' = HAVSM /\ flags'.valid = flags.valid
         /\ Reading /\ appVarsCommand' = "Wait" /\ appVarsCommand = "Wait"
         /\ SNASM.state = "WaitStart"
         /\ UNCHANGED <<flash, newAppVars, SNASM>>
<1>1. Reading
  BY DEF ReadCurrentAppVars, RAVWaitStart, RAVInit, RAVVerifyDataValid, RAVNextAddress,
         RAVVerifyNextMemoryEmpty, RAVEnd
<1>2. /\ ~flags.resetInitiated /\ ~flags.available /\ SNASM.state = "WaitStart"
      /\ appVarsCommand = "Wait"
  BY <1>1 DEF Ordered, Control, Reading, Saving
<1>3. UNCHANGED <<flash, appVarsCommand, newAppVars, SNASM>>
  BY DEF ReadCurrentAppVars
<1>4. /\ flags \in Flags /\ [flags EXCEPT !.startRead = FALSE] \in Flags
      /\ [flags EXCEPT !.valid = TRUE] \in Flags
  BY DEF Ordered, Types, TypeOK, Flags
<1>5. CASE RAVSM.state = "End"
  <2>1. Becomes("WaitCommand", [flags EXCEPT !.valid = TRUE])
    BY <1>5 DEF ReadCurrentAppVars, RAVWaitStart, RAVInit, RAVVerifyDataValid, RAVNextAddress,
         RAVVerifyNextMemoryEmpty, RAVEnd
  <2> QED
    BY <1>1, <1>2, <1>3, <1>4, <1>5, <2>1, BecomesFlags DEF Flags
<1>6. CASE RAVSM.state # "End"
  <2>1. Becomes(HAVSM, flags) \/ Becomes(HAVSM, [flags EXCEPT !.startRead = FALSE])
    BY <1>6 DEF ReadCurrentAppVars, RAVWaitStart, RAVInit, RAVVerifyDataValid, RAVNextAddress,
         RAVVerifyNextMemoryEmpty, RAVEnd
  <2> QED
    BY <1>1, <1>2, <1>3, <1>4, <1>6, <2>1, BecomesFlags DEF Flags
<1> QED
  BY <1>5, <1>6

\* A step of the scan that moves it as the invariant asks for keeps the rest of it.
LEMMA ScanStep ==
  ASSUME Ordered, Types', ReadCurrentAppVars, UNCHANGED appVarTypeToSave,
         ScanProgress', FreeIsNext', FoundIsTrue',
         RAVSM.state = "End" => RAVSM'.state = "WaitStart" /\ UNCHANGED currentAppVars
  PROVE  Ordered'
<1>1. NoHoles' /\ Stored' = Stored
  BY ScanFlags, InvDependsOn, StoredKept DEF Ordered
<1>2. Control'
  BY ScanFlags DEF Ordered, Control, Reading, Saving
<1>3. SaveProgress'
  BY ScanFlags DEF SaveProgress
<1>4. flags'.valid => Shows'
  BY <1>1, ScanFlags DEF Ordered, Control, ScanProgress, Shows
<1> QED
  BY <1>1, <1>2, <1>3, <1>4 DEF Ordered

LEMMA ScanKeepsInv ==
  ASSUME Ordered, Types', ReadCurrentAppVars, UNCHANGED appVarTypeToSave
  PROVE  Ordered'
<1>1. /\ Reading /\ ~flags.valid /\ ~flags.resetInitiated
      /\ SNASM.state = "WaitStart" /\ SNASM'.state = "WaitStart"
      /\ UNCHANGED flash /\ Stored' = Stored
      /\ appVarsCommand' = "Wait"
      /\ IF RAVSM.state = "End" THEN HAVSM' = "WaitCommand" /\ flags'.valid
         ELSE HAVSM' = HAVSM /\ flags'.valid = flags.valid
  BY ScanFlags, StoredKept DEF Ordered, Control
<1>2. /\ RAVSM \in Scans /\ SLOTS \in Nat \ {0} /\ flash \in [Slots -> Entries]
      /\ Scanning => RAVSM.slot \in Slots
  BY SlotsAssumption DEF Ordered, Types, TypeOK
<1>3. CASE RAVWaitStart
  <2>1. /\ RAVSM.state = "WaitStart" /\ RAVSM'.state \in {"WaitStart", "Init"}
        /\ RAVSM'.validDataFound = RAVSM.validDataFound
        /\ UNCHANGED <<currentAppVars, appVarsNextFree>>
    BY <1>2, <1>3 DEF RAVWaitStart, Scans
  <2>2. ScanProgress' /\ FreeIsNext'
    BY <1>1, <2>1 DEF ScanProgress, FreeIsNext, Reading
  <2>3. FoundIsTrue'
    BY <1>1, <2>1 DEF Ordered, FoundIsTrue, Scanning, Reading
  <2> QED
    BY <1>3, <2>1, <2>2, <2>3, ScanStep
<1>4. CASE RAVInit
  <2>1. /\ RAVSM.state = "Init" /\ RAVSM'.state = "VerifyDataValid"
        /\ RAVSM'.slot = 0 /\ RAVSM'.into = "current"
        /\ RAVSM'.validDataFound = RAVSM.validDataFound
        /\ UNCHANGED <<currentAppVars, appVarsNextFree>>
    BY <1>2, <1>4 DEF RAVInit, Scans
  <2>2. RAVSM.validDataFound => Valid(flash[0])
    <3>1. 0 \in Slots
      BY <1>2 DEF Slots
    <3> QED
      BY <1>1, <2>1, <3>1, BlankIsEmpty DEF Ordered, FoundIsTrue, Scanning
  <2>3. ScanProgress' /\ FreeIsNext' /\ FoundIsTrue'
    BY <1>1, <1>2, <2>1, <2>2 DEF ScanProgress, FreeIsNext, FoundIsTrue, Scanning, Reading, Slots
  <2> QED
    BY <1>4, <2>1, <2>3, ScanStep
<1>5. CASE RAVVerifyDataValid
  <2>1. /\ RAVSM.state = "VerifyDataValid" /\ RAVSM'.state = "NextAddress"
        /\ RAVSM'.slot = RAVSM.slot
        /\ RAVSM'.validDataFound = (RAVSM.validDataFound \/ Valid(CurrentRead))
        /\ currentAppVars' = CurrentRead
    BY <1>2, <1>5 DEF RAVVerifyDataValid, Scans
  <2>2. RAVSM.slot \in Slots
    BY <1>2, <2>1 DEF Scanning
  <2>3. CASE RAVSM.into = "current"
    <3>1. /\ CurrentRead = flash[RAVSM.slot]
          /\ \A s \in Slots : s < RAVSM.slot => Valid(flash[s])
          /\ RAVSM.validDataFound => Valid(flash[RAVSM.slot])
          /\ RAVSM.slot > 0 => ~Empty(flash[RAVSM.slot])
      BY <2>1, <2>3 DEF Ordered, ScanProgress, CurrentRead
    <3>2. CASE Valid(flash[RAVSM.slot])
      <4>1. \A s \in Slots : s <= RAVSM.slot => Valid(flash[s])
        BY <1>2, <2>2, <3>1, <3>2 DEF Slots
      <4>2. ScanProgress'
        BY <1>1, <2>1, <3>1, <3>2, <4>1 DEF ScanProgress
      <4> QED
        BY <1>1, <1>5, <2>1, <4>2, ScanStep DEF FreeIsNext, FoundIsTrue, Scanning, Reading
    <3>3. CASE ~Valid(flash[RAVSM.slot])
      <4>1. Stored = Nothing
        BY <2>2, <3>1, <3>3, StoredTorn
      <4>2. ScanProgress'
        BY <1>1, <2>1, <3>1, <3>3, <4>1 DEF ScanProgress
      <4> QED
        BY <1>1, <1>5, <2>1, <4>2, ScanStep DEF FreeIsNext, FoundIsTrue, Scanning, Reading
    <3> QED
      BY <3>2, <3>3
  <2>4. CASE RAVSM.into # "current"
    <3>1. /\ CurrentRead = currentAppVars /\ Stored = Nothing /\ ~Valid(currentAppVars)
          /\ ~RAVSM.validDataFound
      BY <2>1, <2>4 DEF Ordered, ScanProgress, CurrentRead
    <3>2. ScanProgress'
      BY <1>1, <2>1, <3>1 DEF ScanProgress
    <3> QED
      BY <1>1, <1>5, <2>1, <3>2, ScanStep DEF FreeIsNext, FoundIsTrue, Scanning, Reading
  <2> QED
    BY <2>3, <2>4
<1>6. CASE RAVNextAddress
  <2>1. RAVSM.state = "NextAddress" /\ RAVSM.slot \in Slots /\ UNCHANGED currentAppVars
    BY <1>2, <1>6 DEF RAVNextAddress, Scanning
  <2>2. IF RAVSM.validDataFound
        THEN /\ \A s \in Slots : s <= RAVSM.slot => Valid(flash[s])
             /\ currentAppVars = flash[RAVSM.slot]
        ELSE Stored = Nothing /\ ~Valid(currentAppVars)
    BY <2>1 DEF Ordered, ScanProgress
  <2>3. \A k, s \in Slots : k + 1 = SLOTS => s <= k /\ ~(s > k)
    BY SlotsAssumption DEF Slots
  <2>4. CASE RAVSM.slot + 1 = SLOTS
    <3>1. /\ RAVSM'.state = "End" /\ RAVSM'.validDataFound = RAVSM.validDataFound
          /\ appVarsNextFree' = 0
      BY <1>2, <1>6, <2>4 DEF RAVNextAddress, Scans
    <3>2. RAVSM.validDataFound => \A s \in Slots : Valid(flash[s])
      BY <2>1, <2>2, <2>4, <2>3
    <3>3. Shows
      <4>1. CASE RAVSM.validDataFound
        <5>1. \A s \in Slots : ~(s > RAVSM.slot)
          BY <2>1, <2>4, <2>3
        <5>2. Stored = SettingsOf(flash[RAVSM.slot])
          BY <2>1, <2>2, <4>1, <5>1, StoredLast
        <5> QED
          BY <2>2, <4>1, <5>2 DEF Shows
      <4> QED
        BY <2>2, <4>1 DEF Shows
    <3>4. ScanProgress' /\ FreeIsNext'
      BY <1>1, <2>1, <3>1, <3>3 DEF ScanProgress, FreeIsNext, Shows
    <3>5. FoundIsTrue'
      <4>1. 0 \in Slots
        BY <1>2 DEF Slots
      <4> QED
        BY <1>1, <3>1, <3>2, <4>1, NotEmptyValid DEF FoundIsTrue
    <3> QED
      BY <1>6, <2>1, <3>4, <3>5, ScanStep
  <2>5. CASE RAVSM.slot + 1 # SLOTS
    <3>1. /\ RAVSM'.slot = RAVSM.slot + 1 /\ RAVSM'.into = "empty"
          /\ RAVSM'.state = IF RAVSM.validDataFound THEN "VerifyNextMemoryEmpty" ELSE "VerifyDataValid"
          /\ RAVSM'.validDataFound = RAVSM.validDataFound
      BY <1>2, <1>6, <2>5 DEF RAVNextAddress, Scans
    <3>2. CASE RAVSM.validDataFound
      <4>1. /\ RAVSM'.slot > 0 /\ RAVSM'.slot - 1 = RAVSM.slot
            /\ \A s \in Slots : s < RAVSM'.slot => s <= RAVSM.slot
        <5>1. RAVSM'.slot = RAVSM.slot + 1 /\ RAVSM.slot \in Slots
          BY <2>1, <3>1
        <5>2. \A k \in Slots : \A l : l = k + 1 =>
                l > 0 /\ l - 1 = k /\ \A s \in Slots : s < l => s <= k
          BY SlotsAssumption DEF Slots
        <5> QED
          BY <5>1, <5>2, Zenon
      <4>2. /\ \A s \in Slots : s < RAVSM'.slot => Valid(flash'[s])
            /\ currentAppVars' = flash'[RAVSM'.slot - 1]
        BY <1>1, <2>1, <2>2, <3>2, <4>1
      <4>3. RAVSM'.state = "VerifyNextMemoryEmpty"
        BY <3>1, <3>2
      <4>4. ScanProgress'
        BY <4>1, <4>2, <4>3 DEF ScanProgress
      <4> QED
        BY <1>1, <1>6, <2>1, <3>1, <3>2, <4>4, ScanStep DEF FreeIsNext, FoundIsTrue, Scanning, Reading
    <3>3. CASE ~RAVSM.validDataFound
      <4>1. ScanProgress'
        BY <1>1, <2>1, <2>2, <3>1, <3>3 DEF ScanProgress
      <4> QED
        BY <1>1, <1>6, <2>1, <3>1, <3>3, <4>1, ScanStep DEF FreeIsNext, FoundIsTrue, Scanning, Reading
    <3> QED
      BY <3>2, <3>3
  <2> QED
    BY <2>4, <2>5
<1>7. CASE RAVVerifyNextMemoryEmpty
  <2>1. /\ RAVSM.state = "VerifyNextMemoryEmpty" /\ RAVSM.slot \in Slots /\ UNCHANGED currentAppVars
        /\ RAVSM'.slot = RAVSM.slot
    BY <1>2, <1>7 DEF RAVVerifyNextMemoryEmpty, Scanning, Scans
  <2>2. /\ RAVSM.slot > 0
        /\ \A s \in Slots : s < RAVSM.slot => Valid(flash[s])
        /\ currentAppVars = flash[RAVSM.slot - 1]
    BY <2>1 DEF Ordered, ScanProgress
  <2>3. CASE Empty(flash[RAVSM.slot])
    <3>1. /\ RAVSM'.state = "End" /\ RAVSM'.validDataFound = RAVSM.validDataFound
          /\ appVarsNextFree' = RAVSM.slot
      BY <1>2, <1>7, <2>3 DEF RAVVerifyNextMemoryEmpty, Scans
    <3>2. \A s \in Slots : s >= RAVSM.slot => flash[s] = Blank
      BY <2>1, <2>3 DEF Ordered, NoHoles
    <3>3. Filled(RAVSM.slot)
      BY <2>2, <3>2 DEF Filled
    <3>4. Shows
      <4>1. /\ RAVSM.slot - 1 \in Slots
            /\ \A s \in Slots : s <= RAVSM.slot - 1 => s < RAVSM.slot
            /\ \A s \in Slots : s > RAVSM.slot - 1 => s >= RAVSM.slot
        BY <1>2, <2>1, <2>2 DEF Slots
      <4>2. Stored = SettingsOf(flash[RAVSM.slot - 1])
        BY <2>2, <3>2, <4>1, StoredLast, BlankIsEmpty
      <4> QED
        BY <2>2, <4>2 DEF Shows
    <3>5. ScanProgress' /\ FreeIsNext'
      BY <1>1, <2>1, <3>1, <3>3, <3>4 DEF ScanProgress, FreeIsNext, Shows, Filled
    <3>6. FoundIsTrue'
      <4>1. 0 \in Slots /\ 0 < RAVSM.slot /\ \A s \in Slots : s < RAVSM.slot \/ s >= RAVSM.slot
        BY <1>2, <2>1, <2>2 DEF Slots
      <4> QED
        BY <1>1, <2>2, <3>1, <3>2, <4>1, NotEmptyValid DEF FoundIsTrue
    <3> QED
      BY <1>7, <2>1, <3>5, <3>6, ScanStep
  <2>4. CASE ~Empty(flash[RAVSM.slot])
    <3>1. /\ RAVSM'.state = "VerifyDataValid" /\ ~RAVSM'.validDataFound /\ RAVSM'.into = "current"
      BY <1>2, <1>7, <2>4 DEF RAVVerifyNextMemoryEmpty, Scans
    <3>2. ScanProgress'
      BY <1>1, <2>1, <2>2, <2>4, <3>1 DEF ScanProgress
    <3> QED
      BY <1>1, <1>7, <2>1, <3>1, <3>2, ScanStep DEF FreeIsNext, FoundIsTrue, Scanning, Reading
  <2> QED
    BY <2>3, <2>4
<1>8. CASE RAVEnd
  <2>1. /\ RAVSM.state = "End" /\ RAVSM'.state = "WaitStart"
        /\ RAVSM'.validDataFound = RAVSM.validDataFound
        /\ UNCHANGED <<currentAppVars, appVarsNextFree>>
    BY <1>2, <1>8 DEF RAVEnd, Scans
  <2>2. ScanProgress'
    BY <2>1 DEF ScanProgress
  <2>3. FreeIsNext'
    BY <1>1, <2>1 DEF Ordered, FreeIsNext, Filled, Reading
  <2>4. FoundIsTrue'
    BY <1>1, <2>1 DEF Ordered, FoundIsTrue, Scanning, Reading
  <2> QED
    BY <1>8, <2>1, <2>2, <2>3, <2>4, ScanStep
<1> QED
  BY <1>3, <1>4, <1>5, <1>6, <1>7, <1>8 DEF ReadCurrentAppVars

LEMMA SaveFlags ==
  ASSUME Ordered, Types', SaveNewAppVarsToFlash
  PROVE  /\ Saving /\ appVarsCommand = "Wait" /\ appVarsCommand' = "Wait"
         /\ ~flags.resetInitiated /\ ~flags'.resetInitiated
         /\ ~flags.valid /\ ~flags'.valid
         /\ RAVSM.state = "WaitStart"
         /\ IF SNASM.state = "End" THEN HAVSM' = "ReadInit" /\ ~flags'.available
            ELSE HAVSM' = HAVSM /\ flags'.available
         /\ UNCHANGED <<currentAppVars, appVarsNextFree, RAVSM>>
<1>1. Saving
  BY DEF SaveNewAppVarsToFlash, SaveStep, SNAWaitStart, SNAInit, SNAEraseSector,
         SNAWaitSectorEraseDone, SNAPrepareForWrite, SNAWrite, SNAEnd
<1>2. /\ ~flags.resetInitiated /\ flags.available /\ ~flags.valid
      /\ RAVSM.state = "WaitStart" /\ appVarsCommand = "Wait"
  BY <1>1 DEF Ordered, Control, Reading, Saving
<1>3. UNCHANGED <<appVarsCommand, currentAppVars, appVarsNextFree, RAVSM>>
  BY DEF SaveNewAppVarsToFlash
<1>4. /\ flags \in Flags /\ [flags EXCEPT !.startSave = FALSE] \in Flags
      /\ [flags EXCEPT !.available = FALSE] \in Flags
  BY DEF Ordered, Types, TypeOK, Flags
<1>5. CASE SNASM.state = "End"
  <2>1. Becomes("ReadInit", [flags EXCEPT !.available = FALSE])
    BY <1>5 DEF SaveNewAppVarsToFlash, SaveStep, SNAWaitStart, SNAInit, SNAEraseSector,
         SNAWaitSectorEraseDone, SNAPrepareForWrite, SNAWrite, SNAEnd
  <2> QED
    BY <1>1, <1>2, <1>3, <1>4, <1>5, <2>1, BecomesFlags DEF Flags
<1>6. CASE SNASM.state # "End"
  <2>1. Becomes(HAVSM, flags) \/ Becomes(HAVSM, [flags EXCEPT !.startSave = FALSE])
    BY <1>6 DEF SaveNewAppVarsToFlash, SaveStep, SNAWaitStart, SNAInit, SNAEraseSector,
         SNAWaitSectorEraseDone, SNAPrepareForWrite, SNAWrite, SNAEnd
  <2> QED
    BY <1>1, <1>2, <1>3, <1>4, <1>6, <2>1, BecomesFlags DEF Flags
<1> QED
  BY <1>5, <1>6

\* A step of the save that moves it as the invariant asks for keeps the rest of it.
LEMMA SavingStep ==
  ASSUME Ordered, Types', SaveNewAppVarsToFlash, UNCHANGED appVarTypeToSave,
         NoHoles', SaveProgress', FreeIsNext', FoundIsTrue',
         newAppVars'[PartOf(appVarTypeToSave)] = newAppVars[PartOf(appVarTypeToSave)],
         SNASM.state = "End" => SNASM'.state = "WaitStart"
  PROVE  Ordered'
<1>1. Control'
  BY SaveFlags DEF Ordered, Control, Reading, Saving
<1>2. ScanProgress'
  BY SaveFlags DEF ScanProgress
<1> QED
  BY <1>1, <1>2, SaveFlags DEF Ordered

LEMMA MergedKept ==
  ASSUME TypeOK, newAppVars' = Merged, UNCHANGED <<currentAppVars, appVarTypeToSave>>
  PROVE  /\ Merged' = Merged
         /\ newAppVars'[PartOf(appVarTypeToSave)] = newAppVars[PartOf(appVarTypeToSave)]
<1>1. PartOf(appVarTypeToSave) \in Fields /\ PartOf(appVarTypeToSave) \notin {1, 2}
  BY DEF PartOf, Fields
<1>2. newAppVars'[PartOf(appVarTypeToSave)] = newAppVars[PartOf(appVarTypeToSave)]
  BY <1>1 DEF Merged
<1> QED
  BY <1>1, <1>2 DEF Merged

LEMMA MergedValid == Valid(Merged)
  BY DEF Merged, Valid, Fields

\* One word is programmed where it belongs.
LEMMA WordWritten ==
  ASSUME Ordered, SNAWrite
  PROVE  /\ \A s \in Slots : s # SNASM.slot => flash'[s] = flash[s]
         /\ flash'[SNASM.slot] =
              [f \in Fields |-> IF f <= SNASM.word THEN newAppVars[f] ELSE "blank"]
         /\ SNASM.slot \in Slots /\ SNASM.word \in Fields
<1>1. /\ flash \in [Slots -> Entries] /\ SNASM.slot \in Slots /\ SNASM.word \in Fields
      /\ newAppVars \in [Fields -> Words]
  BY DEF Ordered, Types, TypeOK, Savers, Entries
<1>2. flash[SNASM.slot] = [f \in Fields |-> IF f < SNASM.word THEN newAppVars[f] ELSE "blank"]
  BY DEF Ordered, SaveProgress, SNAWrite
<1>3. flash' = [flash EXCEPT ![SNASM.slot] =
                  [flash[SNASM.slot] EXCEPT ![SNASM.word] = newAppVars[SNASM.word]]]
  <2>1. ~flags.resetInitiated
    BY DEF SNAWrite, Ordered, Control, Saving
  <2> QED
    BY <1>1, <1>2, <2>1 DEF SNAWrite, Programmed, Fields
<1>4. flash'[SNASM.slot] = [flash[SNASM.slot] EXCEPT ![SNASM.word] = newAppVars[SNASM.word]]
  BY <1>1, <1>3
<1>5. \A f, w \in Fields : f <= w <=> f < w \/ f = w
  BY DEF Fields
<1>6. flash'[SNASM.slot] = [f \in Fields |-> IF f <= SNASM.word THEN newAppVars[f] ELSE "blank"]
  BY <1>1, <1>2, <1>4, <1>5
<1> QED
  BY <1>1, <1>3, <1>6

LEMMA SaveKeepsInv ==
  ASSUME Ordered, Types', SaveNewAppVarsToFlash, UNCHANGED appVarTypeToSave
  PROVE  Ordered'
<1>1. /\ Saving /\ appVarsCommand' = "Wait"
      /\ ~flags.resetInitiated /\ ~flags'.resetInitiated /\ ~flags'.valid
      /\ RAVSM.state = "WaitStart" /\ UNCHANGED <<currentAppVars, appVarsNextFree, RAVSM>>
      /\ IF SNASM.state = "End" THEN HAVSM' = "ReadInit" ELSE HAVSM' = HAVSM
  BY SaveFlags
<1>2. SNASM \in Savers /\ appVarsNextFree \in Slots /\ SLOTS \in Nat \ {0}
  BY SlotsAssumption DEF Ordered, Types, TypeOK
<1>3. SNASM.state \in {"Write", "End"} \/ appVarsNextFree = 0 \/ Filled(appVarsNextFree)
  BY <1>1 DEF Ordered, FreeIsNext, Saving, Reading
<1>4. CASE SNAWaitStart \/ SNAInit \/ SNAWaitSectorEraseDone
  <2>1. /\ UNCHANGED <<flash, newAppVars>>
        /\ SNASM.state \in {"WaitStart", "Init", "WaitSectorEraseDone"}
        /\ SNASM'.state \in {"WaitStart", "Init", "EraseSector", "PrepareForWrite"}
        /\ SNASM'.state = "EraseSector" => appVarsNextFree = 0
        /\ SNASM'.state = "PrepareForWrite" =>
             appVarsNextFree # 0 \/ SNASM.state = "WaitSectorEraseDone"
    BY <1>2, <1>4 DEF SNAWaitStart, SNAInit, SNAWaitSectorEraseDone, SaveStep, Savers
  <2>2. NoHoles'
    BY <2>1, InvDependsOn DEF Ordered
  <2>3. SaveProgress'
    BY <1>1, <1>3, <2>1 DEF Ordered, SaveProgress, Filled
  <2>4. FreeIsNext' /\ FoundIsTrue'
    BY <1>1, <1>3, <2>1 DEF Ordered, FreeIsNext, FoundIsTrue, Filled, Saving, Reading, Scanning
  <2> QED
    BY <2>1, <2>2, <2>3, <2>4, SavingStep
<1>5. CASE SNAEraseSector
  <2>1. /\ flash' = [s \in Slots |-> Blank] /\ UNCHANGED newAppVars
        /\ SNASM.state = "EraseSector" /\ SNASM'.state = "WaitSectorEraseDone"
    BY <1>2, <1>5 DEF SNAEraseSector, SaveStep, Savers
  <2>2. NoHoles'
    BY <2>1 DEF NoHoles
  <2>3. Filled(0)'
    BY <1>2, <2>1 DEF Filled, Slots
  <2>4. SaveProgress' /\ FreeIsNext'
    BY <1>1, <2>1, <2>3 DEF Ordered, SaveProgress, FreeIsNext, Filled
  <2>5. FoundIsTrue'
    BY <1>1, <2>1 DEF FoundIsTrue, Saving, Reading
  <2> QED
    BY <2>1, <2>2, <2>4, <2>5, SavingStep
<1>6. CASE SNAPrepareForWrite
  <2>1. /\ UNCHANGED flash /\ newAppVars' = Merged
        /\ SNASM.state = "PrepareForWrite"
        /\ SNASM'.state = "Write" /\ SNASM'.slot = appVarsNextFree /\ SNASM'.word = 1
    BY <1>6 DEF SNAPrepareForWrite
  <2>2. /\ \A s \in Slots : s < appVarsNextFree => Valid(flash[s])
        /\ \A s \in Slots : s >= appVarsNextFree => flash[s] = Blank
    BY <2>1 DEF Ordered, SaveProgress, Filled
  <2>3. flash[appVarsNextFree] = Blank /\ \A s \in Slots : s > appVarsNextFree => flash[s] = Blank
    BY <1>2, <2>2 DEF Slots
  <2>4. Blank = [f \in Fields |-> IF f < 1 THEN newAppVars'[f] ELSE "blank"]
    BY DEF Blank, Fields
  <2>5. Merged' = Merged
        /\ newAppVars'[PartOf(appVarTypeToSave)] = newAppVars[PartOf(appVarTypeToSave)]
    BY <1>1, <2>1, MergedKept DEF Ordered, Types
  <2>6. NoHoles'
    BY <2>1, InvDependsOn DEF Ordered
  <2>7. SaveProgress'
    BY <1>1, <2>1, <2>2, <2>3, <2>4, <2>5 DEF SaveProgress
  <2>8. FreeIsNext' /\ FoundIsTrue'
    BY <1>1, <2>1 DEF FreeIsNext, FoundIsTrue, Saving, Reading
  <2> QED
    BY <2>1, <2>5, <2>6, <2>7, <2>8, SavingStep
<1>7. CASE SNAWrite
  <2>1. /\ UNCHANGED newAppVars /\ SNASM.state = "Write"
        /\ SNASM' = IF SNASM.word < 4 THEN [SNASM EXCEPT !.word = @ + 1]
                                      ELSE [SNASM EXCEPT !.state = "End"]
    BY <1>7 DEF SNAWrite
  <2>2. /\ SNASM.slot = appVarsNextFree /\ newAppVars = Merged
        /\ \A s \in Slots : s < SNASM.slot => Valid(flash[s])
        /\ \A s \in Slots : s > SNASM.slot => flash[s] = Blank
    BY <2>1 DEF Ordered, SaveProgress
  <2>3. /\ \A s \in Slots : s # SNASM.slot => flash'[s] = flash[s]
        /\ flash'[SNASM.slot] =
             [f \in Fields |-> IF f <= SNASM.word THEN newAppVars[f] ELSE "blank"]
        /\ SNASM.slot \in Slots /\ SNASM.word \in Fields
    BY <1>7, WordWritten
  <2>4. /\ \A s \in Slots : s < SNASM.slot => Valid(flash'[s])
        /\ \A s \in Slots : s > SNASM.slot => flash'[s] = Blank
    BY <2>2, <2>3 DEF Slots
  <2>5. Merged' = Merged
    BY <1>1, <2>1, <2>2, MergedKept DEF Ordered, Types
  <2>6. NoHoles'
    <3>1. ~Empty(flash'[SNASM.slot])
      <4>1. flash'[SNASM.slot][1] = "magic"
        BY <2>2, <2>3 DEF Merged, Fields
      <4> QED
        BY <4>1 DEF Empty
    <3>2. \A s \in Slots : s < SNASM.slot \/ s = SNASM.slot \/ s > SNASM.slot
      BY <2>3 DEF Slots
    <3>3. \A s \in Slots : Empty(flash'[s]) => s > SNASM.slot
      BY <2>4, <3>1, <3>2, NotEmptyValid
    <3>4. \A s, r \in Slots : s > SNASM.slot /\ r >= s => r > SNASM.slot
      BY <2>3 DEF Slots
    <3> QED
      BY <2>4, <3>3, <3>4 DEF NoHoles
  <2>7. CASE SNASM.word < 4
    <3>1. SNASM'.state = "Write" /\ SNASM'.slot = SNASM.slot /\ SNASM'.word = SNASM.word + 1
      BY <1>2, <2>1, <2>7 DEF Savers
    <3>2. \A f \in Fields : f <= SNASM.word <=> f < SNASM'.word
      BY <2>3, <3>1 DEF Fields
    <3>3. flash'[SNASM.slot] = [f \in Fields |-> IF f < SNASM'.word THEN newAppVars[f] ELSE "blank"]
      BY <2>3, <3>2
    <3>4. SaveProgress'
      BY <1>1, <2>1, <2>2, <2>4, <2>5, <3>1, <3>3 DEF SaveProgress
    <3>5. FreeIsNext' /\ FoundIsTrue'
      BY <1>1, <2>1, <3>1 DEF FreeIsNext, FoundIsTrue, Saving, Reading
    <3> QED
      BY <2>1, <2>6, <3>4, <3>5, SavingStep
  <2>8. CASE ~(SNASM.word < 4)
    <3>1. SNASM'.state = "End" /\ SNASM'.slot = SNASM.slot
      BY <1>2, <2>1, <2>8 DEF Savers
    <3>2. \A f \in Fields : f <= SNASM.word
      BY <2>3, <2>8 DEF Fields
    <3>3. flash'[SNASM.slot] = newAppVars
      <4>1. newAppVars = [f \in Fields |-> newAppVars[f]]
        BY DEF Ordered, Types, TypeOK, Entries
      <4> QED
        BY <2>3, <3>2, <4>1
    <3>4. SaveProgress'
      BY <1>1, <2>1, <2>2, <2>4, <2>5, <3>1, <3>3 DEF SaveProgress
    <3>5. FreeIsNext'
      BY <3>1 DEF FreeIsNext
    <3>6. FoundIsTrue'
      <4>1. \A s \in Slots : Valid(flash'[s]) \/ flash'[s] = Blank
        <5>1. \A s \in Slots : s < SNASM.slot \/ s = SNASM.slot \/ s > SNASM.slot
          BY <2>3 DEF Slots
        <5> QED
          BY <2>2, <2>4, <3>3, <5>1, MergedValid
      <4> QED
        BY <1>1, <2>1, <4>1 DEF FoundIsTrue, Saving, Reading
    <3> QED
      BY <2>1, <2>6, <3>4, <3>5, <3>6, SavingStep
  <2> QED
    BY <2>7, <2>8
<1>8. CASE SNAEnd
  <2>1. /\ UNCHANGED <<flash, newAppVars>> /\ SNASM.state = "End" /\ SNASM'.state = "WaitStart"
    BY <1>2, <1>8 DEF SNAEnd, SaveStep, Savers
  <2>2. /\ SNASM.slot = appVarsNextFree
        /\ flash[SNASM.slot] = Merged
        /\ \A s \in Slots : s < SNASM.slot => Valid(flash[s])
    BY <2>1 DEF Ordered, SaveProgress
  <2>3. NoHoles'
    BY <2>1, InvDependsOn DEF Ordered
  <2>4. SaveProgress' /\ FreeIsNext'
    BY <1>1, <2>1 DEF SaveProgress, FreeIsNext
  <2>5. ~Empty(flash[0])
    <3>1. 0 \in Slots /\ (0 < SNASM.slot \/ SNASM.slot = 0)
      BY <1>2, <2>2 DEF Slots
    <3> QED
      BY <2>2, <3>1, MergedValid, NotEmptyValid
  <2>6. FoundIsTrue'
    BY <1>1, <2>1, <2>5 DEF Ordered, FoundIsTrue, Scanning
  <2> QED
    BY <2>1, <2>3, <2>4, <2>6, SavingStep
<1> QED
  BY <1>4, <1>5, <1>6, <1>7, <1>8 DEF SaveNewAppVarsToFlash

LEMMA Inductive == ASSUME IInv, [Next]_vars PROVE IInv'
<1>1. Types'
  BY NextKeepsTypes DEF IInv
<1> SUFFICES ASSUME orderly' PROVE Ordered'
  BY <1>1 DEF IInv
<1>2. CASE Reset
  BY <1>1, <1>2, ResetKeepsInv
<1>3. CASE ~Reset /\ Next
  <2>1. orderly /\ ~SNAWriteTimeOut
    BY <1>3 DEF Next, HandleAppVarsOnExternalFlashSM, SNAWriteTimeOut, AppVarsReadRequest,
       AppVarsSaveRequest, EraseEntireFlash, EntireEraseDone
  <2>2. Ordered
    BY <2>1 DEF IInv
  <2>3. CASE HandleAppVarsOnExternalFlashSM
    BY <1>1, <2>2, <2>3, WaitCommandKeepsInv, ReadInitKeepsInv, ScanKeepsInv, SaveInitKeepsInv,
       SaveKeepsInv, ResetSMKeepsInv DEF HandleAppVarsOnExternalFlashSM
  <2>4. ASSUME NEW c \in Capacitances, AppVarsSaveRequest("Capacitance", c)
        PROVE  Ordered'
    BY <1>1, <2>2, <2>4, SaveRequestKeepsInv
  <2>5. ASSUME NEW n \in Serials, AppVarsSaveRequest("SerialNumber", n)
        PROVE  Ordered'
    BY <1>1, <2>2, <2>5, SaveRequestKeepsInv
  <2>6. CASE AppVarsReadRequest \/ EraseEntireFlash \/ EntireEraseDone
    BY <1>1, <2>2, <2>6, RequestKeepsInv, EraseKeepsInv, EraseDoneKeepsInv
  <2> QED
    BY <1>3, <2>1, <2>3, <2>4, <2>5, <2>6 DEF Next
<1>4. CASE UNCHANGED vars
  <2>1. Ordered
    BY <1>4 DEF IInv, vars
  <2>2. NoHoles' /\ Stored' = Stored
    BY <1>4, <2>1, InvDependsOn, StoredKept DEF Ordered, vars
  <2>3. Control' /\ FreeIsNext' /\ SaveProgress' /\ FoundIsTrue'
    BY <1>4, <2>1 DEF Ordered, vars, Control, FreeIsNext, SaveProgress, FoundIsTrue, Filled, Merged,
       Saving, Reading, Scanning
  <2>4. ScanProgress' /\ (flags'.valid => Shows')
    BY <1>4, <2>1, <2>2 DEF Ordered, vars, ScanProgress, Shows
  <2> QED
    BY <1>1, <2>2, <2>3, <2>4 DEF Ordered
<1> QED
  BY <1>2, <1>3, <1>4

\* As long as requests and erasures come when the handler is at rest and the chip answers,
\* and from each reset on that finds the flash in order, the next save goes to a slot that is
\* blank, or erases the sector first (RetriveAppVarsFromExtFlash, SaveNewAppVarsToExtFlash).
THEOREM FreeSlotKept == Spec => []NextSlotIsBlank
<1>1. ASSUME IInv PROVE NextSlotIsBlank
  <2> SUFFICES ASSUME orderly, Free, flags.valid, appVarsNextFree # 0, Ordered
               PROVE  flash[appVarsNextFree] = Blank
    BY <1>1 DEF NextSlotIsBlank, IInv
  <2>1. Filled(appVarsNextFree) \/ flash = [s \in Slots |-> Blank]
    BY DEF Ordered, Control, FreeIsNext, Free, Saving, Reading
  <2>2. appVarsNextFree \in Slots /\ appVarsNextFree >= appVarsNextFree
    BY SlotsAssumption DEF Ordered, Types, TypeOK, Slots
  <2> QED
    BY <2>1, <2>2 DEF Filled
<1> QED
  BY <1>1, InitInv, Inductive, PTL DEF Spec

-----------------------------------------------------------------------------
(* The refinement.                                                          *)

Shown == IF Hidden THEN Nothing ELSE SettingsOf(currentAppVars)
Wanted == IF Saving /\ SNASM.state # "WaitStart" THEN SettingsOf(Merged) ELSE Nothing

\* The work of the store a step that stays in order is.
Maps == Store!Work \/ UNCHANGED <<Stored, Shown, Wanted, count.resets>>

LEMMA SettingsType ==
  /\ \A e \in Entries : SettingsOf(e) \in AllSettings
  /\ Nothing \notin AllSettings
<1>1. "nothing" \notin Words
  BY WordsAssumption DEF Words
<1> QED
  BY <1>1 DEF SettingsOf, AllSettings, Nothing, Entries, Fields

LEMMA BetweenMaps ==
  ASSUME Ordered, orderly, orderly',
         \/ AppVarsReadRequest
         \/ \E type, word : AppVarsSaveRequest(type, word)
         \/ EraseEntireFlash \/ EntireEraseDone
  PROVE  Maps
<1>1. /\ UNCHANGED <<HAVSM, currentAppVars, SNASM>>
      /\ HAVSM \in {"WaitCommand", "ResetSM"}
  BY DEF AppVarsReadRequest, AppVarsSaveRequest, EraseEntireFlash, EntireEraseDone, Free
<1>2. Wanted = Nothing /\ Wanted' = Nothing
  BY <1>1 DEF Wanted, Saving
<1>3. CASE AppVarsReadRequest
  <2>1. Shown' = Nothing /\ UNCHANGED <<flash, count>>
    BY <1>3 DEF AppVarsReadRequest, Shown, Hidden
  <2>2. Store!Hide
    BY <1>2, <2>1, StoredKept DEF Store!Hide, Shown, Wanted, InOrder
  <2> QED
    BY <2>1, <2>2 DEF Maps, Store!Work
<1>4. CASE \E type, word : AppVarsSaveRequest(type, word)
  <2>1. UNCHANGED flash /\ appVarsCommand = "Wait" /\ appVarsCommand' = "Write"
        /\ count'.resets = count.resets
    BY <1>4 DEF AppVarsSaveRequest, Free, Ordered, Types, TypeOK, Counts
  <2>2. Shown' = Shown
    BY <1>1, <2>1 DEF Shown, Hidden
  <2> QED
    BY <1>2, <2>1, <2>2, StoredKept DEF Maps
<1>5. CASE EraseEntireFlash
  <2>1. flash' = [s \in Slots |-> Blank] /\ UNCHANGED appVarsCommand
        /\ count'.resets = count.resets
    BY <1>5 DEF EraseEntireFlash, Free, Saving, Ordered, Types, TypeOK, Counts
  <2>2. Stored' = Nothing
    <3>1. (flash = [s \in Slots |-> Blank] => Stored = Nothing)'
      BY StoredBlank, PTL
    <3> QED
      BY <2>1, <3>1
  <2>3. Shown' = Shown
    BY <1>1, <2>1 DEF Shown, Hidden
  <2>4. Store!Erase
    BY <1>2, <2>1, <2>2, <2>3 DEF Store!Erase, Shown, Wanted, InOrder
  <2> QED
    BY <2>1, <2>4 DEF Maps, Store!Work
<1>6. CASE EntireEraseDone
  <2>1. UNCHANGED <<flash, appVarsCommand, count>>
    BY <1>6 DEF EntireEraseDone
  <2>2. Shown' = Shown
    BY <1>1, <2>1 DEF Shown, Hidden
  <2> QED
    BY <1>2, <2>1, <2>2, StoredKept DEF Maps
<1> QED
  BY <1>3, <1>4, <1>5, <1>6

\* A reset keeps an order, and may find one.
LEMMA ResetMaps == ASSUME IInv, IInv', Reset PROVE Store!Reset
<1>1. /\ UNCHANGED flash /\ appVarsCommand' = "Read" /\ HAVSM' = "WaitCommand"
      /\ count'.resets = count.resets + 1 /\ orderly' = NoHoles
  BY DEF Reset, Booted, IInv, Types, TypeOK, Counts
<1>2. InOrder(Shown)' = Nothing /\ InOrder(Wanted)' = Nothing
  BY <1>1 DEF Shown, Wanted, Hidden, Saving, InOrder
<1>3. CASE orderly
  <2>1. orderly' = orderly
    BY <1>1, <1>3 DEF IInv, Ordered, Types, TypeOK
  <2>2. InOrder(Stored)' = InOrder(Stored)
    BY <1>1, <2>1, StoredKept DEF InOrder
  <2> QED
    BY <1>1, <1>2, <1>3, <2>1, <2>2 DEF Store!Reset, Shown, Wanted
<1>4. CASE ~orderly
  <2>1. InOrder(Stored)' \in AllSettings \cup {Nothing}
    <3>1. (TypeOK => Stored = Nothing \/ Stored \in [cap : Words, serial : Words])'
      BY StoredType, PTL
    <3> QED
      BY <3>1 DEF AllSettings, InOrder, IInv, Types
  <2>2. orderly' \in BOOLEAN
    BY DEF IInv, Types, TypeOK
  <2> QED
    BY <1>1, <1>2, <1>4, <2>1, <2>2 DEF Store!Reset, Shown, Wanted
<1> QED
  BY <1>3, <1>4

\* A turn that neither saves nor touches the flash: what is shown comes back as it is stored.
LEMMA QuietMaps ==
  ASSUME TypeOK, orderly, orderly', UNCHANGED <<flash, count>>, SNASM.state = "WaitStart", SNASM'.state = "WaitStart",
         Hidden' => Hidden,
         ~Hidden' => UNCHANGED currentAppVars /\ (Shows \/ ~Hidden)
  PROVE  Maps
<1>1. Wanted = Nothing /\ Wanted' = Nothing
  BY DEF Wanted
<1>2. Stored' = Stored
  BY StoredKept
<1>3. CASE Hidden'
  BY <1>1, <1>2, <1>3 DEF Maps, Shown
<1>4. CASE ~Hidden' /\ ~Hidden
  BY <1>1, <1>2, <1>4 DEF Maps, Shown
<1>5. CASE ~Hidden' /\ Hidden
  <2>1. /\ Shown = Nothing /\ Shown' = SettingsOf(currentAppVars)
        /\ Stored = Nothing \/ SettingsOf(currentAppVars) = Stored
    BY <1>5 DEF Shown, Shows
  <2>2. SettingsOf(currentAppVars) \in AllSettings
    BY SettingsType DEF TypeOK
  <2>3. Store!Load
    BY <1>1, <1>2, <2>1, <2>2 DEF Store!Load, Shown, Wanted, InOrder, AllSettings
  <2> QED
    BY <2>3 DEF Maps, Store!Work
<1> QED
  BY <1>3, <1>4, <1>5

LEMMA TurnMaps ==
  ASSUME Ordered, orderly, orderly', Types', UNCHANGED <<appVarTypeToSave, count>>,
         WaitCommand \/ ReadInit \/ SaveInit \/ ResetSM \/ ReadCurrentAppVars
  PROVE  Maps
<1>1. SNASM.state = "WaitStart" /\ UNCHANGED <<flash, SNASM>>
  BY DEF Ordered, Control, Saving, WaitCommand, ReadInit, SaveInit, ResetSM, NoAccess,
         ReadCurrentAppVars, RAVWaitStart, RAVInit, RAVVerifyDataValid, RAVNextAddress,
         RAVVerifyNextMemoryEmpty, RAVEnd, Reading
<1>2. /\ flags \in Flags /\ [flags EXCEPT !.startRead = ~flags.valid] \in Flags
      /\ [flags EXCEPT !.startSave = @ \/ flags.available] \in Flags
  BY DEF Ordered, Types, TypeOK, Flags
<1>3. CASE WaitCommand
  <2>1. /\ HAVSM = "WaitCommand" /\ appVarsCommand' = "Wait" /\ UNCHANGED currentAppVars
        /\ HAVSM' = IF flags.resetInitiated THEN "ResetSM"
                    ELSE CASE appVarsCommand = "Read" -> "ReadInit"
                           [] appVarsCommand = "Write" -> "SaveInit"
                           [] OTHER -> "WaitCommand"
    BY <1>2, <1>3, BecomesFlags DEF WaitCommand, NoAccess
  <2>2. Hidden' => Hidden
    BY <2>1 DEF Hidden
  <2>3. Hidden /\ ~Hidden' => Shows
    <3>1. Hidden /\ ~Hidden' => flags.resetInitiated
      BY <2>1 DEF Hidden
    <3> QED
      BY <3>1, StoredBlank DEF Ordered, Control, Shows
  <2> QED
    BY <1>1, <2>1, <2>2, <2>3, QuietMaps DEF Ordered, Types
<1>4. CASE ReadInit
  <2>1. /\ HAVSM = "ReadInit" /\ UNCHANGED <<appVarsCommand, currentAppVars>>
        /\ ~flags.resetInitiated
    BY <1>4 DEF ReadInit, NoAccess, Ordered, Control
  <2>2. HAVSM' = IF flags.valid THEN "WaitCommand" ELSE "ReadCurrentAppVars"
    BY <1>2, <1>4, <2>1, BecomesFlags DEF ReadInit, Flags
  <2>3. Hidden /\ (~Hidden' => flags.valid)
    BY <2>1, <2>2 DEF Hidden
  <2> QED
    BY <1>1, <2>1, <2>3, QuietMaps DEF Ordered, Types
<1>5. CASE SaveInit
  <2>1. /\ HAVSM = "SaveInit" /\ UNCHANGED <<appVarsCommand, currentAppVars>>
        /\ HAVSM' \in {"ResetSM", "SaveNewAppVarsToFlash", "WaitCommand"}
    BY <1>2, <1>5, BecomesFlags DEF SaveInit, NoAccess
  <2>2. appVarsCommand = "Wait"
    BY <2>1 DEF Ordered, Control
  <2>3. ~Hidden /\ ~Hidden'
    BY <2>1, <2>2 DEF Hidden
  <2> QED
    BY <1>1, <2>1, <2>3, QuietMaps DEF Ordered, Types
<1>6. CASE ResetSM
  <2>1. /\ HAVSM = "ResetSM" /\ UNCHANGED currentAppVars
        /\ HAVSM' \in {"ResetSM", "WaitCommand"}
    BY <1>6 DEF ResetSM, Becomes
  <2>2. appVarsCommand = "Wait" /\ appVarsCommand' = "Wait"
    BY <1>6, <2>1 DEF ResetSM, Ordered, Control
  <2>3. ~Hidden /\ ~Hidden'
    BY <2>1, <2>2 DEF Hidden
  <2> QED
    BY <1>1, <2>1, <2>3, QuietMaps DEF Ordered, Types
<1>7. CASE ReadCurrentAppVars
  <2>1. /\ Reading
        /\ IF RAVSM.state = "End" THEN HAVSM' = "WaitCommand" ELSE HAVSM' = HAVSM
        /\ appVarsCommand' = "Wait"
    BY <1>7, ScanFlags
  <2>2. Hidden /\ (~Hidden' => RAVSM.state = "End")
    BY <2>1 DEF Hidden, Reading
  <2>3. RAVSM.state = "End" => Shows /\ UNCHANGED currentAppVars
    BY <1>7 DEF Ordered, ScanProgress, ReadCurrentAppVars, RAVWaitStart, RAVInit, RAVVerifyDataValid,
       RAVNextAddress, RAVVerifyNextMemoryEmpty, RAVEnd
  <2> QED
    BY <1>1, <2>2, <2>3, QuietMaps DEF Ordered, Types
<1> QED
  BY <1>3, <1>4, <1>5, <1>6, <1>7

\* What a save is to store is what is shown with the one part that was asked for.
LEMMA MergedChange ==
  ASSUME Ordered, flags.available
  PROVE  \/ \E c \in Capacitances :
              SettingsOf(Merged) = [SettingsOf(currentAppVars) EXCEPT !.cap = c]
         \/ \E n \in Serials :
              SettingsOf(Merged) = [SettingsOf(currentAppVars) EXCEPT !.serial = n]
<1>1. newAppVars[PartOf(appVarTypeToSave)] \in
        IF appVarTypeToSave = "Capacitance" THEN Capacitances ELSE Serials
  BY DEF Ordered, Control
<1>2. CASE appVarTypeToSave = "Capacitance"
  <2>1. SettingsOf(Merged) = [SettingsOf(currentAppVars) EXCEPT !.cap = newAppVars[3]]
    BY <1>2 DEF SettingsOf, Merged, PartOf, Fields
  <2> QED
    BY <1>1, <1>2, <2>1 DEF PartOf
<1>3. CASE appVarTypeToSave = "SerialNumber"
  <2>1. SettingsOf(Merged) = [SettingsOf(currentAppVars) EXCEPT !.serial = newAppVars[4]]
    BY <1>3 DEF SettingsOf, Merged, PartOf, Fields
  <2> QED
    BY <1>1, <1>3, <2>1 DEF PartOf
<1> QED
  BY <1>2, <1>3 DEF Ordered, Types, TypeOK

LEMMA SaveMaps ==
  ASSUME Ordered, orderly, orderly', Types', SaveNewAppVarsToFlash,
         UNCHANGED <<appVarTypeToSave, count>>
  PROVE  Maps
<1>1. /\ Saving /\ appVarsCommand = "Wait" /\ appVarsCommand' = "Wait" /\ flags.available
      /\ UNCHANGED currentAppVars
      /\ IF SNASM.state = "End" THEN HAVSM' = "ReadInit" ELSE HAVSM' = HAVSM
  BY SaveFlags DEF Ordered, Control, Saving
<1>2. TypeOK /\ SNASM \in Savers /\ currentAppVars \in Entries /\ Merged \in Entries
  BY MergedType DEF Ordered, Types, TypeOK
<1>3. Shown = SettingsOf(currentAppVars) /\ Shown # Nothing /\ SettingsOf(Merged) # Nothing
  BY <1>1, <1>2, SettingsType DEF Shown, Hidden, Saving
<1>4. SNASM.state # "End" => Shown' = Shown /\ Saving'
  BY <1>1, <1>3 DEF Shown, Hidden, Saving
<1>5. CASE SNAWaitStart
  <2>1. /\ UNCHANGED <<flash, newAppVars>> /\ SNASM.state = "WaitStart"
        /\ SNASM'.state = "WaitStart" \/ SNASM'.state = "Init"
    BY <1>2, <1>5 DEF SNAWaitStart, SaveStep, Savers
  <2>2. Wanted = Nothing /\ Merged' = Merged
    BY <1>1, <2>1 DEF Wanted, Merged
  <2>3. CASE SNASM'.state = "WaitStart"
    BY <1>4, <2>1, <2>2, <2>3, StoredKept DEF Maps, Wanted
  <2>4. CASE SNASM'.state = "Init"
    <3>1. Wanted' = SettingsOf(Merged)
      BY <1>4, <2>1, <2>2, <2>4 DEF Wanted
    <3>2. Shown \in AllSettings
      BY <1>2, <1>3, SettingsType
    <3>3. Wanted' \in {[Shown EXCEPT !.cap = c] : c \in Capacitances}
                      \cup {[Shown EXCEPT !.serial = n] : n \in Serials}
      BY <1>1, <1>3, <3>1, MergedChange
    <3>4. Wanted' \in [s \in AllSettings |->
                         {[s EXCEPT !.cap = c] : c \in Capacitances}
                         \cup {[s EXCEPT !.serial = n] : n \in Serials}][Shown]
      BY <3>2, <3>3
    <3>5. Stored' = Stored
      BY <2>1, StoredKept
    <3>6. Store!Begin
      BY <1>3, <1>4, <2>1, <2>2, <3>4, <3>5 DEF Store!Begin, Shown, Wanted, InOrder, AllSettings
    <3> QED
      BY <3>6 DEF Maps, Store!Work
  <2> QED
    BY <2>1, <2>3, <2>4
<1>6. CASE SNAInit \/ SNAWaitSectorEraseDone \/ SNAPrepareForWrite
  <2>1. /\ UNCHANGED flash /\ SNASM.state # "WaitStart" /\ SNASM'.state # "WaitStart"
        /\ SNASM.state # "End"
        /\ newAppVars' = newAppVars \/ newAppVars' = Merged
    BY <1>2, <1>6 DEF SNAInit, SNAWaitSectorEraseDone, SNAPrepareForWrite, SaveStep, Savers
  <2>2. Merged' = Merged
    <3>1. CASE newAppVars' = newAppVars
      BY <1>1, <3>1 DEF Merged
    <3> QED
      BY <1>1, <1>2, <2>1, <3>1, MergedKept
  <2>3. Wanted' = Wanted
    BY <1>1, <1>4, <2>1, <2>2 DEF Wanted
  <2> QED
    BY <1>4, <2>1, <2>3, StoredKept DEF Maps
<1>7. CASE SNAEraseSector \/ SNAWrite
  <2>1. /\ UNCHANGED newAppVars /\ SNASM.state # "WaitStart" /\ SNASM'.state # "WaitStart"
        /\ SNASM.state # "End"
    BY <1>2, <1>7 DEF SNAEraseSector, SNAWrite, SaveStep, Savers
  <2>2. Merged' = Merged
    BY <1>1, <2>1 DEF Merged
  <2>3. Wanted' = Wanted /\ Wanted # Nothing
    BY <1>1, <1>3, <1>4, <2>1, <2>2 DEF Wanted
  <2>4. Stored' \in AllSettings \cup {Nothing}
    <3>1. (TypeOK => Stored = Nothing \/ Stored \in [cap : Words, serial : Words])'
      BY StoredType, PTL
    <3>2. TypeOK'
      BY DEF Types
    <3> QED
      BY <3>1, <3>2 DEF AllSettings, Nothing
  <2>5. Store!Program
    BY <1>4, <2>1, <2>3, <2>4 DEF Store!Program, Shown, Wanted, InOrder, AllSettings
  <2> QED
    BY <2>5 DEF Maps, Store!Work
<1>8. CASE SNAEnd
  <2>1. UNCHANGED flash /\ SNASM.state = "End" /\ HAVSM' = "ReadInit"
    BY <1>1, <1>8 DEF SNAEnd, SaveStep
  <2>2. Wanted = SettingsOf(Merged) /\ Wanted' = Nothing /\ Shown' = Nothing
    BY <1>1, <2>1 DEF Wanted, Shown, Hidden, Saving
  <2>3. /\ flash[SNASM.slot] = Merged /\ SNASM.slot \in Slots
        /\ \A s \in Slots : s < SNASM.slot => Valid(flash[s])
        /\ \A s \in Slots : s > SNASM.slot => flash[s] = Blank
    BY <1>2, <2>1 DEF Ordered, SaveProgress, Savers
  <2>4. \A s \in Slots : s <= SNASM.slot => Valid(flash[s])
    <3>1. \A s \in Slots : s <= SNASM.slot => s < SNASM.slot \/ s = SNASM.slot
      BY <2>3 DEF Slots
    <3> QED
      BY <2>3, <3>1, MergedValid
  <2>5. Stored = SettingsOf(Merged)
    BY <2>3, <2>4, BlankIsEmpty, StoredLast
  <2>6. Wanted # Nothing /\ Stored = Wanted
    BY <1>3, <2>2, <2>5
  <2>7. Store!Finish
    BY <2>1, <2>2, <2>6, StoredKept DEF Store!Finish, Shown, Wanted, InOrder
  <2> QED
    BY <2>7 DEF Maps, Store!Work
<1> QED
  BY <1>5, <1>6, <1>7, <1>8 DEF SaveNewAppVarsToFlash

LEMMA InitMaps == Init => Store!Init
<1> SUFFICES ASSUME Init PROVE Store!Init
  OBVIOUS
<1>1. Stored = Nothing
  BY StoredBlank DEF Init
<1> QED
  BY <1>1 DEF Init, Booted, Store!Init, Hidden, Saving, InOrder

LEMMA NextMaps == ASSUME IInv, IInv', [Next]_vars PROVE [Store!Next]_(Store!vars)
<1>1. CASE UNCHANGED vars
  <2>1. UNCHANGED flash /\ UNCHANGED <<Hidden, currentAppVars, SNASM, HAVSM, count, orderly>>
        /\ Merged' = Merged
    BY <1>1 DEF vars, Hidden, Merged
  <2>2. Stored' = Stored
    BY <2>1, StoredKept
  <2> QED
    BY <2>1, <2>2 DEF Store!vars, Saving, InOrder
<1>2. CASE Reset
  BY <1>2, ResetMaps DEF Store!Next
<1>3. CASE Next /\ ~Reset
  <2>1. /\ orderly \in BOOLEAN /\ orderly' \in BOOLEAN /\ Types'
        /\ orderly' => orderly /\ ~SNAWriteTimeOut
        /\ count'.resets = count.resets
    BY <1>3 DEF IInv, Types, TypeOK, Counts, Next, HandleAppVarsOnExternalFlashSM, SNAWriteTimeOut,
       AppVarsReadRequest, AppVarsSaveRequest, EraseEntireFlash, EntireEraseDone
  <2>2. CASE orderly'
    <3>1. orderly /\ Ordered
      BY <2>1, <2>2 DEF IInv
    <3>2. Maps
      BY <1>3, <2>1, <2>2, <3>1, BetweenMaps, TurnMaps, SaveMaps
         DEF Next, HandleAppVarsOnExternalFlashSM
    <3> QED
      BY <2>1, <2>2, <3>1, <3>2 DEF Maps, Store!vars, Store!Next, Shown, Wanted, InOrder
  <2>3. CASE orderly /\ ~orderly'
    <3>1. Store!Lose
      BY <2>1, <2>3 DEF Store!Lose, InOrder
    <3> QED
      BY <3>1 DEF Store!Next
  <2>4. CASE ~orderly /\ ~orderly'
    BY <2>1, <2>4 DEF Store!vars, InOrder
  <2> QED
    BY <2>1, <2>2, <2>3, <2>4
<1> QED
  BY <1>1, <1>2, <1>3

\* The flash with its three nested machines does what the settings store promises, across
\* torn entries, erasures and resets at any point of a save or a scan, and again after a reset
\* when a request, an erasure or a time-out has put it out of order (application_vars.c).
THEOREM Refinement == Spec => ImplementsStore
<1>1. ASSUME [Next]_vars, IInv, IInv' PROVE [Store!Next]_(Store!vars)
  BY <1>1, NextMaps
<1>2. Spec => []IInv
  BY InitInv, Inductive, PTL DEF Spec
<1> QED
  BY <1>1, <1>2, InitMaps, PTL DEF Spec, ImplementsStore, Store!Spec

-----------------------------------------------------------------------------
(* How far a save is from its end: the safety half of SaveEnds.  Requests may  *)
(* come at any moment.                                                      *)

\* A machine that waits to be started has been told to start.
Started ==
  /\ Saving /\ SNASM.state = "WaitStart" => flags.startSave
  /\ Reading /\ RAVSM.state = "WaitStart" => flags.startRead

\* The handler waits for an erasure of the whole flash only if one is under way.
Running ==
  /\ Types /\ Started
  /\ HAVSM = "ResetSM" => flags.resetInitiated

\* A scan looks at each slot at most three times.
ScanTurns == 3 * SLOTS + 2

ScanAhead ==
  CASE RAVSM.state = "WaitStart" -> ScanTurns
    [] RAVSM.state = "Init" -> ScanTurns - 1
    [] RAVSM.state = "VerifyNextMemoryEmpty" -> 3 * (SLOTS - RAVSM.slot) + 1
    [] RAVSM.state = "VerifyDataValid" -> 3 * (SLOTS - RAVSM.slot)
    [] RAVSM.state = "NextAddress" -> 3 * (SLOTS - RAVSM.slot) - 1
    [] OTHER -> 1

SaveAhead ==
  CASE SNASM.state = "WaitStart" -> 10
    [] SNASM.state = "Init" -> 9
    [] SNASM.state = "EraseSector" -> 8
    [] SNASM.state = "WaitSectorEraseDone" -> 7
    [] SNASM.state = "PrepareForWrite" -> 6
    [] SNASM.state = "Write" -> 6 - SNASM.word
    [] OTHER -> 1

\* A save asked for in a scan waits for it.
CommandAhead ==
  CASE Saving -> SaveAhead
    [] HAVSM = "SaveInit" -> 11
    [] HAVSM = "WaitCommand" -> 12
    [] HAVSM = "ReadInit" -> ScanTurns + 13
    [] OTHER -> ScanAhead + 12

ErasureAhead ==
  IF HAVSM # "ResetSM" THEN 3 ELSE IF flags.resetReady THEN 1 ELSE 2

\* The turns until the requester is told, the answer of the chip to an erasure among them.
TurnsAhead == IF flags.resetInitiated THEN ErasureAhead ELSE CommandAhead

\* A save that nothing has overtaken.
Pending == flags.available /\ ~Overtaken

\* The only turn that leads nowhere is one that waits for the chip.
WaitsForChip == HAVSM = "ResetSM" /\ ~flags.resetReady
Turn == HandleAppVarsOnExternalFlashSM \/ SNAWriteTimeOut
TurnsCount ==
  Pending /\ Pending' /\ count'.erases = count.erases =>
    IF EntireEraseDone \/ (Turn /\ ~WaitsForChip)
    THEN TurnsAhead' < TurnsAhead
    ELSE TurnsAhead' = TurnsAhead

-----------------------------------------------------------------------------
(* Where a turn leads.                                                      *)

LEMMA BecomesMore ==
  ASSUME NEW hav, NEW flag \in Flags, Becomes(hav, flag)
  PROVE  /\ flags'.available = flag.available
         /\ flags'.startSave = flag.startSave /\ flags'.startRead = flag.startRead
         /\ flags'.resetInitiated = flag.resetInitiated
         /\ flag.resetInitiated => HAVSM' = "ResetSM" /\ ~flags'.resetReady
         /\ ~flag.resetInitiated => HAVSM' = hav
  BY DEF Becomes, Flags

\* The state the handler goes to if no erasure of the whole flash is under way.
Leads(hav) ==
  /\ flags'.resetInitiated = flags.resetInitiated
  /\ flags.resetInitiated => HAVSM' = "ResetSM" /\ ~flags'.resetReady
  /\ ~flags.resetInitiated => HAVSM' = hav

LEMMA CommandLeads ==
  ASSUME Types, WaitCommand
  PROVE  /\ HAVSM = "WaitCommand" /\ flags'.available = flags.available
         /\ Leads(CASE appVarsCommand = "Read" -> "ReadInit"
                    [] appVarsCommand = "Write" -> "SaveInit"
                    [] OTHER -> "WaitCommand")
  BY BecomesMore DEF WaitCommand, Types, TypeOK, Leads

LEMMA ReadLeads ==
  ASSUME Types, ReadInit
  PROVE  /\ HAVSM = "ReadInit" /\ UNCHANGED appVarsCommand
         /\ flags'.available = flags.available /\ flags'.startRead = ~flags.valid
         /\ Leads(IF flags.valid THEN "WaitCommand" ELSE "ReadCurrentAppVars")
<1>1. flags \in Flags /\ [flags EXCEPT !.startRead = ~flags.valid] \in Flags
  BY DEF Types, TypeOK, Flags
<1> QED
  BY <1>1, BecomesMore DEF ReadInit, Leads, Flags

LEMMA SaveLeads ==
  ASSUME Types, SaveInit
  PROVE  /\ HAVSM = "SaveInit" /\ UNCHANGED appVarsCommand
         /\ flags'.available = flags.available
         /\ flags.available => flags'.startSave
         /\ Leads(IF flags.available THEN "SaveNewAppVarsToFlash" ELSE "WaitCommand")
<1>1. flags \in Flags /\ [flags EXCEPT !.startSave = @ \/ flags.available] \in Flags
  BY DEF Types, TypeOK, Flags
<1> QED
  BY <1>1, BecomesMore DEF SaveInit, Leads, Flags

LEMMA SavingLeads ==
  ASSUME Types, Started, SaveNewAppVarsToFlash \/ SNAWriteTimeOut
  PROVE  /\ Saving /\ UNCHANGED appVarsCommand
         /\ SNASM.state # "End" =>
              /\ Leads(HAVSM) /\ flags'.available = flags.available
              /\ SNASM'.state # "WaitStart" /\ SaveAhead' < SaveAhead
         /\ SNASM.state = "End" => Leads("ReadInit") /\ ~flags'.available
<1>1. /\ flags \in Flags /\ [flags EXCEPT !.startSave = FALSE] \in Flags
      /\ [flags EXCEPT !.available = FALSE] \in Flags
  BY DEF Types, TypeOK, Flags
<1>2. SNASM \in Savers /\ SNASM.state \in SaveStates /\ SNASM.word \in 1 .. 4
  BY DEF Types, TypeOK, Savers, Fields
<1>3. UNCHANGED appVarsCommand
  BY DEF SaveNewAppVarsToFlash, SNAWriteTimeOut
<1>4. CASE SNAWaitStart
  <2>1. Saving /\ flags.startSave /\ SNASM.state = "WaitStart"
    BY <1>4 DEF SNAWaitStart, SaveStep, Started
  <2>2. SNASM'.state = "Init"
    BY <1>2, <1>4, <2>1 DEF SNAWaitStart, SaveStep, Savers
  <2>3. SaveAhead = 10 /\ SaveAhead' = 9
    BY <2>1, <2>2 DEF SaveAhead
  <2>4. Leads(HAVSM) /\ flags'.available = flags.available
    BY <1>1, <1>4, BecomesMore DEF SNAWaitStart, Leads, Flags
  <2> QED
    BY <1>3, <2>1, <2>2, <2>3, <2>4
<1>5. CASE SNAInit \/ SNAEraseSector \/ SNAWaitSectorEraseDone
  <2>1. Saving /\ SNASM.state \notin {"WaitStart", "End"} /\ SNASM'.state # "WaitStart"
    BY <1>2, <1>5 DEF SNAInit, SNAEraseSector, SNAWaitSectorEraseDone, SaveStep, Savers
  <2>2. SaveAhead' < SaveAhead
    BY <1>2, <1>5 DEF SNAInit, SNAEraseSector, SNAWaitSectorEraseDone, SaveStep, Savers, SaveAhead
  <2>3. Leads(HAVSM) /\ flags'.available = flags.available
    BY <1>1, <1>5, BecomesMore DEF SNAInit, SNAEraseSector, SNAWaitSectorEraseDone, Leads
  <2> QED
    BY <1>3, <2>1, <2>2, <2>3
<1>6. CASE SNAPrepareForWrite
  <2>1. Saving /\ SNASM.state = "PrepareForWrite" /\ SNASM'.state = "Write" /\ SNASM'.word = 1
    BY <1>6 DEF SNAPrepareForWrite
  <2>2. SaveAhead = 6 /\ SaveAhead' = 5
    BY <2>1 DEF SaveAhead
  <2>3. Leads(HAVSM) /\ flags'.available = flags.available
    BY <1>1, <1>6, BecomesMore DEF SNAPrepareForWrite, Leads
  <2> QED
    BY <1>3, <2>1, <2>2, <2>3
<1>7. CASE SNAWrite \/ SNAWriteTimeOut
  <2>1. /\ Saving /\ SNASM.state = "Write"
        /\ \/ SNASM'.state = "Write" /\ SNASM'.word = SNASM.word + 1
           \/ SNASM'.state = "End"
    BY <1>2, <1>7 DEF SNAWrite, SNAWriteTimeOut, SaveStep, Savers
  <2>2. SaveAhead' < SaveAhead
    BY <1>2, <2>1 DEF SaveAhead
  <2>3. Leads(HAVSM) /\ flags'.available = flags.available
    BY <1>1, <1>7, BecomesMore DEF SNAWrite, SNAWriteTimeOut, Leads
  <2> QED
    BY <1>3, <2>1, <2>2, <2>3
<1>8. CASE SNAEnd
  <2>1. Saving /\ SNASM.state = "End"
    BY <1>8 DEF SNAEnd, SaveStep
  <2>2. Leads("ReadInit") /\ ~flags'.available
    BY <1>1, <1>8, BecomesMore DEF SNAEnd, Leads, Flags
  <2> QED
    BY <1>3, <2>1, <2>2
<1> QED
  BY <1>4, <1>5, <1>6, <1>7, <1>8 DEF SaveNewAppVarsToFlash

LEMMA ScanLeads ==
  ASSUME Types, Started, ReadCurrentAppVars
  PROVE  /\ Reading /\ UNCHANGED appVarsCommand
         /\ flags'.available = flags.available
         /\ RAVSM.state # "End" =>
              Leads(HAVSM) /\ RAVSM'.state # "WaitStart" /\ ScanAhead' < ScanAhead
         /\ RAVSM.state = "End" => Leads("WaitCommand")
<1>1. /\ flags \in Flags /\ [flags EXCEPT !.startRead = FALSE] \in Flags
      /\ [flags EXCEPT !.valid = TRUE] \in Flags
  BY DEF Types, TypeOK, Flags
<1>2. /\ RAVSM \in Scans /\ RAVSM.state \in ReadStates
      /\ Scanning => RAVSM.slot \in 0 .. SLOTS - 1
      /\ SLOTS \in Nat /\ ScanTurns \in Nat /\ ScanTurns' = ScanTurns /\ ScanTurns = 3 * SLOTS + 2
  BY SlotsAssumption DEF Types, TypeOK, Scans, Slots, ScanTurns
<1>3. UNCHANGED appVarsCommand
  BY DEF ReadCurrentAppVars
<1>4. CASE RAVEnd
  <2>1. Reading /\ RAVSM.state = "End"
    BY <1>4 DEF RAVEnd
  <2>2. Leads("WaitCommand") /\ flags'.available = flags.available
    BY <1>1, <1>4, BecomesMore DEF RAVEnd, Leads, Flags
  <2> QED
    BY <1>3, <2>1, <2>2
<1>5. CASE ~RAVEnd
  <2>1. Reading /\ RAVSM.state # "End"
    BY <1>5 DEF ReadCurrentAppVars, RAVWaitStart, RAVInit, RAVVerifyDataValid, RAVNextAddress,
       RAVVerifyNextMemoryEmpty
  <2>2. Leads(HAVSM) /\ flags'.available = flags.available
    <3>1. Becomes(HAVSM, flags) \/ Becomes(HAVSM, [flags EXCEPT !.startRead = FALSE])
      BY <1>5 DEF ReadCurrentAppVars, RAVWaitStart, RAVInit, RAVVerifyDataValid, RAVNextAddress,
         RAVVerifyNextMemoryEmpty
    <3> QED
      BY <1>1, <3>1, BecomesMore DEF Leads, Flags
  <2>3. RAVSM'.state # "WaitStart" /\ ScanAhead' < ScanAhead
    <3>1. CASE RAVWaitStart
      <4>1. RAVSM.state = "WaitStart" /\ flags.startRead
        BY <2>1, <3>1 DEF RAVWaitStart, Started
      <4>2. RAVSM'.state = "Init"
        BY <1>2, <3>1, <4>1 DEF RAVWaitStart, Scans
      <4> QED
        BY <1>2, <4>1, <4>2 DEF ScanAhead
    <3>2. CASE RAVInit
      <4>1. RAVSM.state = "Init" /\ RAVSM'.state = "VerifyDataValid" /\ RAVSM'.slot = 0
        BY <1>2, <3>2 DEF RAVInit, Scans
      <4> QED
        BY <1>2, <4>1 DEF ScanAhead
    <3>3. CASE RAVVerifyDataValid
      <4>1. /\ RAVSM.state = "VerifyDataValid" /\ RAVSM'.state = "NextAddress"
            /\ RAVSM'.slot = RAVSM.slot /\ RAVSM.slot \in 0 .. SLOTS - 1
        BY <1>2, <3>3 DEF RAVVerifyDataValid, Scans, Scanning
      <4> QED
        BY <1>2, <4>1 DEF ScanAhead
    <3>4. CASE RAVNextAddress
      <4>1. RAVSM.state = "NextAddress" /\ RAVSM.slot \in 0 .. SLOTS - 1
        BY <1>2, <3>4 DEF RAVNextAddress, Scanning
      <4>2. \/ RAVSM'.state = "End"
            \/ /\ RAVSM'.state \in {"VerifyNextMemoryEmpty", "VerifyDataValid"}
               /\ RAVSM'.slot = RAVSM.slot + 1
        BY <1>2, <3>4 DEF RAVNextAddress, Scans
      <4> QED
        BY <1>2, <4>1, <4>2 DEF ScanAhead
    <3>5. CASE RAVVerifyNextMemoryEmpty
      <4>1. RAVSM.state = "VerifyNextMemoryEmpty" /\ RAVSM.slot \in 0 .. SLOTS - 1
        BY <1>2, <3>5 DEF RAVVerifyNextMemoryEmpty, Scanning
      <4>2. RAVSM'.state = "End" \/ (RAVSM'.state = "VerifyDataValid" /\ RAVSM'.slot = RAVSM.slot)
        BY <1>2, <3>5 DEF RAVVerifyNextMemoryEmpty, Scans
      <4> QED
        BY <1>2, <4>1, <4>2 DEF ScanAhead
    <3> QED
      BY <1>5, <3>1, <3>2, <3>3, <3>4, <3>5 DEF ReadCurrentAppVars
  <2> QED
    BY <1>3, <2>1, <2>2, <2>3
<1> QED
  BY <1>4, <1>5

\* The turn that waits for the chip changes nothing, and the last one drops every request.
LEMMA ErasureLeads ==
  ASSUME Running, ResetSM
  PROVE  /\ HAVSM = "ResetSM" /\ flags.resetInitiated
         /\ flags.resetReady => /\ HAVSM' = "WaitCommand" /\ ~flags'.available
                                /\ ~flags'.resetInitiated
         /\ ~flags.resetReady => /\ HAVSM' = "ResetSM" /\ flags'.resetInitiated
                                 /\ ~flags'.resetReady /\ UNCHANGED appVarsCommand
                                 /\ flags'.available = flags.available
<1>1. HAVSM = "ResetSM" /\ flags.resetInitiated /\ flags \in Flags
  BY DEF ResetSM, Running, Types, TypeOK
<1>2. CASE flags.resetReady
  BY <1>1, <1>2 DEF ResetSM, Becomes, Flags
<1>3. CASE ~flags.resetReady
  BY <1>1, <1>3, BecomesMore DEF ResetSM
<1> QED
  BY <1>1, <1>2, <1>3

\* Between the turns nothing moves the machines.
Between ==
  \/ AppVarsReadRequest
  \/ \E c \in Capacitances : AppVarsSaveRequest("Capacitance", c)
  \/ \E n \in Serials : AppVarsSaveRequest("SerialNumber", n)
  \/ EraseEntireFlash \/ EntireEraseDone

LEMMA BetweenLeads ==
  ASSUME Types, Between
  PROVE  /\ UNCHANGED <<HAVSM, SNASM, RAVSM>>
         /\ flags'.startSave = flags.startSave /\ flags'.startRead = flags.startRead
         /\ flags.resetInitiated => flags'.resetInitiated
         /\ flags.available => flags'.available
         /\ ~EraseEntireFlash => flags'.resetInitiated = flags.resetInitiated
         /\ ~EntireEraseDone => flags'.resetReady = flags.resetReady
         /\ appVarsCommand' # appVarsCommand =>
              appVarsCommand' = "Write" \/ (appVarsCommand' = "Read" /\ UNCHANGED flags)
<1>1. flags \in Flags
  BY DEF Types, TypeOK
<1> QED
  BY <1>1 DEF Between, AppVarsReadRequest, AppVarsSaveRequest, EraseEntireFlash, EntireEraseDone, Flags

LEMMA RunningKept == ASSUME Running, [Next]_vars PROVE Running'
<1>1. Types /\ Types' /\ flags \in Flags
  BY NextKeepsTypes DEF Running, Types, TypeOK
<1>2. CASE UNCHANGED vars
  BY <1>1, <1>2 DEF vars, Running, Started, Saving, Reading
<1>3. CASE Between
  BY <1>1, <1>3, BetweenLeads DEF Running, Started, Saving, Reading
<1>4. CASE Reset
  BY <1>1, <1>4 DEF Reset, Booted, Running, Started, Saving, Reading
<1>5. CASE WaitCommand
  BY <1>1, <1>5, CommandLeads DEF Leads, Running, Started, Saving, Reading, Types, TypeOK
<1>6. CASE ReadInit
  BY <1>1, <1>6, ReadLeads DEF Leads, Running, Started, Saving, Reading, Flags
<1>7. CASE SaveInit
  BY <1>1, <1>7, SaveLeads DEF Leads, Running, Started, Saving, Reading
<1>8. CASE SaveNewAppVarsToFlash \/ SNAWriteTimeOut
  BY <1>1, <1>8, SavingLeads DEF Leads, Running, Started, Saving, Reading
<1>9. CASE ReadCurrentAppVars
  BY <1>1, <1>9, ScanLeads DEF Leads, Running, Started, Saving, Reading
<1>10. CASE ResetSM
  BY <1>1, <1>10, ErasureLeads DEF Running, Started, Saving, Reading
<1> QED
  BY <1>2, <1>3, <1>4, <1>5, <1>6, <1>7, <1>8, <1>9, <1>10
     DEF Next, HandleAppVarsOnExternalFlashSM, Between

LEMMA AheadRanges ==
  ASSUME Types
  PROVE  /\ ScanTurns \in Nat /\ ScanAhead \in 1 .. ScanTurns /\ SaveAhead \in 1 .. 10
         /\ ErasureAhead \in 1 .. 3
<1>1. /\ RAVSM.state \in ReadStates /\ SLOTS \in Nat /\ ScanTurns \in Nat
      /\ ScanTurns = 3 * SLOTS + 2
      /\ Scanning => RAVSM.slot \in 0 .. SLOTS - 1
  BY SlotsAssumption DEF Types, TypeOK, Scans, Slots, ScanTurns
<1>2. SNASM.state \in SaveStates /\ SNASM.word \in 1 .. 4
  BY DEF Types, TypeOK, Savers, Fields
<1>3. SaveAhead \in 1 .. 10
  BY <1>2 DEF SaveAhead
<1>4. ErasureAhead \in 1 .. 3
  BY DEF ErasureAhead
<1>5. ScanAhead \in 1 .. ScanTurns
  <2>1. CASE Scanning
    <3>1. RAVSM.slot \in Int /\ 0 <= RAVSM.slot /\ RAVSM.slot <= SLOTS - 1
      BY <1>1, <2>1
    <3> QED
      BY <1>1, <2>1, <3>1 DEF ScanAhead, Scanning
  <2>2. CASE ~Scanning
    BY <1>1, <2>2 DEF ScanAhead, Scanning
  <2> QED
    BY <2>1, <2>2
<1> QED
  BY <1>1, <1>3, <1>4, <1>5

LEMMA TurnsRange == ASSUME Running, Pending PROVE TurnsAhead \in 1 .. ScanTurns + 13
<1>1. CASE flags.resetInitiated
  BY <1>1, AheadRanges DEF Running, TurnsAhead
<1>2. CASE ~flags.resetInitiated
  <2>1. TurnsAhead = CommandAhead
    BY <1>2 DEF TurnsAhead
  <2> QED
    BY <2>1, AheadRanges DEF Running, CommandAhead
<1> QED
  BY <1>1, <1>2

\* Each turn of an erasure of the whole flash that is under way.
LEMMA ErasureNears ==
  ASSUME Running, Running', flags.resetInitiated, flags'.available, Turn, ~WaitsForChip
  PROVE  TurnsAhead' < TurnsAhead
<1>1. HAVSM # "ResetSM"
  <2>1. CASE ResetSM
    BY <2>1, ErasureLeads DEF WaitsForChip
  <2> QED
    BY <2>1 DEF Turn, HandleAppVarsOnExternalFlashSM, WaitCommand, ReadInit, SaveInit,
       SaveNewAppVarsToFlash, ReadCurrentAppVars, SNAWriteTimeOut, SaveStep, Saving, Reading,
       SNAWaitStart, SNAInit, SNAEraseSector, SNAWaitSectorEraseDone, SNAPrepareForWrite, SNAWrite,
       SNAEnd, RAVWaitStart, RAVInit, RAVVerifyDataValid, RAVNextAddress,
       RAVVerifyNextMemoryEmpty, RAVEnd
<1>2. HAVSM' = "ResetSM" /\ ~flags'.resetReady /\ flags'.resetInitiated = flags.resetInitiated
  <2>1. ~ResetSM
    BY <1>1 DEF ResetSM
  <2>2. \E hav \in {HAVSM, "WaitCommand", "ReadInit", "SaveInit", "SaveNewAppVarsToFlash",
                    "ReadCurrentAppVars"} : Leads(hav)
    BY <2>1, CommandLeads, ReadLeads, SaveLeads, SavingLeads, ScanLeads
       DEF Turn, HandleAppVarsOnExternalFlashSM, Running
  <2> QED
    BY <2>2 DEF Leads
<1> QED
  BY <1>1, <1>2 DEF TurnsAhead, ErasureAhead

\* Each turn on the way of the command.
LEMMA CommandNears ==
  ASSUME Running, Running', ~flags.resetInitiated, Pending, Pending', Turn
  PROVE  TurnsAhead' < TurnsAhead
<1>1. /\ flags.available /\ flags'.available
      /\ appVarsCommand = "Write" \/ HAVSM \in {"SaveInit", "SaveNewAppVarsToFlash"}
      /\ HAVSM # "ResetSM"
  BY DEF Pending, Overtaken, Running
<1>2. /\ ScanTurns \in Nat /\ ScanTurns' = ScanTurns /\ TurnsAhead = CommandAhead
      /\ ScanAhead \in 1 .. ScanTurns /\ SaveAhead \in 1 .. 10
      /\ ScanAhead' \in 1 .. ScanTurns /\ SaveAhead' \in 1 .. 10
  <2>1. (Types => ScanAhead \in 1 .. ScanTurns /\ SaveAhead \in 1 .. 10)'
    BY AheadRanges, PTL
  <2>2. ScanTurns' = ScanTurns
    BY DEF ScanTurns
  <2> QED
    BY <2>1, <2>2, AheadRanges DEF Running, TurnsAhead
<1>3. ASSUME NEW hav, Leads(hav) PROVE HAVSM' = hav /\ TurnsAhead' = CommandAhead'
  BY <1>3 DEF Leads, TurnsAhead
<1>4. CASE WaitCommand
  <2>1. HAVSM = "WaitCommand" /\ HAVSM' = "SaveInit"
    BY <1>1, <1>3, <1>4, CommandLeads DEF Running
  <2>2. TurnsAhead' = CommandAhead'
    BY <1>3, <1>4, CommandLeads DEF Running
  <2> QED
    BY <1>2, <2>1, <2>2 DEF CommandAhead, Saving
<1>5. CASE ReadInit
  <2>1. HAVSM = "ReadInit" /\ HAVSM' \in {"WaitCommand", "ReadCurrentAppVars"}
    BY <1>3, <1>5, ReadLeads DEF Running
  <2>2. TurnsAhead' = CommandAhead'
    BY <1>3, <1>5, ReadLeads DEF Running
  <2>3. CommandAhead = ScanTurns + 13
    BY <2>1 DEF CommandAhead, Saving
  <2>4. CommandAhead' <= ScanTurns + 12
    BY <1>2, <2>1 DEF CommandAhead, Saving
  <2>5. CommandAhead' \in Int
    BY <1>2, <2>1 DEF CommandAhead, Saving
  <2> QED
    BY <1>2, <2>2, <2>3, <2>4, <2>5
<1>6. CASE SaveInit
  <2>1. HAVSM = "SaveInit" /\ HAVSM' = "SaveNewAppVarsToFlash"
    BY <1>1, <1>3, <1>6, SaveLeads DEF Running
  <2>2. TurnsAhead' = CommandAhead'
    BY <1>3, <1>6, SaveLeads DEF Running
  <2> QED
    BY <1>2, <2>1, <2>2 DEF CommandAhead, Saving
<1>7. CASE SaveNewAppVarsToFlash \/ SNAWriteTimeOut
  <2>1. Saving /\ SNASM.state # "End" /\ Leads(HAVSM) /\ SaveAhead' < SaveAhead
    BY <1>1, <1>7, SavingLeads DEF Running
  <2>2. Saving' /\ TurnsAhead' = CommandAhead'
    BY <1>3, <2>1 DEF Saving
  <2>3. CommandAhead = SaveAhead /\ CommandAhead' = SaveAhead'
    BY <2>1, <2>2 DEF CommandAhead, Saving
  <2> QED
    BY <1>2, <2>1, <2>2, <2>3
<1>8. CASE ReadCurrentAppVars
  <2>1. Reading /\ CommandAhead = ScanAhead + 12
    BY <1>8, ScanLeads DEF Running, Reading, CommandAhead, Saving
  <2>2. CASE RAVSM.state = "End"
    <3>1. HAVSM' = "WaitCommand" /\ TurnsAhead' = CommandAhead'
      BY <1>3, <1>8, <2>2, ScanLeads DEF Running
    <3> QED
      BY <1>2, <2>1, <3>1 DEF CommandAhead, Saving
  <2>3. CASE RAVSM.state # "End"
    <3>1. HAVSM' = HAVSM /\ TurnsAhead' = CommandAhead' /\ ScanAhead' < ScanAhead
      BY <1>3, <1>8, <2>3, ScanLeads DEF Running
    <3>2. CommandAhead' = ScanAhead' + 12
      BY <2>1, <3>1 DEF CommandAhead, Saving, Reading
    <3>3. ScanAhead \in Int /\ ScanAhead' \in Int
      BY <1>2
    <3>4. TurnsAhead = ScanAhead + 12 /\ TurnsAhead' = ScanAhead' + 12
      BY <1>2, <2>1, <3>1, <3>2
    <3>5. \A m, n \in Int : m < n => m + 12 < n + 12
      OBVIOUS
    <3>6. ScanAhead' + 12 < ScanAhead + 12
      BY <3>1, <3>3, <3>5
    <3> QED
      BY <3>4, <3>6
  <2> QED
    BY <2>2, <2>3
<1> QED
  BY <1>1, <1>4, <1>5, <1>6, <1>7, <1>8 DEF Turn, HandleAppVarsOnExternalFlashSM, ResetSM

LEMMA TurnsNear == ASSUME Running, Running', [Next]_vars PROVE TurnsCount
<1> SUFFICES ASSUME Pending, Pending', count'.erases = count.erases
             PROVE  IF EntireEraseDone \/ (Turn /\ ~WaitsForChip)
                    THEN TurnsAhead' < TurnsAhead
                    ELSE TurnsAhead' = TurnsAhead
  BY DEF TurnsCount
<1>1. flags'.available /\ count.erases \in Int
  BY DEF Pending, Running, Types, TypeOK, Counts
<1>2. CASE EntireEraseDone
  <2>1. /\ HAVSM = "ResetSM" /\ ~flags.resetReady /\ flags.resetInitiated
        /\ HAVSM' = "ResetSM" /\ flags'.resetReady /\ flags'.resetInitiated
    BY <1>2 DEF EntireEraseDone, Running, Types, TypeOK, Flags
  <2> QED
    BY <1>2, <2>1 DEF TurnsAhead, ErasureAhead
<1>3. CASE Turn /\ ~WaitsForChip
  BY <1>1, <1>3, ErasureNears, CommandNears
<1>4. CASE ~EntireEraseDone /\ ~(Turn /\ ~WaitsForChip)
  <2>1. TurnsAhead' = TurnsAhead
    <3>1. CASE UNCHANGED vars
      BY <3>1 DEF vars, TurnsAhead, ErasureAhead, CommandAhead, SaveAhead, ScanAhead, Saving,
         ScanTurns
    <3>2. CASE Turn /\ WaitsForChip
      <4>1. ResetSM
        BY <3>2 DEF WaitsForChip, Turn, HandleAppVarsOnExternalFlashSM, WaitCommand, ReadInit,
           SaveInit, SaveNewAppVarsToFlash, ReadCurrentAppVars, SNAWriteTimeOut, SaveStep, Saving,
           Reading, SNAWaitStart, SNAInit, SNAEraseSector, SNAWaitSectorEraseDone,
           SNAPrepareForWrite, SNAWrite, SNAEnd, RAVWaitStart, RAVInit, RAVVerifyDataValid,
           RAVNextAddress, RAVVerifyNextMemoryEmpty, RAVEnd
      <4>2. /\ HAVSM = "ResetSM" /\ HAVSM' = "ResetSM" /\ flags.resetInitiated
            /\ flags'.resetInitiated /\ ~flags.resetReady /\ ~flags'.resetReady
        BY <3>2, <4>1, ErasureLeads DEF WaitsForChip
      <4> QED
        BY <4>2 DEF TurnsAhead, ErasureAhead
    <3>3. CASE Between
      <4>1. ~EraseEntireFlash
        BY <1>1 DEF EraseEntireFlash, Running, Types, TypeOK, Counts
      <4>2. /\ UNCHANGED <<HAVSM, SNASM, RAVSM>>
            /\ flags'.resetInitiated = flags.resetInitiated
            /\ flags'.resetReady = flags.resetReady
        BY <1>4, <3>3, <4>1, BetweenLeads DEF Running
      <4> QED
        BY <4>2 DEF TurnsAhead, ErasureAhead, CommandAhead, SaveAhead, ScanAhead, Saving, ScanTurns
    <3>4. ~Reset
      BY <1>1 DEF Reset, Booted
    <3> QED
      BY <1>4, <3>1, <3>2, <3>3, <3>4 DEF Next, Between, Turn
  <2> QED
    BY <1>4, <2>1
<1> QED
  BY <1>2, <1>3, <1>4

LEMMA InitRunning == Init => Running
  BY InitTypes DEF Init, Booted, Running, Started, Saving, Reading

\* A save that nothing has overtaken is at most 3 * SLOTS + 15 turns, the chip's answer to an
\* erasure among them, from the moment its requester is told, and every one of them brings it
\* nearer, whatever else is asked for meanwhile, as long as no erasure of the whole flash
\* begins: the safety half of SaveEnds (AppVarsSaveRequestReady).
THEOREM SaveNears == Spec => [](Pending => TurnsAhead \in 1 .. ScanTurns + 13) /\ [][TurnsCount]_vars
<1>1. Spec => []Running
  BY InitRunning, RunningKept, PTL DEF Spec
<1>2. Running => (Pending => TurnsAhead \in 1 .. ScanTurns + 13)
  BY TurnsRange
<1>3. ASSUME Running, Running', [Next]_vars PROVE [TurnsCount]_vars
  BY <1>3, TurnsNear
<1> QED
  BY <1>1, <1>2, <1>3, PTL DEF Spec

OvertakesOnlyRead == ~Overtaken /\ Overtaken' => ReadReplacesWrite

LEMMA StepOvertakes == ASSUME Running, [Next]_vars PROVE OvertakesOnlyRead
<1> SUFFICES ASSUME ~Overtaken, Overtaken' PROVE ReadReplacesWrite
  BY DEF OvertakesOnlyRead
<1>1. /\ flags'.available /\ ~flags'.resetInitiated /\ appVarsCommand' # "Write"
      /\ HAVSM' # "SaveInit" /\ HAVSM' # "SaveNewAppVarsToFlash"
  BY DEF Overtaken
<1>2. CASE UNCHANGED vars
  BY <1>2 DEF vars, Overtaken
<1>3. CASE Between
  <2>1. ~EntireEraseDone /\ ~EraseEntireFlash
    BY <1>1 DEF EntireEraseDone, EraseEntireFlash, Running, Types, TypeOK, Flags
  <2>2. AppVarsReadRequest
    BY <1>1, <1>3, <2>1 DEF Between, AppVarsSaveRequest
  <2>3. UNCHANGED <<flags, HAVSM>> /\ appVarsCommand' = "Read"
    BY <2>2 DEF AppVarsReadRequest
  <2>4. appVarsCommand = "Write"
    BY <1>1, <2>3 DEF Overtaken
  <2> QED
    BY <2>3, <2>4 DEF ReadReplacesWrite
<1>4. CASE Reset
  BY <1>1, <1>4 DEF Reset, Booted
<1>5. CASE WaitCommand
  BY <1>1, <1>5, CommandLeads DEF Running, Leads, Overtaken
<1>6. CASE ReadInit
  BY <1>1, <1>6, ReadLeads DEF Running, Leads, Overtaken
<1>7. CASE SaveInit
  BY <1>1, <1>7, SaveLeads DEF Running, Leads
<1>8. CASE SaveNewAppVarsToFlash \/ SNAWriteTimeOut
  BY <1>1, <1>8, SavingLeads DEF Running, Leads, Saving
<1>9. CASE ReadCurrentAppVars
  <2>1. /\ Reading /\ UNCHANGED appVarsCommand /\ flags'.available = flags.available
        /\ flags'.resetInitiated = flags.resetInitiated
    BY <1>9, ScanLeads DEF Running, Leads
  <2> QED
    BY <1>1, <2>1 DEF Overtaken, Reading
<1>10. CASE ResetSM
  BY <1>1, <1>10, ErasureLeads
<1> QED
  BY <1>2, <1>3, <1>4, <1>5, <1>6, <1>7, <1>8, <1>9, <1>10
     DEF Next, HandleAppVarsOnExternalFlashSM, Between

\* Nothing but a reading asked for in the place of its command overtakes a save: no turn of the
\* three machines, no erasure, time-out or other save loses one (application_vars.c:42, 351).
THEOREM OvertakenOnlyByRead == Spec => OvertakenByRead
<1>1. Spec => []Running
  BY InitRunning, RunningKept, PTL DEF Spec
<1>2. ASSUME Running, [Next]_vars PROVE [OvertakesOnlyRead]_vars
  BY <1>2, StepOvertakes
<1>3. [][OvertakesOnlyRead]_vars => OvertakenByRead
  BY DEF OvertakesOnlyRead, OvertakenByRead
<1> QED
  BY <1>1, <1>2, <1>3, PTL DEF Spec
=============================================================================
