------------------------------ MODULE Balancing ------------------------------
(***************************************************************************)
(* Reading and balancing of the cells on CPU2: the reader of balancing.c,    *)
(* which runs in the tail of every tick of the main state machine while it   *)
(* is enabled, the balancing machine, which runs in the state Balancing      *)
(* only, and the switch matrix and the two CLLC converters they share.       *)
(*                                                                         *)
(* One tick is one step: the case of the main state machine, as far as the   *)
(* cells are concerned, then the reader, then the next mode.  Both machines  *)
(* keep their position in function statics, so an aborted session leaves     *)
(* them where they are.                                                      *)
(*                                                                         *)
(* Cells are numbered as in the enumeration of switch_matrix.h, where the    *)
(* number after the low half, BAT_15_N, is not a cell.  convertedReady of the *)
(* two cell sensors is never cleared once set, so a sample is always there.   *)
(***************************************************************************)
EXTENDS Integers, FiniteSets

CONSTANTS
  HALF,        \* cells of one half of the bank, 15
  ITERATIONS,  \* NUMBER_OF_READ_ITERATIONS
  SETTLE,      \* NCOUNTS_TO_STABLE_VOLTAGE
  MaxAborts    \* balancing sessions cut short, for TLC

ASSUME HalfAssumption == HALF \in Nat /\ HALF % 2 = 1
ASSUME ReadingAssumption == ITERATIONS \in Nat \ {0} /\ SETTLE \in Nat
ASSUME AbortAssumption == MaxAborts \in Nat

Halves == {"low", "high"}
Modes == {"other", "Idle", "ChargeInit", "Charge", "BalancingInit", "Balancing",
          "BalancingStop", "StopEPWMs", "Fault"}
ReaderStates == {"INIT", "CONNECT", "CONNECT_DELAY", "VALUE", "NEXT_CELL",
                 "NEXT_ITERATION", "DONE"}
BalanceStates == {"INIT", "READ_CELL_VOLTAGES", "VERIFY_HIGH", "NEXT_ITERATION", "CONNECT",
                  "DISCHARGE", "DISCHARGE_READ_CELL_VOLTAGES", "VERIFY_LOW", "DONE"}

\* BAT_15_N, the cells, their half and their place in the voltage vectors.
Gap == HALF + 1
Cells == (1 .. HALF) \cup (Gap + 1 .. Gap + HALF)
HalfOf(c) == IF c <= HALF THEN "low" ELSE "high"
NUMBER_OF_CELLS == 2 * HALF
Indices == 0 .. NUMBER_OF_CELLS - 1
ConvCellNrToIdx(c) == IF c <= HALF THEN c - 1 ELSE c - 2

\* The order of reading: the last cell of a half, then its lower and its upper
\* cells in turn, so that neighbours do not follow each other.
ReadOrderInHalf(j) ==
  IF j = 0 THEN HALF
  ELSE IF j % 2 = 1 THEN (j + 1) \div 2 ELSE (j \div 2) + (HALF \div 2)
cellNrReadOrder(j) ==
  IF j < HALF THEN ReadOrderInHalf(j) ELSE Gap + ReadOrderInHalf(j - HALF)

VARIABLES
  mode,        \* the state of the main state machine
  enableReadCellVoltages,
  readCellVoltagesBalancingDone,
  reader,      \* the statics of ReadCellVoltagesStateMachine
  balancing,   \* the statics of BalancingAllCells
  matrix,      \* the latches and output enables of the switch matrix
  cllc,        \* the halves whose CLLC PWMs are not tripped
  history      \* no part of the program: what the properties look back on

vars == <<mode, enableReadCellVoltages, readCellVoltagesBalancingDone, reader, balancing,
          matrix, cllc, history>>

\* samples counts what cellVoltagesTemp sums up, and only readings of the cell
\* the sum is for.
Readers ==
  [state : ReaderStates, cellNr : Cells, idx : Indices, counter : 0 .. NUMBER_OF_CELLS,
   iteration : 0 .. ITERATIONS, delay : 0 .. SETTLE, done : BOOLEAN,
   samples : [Indices -> Nat]]
Balancers == [state : BalanceStates, cellNr : Cells, under : 0 .. NUMBER_OF_CELLS]
\* live: a latch has been opened while the outputs of a half were enabled.
Matrices == [even : [Halves -> 0 .. HALF], odd : [Halves -> 0 .. HALF], out : SUBSET Halves,
             polarity : [Halves -> {0, 1}], oe : BOOLEAN, live : BOOLEAN]
\* aborts: sessions cut short; fresh: the session has passed BALANCE_INIT;
\* verified: cells found low enough since; loaded: a CLLC has run since the
\* reading began.
Histories == [aborts : 0 .. MaxAborts, fresh : BOOLEAN, verified : SUBSET Cells, loaded : BOOLEAN]

TypeOK ==
  /\ mode \in Modes
  /\ enableReadCellVoltages \in BOOLEAN
  /\ readCellVoltagesBalancingDone \in BOOLEAN
  /\ reader \in Readers
  /\ balancing \in Balancers
  /\ matrix \in Matrices
  /\ cllc \subseteq Halves
  /\ history \in Histories

Init ==
  /\ mode = "other"
  /\ enableReadCellVoltages = FALSE
  /\ readCellVoltagesBalancingDone = FALSE
  /\ reader = [state |-> "INIT", cellNr |-> HALF, idx |-> 0, counter |-> 0, iteration |-> 0,
               delay |-> 0, done |-> FALSE, samples |-> [i \in Indices |-> 0]]
  /\ balancing = [state |-> "INIT", cellNr |-> 1, under |-> 0]
  /\ matrix = [even |-> [h \in Halves |-> 0], odd |-> [h \in Halves |-> 0], out |-> {},
               polarity |-> [h \in Halves |-> 0], oe |-> FALSE, live |-> FALSE]
  /\ cllc = {}
  /\ history = [aborts |-> 0, fresh |-> TRUE, verified |-> {}, loaded |-> FALSE]

-----------------------------------------------------------------------------
(* The switch matrix.                                                       *)

switch_matrix_reset(m) == [m EXCEPT !.out = {}, !.oe = FALSE]

\* Slip: the second terminal of an even cell is taken on its other side.
SecondAddressUp(c) == (c % Gap) \div 2

\* The addresses latched for the even and the odd terminal of cell c.
FirstAddress(c) == (c % Gap) \div 2
SecondAddress(c) == IF c % 2 = 0 /\ FirstAddress(c) > 0 THEN FirstAddress(c) - 1
                                                        ELSE FirstAddress(c)

switch_matrix_connect_cell(m, c) ==
  [m EXCEPT !.oe = FALSE,
            !.live = @ \/ m.out # {},
            !.even[HalfOf(c)] = FirstAddress(c),
            !.odd[HalfOf(c)] = SecondAddress(c),
            !.out = @ \cup {HalfOf(c)}]

switch_matrix_set_cell_polarity(m, c) ==
  [m EXCEPT !.polarity[HalfOf(c)] = (c + 1) % 2, !.oe = TRUE]

\* The terminals of half h that are connected: an even and an odd one.
Terminals(m, h) ==
  LET base == IF h = "low" THEN 0 ELSE Gap
  IN {base + 2 * m.even[h], base + 2 * m.odd[h] + 1}

\* Cell c, between terminals c - 1 and c, is what the matrix connects.
Connects(m, c) == m.out = {HalfOf(c)} /\ Terminals(m, HalfOf(c)) = {c - 1, c}

-----------------------------------------------------------------------------
(* The reader, in the tail of a tick.  m and done are the matrix and the     *)
(* flag of the balancing machine as the case of the main machine left them.  *)

ReadInit(m, done) ==
  /\ reader.state = "INIT"
  /\ reader' = IF reader.idx < HALF
               THEN [reader EXCEPT !.idx = @ + 1,
                                   !.samples[reader.idx] = 0,
                                   !.samples[reader.idx + HALF] = 0]
               ELSE [reader EXCEPT !.state = "CONNECT", !.counter = 0, !.iteration = 0,
                                   !.done = FALSE]
  /\ matrix' = m
  /\ readCellVoltagesBalancingDone' = done

\* Slip: the reset is left to switch_matrix_connect_cell.
ReadConnectUnreset(m, done) ==
  /\ reader.state = "CONNECT"
  /\ LET c == cellNrReadOrder(reader.counter)
     IN /\ matrix' = switch_matrix_connect_cell(m, c)
        /\ reader' = [reader EXCEPT !.state = "CONNECT_DELAY", !.cellNr = c, !.delay = 0]
  /\ readCellVoltagesBalancingDone' = done

ReadConnect(m, done) ==
  /\ reader.state = "CONNECT"
  /\ LET c == cellNrReadOrder(reader.counter)
     IN /\ matrix' = switch_matrix_connect_cell(switch_matrix_reset(m), c)
        /\ reader' = [reader EXCEPT !.state = "CONNECT_DELAY", !.cellNr = c, !.delay = 0]
  /\ readCellVoltagesBalancingDone' = done

ReadDelay(m, done) ==
  /\ reader.state = "CONNECT_DELAY"
  /\ reader' = IF reader.delay = SETTLE THEN [reader EXCEPT !.state = "VALUE"]
                                        ELSE [reader EXCEPT !.delay = @ + 1]
  /\ matrix' = m
  /\ readCellVoltagesBalancingDone' = done

\* The sample was converted before this tick: it is of the cell that matrix,
\* not m, connects.
ReadValue(m, done) ==
  /\ reader.state = "VALUE"
  /\ LET i == ConvCellNrToIdx(reader.cellNr)
     IN reader' = [reader EXCEPT !.state = "NEXT_CELL", !.idx = i,
                                 !.samples[i] = IF Connects(matrix, reader.cellNr)
                                                THEN @ + 1 ELSE @]
  /\ matrix' = m
  /\ readCellVoltagesBalancingDone' = done

ReadNextCell(m, done) ==
  /\ reader.state = "NEXT_CELL"
  /\ reader' = [reader EXCEPT !.counter = @ + 1,
                              !.state = IF reader.counter + 1 < NUMBER_OF_CELLS
                                        THEN "CONNECT" ELSE "NEXT_ITERATION"]
  /\ matrix' = m
  /\ readCellVoltagesBalancingDone' = done

ReadNextIteration(m, done) ==
  /\ reader.state = "NEXT_ITERATION"
  /\ reader' = [reader EXCEPT !.iteration = @ + 1, !.counter = 0,
                              !.state = IF reader.iteration + 1 = ITERATIONS
                                        THEN "DONE" ELSE "CONNECT"]
  /\ matrix' = m
  /\ readCellVoltagesBalancingDone' = done

\* Slip: the index that INIT starts from is not reset.
ReadDoneKeepsIndex(m, done) ==
  /\ reader.state = "DONE"
  /\ reader' = IF reader.counter < HALF
               THEN [reader EXCEPT !.counter = @ + 1]
               ELSE [reader EXCEPT !.state = "INIT", !.counter = 0, !.iteration = 0,
                                   !.done = TRUE]
  /\ readCellVoltagesBalancingDone' = (done \/ reader.counter = HALF)
  /\ matrix' = m

ReadDone(m, done) ==
  /\ reader.state = "DONE"
  /\ reader' = IF reader.counter < HALF
               THEN [reader EXCEPT !.counter = @ + 1]
               ELSE [reader EXCEPT !.state = "INIT", !.counter = 0, !.iteration = 0,
                                   !.idx = 0, !.done = TRUE]
  /\ readCellVoltagesBalancingDone' = (done \/ reader.counter = HALF)
  /\ matrix' = m

\* ReadCellVoltagesStateMachine
Reader(m, on, done) ==
  \/ /\ ~on
     /\ matrix' = m
     /\ readCellVoltagesBalancingDone' = done
     /\ UNCHANGED reader
  \/ /\ on
     /\ \/ ReadInit(m, done) \/ ReadConnect(m, done) \/ ReadDelay(m, done)
        \/ ReadValue(m, done) \/ ReadNextCell(m, done) \/ ReadNextIteration(m, done)
        \/ ReadDone(m, done)

-----------------------------------------------------------------------------
(* BalancingAllCells.  Each case leaves the statics of the balancing machine,  *)
(* the PWMs and the two flags as the primed state or as the arguments that     *)
(* it hands to the reader, which runs later in the same tick.                  *)

\* Slip: BAT_15_N is not passed over.
NextCellThroughGap(c) == IF c + 1 > Gap + HALF THEN 1 ELSE c + 1

NextCell(c) == IF c + 1 = Gap THEN Gap + 1 ELSE IF c + 1 > Gap + HALF THEN 1 ELSE c + 1

\* Slip: the reader is expected to be on already.
BalanceInitExpectsReader ==
  /\ balancing.state = "INIT"
  /\ balancing' = [state |-> "READ_CELL_VOLTAGES", cellNr |-> 1, under |-> 0]
  /\ UNCHANGED <<enableReadCellVoltages, cllc>>
  /\ Reader(matrix, enableReadCellVoltages, FALSE)

BalanceInit ==
  /\ balancing.state = "INIT"
  /\ balancing' = [state |-> "READ_CELL_VOLTAGES", cellNr |-> 1, under |-> 0]
  /\ cllc' = cllc
  /\ enableReadCellVoltages' = TRUE
  /\ Reader(matrix, TRUE, FALSE)

\* Slip: the reader is left enabled when its values are taken.
BalanceReadStaysOn(from, to) ==
  /\ balancing.state = from
  /\ balancing' = [balancing EXCEPT !.state = IF readCellVoltagesBalancingDone THEN to ELSE @]
  /\ cllc' = cllc
  /\ UNCHANGED enableReadCellVoltages
  /\ Reader(matrix, enableReadCellVoltages, readCellVoltagesBalancingDone)

\* BALANCE_READ_CELL_VOLTAGES and its twin after a discharge.
BalanceRead(from, to) ==
  /\ balancing.state = from
  /\ balancing' = [balancing EXCEPT !.state = IF readCellVoltagesBalancingDone THEN to ELSE @]
  /\ enableReadCellVoltages' = (enableReadCellVoltages /\ ~readCellVoltagesBalancingDone)
  /\ cllc' = cllc
  /\ Reader(matrix, enableReadCellVoltages', readCellVoltagesBalancingDone)

VerifyHigh(over) ==
  /\ balancing.state = "VERIFY_HIGH"
  /\ balancing' = IF over THEN [balancing EXCEPT !.state = "CONNECT"]
                  ELSE [balancing EXCEPT !.state = "NEXT_ITERATION", !.under = @ + 1]

NextIteration ==
  /\ balancing.state = "NEXT_ITERATION"
  /\ balancing' = [balancing EXCEPT !.cellNr = NextCell(@),
                                    !.state = IF balancing.under = NUMBER_OF_CELLS
                                              THEN "DONE" ELSE "VERIFY_HIGH"]

VerifyLow(low) ==
  /\ balancing.state = "VERIFY_LOW"
  /\ balancing' = [balancing EXCEPT !.state = IF low THEN "INIT" ELSE "CONNECT"]

\* The cases that only compare the voltages.
BalanceCompare ==
  /\ \E beyond \in BOOLEAN : VerifyHigh(beyond) \/ VerifyLow(beyond) \/ NextIteration
  /\ UNCHANGED <<enableReadCellVoltages, cllc>>
  /\ Reader(matrix, enableReadCellVoltages, readCellVoltagesBalancingDone)

StartCllcControlLoop(c) == cllc' = {HalfOf(c)}

BalanceConnect ==
  /\ balancing.state = "CONNECT"
  /\ balancing' = [balancing EXCEPT !.state = "DISCHARGE"]
  /\ StartCllcControlLoop(balancing.cellNr)
  /\ UNCHANGED enableReadCellVoltages
  /\ Reader(switch_matrix_set_cell_polarity(
              switch_matrix_connect_cell(switch_matrix_reset(matrix), balancing.cellNr),
              balancing.cellNr),
            enableReadCellVoltages, readCellVoltagesBalancingDone)

\* Slip: the converter is not stopped before the cells are read.
DischargeKeepsCllc(elapsed) ==
  /\ balancing.state = "DISCHARGE"
  /\ UNCHANGED cllc
  /\ IF elapsed
     THEN /\ balancing' = [balancing EXCEPT !.state = "DISCHARGE_READ_CELL_VOLTAGES"]
          /\ enableReadCellVoltages' = TRUE
          /\ Reader(switch_matrix_connect_cell(switch_matrix_reset(matrix), balancing.cellNr),
                    TRUE, FALSE)
     ELSE /\ UNCHANGED <<balancing, enableReadCellVoltages>>
          /\ Reader(matrix, enableReadCellVoltages, readCellVoltagesBalancingDone)

Discharge(elapsed) ==
  /\ balancing.state = "DISCHARGE"
  /\ IF elapsed
     THEN /\ balancing' = [balancing EXCEPT !.state = "DISCHARGE_READ_CELL_VOLTAGES"]
          /\ cllc' = {}
          /\ enableReadCellVoltages' = TRUE
          /\ Reader(switch_matrix_connect_cell(switch_matrix_reset(matrix), balancing.cellNr),
                    TRUE, FALSE)
     ELSE /\ UNCHANGED <<balancing, cllc, enableReadCellVoltages>>
          /\ Reader(matrix, enableReadCellVoltages, readCellVoltagesBalancingDone)

BalanceDone ==
  /\ balancing.state = "DONE"
  /\ balancing' = [balancing EXCEPT !.state = "INIT"]
  /\ cllc' = {}
  /\ UNCHANGED enableReadCellVoltages
  /\ Reader(matrix, enableReadCellVoltages, readCellVoltagesBalancingDone)

BalancingAllCells ==
  \/ BalanceInit
  \/ BalanceRead("READ_CELL_VOLTAGES", "VERIFY_HIGH")
  \/ BalanceCompare
  \/ BalanceConnect
  \/ \E elapsed \in BOOLEAN : Discharge(elapsed)
  \/ BalanceRead("DISCHARGE_READ_CELL_VOLTAGES", "VERIFY_LOW")
  \/ BalanceDone

-----------------------------------------------------------------------------
(* The ticks of the main state machine.  Every state may be left for Fault, by *)
(* an error or an emergency, and kept by a request that is refused.            *)

Leads(to) == mode' \in {mode, "Fault"} \cup to

\* The states that only switch the reader on.
EnableTick ==
  /\ \/ mode = "Idle" /\ Leads({"ChargeInit", "other"})
     \/ mode = "ChargeInit" /\ Leads({"Charge", "other"})
  /\ enableReadCellVoltages' = TRUE
  /\ Reader(matrix, TRUE, readCellVoltagesBalancingDone)
  /\ UNCHANGED <<balancing, cllc>>

\* The states that leave the cells alone; those between the ones named here are
\* one state.  The zero offsets are calibrated, with the matrix reset, before
\* the reader is first enabled.
QuietTick ==
  /\ \/ mode = "other" /\ Leads({"Idle", "ChargeInit", "StopEPWMs"})
     \/ mode = "Charge" /\ Leads({"other"} \cup IF reader.done THEN {"BalancingInit"} ELSE {})
     \/ mode = "BalancingInit" /\ Leads({"Balancing", "BalancingStop"})
  /\ Reader(matrix, enableReadCellVoltages, readCellVoltagesBalancingDone)
  /\ UNCHANGED <<enableReadCellVoltages, balancing, cllc>>

BalancingTick ==
  /\ mode = "Balancing"
  /\ BalancingAllCells
  /\ Leads({"BalancingStop"} \cup IF balancing.state = "DONE" THEN {"ChargeInit"} ELSE {})

BalancingStopTick ==
  /\ mode = "BalancingStop"
  /\ Leads({"StopEPWMs"})
  /\ Reader(switch_matrix_reset(matrix), enableReadCellVoltages, readCellVoltagesBalancingDone)
  /\ UNCHANGED <<enableReadCellVoltages, balancing, cllc>>

StopTick ==
  /\ \/ mode = "StopEPWMs" /\ Leads({"Idle"})
     \/ mode = "Fault" /\ Leads({"other"})
  /\ cllc' = {}
  /\ Reader(matrix, enableReadCellVoltages, readCellVoltagesBalancingDone)
  /\ UNCHANGED <<enableReadCellVoltages, balancing>>

\* The session is cut short: its machine stays where it is.
Aborts == mode \in {"BalancingInit", "Balancing"} /\ mode' \in {"BalancingStop", "Fault"}

Look ==
  history' =
    [aborts |-> history.aborts + IF Aborts THEN 1 ELSE 0,
     fresh |-> IF mode' = "Balancing" /\ mode # "Balancing" THEN balancing.state = "INIT"
               ELSE history.fresh \/ balancing'.state = "INIT",
     verified |-> IF balancing'.state = "INIT" THEN {}
                  ELSE IF balancing.state = "VERIFY_HIGH" /\ balancing'.state = "NEXT_ITERATION"
                  THEN history.verified \cup {balancing.cellNr} ELSE history.verified,
     loaded |-> cllc' # {}
                \/ (history.loaded /\ ~(reader.state = "INIT" /\ reader'.state = "CONNECT"))]

Tick ==
  /\ EnableTick \/ QuietTick \/ BalancingTick \/ BalancingStopTick \/ StopTick
  /\ history.aborts = MaxAborts => ~Aborts
  /\ Look

\* StopAllEPWMs of a protection, between two ticks.
Trip ==
  /\ cllc # {} /\ cllc' = {}
  /\ UNCHANGED <<mode, enableReadCellVoltages, readCellVoltagesBalancingDone, reader, balancing,
                 matrix, history>>

Next == Tick \/ Trip

Spec == Init /\ [][Next]_vars /\ WF_vars(Tick)

-----------------------------------------------------------------------------
(* Break before make, at any time and after any abort: the latches of the      *)
(* matrix only change with its outputs off, the outputs connect one cell of     *)
(* one half, and no two converters run (switch_matrix.c, StartCllcControlLoop). *)
OneCellConnected ==
  /\ ~matrix.live
  /\ \A h \in matrix.out : \E c \in Cells : HalfOf(c) = h /\ Connects(matrix, c)
  /\ Cardinality(cllc) <= 1

(* While the polarity switch is on, it puts a cell's positive side on its       *)
(* positive input: the number of the connected cell and the latched polarity    *)
(* agree, whatever machine made the connection (switch_matrix_set_cell_polarity *)
(* is called by the balancing only, switch_matrix_connect_cell by both).        *)
PolarityOfItsCell ==
  matrix.oe => \E c \in Cells : Connects(matrix, c) /\ matrix.polarity[HalfOf(c)] = (c + 1) % 2

(* A session that began at BALANCE_INIT draws current from the cell it chose,   *)
(* through the converter of that cell's half, and never while the reader moves  *)
(* the matrix (BALANCE_CONNECT and BALANCE_DISCHARGE).                          *)
DischargesItsCell ==
  (mode = "Balancing" /\ history.fresh /\ cllc # {}) =>
     /\ cllc = {HalfOf(balancing.cellNr)}
     /\ Connects(matrix, balancing.cellNr) /\ matrix.oe
     /\ ~enableReadCellVoltages

(* Balancing ends only when every cell, in one pass since BALANCE_INIT, was     *)
(* found low enough, and no voltage is compared that was measured with a        *)
(* converter loading the bank (BALANCE_VERIFY_x, BALANCE_DONE).                 *)
DoneMeansVerified ==
  history.fresh =>
     /\ balancing.state = "DONE" => history.verified = Cells
     /\ (mode = "Balancing" /\ balancing.state \in {"VERIFY_HIGH", "VERIFY_LOW"}) => ~history.loaded

(* Every mean that is published is that of ITERATIONS readings of its own cell  *)
(* (READ_CELL_DONE), if no session was cut short.                               *)
MeanUndisturbed ==
  (history.aborts = 0 /\ reader.state = "DONE" /\ reader.counter > 0) =>
     \A i \in Indices : reader.samples[i] = ITERATIONS

Waiting ==
  mode = "Balancing" /\ balancing.state \in {"READ_CELL_VOLTAGES", "DISCHARGE_READ_CELL_VOLTAGES"}

(* The balancing machine never waits for a reading for ever: the reader is on    *)
(* and comes round (readCellVoltagesBalancingDone).                              *)
ReadingArrives == Waiting ~> ~Waiting
=============================================================================
