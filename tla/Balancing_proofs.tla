-------------------------- MODULE Balancing_proofs --------------------------
(***************************************************************************)
(* Proofs about Balancing, for a bank of any (odd) size, any number of         *)
(* readings and any number of sessions that are cut short.                   *)
(***************************************************************************)
EXTENDS Balancing, FiniteSetTheorems, TLAPS

\* One cell is connected or none, and a polarity that is switched on is its own.
MatrixOK(m) ==
  /\ m \in Matrices /\ ~m.live
  /\ m.out # {} => \E c \in Cells : Connects(m, c)
  /\ m.oe => \E c \in Cells : Connects(m, c) /\ m.polarity[HalfOf(c)] = (c + 1) % 2

\* Where the counters of the reader are within their limits.
ReaderInv ==
  /\ reader.state = "INIT" => reader.idx <= HALF
  /\ reader.state \in {"CONNECT", "CONNECT_DELAY", "VALUE", "NEXT_CELL"} =>
       reader.counter < NUMBER_OF_CELLS
  /\ reader.state \in {"CONNECT", "CONNECT_DELAY", "VALUE", "NEXT_CELL", "NEXT_ITERATION"} =>
       reader.iteration < ITERATIONS
  /\ reader.state = "DONE" => reader.counter <= HALF

\* The cells are verified in their order; under counts them.
CountInv ==
  /\ balancing.state = "INIT" => history.verified = {}
  /\ balancing.state = "READ_CELL_VOLTAGES" =>
       balancing.cellNr = 1 /\ balancing.under = 0 /\ history.verified = {}
  /\ balancing.state = "VERIFY_HIGH" =>
       /\ balancing.under = ConvCellNrToIdx(balancing.cellNr)
       /\ history.verified = {c \in Cells : c < balancing.cellNr}
  /\ balancing.state = "NEXT_ITERATION" =>
       /\ balancing.under = ConvCellNrToIdx(balancing.cellNr) + 1
       /\ history.verified = {c \in Cells : c <= balancing.cellNr}
  /\ balancing.state = "DONE" => history.verified = Cells

\* A reading under way that a converter has loaded is not the one of a new session.
LoadInv ==
  /\ cllc \in {{}, {"low"}, {"high"}}
  /\ cllc # {} => balancing.state = "DISCHARGE"
  /\ reader.state # "INIT" /\ balancing.state \notin {"CONNECT", "DISCHARGE"} =>
       \/ ~history.loaded
       \/ balancing.state = "DISCHARGE_READ_CELL_VOLTAGES" /\ ~readCellVoltagesBalancingDone

\* A session that has passed BALANCE_INIT: the reader rests where the balancing
\* machine compares and discharges, and starts anew where that waits for it.
SessionInv ==
  mode = "Balancing" /\ history.fresh =>
    /\ balancing.state \in {"READ_CELL_VOLTAGES", "DISCHARGE_READ_CELL_VOLTAGES"} =>
         /\ readCellVoltagesBalancingDone => reader.state = "INIT" /\ ~history.loaded
         /\ reader.state # "INIT" => ~history.loaded
    /\ balancing.state \in {"VERIFY_HIGH", "VERIFY_LOW", "NEXT_ITERATION", "CONNECT", "DISCHARGE"} =>
         ~enableReadCellVoltages /\ reader.state = "INIT"
    /\ balancing.state \in {"VERIFY_HIGH", "VERIFY_LOW", "NEXT_ITERATION"} => ~history.loaded
    /\ balancing.state = "DISCHARGE" =>
         /\ cllc \subseteq {HalfOf(balancing.cellNr)}
         /\ Connects(matrix, balancing.cellNr) /\ matrix.oe

IInv == TypeOK /\ MatrixOK(matrix) /\ ReaderInv /\ CountInv /\ LoadInv /\ SessionInv

-----------------------------------------------------------------------------
(* The numbers of the cells.                                                *)

LEMMA ModLow == ASSUME NEW c \in Nat, c < Gap PROVE c % Gap = c
  BY HalfAssumption DEF Gap

LEMMA ModHigh == ASSUME NEW c \in Nat, Gap <= c, c < 2 * Gap PROVE c % Gap = c - Gap
  BY HalfAssumption DEF Gap

LEMMA OrderIsOfCells ==
  ASSUME NEW j \in Nat, j < NUMBER_OF_CELLS PROVE cellNrReadOrder(j) \in Cells
  BY HalfAssumption DEF cellNrReadOrder, ReadOrderInHalf, Gap, Cells, NUMBER_OF_CELLS

LEMMA IndexOfCell ==
  ASSUME NEW c \in Cells PROVE ConvCellNrToIdx(c) \in Indices
  BY HalfAssumption DEF ConvCellNrToIdx, Gap, Cells, NUMBER_OF_CELLS, Indices

LEMMA FirstCell ==
  /\ 1 \in Cells /\ HALF \in Cells
  /\ ConvCellNrToIdx(1) = 0
  /\ {c \in Cells : c < 1} = {}
  BY HalfAssumption DEF ConvCellNrToIdx, Gap, Cells

\* After the last cell all are counted; before it the next cell follows.
LEMMA CellAfterCell ==
  ASSUME NEW c \in Cells
  PROVE  /\ NextCell(c) \in Cells
         /\ ConvCellNrToIdx(c) + 1 = NUMBER_OF_CELLS => {d \in Cells : d <= c} = Cells
         /\ ConvCellNrToIdx(c) + 1 # NUMBER_OF_CELLS =>
               /\ ConvCellNrToIdx(NextCell(c)) = ConvCellNrToIdx(c) + 1
               /\ {d \in Cells : d <= c} = {d \in Cells : d < NextCell(c)}
  BY HalfAssumption DEF NextCell, ConvCellNrToIdx, NUMBER_OF_CELLS, Gap, Cells

LEMMA HalfOfCell ==
  ASSUME NEW c PROVE HalfOf(c) \in Halves
  BY DEF HalfOf, Halves

\* The two latched addresses are those of the terminals around the cell.
LEMMA TerminalsOfCell ==
  ASSUME NEW c \in Cells
  PROVE  /\ FirstAddress(c) \in 0 .. HALF /\ SecondAddress(c) \in 0 .. HALF
         /\ LET base == IF HalfOf(c) = "low" THEN 0 ELSE Gap
            IN {base + 2 * FirstAddress(c), base + 2 * SecondAddress(c) + 1} = {c - 1, c}
<1>1. CASE c <= HALF
  <2>1. c \in Nat /\ c < Gap /\ c >= 1 BY <1>1, HalfAssumption DEF Cells, Gap
  <2>2. c % Gap = c BY <2>1, ModLow
  <2> QED BY <1>1, <2>1, <2>2, HalfAssumption DEF FirstAddress, SecondAddress, HalfOf, Gap
<1>2. CASE ~(c <= HALF)
  <2>1. c \in Nat /\ Gap < c /\ c < 2 * Gap BY <1>2, HalfAssumption DEF Cells, Gap
  <2>2. c % Gap = c - Gap BY <2>1, ModHigh, HalfAssumption DEF Gap
  <2> QED BY <1>2, <2>1, <2>2, HalfAssumption DEF FirstAddress, SecondAddress, HalfOf, Gap
<1> QED BY <1>1, <1>2

-----------------------------------------------------------------------------
(* The switch matrix.                                                       *)

LEMMA Resetting ==
  ASSUME NEW STATE m, m \in Matrices
  PROVE  /\ switch_matrix_reset(m) \in Matrices
         /\ switch_matrix_reset(m).out = {}
         /\ switch_matrix_reset(m).oe = FALSE
         /\ switch_matrix_reset(m).live = m.live
  BY DEF switch_matrix_reset, Matrices

LEMMA Connecting ==
  ASSUME NEW STATE m, m \in Matrices, m.out = {}, ~m.live, NEW STATE c, c \in Cells
  PROVE  /\ switch_matrix_connect_cell(m, c) \in Matrices
         /\ ~switch_matrix_connect_cell(m, c).live
         /\ switch_matrix_connect_cell(m, c).oe = FALSE
         /\ Connects(switch_matrix_connect_cell(m, c), c)
<1> DEFINE h == HalfOf(c)
           n == switch_matrix_connect_cell(m, c)
<1>1. h \in Halves BY DEF HalfOf, Halves
<1>2. /\ FirstAddress(c) \in 0 .. HALF /\ SecondAddress(c) \in 0 .. HALF
      /\ {(IF h = "low" THEN 0 ELSE Gap) + 2 * FirstAddress(c),
          (IF h = "low" THEN 0 ELSE Gap) + 2 * SecondAddress(c) + 1} = {c - 1, c}
  BY TerminalsOfCell
<1>3. n = [m EXCEPT !.oe = FALSE, !.live = FALSE, !.even = [@ EXCEPT ![h] = FirstAddress(c)],
                    !.odd = [@ EXCEPT ![h] = SecondAddress(c)], !.out = {h}]
  BY DEF switch_matrix_connect_cell, Matrices
<1> HIDE DEF h, n
<1>4. n \in Matrices /\ ~n.live /\ n.oe = FALSE /\ n.out = {h} BY <1>1, <1>2, <1>3 DEF Matrices
<1>5. n.even[h] = FirstAddress(c) /\ n.odd[h] = SecondAddress(c) BY <1>1, <1>3 DEF Matrices
<1>6. Terminals(n, h) = {c - 1, c} BY <1>2, <1>5 DEF Terminals
<1> QED BY <1>4, <1>6 DEF n, h, Connects

LEMMA ConnectingIsOK ==
  ASSUME NEW STATE m, MatrixOK(m), NEW STATE c, c \in Cells
  PROVE  LET n == switch_matrix_connect_cell(switch_matrix_reset(m), c)
         IN MatrixOK(n) /\ Connects(n, c)
<1>1. /\ m \in Matrices /\ ~m.live BY DEF MatrixOK
<1>2. /\ switch_matrix_reset(m) \in Matrices /\ switch_matrix_reset(m).out = {}
      /\ ~switch_matrix_reset(m).live
  BY <1>1, Resetting
<1>3. /\ switch_matrix_connect_cell(switch_matrix_reset(m), c) \in Matrices
      /\ ~switch_matrix_connect_cell(switch_matrix_reset(m), c).live
      /\ switch_matrix_connect_cell(switch_matrix_reset(m), c).oe = FALSE
      /\ Connects(switch_matrix_connect_cell(switch_matrix_reset(m), c), c)
  BY <1>2, Connecting
<1> QED BY <1>3 DEF MatrixOK

LEMMA ResettingIsOK ==
  ASSUME NEW STATE m, MatrixOK(m) PROVE MatrixOK(switch_matrix_reset(m))
  BY Resetting DEF MatrixOK

LEMMA PolarityIsOK ==
  ASSUME NEW STATE m, MatrixOK(m), NEW STATE c, c \in Cells, Connects(m, c)
  PROVE  LET n == switch_matrix_set_cell_polarity(m, c)
         IN MatrixOK(n) /\ Connects(n, c) /\ n.oe = TRUE
<1> DEFINE h == HalfOf(c)
           n == switch_matrix_set_cell_polarity(m, c)
<1>1. h \in Halves BY DEF HalfOf, Halves
<1>2. n = [m EXCEPT !.polarity = [@ EXCEPT ![h] = (c + 1) % 2], !.oe = TRUE]
  BY DEF switch_matrix_set_cell_polarity, MatrixOK, Matrices
<1>3. (c + 1) % 2 \in {0, 1} BY HalfAssumption DEF Cells, Gap
<1> HIDE DEF h, n
<1>4. m \in Matrices /\ ~m.live BY DEF MatrixOK
<1>5. n \in Matrices /\ ~n.live /\ n.oe = TRUE /\ n.out = m.out /\ n.even = m.even /\ n.odd = m.odd
      /\ n.polarity[h] = (c + 1) % 2
  BY <1>1, <1>2, <1>3, <1>4 DEF Matrices
<1>6. Connects(n, c) BY <1>5 DEF Connects, Terminals
<1> QED BY <1>5, <1>6 DEF MatrixOK, n, h

-----------------------------------------------------------------------------
(* The reader.                                                              *)

\* What a tick of the reader does to the state that the balancing sees: the
\* matrix stays one that connects a cell or none, and the flag of the balancing
\* is raised only when a reading ends.
ReaderEffect(m, on, done) ==
  /\ reader' \in Readers /\ ReaderInv'
  /\ MatrixOK(matrix')
  /\ readCellVoltagesBalancingDone' \in BOOLEAN
  /\ ~on => /\ reader' = reader /\ matrix' = m
            /\ readCellVoltagesBalancingDone' = done
  /\ reader.state = "INIT" => /\ reader'.state \in {"INIT", "CONNECT"}
                              /\ matrix' = m
                              /\ readCellVoltagesBalancingDone' = done
  /\ readCellVoltagesBalancingDone' = done
     \/ (readCellVoltagesBalancingDone' = TRUE /\ reader'.state = "INIT")
  /\ (reader.state # "INIT" /\ reader'.state = "INIT") => readCellVoltagesBalancingDone' = TRUE

\* The counter's limits are kept, and so is the type.
ReaderKept == reader' \in Readers /\ ReaderInv'

LEMMA ReaderCounts ==
  ASSUME TypeOK, ReaderInv, NEW STATE m, NEW STATE done,
         \/ ReadInit(m, done) \/ ReadConnect(m, done) \/ ReadDelay(m, done)
         \/ ReadValue(m, done) \/ ReadNextCell(m, done) \/ ReadNextIteration(m, done)
         \/ ReadDone(m, done)
  PROVE  ReaderKept
<1>0. HALF \in Nat /\ HALF >= 1 /\ ITERATIONS \in Nat /\ ITERATIONS >= 1 /\ SETTLE \in Nat
  BY HalfAssumption, ReadingAssumption
<1>t. /\ "INIT" \in ReaderStates /\ "CONNECT" \in ReaderStates /\ "CONNECT_DELAY" \in ReaderStates
      /\ "VALUE" \in ReaderStates /\ "NEXT_CELL" \in ReaderStates
      /\ "NEXT_ITERATION" \in ReaderStates /\ "DONE" \in ReaderStates
  BY DEF ReaderStates
<1> USE <1>0, <1>t DEF ReaderKept, NUMBER_OF_CELLS
<1>1. reader \in Readers BY DEF TypeOK
<1>2. CASE ReadInit(m, done)
  <2>1. CASE reader.idx < HALF
    <3>1. reader.idx \in Indices /\ reader.idx + HALF \in Indices /\ reader.idx + 1 \in Indices
      <4>1. reader.idx \in 0 .. 2 * HALF - 1 BY <1>1 DEF Readers, Indices
      <4> QED BY <2>1, <4>1 DEF Indices
    <3>2. [reader.samples EXCEPT ![reader.idx] = 0, ![reader.idx + HALF] = 0] \in [Indices -> Nat]
      BY <1>1, <3>1 DEF Readers
    <3>3. reader' = [reader EXCEPT !.idx = reader.idx + 1,
                       !.samples = [reader.samples EXCEPT ![reader.idx] = 0, ![reader.idx + HALF] = 0]]
      BY <1>1, <1>2, <2>1 DEF ReadInit, Readers
    <3>4. reader' \in Readers BY <1>1, <3>1, <3>2, <3>3 DEF Readers
    <3>5. reader'.state = "INIT" /\ reader'.idx <= HALF
      BY <1>1, <1>2, <2>1, <3>1, <3>3 DEF ReadInit, Readers, Indices
    <3> QED BY <3>4, <3>5 DEF ReaderInv
  <2>2. CASE ~(reader.idx < HALF)
    <3>1. reader' \in Readers
      <4>1. reader' = [state |-> "CONNECT", cellNr |-> reader.cellNr, idx |-> reader.idx,
                       counter |-> 0, iteration |-> 0, delay |-> reader.delay,
                       done |-> FALSE, samples |-> reader.samples]
        BY <1>1, <1>2, <2>2 DEF ReadInit, Readers
      <4>2. 0 \in 0 .. 2 * HALF /\ 0 \in 0 .. ITERATIONS OBVIOUS
      <4> QED BY <1>1, <4>1, <4>2 DEF Readers
    <3>2. reader'.state = "CONNECT" /\ reader'.counter = 0 /\ reader'.iteration = 0
      BY <1>1, <1>2, <2>2 DEF ReadInit, Readers
    <3> QED BY <3>1, <3>2 DEF ReaderInv
  <2> QED BY <2>1, <2>2
<1>3. CASE ReadConnect(m, done)
  <2>1. cellNrReadOrder(reader.counter) \in Cells
    BY <1>1, <1>3, OrderIsOfCells DEF ReadConnect, ReaderInv, Readers
  <2>2. reader' \in Readers
    <3>1. reader' = [state |-> "CONNECT_DELAY", cellNr |-> cellNrReadOrder(reader.counter),
                     idx |-> reader.idx, counter |-> reader.counter,
                     iteration |-> reader.iteration, delay |-> 0,
                     done |-> reader.done, samples |-> reader.samples]
      BY <1>1, <1>3 DEF ReadConnect, Readers
    <3>2. 0 \in 0 .. SETTLE OBVIOUS
    <3> QED BY <1>1, <2>1, <3>1, <3>2 DEF Readers
  <2>3. /\ reader.state = "CONNECT" /\ reader'.state = "CONNECT_DELAY"
        /\ reader'.counter = reader.counter /\ reader'.iteration = reader.iteration
    BY <1>1, <1>3 DEF ReadConnect, Readers
  <2> QED BY <2>2, <2>3 DEF ReaderInv
<1>4. CASE ReadDelay(m, done)
  BY <1>1, <1>4 DEF ReadDelay, Readers, ReaderInv
<1>5. CASE ReadValue(m, done)
  <2> DEFINE i == ConvCellNrToIdx(reader.cellNr)
             n == IF Connects(matrix, reader.cellNr) THEN reader.samples[i] + 1 ELSE reader.samples[i]
  <2>1. i \in Indices BY <1>1, IndexOfCell DEF Readers
  <2>2. reader' = [reader EXCEPT !.state = "NEXT_CELL", !.idx = i,
                                 !.samples = [reader.samples EXCEPT ![i] = n]]
    BY <1>1, <1>5, <2>1 DEF ReadValue, Readers
  <2>3. n \in Nat BY <1>1, <2>1 DEF Readers
  <2> HIDE DEF i, n
  <2>4. [reader.samples EXCEPT ![i] = n] \in [Indices -> Nat] BY <1>1, <2>3 DEF Readers
  <2> QED BY <1>1, <1>5, <2>1, <2>2, <2>4 DEF ReadValue, Readers, ReaderInv
<1>6. CASE ReadNextCell(m, done)
  <2>1. reader.state = "NEXT_CELL" /\ reader.counter < NUMBER_OF_CELLS /\ reader.iteration < ITERATIONS
    BY <1>6 DEF ReadNextCell, ReaderInv
  <2>2. reader' \in Readers
    <3>1. reader' = [state |-> IF reader.counter + 1 < 2 * HALF THEN "CONNECT" ELSE "NEXT_ITERATION",
                     cellNr |-> reader.cellNr, idx |-> reader.idx, counter |-> reader.counter + 1,
                     iteration |-> reader.iteration, delay |-> reader.delay,
                     done |-> reader.done, samples |-> reader.samples]
      BY <1>1, <1>6 DEF ReadNextCell, Readers
    <3>2. reader.counter + 1 \in 0 .. 2 * HALF BY <1>1, <2>1 DEF Readers
    <3> QED BY <1>1, <3>1, <3>2 DEF Readers
  <2>3. /\ reader'.counter = reader.counter + 1 /\ reader'.iteration = reader.iteration
        /\ reader'.state = IF reader.counter + 1 < NUMBER_OF_CELLS THEN "CONNECT" ELSE "NEXT_ITERATION"
    BY <1>1, <1>6 DEF ReadNextCell, Readers
  <2> QED BY <1>1, <2>1, <2>2, <2>3 DEF ReaderInv, Readers
<1>7. CASE ReadNextIteration(m, done)
  <2>1. reader.state = "NEXT_ITERATION" /\ reader.iteration < ITERATIONS
    BY <1>7 DEF ReadNextIteration, ReaderInv
  <2>2. reader' \in Readers
    <3>1. reader' = [state |-> IF reader.iteration + 1 = ITERATIONS THEN "DONE" ELSE "CONNECT",
                     cellNr |-> reader.cellNr, idx |-> reader.idx, counter |-> 0,
                     iteration |-> reader.iteration + 1, delay |-> reader.delay,
                     done |-> reader.done, samples |-> reader.samples]
      BY <1>1, <1>7 DEF ReadNextIteration, Readers
    <3>2. reader.iteration + 1 \in 0 .. ITERATIONS /\ 0 \in 0 .. 2 * HALF BY <1>1, <2>1 DEF Readers
    <3> QED BY <1>1, <3>1, <3>2 DEF Readers
  <2>3. /\ reader'.counter = 0 /\ reader'.iteration = reader.iteration + 1
        /\ reader'.state = IF reader.iteration + 1 = ITERATIONS THEN "DONE" ELSE "CONNECT"
    BY <1>1, <1>7 DEF ReadNextIteration, Readers
  <2> QED BY <1>1, <2>1, <2>2, <2>3 DEF ReaderInv, Readers
<1>8. CASE ReadDone(m, done)
  <2>1. reader.state = "DONE" /\ reader.counter <= HALF BY <1>8 DEF ReadDone, ReaderInv
  <2>2. CASE reader.counter < HALF
    <3>1. reader' = [reader EXCEPT !.counter = reader.counter + 1]
      BY <1>1, <1>8, <2>2 DEF ReadDone, Readers
    <3>2. reader' \in Readers BY <1>1, <2>2, <3>1 DEF Readers
    <3>3. reader'.state = "DONE" /\ reader'.counter = reader.counter + 1
      BY <1>1, <2>1, <3>1 DEF Readers
    <3> QED BY <1>1, <2>2, <3>2, <3>3 DEF ReaderInv, Readers
  <2>3. CASE ~(reader.counter < HALF)
    <3>1. reader' = [reader EXCEPT !.state = "INIT", !.counter = 0, !.iteration = 0,
                                   !.idx = 0, !.done = TRUE]
      BY <1>8, <2>3 DEF ReadDone
    <3>2. reader' \in Readers
      <4>1. reader' = [state |-> "INIT", cellNr |-> reader.cellNr, idx |-> 0, counter |-> 0,
                       iteration |-> 0, delay |-> reader.delay, done |-> TRUE,
                       samples |-> reader.samples]
        BY <1>1, <3>1 DEF Readers
      <4>2. 0 \in Indices /\ 0 \in 0 .. 2 * HALF /\ 0 \in 0 .. ITERATIONS BY DEF Indices
      <4> QED BY <1>1, <4>1, <4>2 DEF Readers
    <3>3. reader'.state = "INIT" /\ reader'.idx = 0 BY <1>1, <3>1 DEF Readers
    <3> QED BY <3>2, <3>3 DEF ReaderInv
  <2> QED BY <2>2, <2>3
<1> QED BY <1>2, <1>3, <1>4, <1>5, <1>6, <1>7, <1>8

LEMMA ReaderStep ==
  ASSUME TypeOK, ReaderInv, NEW STATE m, MatrixOK(m), NEW ACTION on,
         NEW STATE done, done \in BOOLEAN, Reader(m, on, done)
  PROVE  ReaderEffect(m, on, done)
<1>1. reader \in Readers BY DEF TypeOK
<1>2. CASE ~on /\ matrix' = m /\ readCellVoltagesBalancingDone' = done /\ reader' = reader
  <2>1. ReaderKept BY <1>1, <1>2 DEF ReaderKept, ReaderInv
  <2> QED BY <1>2, <2>1 DEF ReaderEffect, ReaderKept
<1>3. CASE on /\ ( \/ ReadInit(m, done) \/ ReadConnect(m, done) \/ ReadDelay(m, done)
                   \/ ReadValue(m, done) \/ ReadNextCell(m, done) \/ ReadNextIteration(m, done)
                   \/ ReadDone(m, done))
  <2>1. ReaderKept BY <1>3, ReaderCounts
  <2>2. CASE ReadConnect(m, done)
    <3>1. cellNrReadOrder(reader.counter) \in Cells
      BY <1>1, <2>2, OrderIsOfCells, HalfAssumption DEF ReadConnect, ReaderInv, Readers
    <3>2. MatrixOK(switch_matrix_connect_cell(switch_matrix_reset(m),
                                               cellNrReadOrder(reader.counter)))
      BY <3>1, ConnectingIsOK
    <3>3. MatrixOK(matrix') BY <2>2, <3>2 DEF ReadConnect
    <3>4. reader.state = "CONNECT" /\ reader'.state = "CONNECT_DELAY"
      BY <1>1, <2>2 DEF ReadConnect, Readers
    <3>5. readCellVoltagesBalancingDone' = done BY <2>2 DEF ReadConnect
    <3> QED BY <1>3, <2>1, <3>3, <3>4, <3>5 DEF ReaderEffect, ReaderKept
  <2>3. CASE ReadDone(m, done)
    <3>1. matrix' = m /\ reader.state = "DONE" BY <2>3 DEF ReadDone
    <3>2. CASE reader.counter = HALF
      <4>1. readCellVoltagesBalancingDone' = TRUE BY <2>3, <3>2 DEF ReadDone
      <4>2. reader'.state = "INIT" BY <1>1, <2>3, <3>2, HalfAssumption DEF ReadDone, Readers
      <4> QED BY <1>3, <2>1, <3>1, <4>1, <4>2 DEF ReaderEffect, ReaderKept
    <3>3. CASE reader.counter # HALF
      <4>1. readCellVoltagesBalancingDone' = done BY <2>3, <3>3, Zenon DEF ReadDone
      <4>2. reader'.state = "DONE"
        BY <1>1, <2>3, <3>3, HalfAssumption DEF ReadDone, Readers, ReaderInv
      <4> QED BY <1>3, <2>1, <3>1, <4>1, <4>2 DEF ReaderEffect, ReaderKept
    <3> QED BY <3>2, <3>3
  <2>4. CASE ReadInit(m, done)
    <3>1. matrix' = m /\ readCellVoltagesBalancingDone' = done /\ reader.state = "INIT"
      BY <2>4 DEF ReadInit
    <3>2. reader'.state \in {"INIT", "CONNECT"} BY <1>1, <2>4 DEF ReadInit, Readers
    <3> QED BY <1>3, <2>1, <3>1, <3>2 DEF ReaderEffect, ReaderKept
  <2>5. CASE \/ ReadDelay(m, done) \/ ReadValue(m, done) \/ ReadNextCell(m, done)
             \/ ReadNextIteration(m, done)
    <3>1. matrix' = m /\ readCellVoltagesBalancingDone' = done /\ reader.state # "INIT"
      BY <2>5 DEF ReadDelay, ReadValue, ReadNextCell, ReadNextIteration
    <3>2. reader'.state # "INIT"
      BY <1>1, <2>5 DEF ReadDelay, ReadValue, ReadNextCell, ReadNextIteration, Readers
    <3> QED BY <1>3, <2>1, <3>1, <3>2 DEF ReaderEffect, ReaderKept
  <2> QED BY <1>3, <2>2, <2>3, <2>4, <2>5
<1> QED BY <1>2, <1>3 DEF Reader

-----------------------------------------------------------------------------
(* What a tick adds to the history.                                         *)

HistoryEffect ==
  /\ history' \in Histories
  /\ balancing'.state = "INIT" => history'.verified = {}
  /\ balancing'.state # "INIT" =>
       history'.verified = IF balancing.state = "VERIFY_HIGH" /\ balancing'.state = "NEXT_ITERATION"
                           THEN history.verified \cup {balancing.cellNr} ELSE history.verified
  /\ mode = "Balancing" => (history'.fresh => history.fresh \/ balancing'.state = "INIT")
  /\ mode # "Balancing" /\ mode' = "Balancing" => (history'.fresh => balancing.state = "INIT")
  /\ cllc' = {} => (~history.loaded => ~history'.loaded)
  /\ cllc' = {} => (reader.state = "INIT" /\ reader'.state = "CONNECT" => ~history'.loaded)

LEMMA HistoryStep ==
  ASSUME TypeOK, Look, history.aborts = MaxAborts => ~Aborts
  PROVE  HistoryEffect
<1> DEFINE a == history.aborts + IF Aborts THEN 1 ELSE 0
           f == IF mode' = "Balancing" /\ mode # "Balancing" THEN balancing.state = "INIT"
                ELSE history.fresh \/ balancing'.state = "INIT"
           v == IF balancing'.state = "INIT" THEN {}
                ELSE IF balancing.state = "VERIFY_HIGH" /\ balancing'.state = "NEXT_ITERATION"
                THEN history.verified \cup {balancing.cellNr} ELSE history.verified
           l == cllc' # {} \/ (history.loaded /\ ~(reader.state = "INIT" /\ reader'.state = "CONNECT"))
<1>1. history' = [aborts |-> a, fresh |-> f, verified |-> v, loaded |-> l] BY DEF Look
<1>2. /\ history.aborts \in 0 .. MaxAborts /\ history.verified \subseteq Cells
      /\ balancing.cellNr \in Cells
  BY DEF TypeOK, Histories, Balancers
<1>3. history.fresh \in BOOLEAN /\ history.loaded \in BOOLEAN BY DEF TypeOK, Histories
<1>4. a \in 0 .. MaxAborts
  <2> HIDE DEF Aborts
  <2>1. CASE Aborts BY <1>2, <2>1, AbortAssumption
  <2>2. CASE ~Aborts BY <1>2, <2>2, AbortAssumption
  <2> QED BY <2>1, <2>2
<1>5. f \in BOOLEAN BY <1>3, Zenon
<1>6. l \in BOOLEAN BY <1>3, Zenon
<1>7. v \in SUBSET Cells BY <1>2
<1>8. /\ mode = "Balancing" => (f => history.fresh \/ balancing'.state = "INIT")
      /\ mode # "Balancing" /\ mode' = "Balancing" => (f => balancing.state = "INIT")
  BY Zenon
<1>9. /\ cllc' = {} => (~history.loaded => ~l)
      /\ cllc' = {} => (reader.state = "INIT" /\ reader'.state = "CONNECT" => ~l)
  BY Zenon
<1>10. /\ balancing'.state = "INIT" => v = {}
       /\ balancing'.state # "INIT" =>
            v = IF balancing.state = "VERIFY_HIGH" /\ balancing'.state = "NEXT_ITERATION"
                THEN history.verified \cup {balancing.cellNr} ELSE history.verified
  BY Zenon
<1> HIDE DEF a, f, v, l
<1>11. history' \in Histories BY <1>1, <1>4, <1>5, <1>6, <1>7, Zenon DEF Histories
<1>12. history'.fresh = f /\ history'.verified = v /\ history'.loaded = l BY <1>1
<1> QED BY <1>8, <1>9, <1>10, <1>11, <1>12 DEF HistoryEffect

\* A reading that has not been loaded is not loaded by a tick without a converter.
LEMMA LoadedStep ==
  ASSUME NEW STATE m, NEW ACTION on, NEW STATE done, ReaderEffect(m, on, done),
         HistoryEffect, cllc' = {}, reader.state # "INIT" => ~history.loaded
  PROVE  reader'.state # "INIT" => ~history'.loaded
<1>1. CASE reader.state = "INIT"
  BY <1>1 DEF ReaderEffect, HistoryEffect
<1>2. CASE reader.state # "INIT"
  BY <1>2 DEF HistoryEffect
<1> QED BY <1>1, <1>2

\* What is left to show of the type, the matrix and the reader after a tick.
LEMMA TypeStep ==
  ASSUME NEW STATE m, NEW ACTION on, NEW STATE done, ReaderEffect(m, on, done),
         HistoryEffect, mode' \in Modes, enableReadCellVoltages' \in BOOLEAN,
         balancing' \in Balancers, cllc' \subseteq Halves
  PROVE  TypeOK' /\ MatrixOK(matrix)' /\ ReaderInv'
<1>1. matrix' \in Matrices /\ MatrixOK(matrix)' BY DEF ReaderEffect, MatrixOK, Connects, Terminals
<1> QED BY <1>1 DEF ReaderEffect, HistoryEffect, TypeOK

\* The balancing machine is left alone.
LEMMA RestStep ==
  ASSUME IInv, NEW STATE m, NEW ACTION on,
         ReaderEffect(m, on, readCellVoltagesBalancingDone), HistoryEffect,
         mode # "Balancing", balancing' = balancing, cllc' = cllc \/ cllc' = {}
  PROVE  CountInv' /\ LoadInv' /\ SessionInv'
<1>1. CountInv' BY DEF HistoryEffect, CountInv, IInv, TypeOK, Balancers
<1>2. LoadInv'
  <2>1. ASSUME reader'.state # "INIT", balancing.state \notin {"CONNECT", "DISCHARGE"}
        PROVE  \/ ~history'.loaded
               \/ balancing.state = "DISCHARGE_READ_CELL_VOLTAGES" /\ ~readCellVoltagesBalancingDone'
    <3>1. cllc' = {} BY <2>1 DEF IInv, LoadInv
    <3>2. CASE reader.state = "INIT" BY <2>1, <3>1, <3>2 DEF ReaderEffect, HistoryEffect
    <3>3. CASE reader.state # "INIT" /\ ~history.loaded
      BY <3>1, <3>3 DEF HistoryEffect
    <3>4. CASE reader.state # "INIT" /\ history.loaded
      <4>1. balancing.state = "DISCHARGE_READ_CELL_VOLTAGES" /\ ~readCellVoltagesBalancingDone
        BY <2>1, <3>4 DEF IInv, LoadInv
      <4>2. readCellVoltagesBalancingDone' = readCellVoltagesBalancingDone
        BY <2>1 DEF ReaderEffect
      <4> QED BY <4>1, <4>2
    <3> QED BY <3>2, <3>3, <3>4
  <2> QED BY <2>1 DEF IInv, LoadInv
<1>3. SessionInv'
  <2> SUFFICES ASSUME mode' = "Balancing", history'.fresh PROVE SessionInv'
    BY DEF SessionInv
  <2>1. balancing'.state = "INIT" BY DEF HistoryEffect
  <2> QED BY <2>1 DEF SessionInv
<1> QED BY <1>1, <1>2, <1>3

-----------------------------------------------------------------------------
(* The cases of BalancingAllCells.                                          *)

\* What each of them is shown to keep, besides the reader and the matrix.
CaseKept ==
  /\ balancing' \in Balancers /\ enableReadCellVoltages' \in BOOLEAN /\ cllc' \subseteq Halves
  /\ CountInv' /\ LoadInv' /\ SessionInv'
  /\ MatrixOK(matrix)' /\ ReaderInv' /\ reader' \in Readers
  /\ readCellVoltagesBalancingDone' \in BOOLEAN

LEMMA MatrixPrime ==
  ASSUME MatrixOK(matrix') PROVE MatrixOK(matrix)'
  BY DEF MatrixOK, Connects, Terminals

\* The invariant as the cases use it.
LEMMA CaseFacts ==
  ASSUME IInv
  PROVE  /\ TypeOK /\ ReaderInv /\ MatrixOK(matrix)
         /\ balancing \in Balancers /\ reader \in Readers
         /\ enableReadCellVoltages \in BOOLEAN /\ readCellVoltagesBalancingDone \in BOOLEAN
         /\ cllc \in {{}, {"low"}, {"high"}}
         /\ balancing.state # "DISCHARGE" => cllc = {}
  BY DEF IInv, TypeOK, LoadInv

LEMMA InitCase ==
  ASSUME IInv, mode = "Balancing", HistoryEffect, BalanceInit PROVE CaseKept
<1>1. balancing.state = "INIT" /\ enableReadCellVoltages' = TRUE /\ cllc' = {}
      /\ balancing' = [state |-> "READ_CELL_VOLTAGES", cellNr |-> 1, under |-> 0]
  BY CaseFacts DEF BalanceInit
<1>2. ReaderEffect(matrix, TRUE, FALSE) BY CaseFacts, ReaderStep DEF BalanceInit
<1>3. balancing' \in Balancers
  BY <1>1, FirstCell, HalfAssumption DEF Balancers, BalanceStates, NUMBER_OF_CELLS
<1>4. CountInv' BY <1>1 DEF HistoryEffect, CountInv, IInv
<1>5. reader.state # "INIT" => ~history.loaded BY <1>1 DEF IInv, LoadInv
<1>6. reader'.state # "INIT" => ~history'.loaded BY <1>1, <1>2, <1>5, LoadedStep
<1>7. LoadInv' BY <1>1, <1>6 DEF LoadInv
<1>8. readCellVoltagesBalancingDone' = TRUE => reader'.state = "INIT" /\ ~history'.loaded
  BY <1>1, <1>2, <1>5 DEF ReaderEffect, HistoryEffect
<1>9. readCellVoltagesBalancingDone' \in BOOLEAN BY <1>2 DEF ReaderEffect
<1>10. SessionInv' BY <1>1, <1>6, <1>8, <1>9 DEF SessionInv
<1> QED BY <1>1, <1>2, <1>3, <1>4, <1>7, <1>10, MatrixPrime DEF CaseKept, ReaderEffect

LEMMA ReadCase ==
  ASSUME IInv, mode = "Balancing", HistoryEffect,
         \/ BalanceRead("READ_CELL_VOLTAGES", "VERIFY_HIGH")
         \/ BalanceRead("DISCHARGE_READ_CELL_VOLTAGES", "VERIFY_LOW")
  PROVE  CaseKept
<1>1. cllc' = {} BY CaseFacts DEF BalanceRead
<1>2. ReaderEffect(matrix, enableReadCellVoltages', readCellVoltagesBalancingDone)
  BY CaseFacts, ReaderStep DEF BalanceRead
<1>3. readCellVoltagesBalancingDone' \in BOOLEAN BY <1>2 DEF ReaderEffect
<1>4. enableReadCellVoltages' \in BOOLEAN BY CaseFacts, Zenon DEF BalanceRead
<1>5. balancing.state \in {"READ_CELL_VOLTAGES", "DISCHARGE_READ_CELL_VOLTAGES"}
  BY DEF BalanceRead
<1>6. CASE readCellVoltagesBalancingDone
  <2>1. enableReadCellVoltages' = FALSE BY <1>6, <1>4 DEF BalanceRead
  <2>2. reader' = reader BY <1>2, <2>1 DEF ReaderEffect
  <2>3. /\ balancing' = [balancing EXCEPT !.state = balancing'.state]
        /\ balancing.state = "READ_CELL_VOLTAGES" => balancing'.state = "VERIFY_HIGH"
        /\ balancing.state = "DISCHARGE_READ_CELL_VOLTAGES" => balancing'.state = "VERIFY_LOW"
    BY <1>6, CaseFacts DEF BalanceRead, Balancers
  <2>4. balancing' \in Balancers
    BY <1>5, <2>3, CaseFacts DEF Balancers, BalanceStates
  <2>5. balancing'.cellNr = balancing.cellNr /\ balancing'.under = balancing.under
    BY <2>3, CaseFacts DEF Balancers
  <2>6. CountInv' BY <1>5, <2>3, <2>5, FirstCell DEF HistoryEffect, CountInv, IInv
  <2>7. reader.state # "INIT" => ~history.loaded BY <1>5, <1>6 DEF IInv, LoadInv
  <2>8. reader'.state # "INIT" => ~history'.loaded BY <1>1, <1>2, <2>7, LoadedStep
  <2>9. LoadInv' BY <1>1, <2>8 DEF LoadInv
  <2>10. ASSUME history'.fresh PROVE reader'.state = "INIT" /\ ~history'.loaded
    <3>1. history.fresh BY <1>5, <2>3, <2>10 DEF HistoryEffect
    <3>2. reader.state = "INIT" /\ ~history.loaded BY <1>5, <1>6, <3>1 DEF IInv, SessionInv
    <3> QED BY <1>1, <2>2, <3>2 DEF HistoryEffect
  <2>11. SessionInv' BY <1>5, <2>1, <2>3, <2>10 DEF SessionInv
  <2> QED BY <1>1, <1>2, <1>3, <1>4, <2>4, <2>6, <2>9, <2>11, MatrixPrime DEF CaseKept, ReaderEffect
<1>7. CASE ~readCellVoltagesBalancingDone
  <2>1. balancing' = balancing BY <1>7, CaseFacts DEF BalanceRead, Balancers
  <2>2. CountInv' BY <1>5, <2>1 DEF HistoryEffect, CountInv, IInv
  <2>3. LoadInv'
    <3>1. ASSUME reader'.state # "INIT", balancing.state = "READ_CELL_VOLTAGES"
          PROVE  ~history'.loaded
      <4>1. reader.state # "INIT" => ~history.loaded BY <3>1 DEF IInv, LoadInv
      <4> QED BY <1>1, <1>2, <3>1, <4>1, LoadedStep
    <3>2. reader'.state # "INIT" => ~readCellVoltagesBalancingDone'
      BY <1>2, <1>7 DEF ReaderEffect
    <3> QED BY <1>1, <1>5, <2>1, <3>1, <3>2 DEF LoadInv
  <2>4. SessionInv'
    <3> SUFFICES ASSUME mode' = "Balancing", history'.fresh PROVE SessionInv' BY DEF SessionInv
    <3>1. history.fresh BY <1>5, <2>1 DEF HistoryEffect
    <3>2. reader.state # "INIT" => ~history.loaded BY <1>5, <3>1 DEF IInv, SessionInv
    <3>3. reader'.state # "INIT" => ~history'.loaded BY <1>1, <1>2, <3>2, LoadedStep
    <3>4. readCellVoltagesBalancingDone' => reader'.state = "INIT" /\ ~history'.loaded
      BY <1>1, <1>2, <1>7, <3>2 DEF ReaderEffect, HistoryEffect
    <3> QED BY <1>5, <2>1, <3>3, <3>4 DEF SessionInv
  <2> QED BY <1>1, <1>2, <1>3, <1>4, <2>1, <2>2, <2>3, <2>4, CaseFacts, MatrixPrime
          DEF CaseKept, ReaderEffect
<1> QED BY <1>6, <1>7

LEMMA CompareCase ==
  ASSUME IInv, mode = "Balancing", HistoryEffect, BalanceCompare PROVE CaseKept
<1>1. PICK beyond \in BOOLEAN : VerifyHigh(beyond) \/ VerifyLow(beyond) \/ NextIteration
  BY DEF BalanceCompare
<1>2. balancing.state \in {"VERIFY_HIGH", "VERIFY_LOW", "NEXT_ITERATION"}
  BY <1>1 DEF VerifyHigh, VerifyLow, NextIteration
<1>3. cllc' = {} /\ enableReadCellVoltages' = enableReadCellVoltages
  BY <1>2, CaseFacts DEF BalanceCompare
<1>4. ReaderEffect(matrix, enableReadCellVoltages, readCellVoltagesBalancingDone)
  BY CaseFacts, ReaderStep DEF BalanceCompare
<1>5. /\ balancing' \in Balancers
      /\ balancing'.state \in {"CONNECT", "NEXT_ITERATION", "INIT", "VERIFY_HIGH", "DONE"}
      /\ CountInv'
  <2>0. /\ balancing \in Balancers /\ HALF \in Nat /\ NUMBER_OF_CELLS = 2 * HALF
        /\ balancing.cellNr \in Cells
    BY CaseFacts, HalfAssumption DEF NUMBER_OF_CELLS, Balancers
  <2>1. CASE VerifyHigh(beyond)
    <3>1. CASE beyond = TRUE
      <4>1. balancing' = [balancing EXCEPT !.state = "CONNECT"] BY <2>1, <3>1 DEF VerifyHigh
      <4>2. balancing' \in Balancers /\ balancing'.state = "CONNECT"
        BY <2>0, <4>1 DEF Balancers, BalanceStates
      <4> QED BY <4>2 DEF CountInv
    <3>2. CASE beyond = FALSE
      <4>1. balancing' = [balancing EXCEPT !.state = "NEXT_ITERATION", !.under = balancing.under + 1]
        BY <2>0, <2>1, <3>2 DEF VerifyHigh, Balancers
      <4>2. /\ balancing.state = "VERIFY_HIGH" /\ balancing.under = ConvCellNrToIdx(balancing.cellNr)
            /\ history.verified = {c \in Cells : c < balancing.cellNr}
        BY <2>1 DEF VerifyHigh, IInv, CountInv
      <4>3. ConvCellNrToIdx(balancing.cellNr) \in Indices BY <2>0, IndexOfCell
      <4>4. balancing.under + 1 \in 0 .. NUMBER_OF_CELLS BY <2>0, <4>2, <4>3 DEF Indices
      <4>5. /\ balancing'.state = "NEXT_ITERATION" /\ balancing'.under = balancing.under + 1
            /\ balancing'.cellNr = balancing.cellNr
        BY <2>0, <4>1 DEF Balancers
      <4>6. balancing' \in Balancers BY <2>0, <4>1, <4>4 DEF Balancers, BalanceStates
      <4>7. history'.verified = {c \in Cells : c < balancing.cellNr} \cup {balancing.cellNr}
        BY <4>2, <4>5 DEF HistoryEffect
      <4>8. history'.verified = {c \in Cells : c <= balancing.cellNr}
        BY <2>0, <4>7 DEF Cells, Gap
      <4> QED BY <4>2, <4>5, <4>6, <4>8 DEF CountInv, ConvCellNrToIdx
    <3> QED BY <1>1, <3>1, <3>2
  <2>2. CASE VerifyLow(beyond)
    <3>1. balancing' = [balancing EXCEPT !.state = IF beyond THEN "INIT" ELSE "CONNECT"]
      BY <2>2 DEF VerifyLow
    <3>2. balancing' \in Balancers /\ balancing'.state \in {"INIT", "CONNECT"}
      BY <2>0, <3>1 DEF Balancers, BalanceStates
    <3> QED BY <3>2 DEF CountInv, HistoryEffect
  <2>3. CASE NextIteration
    <3>1. /\ balancing.state = "NEXT_ITERATION"
          /\ balancing.under = ConvCellNrToIdx(balancing.cellNr) + 1
          /\ history.verified = {c \in Cells : c <= balancing.cellNr}
      BY <2>3 DEF NextIteration, IInv, CountInv
    <3>2. /\ balancing'.cellNr = NextCell(balancing.cellNr) /\ balancing'.under = balancing.under
          /\ balancing'.state = IF balancing.under = NUMBER_OF_CELLS THEN "DONE" ELSE "VERIFY_HIGH"
      BY <2>0, <2>3 DEF NextIteration, Balancers
    <3>3. history'.verified = history.verified BY <3>1, <3>2 DEF HistoryEffect
    <3>4. balancing' \in Balancers
      <4>1. balancing' = [state |-> IF balancing.under = NUMBER_OF_CELLS THEN "DONE" ELSE "VERIFY_HIGH",
                          cellNr |-> NextCell(balancing.cellNr), under |-> balancing.under]
        BY <2>0, <2>3 DEF NextIteration, Balancers
      <4> QED BY <2>0, <4>1, CellAfterCell DEF Balancers, BalanceStates
    <3>5. CASE balancing.under = NUMBER_OF_CELLS
      <4>1. history'.verified = Cells BY <2>0, <3>1, <3>3, <3>5, CellAfterCell
      <4> QED BY <3>2, <3>4, <3>5, <4>1 DEF CountInv
    <3>6. CASE balancing.under # NUMBER_OF_CELLS
      <4>1. /\ ConvCellNrToIdx(NextCell(balancing.cellNr)) = balancing.under
            /\ history'.verified = {c \in Cells : c < NextCell(balancing.cellNr)}
        BY <2>0, <3>1, <3>3, <3>6, CellAfterCell
      <4> QED BY <3>2, <3>4, <3>6, <4>1 DEF CountInv, ConvCellNrToIdx
    <3> QED BY <3>5, <3>6
  <2> QED BY <1>1, <2>1, <2>2, <2>3
<1>6. reader.state # "INIT" => ~history.loaded BY <1>2 DEF IInv, LoadInv
<1>7. reader'.state # "INIT" => ~history'.loaded BY <1>3, <1>4, <1>6, LoadedStep
<1>8. LoadInv' BY <1>3, <1>7 DEF LoadInv
<1>9. SessionInv'
  <2> SUFFICES ASSUME mode' = "Balancing", history'.fresh, balancing'.state # "INIT" PROVE SessionInv'
    BY DEF SessionInv
  <2>1. history.fresh BY DEF HistoryEffect
  <2>2. ~enableReadCellVoltages /\ reader.state = "INIT" /\ ~history.loaded
    BY <1>2, <2>1 DEF IInv, SessionInv
  <2>3. reader' = reader BY <1>4, <2>2 DEF ReaderEffect
  <2>4. ~history'.loaded BY <1>3, <2>2 DEF HistoryEffect
  <2> QED BY <1>3, <1>5, <2>2, <2>3, <2>4 DEF SessionInv
<1> QED BY <1>3, <1>4, <1>5, <1>8, <1>9, CaseFacts, MatrixPrime DEF CaseKept, ReaderEffect

LEMMA ConnectCase ==
  ASSUME IInv, mode = "Balancing", HistoryEffect, BalanceConnect PROVE CaseKept
<1> DEFINE c == balancing.cellNr
           n == switch_matrix_connect_cell(switch_matrix_reset(matrix), c)
           m == switch_matrix_set_cell_polarity(n, c)
<1>1. c \in Cells /\ HalfOf(c) \in {"low", "high"} BY CaseFacts DEF Balancers, HalfOf
<1>2. MatrixOK(n) /\ Connects(n, c) BY <1>1, CaseFacts, ConnectingIsOK
<1> HIDE DEF n
<1>3. MatrixOK(m) /\ Connects(m, c) /\ m.oe = TRUE BY <1>1, <1>2, PolarityIsOK
<1> HIDE DEF m
<1>4. Reader(m, enableReadCellVoltages, readCellVoltagesBalancingDone)
  BY DEF BalanceConnect, m, n
<1>5. ReaderEffect(m, enableReadCellVoltages, readCellVoltagesBalancingDone)
  BY <1>3, <1>4, CaseFacts, ReaderStep
<1>6. /\ balancing.state = "CONNECT" /\ balancing'.state = "DISCHARGE" /\ balancing'.cellNr = c
      /\ balancing' \in Balancers
  BY CaseFacts DEF BalanceConnect, Balancers, BalanceStates
<1>7. enableReadCellVoltages' = enableReadCellVoltages /\ cllc' = {HalfOf(c)}
  BY DEF BalanceConnect, StartCllcControlLoop
<1>8. CountInv' BY <1>6 DEF CountInv
<1>9. LoadInv' BY <1>1, <1>6, <1>7 DEF LoadInv
<1>10. SessionInv'
  <2> SUFFICES ASSUME mode' = "Balancing", history'.fresh PROVE SessionInv' BY DEF SessionInv
  <2>1. history.fresh BY <1>6 DEF HistoryEffect
  <2>2. ~enableReadCellVoltages /\ reader.state = "INIT" BY <1>6, <2>1 DEF IInv, SessionInv
  <2>3. reader' = reader /\ matrix' = m BY <1>5, <2>2 DEF ReaderEffect
  <2>4. Connects(matrix', balancing'.cellNr) /\ matrix'.oe BY <1>3, <1>6, <2>3
  <2>5. Connects(matrix, balancing.cellNr)' BY <2>4 DEF Connects, Terminals
  <2>6. (cllc \subseteq {HalfOf(balancing.cellNr)})' BY <1>6, <1>7 DEF HalfOf
  <2> QED BY <1>6, <1>7, <2>2, <2>3, <2>4, <2>5, <2>6 DEF SessionInv
<1> QED BY <1>1, <1>5, <1>6, <1>7, <1>8, <1>9, <1>10, CaseFacts, MatrixPrime
        DEF CaseKept, ReaderEffect, Halves

LEMMA DischargeCase ==
  ASSUME IInv, mode = "Balancing", HistoryEffect, NEW elapsed \in BOOLEAN, Discharge(elapsed)
  PROVE  CaseKept
<1> DEFINE c == balancing.cellNr
           n == switch_matrix_connect_cell(switch_matrix_reset(matrix), c)
<1>0. balancing.state = "DISCHARGE" BY DEF Discharge
<1>1. c \in Cells BY CaseFacts DEF Balancers
<1>2. MatrixOK(n) BY <1>1, CaseFacts, ConnectingIsOK
<1> HIDE DEF n
<1>3. CASE elapsed = TRUE
  <2>1. /\ balancing'.state = "DISCHARGE_READ_CELL_VOLTAGES" /\ balancing' \in Balancers
    BY <1>3, CaseFacts DEF Discharge, Balancers, BalanceStates
  <2>2. cllc' = {} /\ enableReadCellVoltages' = TRUE /\ Reader(n, TRUE, FALSE)
    BY <1>3 DEF Discharge, n
  <2>3. ReaderEffect(n, TRUE, FALSE) BY <1>2, <2>2, CaseFacts, ReaderStep
  <2>4. readCellVoltagesBalancingDone' \in BOOLEAN /\
        (reader'.state # "INIT" => ~readCellVoltagesBalancingDone')
    BY <2>3 DEF ReaderEffect
  <2>5. CountInv' BY <2>1 DEF CountInv
  <2>6. LoadInv' BY <2>1, <2>2, <2>4 DEF LoadInv
  <2>7. SessionInv'
    <3> SUFFICES ASSUME mode' = "Balancing", history'.fresh PROVE SessionInv' BY DEF SessionInv
    <3>1. history.fresh BY <2>1 DEF HistoryEffect
    <3>2. reader.state = "INIT" BY <1>0, <3>1 DEF IInv, SessionInv
    <3>3. readCellVoltagesBalancingDone' = FALSE BY <2>3, <3>2 DEF ReaderEffect
    <3>4. reader'.state # "INIT" => ~history'.loaded
      BY <2>2, <2>3, <3>2 DEF ReaderEffect, HistoryEffect
    <3> QED BY <2>1, <3>3, <3>4 DEF SessionInv
  <2> QED BY <2>1, <2>2, <2>3, <2>4, <2>5, <2>6, <2>7, MatrixPrime DEF CaseKept, ReaderEffect
<1>4. CASE elapsed = FALSE
  <2>1. /\ balancing' = balancing /\ cllc' = cllc /\ enableReadCellVoltages' = enableReadCellVoltages
        /\ Reader(matrix, enableReadCellVoltages, readCellVoltagesBalancingDone)
    BY <1>4 DEF Discharge
  <2>2. ReaderEffect(matrix, enableReadCellVoltages, readCellVoltagesBalancingDone)
    BY <2>1, CaseFacts, ReaderStep
  <2>3. CountInv' BY <1>0, <2>1 DEF CountInv
  <2>4. LoadInv' BY <1>0, <2>1 DEF LoadInv, IInv
  <2>5. SessionInv'
    <3> SUFFICES ASSUME mode' = "Balancing", history'.fresh PROVE SessionInv' BY DEF SessionInv
    <3>1. history.fresh BY <1>0, <2>1 DEF HistoryEffect
    <3>2. /\ ~enableReadCellVoltages /\ reader.state = "INIT"
          /\ cllc \subseteq {HalfOf(c)} /\ Connects(matrix, c) /\ matrix.oe
      BY <1>0, <3>1 DEF IInv, SessionInv
    <3>3. reader' = reader /\ matrix' = matrix BY <2>2, <3>2 DEF ReaderEffect
    <3>4. Connects(matrix, balancing.cellNr)' BY <2>1, <3>2, <3>3 DEF Connects, Terminals, HalfOf
    <3>5. (cllc \subseteq {HalfOf(balancing.cellNr)})' BY <2>1, <3>2 DEF HalfOf
    <3> QED BY <1>0, <2>1, <3>2, <3>3, <3>4, <3>5 DEF SessionInv
  <2>6. cllc' \subseteq Halves BY <2>1, CaseFacts DEF Halves
  <2> QED BY <2>1, <2>2, <2>3, <2>4, <2>5, <2>6, CaseFacts, MatrixPrime DEF CaseKept, ReaderEffect
<1> QED BY <1>3, <1>4

LEMMA DoneCase ==
  ASSUME IInv, mode = "Balancing", HistoryEffect, BalanceDone PROVE CaseKept
<1>1. /\ balancing.state = "DONE" /\ balancing'.state = "INIT" /\ balancing' \in Balancers
      /\ cllc' = {} /\ enableReadCellVoltages' = enableReadCellVoltages
  BY CaseFacts DEF BalanceDone, Balancers, BalanceStates
<1>2. ReaderEffect(matrix, enableReadCellVoltages, readCellVoltagesBalancingDone)
  BY CaseFacts, ReaderStep DEF BalanceDone
<1>3. CountInv' BY <1>1 DEF CountInv, HistoryEffect
<1>4. reader.state # "INIT" => ~history.loaded BY <1>1 DEF IInv, LoadInv
<1>5. LoadInv' BY <1>1, <1>2, <1>4, LoadedStep DEF LoadInv
<1>6. SessionInv' BY <1>1 DEF SessionInv
<1> QED BY <1>1, <1>2, <1>3, <1>5, <1>6, CaseFacts, MatrixPrime DEF CaseKept, ReaderEffect

-----------------------------------------------------------------------------
(* The ticks.                                                               *)

LEMMA BalancingKept ==
  ASSUME IInv, BalancingTick, HistoryEffect PROVE IInv'
<1>1. CaseKept
  BY InitCase, ReadCase, CompareCase, ConnectCase, DischargeCase, DoneCase
  DEF BalancingTick, BalancingAllCells
<1>2. mode' \in Modes BY DEF BalancingTick, Leads, Modes
<1>3. TypeOK' BY <1>1, <1>2 DEF CaseKept, TypeOK, HistoryEffect, MatrixOK
<1> QED BY <1>1, <1>3 DEF CaseKept, IInv

\* The other ticks, each with the matrix that its case leaves to the reader.
LEMMA OtherKept ==
  ASSUME IInv, HistoryEffect, EnableTick \/ QuietTick \/ BalancingStopTick \/ StopTick
  PROVE  IInv'
<1>1. /\ mode # "Balancing" /\ mode' \in Modes /\ balancing' = balancing
      /\ cllc' = cllc \/ cllc' = {}
      /\ enableReadCellVoltages' \in BOOLEAN
  BY CaseFacts DEF EnableTick, QuietTick, BalancingStopTick, StopTick, Leads, Modes
<1>2. cllc' \subseteq Halves BY <1>1, CaseFacts DEF Halves
<1>3. balancing' \in Balancers BY <1>1, CaseFacts
<1>4. CASE Reader(switch_matrix_reset(matrix), enableReadCellVoltages, readCellVoltagesBalancingDone)
  <2>1. ReaderEffect(switch_matrix_reset(matrix), enableReadCellVoltages, readCellVoltagesBalancingDone)
    BY <1>4, CaseFacts, ResettingIsOK, ReaderStep
  <2>2. TypeOK' /\ MatrixOK(matrix)' /\ ReaderInv' BY <1>1, <1>2, <1>3, <2>1, TypeStep
  <2>3. CountInv' /\ LoadInv' /\ SessionInv' BY <1>1, <2>1, RestStep
  <2> QED BY <2>2, <2>3 DEF IInv
<1>5. CASE Reader(matrix, enableReadCellVoltages, readCellVoltagesBalancingDone)
  <2>1. ReaderEffect(matrix, enableReadCellVoltages, readCellVoltagesBalancingDone)
    BY <1>5, CaseFacts, ReaderStep
  <2>2. TypeOK' /\ MatrixOK(matrix)' /\ ReaderInv' BY <1>1, <1>2, <1>3, <2>1, TypeStep
  <2>3. CountInv' /\ LoadInv' /\ SessionInv' BY <1>1, <2>1, RestStep
  <2> QED BY <2>2, <2>3 DEF IInv
<1>6. CASE Reader(matrix, TRUE, readCellVoltagesBalancingDone)
  <2>1. ReaderEffect(matrix, TRUE, readCellVoltagesBalancingDone)
    BY <1>6, CaseFacts, ReaderStep
  <2>2. TypeOK' /\ MatrixOK(matrix)' /\ ReaderInv' BY <1>1, <1>2, <1>3, <2>1, TypeStep
  <2>3. CountInv' /\ LoadInv' /\ SessionInv' BY <1>1, <2>1, RestStep
  <2> QED BY <2>2, <2>3 DEF IInv
<1> QED BY <1>4, <1>5, <1>6 DEF EnableTick, QuietTick, BalancingStopTick, StopTick

LEMMA TripKept ==
  ASSUME IInv, Trip PROVE IInv'
<1>1. TypeOK' BY DEF IInv, TypeOK, Trip
<1>2. MatrixOK(matrix)' /\ ReaderInv' /\ CountInv'
  <2>1. MatrixOK(matrix)' BY DEF IInv, Trip, MatrixOK, Connects, Terminals
  <2>2. ReaderInv' BY DEF IInv, Trip, ReaderInv
  <2>3. CountInv' BY DEF IInv, Trip, CountInv
  <2> QED BY <2>1, <2>2, <2>3
<1>3. LoadInv' BY DEF IInv, Trip, LoadInv
<1>4. SessionInv' BY DEF IInv, Trip, SessionInv, Connects, Terminals
<1> QED BY <1>1, <1>2, <1>3, <1>4 DEF IInv

THEOREM Initially == Init => IInv
<1> SUFFICES ASSUME Init PROVE IInv OBVIOUS
<1>1. TypeOK
  <2>1. HALF \in Cells /\ 1 \in Cells BY FirstCell
  <2>2. 0 \in Indices BY HalfAssumption DEF Indices, NUMBER_OF_CELLS
  <2>3. 0 \in 0 .. NUMBER_OF_CELLS /\ 0 \in 0 .. ITERATIONS /\ 0 \in 0 .. SETTLE /\ 0 \in 0 .. MaxAborts
    BY HalfAssumption, ReadingAssumption, AbortAssumption DEF NUMBER_OF_CELLS
  <2>4. reader \in Readers BY <2>1, <2>2, <2>3 DEF Init, Readers, ReaderStates
  <2>5. balancing \in Balancers BY <2>1, <2>3 DEF Init, Balancers, BalanceStates
  <2>6. matrix \in Matrices BY HalfAssumption DEF Init, Matrices
  <2>7. history \in Histories BY <2>3 DEF Init, Histories
  <2> QED BY <2>4, <2>5, <2>6, <2>7 DEF Init, TypeOK, Modes
<1>2. MatrixOK(matrix) BY <1>1 DEF Init, MatrixOK, TypeOK
<1>3. ReaderInv BY HalfAssumption DEF Init, ReaderInv
<1>4. CountInv /\ LoadInv /\ SessionInv BY DEF Init, CountInv, LoadInv, SessionInv
<1> QED BY <1>1, <1>2, <1>3, <1>4 DEF IInv

THEOREM Invariance == Spec => []IInv
<1>1. IInv /\ [Next]_vars => IInv'
  <2> SUFFICES ASSUME IInv, [Next]_vars PROVE IInv' OBVIOUS
  <2>1. CASE Tick
    <3>1. HistoryEffect BY <2>1, HistoryStep DEF Tick, IInv
    <3> QED BY <2>1, <3>1, BalancingKept, OtherKept DEF Tick
  <2>2. CASE Trip BY <2>2, TripKept
  <2>3. CASE UNCHANGED vars
    <3>1. TypeOK' BY <2>3 DEF vars, IInv, TypeOK
    <3>2. MatrixOK(matrix)' BY <2>3 DEF vars, IInv, MatrixOK, Connects, Terminals
    <3>3. ReaderInv' /\ CountInv' BY <2>3 DEF vars, IInv, ReaderInv, CountInv
    <3>4. LoadInv' BY <2>3 DEF vars, IInv, LoadInv
    <3>5. SessionInv' BY <2>3 DEF vars, IInv, SessionInv, Connects, Terminals
    <3> QED BY <3>1, <3>2, <3>3, <3>4, <3>5 DEF IInv
  <2> QED BY <2>1, <2>2, <2>3 DEF Next
<1> QED BY Initially, <1>1, PTL DEF Spec

(* Every variable keeps its type: the counters and the indices of both         *)
(* machines stay within their vectors.                                         *)
THEOREM TypeCorrect == Spec => []TypeOK
<1>1. IInv => TypeOK BY DEF IInv
<1> QED BY <1>1, Invariance, PTL

(* Break before make, for a bank of any size and after any abort: at most one   *)
(* cell is connected, and at most one converter runs.                          *)
THEOREM OneCell == Spec => []OneCellConnected
<1>1. IInv => OneCellConnected
  <2> SUFFICES ASSUME IInv PROVE OneCellConnected OBVIOUS
  <2>1. ASSUME NEW h \in matrix.out PROVE \E c \in Cells : HalfOf(c) = h /\ Connects(matrix, c)
    BY DEF IInv, MatrixOK, Connects
  <2>2. Cardinality(cllc) <= 1
    <3>1. CASE cllc = {} BY <3>1, FS_EmptySet
    <3>2. CASE cllc # {}
      <4>1. cllc = {"low"} \/ cllc = {"high"} BY <3>2 DEF IInv, LoadInv
      <4>2. Cardinality({"low"}) = 1 /\ Cardinality({"high"}) = 1 BY FS_Singleton
      <4> QED BY <4>1, <4>2
    <3> QED BY <3>1, <3>2
  <2> QED BY <2>1, <2>2 DEF OneCellConnected, IInv, MatrixOK
<1> QED BY <1>1, Invariance, PTL

(* A polarity that is switched on is that of the connected cell.               *)
THEOREM PolarityKept == Spec => []PolarityOfItsCell
<1>1. IInv => PolarityOfItsCell BY DEF IInv, MatrixOK, PolarityOfItsCell
<1> QED BY <1>1, Invariance, PTL

(* A session that began anew discharges the cell it chose through its half's    *)
(* converter, while the reader rests.                                          *)
THEOREM DischargesKept == Spec => []DischargesItsCell
<1>1. IInv => DischargesItsCell
  BY CaseFacts DEF IInv, LoadInv, SessionInv, DischargesItsCell
<1> QED BY <1>1, Invariance, PTL

(* Balancing ends when every cell was verified, and compares no voltage that    *)
(* was measured under load.                                                    *)
THEOREM VerifiedKept == Spec => []DoneMeansVerified
<1>1. IInv => DoneMeansVerified
  BY DEF IInv, CountInv, SessionInv, DoneMeansVerified
<1> QED BY <1>1, Invariance, PTL
=============================================================================
