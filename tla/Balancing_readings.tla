------------------------- MODULE Balancing_readings -------------------------
(***************************************************************************)
(* Proofs about the readings of Balancing: what the means of the voltages are   *)
(* made of, and that a session that waits for them comes nearer to them with    *)
(* every tick, for a bank of any (odd) size and any number of readings.         *)
(***************************************************************************)
EXTENDS Balancing_proofs

\* The place in the voltage vectors of the j-th cell that is read.
IndexRead(j) == ConvCellNrToIdx(cellNrReadOrder(j))

\* How many cells of the current pass have their sample in the sums.
CellsRead == reader.counter + IF reader.state = "NEXT_CELL" THEN 1 ELSE 0

Passing == {"CONNECT", "CONNECT_DELAY", "VALUE", "NEXT_CELL", "NEXT_ITERATION"}

\* The balancing machine rests outside of its sessions, and begins them anew.
RestInv ==
  /\ history.fresh /\ mode # "BalancingStop"
  /\ mode # "Balancing" => balancing.state = "INIT"

\* From its connection to its sample, a cell is the one that is connected.
ConnectedInv ==
  reader.state \in {"CONNECT_DELAY", "VALUE"} =>
    /\ reader.cellNr = cellNrReadOrder(reader.counter)
    /\ Connects(matrix, reader.cellNr)

\* What is zeroed so far; what a pass has read; what the last pass leaves.
SamplesInv ==
  /\ reader.state = "INIT" =>
       \A i \in Indices :
         i < reader.idx \/ (HALF <= i /\ i < HALF + reader.idx) => reader.samples[i] = 0
  /\ reader.state \in Passing =>
       \A j \in Indices :
         reader.samples[IndexRead(j)] = reader.iteration + IF j < CellsRead THEN 1 ELSE 0
  /\ reader.state = "NEXT_ITERATION" => reader.counter = NUMBER_OF_CELLS
  /\ reader.state = "DONE" => \A i \in Indices : reader.samples[i] = ITERATIONS

MeanInv == history.aborts = 0 => RestInv /\ ConnectedInv /\ SamplesInv

-----------------------------------------------------------------------------
(* The order of reading.                                                    *)

\* The place of a cell of a half in the order, and back.
InvReadOrderInHalf(r) ==
  IF r = HALF THEN 0
  ELSE IF r <= HALF \div 2 THEN 2 * r - 1 ELSE 2 * (r - (HALF \div 2))

LEMMA HalfOrderOnto ==
  ASSUME NEW r \in 1 .. HALF
  PROVE  /\ InvReadOrderInHalf(r) \in 0 .. HALF - 1
         /\ ReadOrderInHalf(InvReadOrderInHalf(r)) = r
  BY HalfAssumption DEF InvReadOrderInHalf, ReadOrderInHalf

LEMMA HalfOrderBack ==
  ASSUME NEW j \in 0 .. HALF - 1
  PROVE  /\ ReadOrderInHalf(j) \in 1 .. HALF
         /\ InvReadOrderInHalf(ReadOrderInHalf(j)) = j
  BY HalfAssumption DEF InvReadOrderInHalf, ReadOrderInHalf

\* The index in terms of the order in a half.
LEMMA IndexOfRead ==
  ASSUME NEW j \in Indices
  PROVE  IndexRead(j) = IF j < HALF THEN ReadOrderInHalf(j) - 1
                                    ELSE HALF + ReadOrderInHalf(j - HALF) - 1
<1>1. CASE j < HALF
  <2>1. ReadOrderInHalf(j) \in 1 .. HALF
    BY <1>1, HalfOrderBack, HalfAssumption DEF Indices, NUMBER_OF_CELLS
  <2>2. cellNrReadOrder(j) = ReadOrderInHalf(j) BY <1>1 DEF cellNrReadOrder
  <2> QED BY <1>1, <2>1, <2>2, HalfAssumption DEF IndexRead, ConvCellNrToIdx
<1>2. CASE ~(j < HALF)
  <2>1. ReadOrderInHalf(j - HALF) \in 1 .. HALF
    BY <1>2, HalfOrderBack, HalfAssumption DEF Indices, NUMBER_OF_CELLS
  <2>2. cellNrReadOrder(j) = Gap + ReadOrderInHalf(j - HALF) BY <1>2 DEF cellNrReadOrder
  <2> QED BY <1>2, <2>1, <2>2, HalfAssumption DEF IndexRead, ConvCellNrToIdx, Gap
<1> QED BY <1>1, <1>2

\* A pass reads every cell.
LEMMA EveryCellIsRead ==
  ASSUME NEW i \in Indices PROVE \E j \in Indices : IndexRead(j) = i
<1>0. HALF \in Nat /\ Indices = 0 .. 2 * HALF - 1
  BY HalfAssumption DEF Indices, NUMBER_OF_CELLS
<1>1. CASE i < HALF
  <2>1. i + 1 \in 1 .. HALF BY <1>0, <1>1
  <2> DEFINE j == InvReadOrderInHalf(i + 1)
  <2>2. j \in 0 .. HALF - 1 /\ ReadOrderInHalf(j) = i + 1 BY <2>1, HalfOrderOnto
  <2> HIDE DEF j
  <2>3. j \in Indices /\ j < HALF BY <1>0, <2>2
  <2>4. IndexRead(j) = i BY <1>0, <2>2, <2>3, IndexOfRead
  <2> QED BY <2>3, <2>4
<1>2. CASE ~(i < HALF)
  <2>1. i - HALF + 1 \in 1 .. HALF BY <1>0, <1>2
  <2> DEFINE j == InvReadOrderInHalf(i - HALF + 1)
  <2>2. j \in 0 .. HALF - 1 /\ ReadOrderInHalf(j) = i - HALF + 1 BY <2>1, HalfOrderOnto
  <2> HIDE DEF j
  <2>3. j + HALF \in Indices /\ ~(j + HALF < HALF) /\ (j + HALF) - HALF = j BY <1>0, <2>2
  <2>4. IndexRead(j + HALF) = i BY <1>0, <2>2, <2>3, IndexOfRead
  <2> QED BY <2>3, <2>4
<1> QED BY <1>1, <1>2

\* A pass reads no cell twice.
LEMMA NoCellIsReadTwice ==
  ASSUME NEW j \in Indices, NEW k \in Indices, IndexRead(j) = IndexRead(k) PROVE j = k
<1>0. HALF \in Nat /\ Indices = 0 .. 2 * HALF - 1
  BY HalfAssumption DEF Indices, NUMBER_OF_CELLS
<1> DEFINE rest(l) == IF l < HALF THEN l ELSE l - HALF
<1>1. ASSUME NEW l \in Indices
      PROVE  /\ rest(l) \in 0 .. HALF - 1
             /\ ReadOrderInHalf(rest(l)) \in 1 .. HALF
             /\ InvReadOrderInHalf(ReadOrderInHalf(rest(l))) = rest(l)
             /\ IndexRead(l) = (IF l < HALF THEN 0 ELSE HALF) + ReadOrderInHalf(rest(l)) - 1
  <2>1. rest(l) \in 0 .. HALF - 1 BY <1>0
  <2>2. /\ ReadOrderInHalf(rest(l)) \in 1 .. HALF
        /\ InvReadOrderInHalf(ReadOrderInHalf(rest(l))) = rest(l)
    BY <2>1, HalfOrderBack
  <2> QED BY <1>0, <2>1, <2>2, IndexOfRead
<1>2. ASSUME NEW l \in Indices
      PROVE  /\ l < HALF => IndexRead(l) \in 0 .. HALF - 1
                            /\ ReadOrderInHalf(rest(l)) = IndexRead(l) + 1
             /\ ~(l < HALF) => IndexRead(l) \in HALF .. 2 * HALF - 1
                               /\ ReadOrderInHalf(rest(l)) = IndexRead(l) - HALF + 1
  <2> DEFINE r == ReadOrderInHalf(rest(l))
  <2>1. r \in 1 .. HALF /\ IndexRead(l) = (IF l < HALF THEN 0 ELSE HALF) + r - 1 BY <1>1
  <2> HIDE DEF r
  <2>2. CASE l < HALF
    <3>1. IndexRead(l) = 0 + r - 1 BY <2>1, <2>2
    <3> QED BY <1>0, <2>1, <2>2, <3>1 DEF r
  <2>3. CASE ~(l < HALF)
    <3>1. IndexRead(l) = HALF + r - 1 BY <2>1, <2>3
    <3> QED BY <1>0, <2>1, <2>3, <3>1 DEF r
  <2> QED BY <2>2, <2>3
<1>3. /\ (j < HALF) <=> (k < HALF)
      /\ ReadOrderInHalf(rest(j)) = ReadOrderInHalf(rest(k))
  <2> HIDE DEF rest
  <2>1. (j < HALF) <=> (k < HALF) BY <1>0, <1>2
  <2> QED BY <1>2, <2>1
<1>4. rest(j) = rest(k) BY <1>1, <1>3
<1> QED BY <1>0, <1>3, <1>4

-----------------------------------------------------------------------------
(* The readings.                                                            *)

\* A tick of the reader, of which the balancing machine has not moved the matrix
\* unless the reader is at its beginning.
LEMMA ReaderReads ==
  ASSUME IInv, ConnectedInv, SamplesInv, NEW STATE m, NEW ACTION on, NEW STATE done,
         MatrixOK(m), Reader(m, on, done), m = matrix \/ reader.state = "INIT"
  PROVE  ConnectedInv' /\ SamplesInv'
<1>0. /\ HALF \in Nat /\ HALF >= 1 /\ NUMBER_OF_CELLS = 2 * HALF /\ Indices = 0 .. 2 * HALF - 1
      /\ ITERATIONS \in Nat /\ ITERATIONS >= 1
  BY HalfAssumption, ReadingAssumption DEF NUMBER_OF_CELLS, Indices
<1>1. reader \in Readers /\ ReaderInv BY DEF IInv, TypeOK
<1>2. ASSUME NEW j \in Indices PROVE IndexRead(j) \in Indices
  BY <1>0, OrderIsOfCells, IndexOfCell DEF IndexRead
<1>3. CASE reader' = reader /\ matrix' = m
  <2>1. ConnectedInv'
    <3> SUFFICES ASSUME reader.state \in {"CONNECT_DELAY", "VALUE"} PROVE ConnectedInv'
      BY <1>3 DEF ConnectedInv
    <3>1. reader.cellNr = cellNrReadOrder(reader.counter) /\ Connects(m, reader.cellNr)
      BY DEF ConnectedInv
    <3>2. Connects(matrix', reader.cellNr) BY <1>3, <3>1
    <3> QED BY <1>3, <3>1, <3>2 DEF ConnectedInv, Connects, Terminals
  <2>2. SamplesInv' BY <1>3 DEF SamplesInv, CellsRead
  <2> QED BY <2>1, <2>2
<1>4. CASE ReadInit(m, done)
  <2>1. CASE reader.idx < HALF
    <3>1. /\ reader'.state = "INIT" /\ reader'.idx = reader.idx + 1
          /\ reader'.samples = [reader.samples EXCEPT ![reader.idx] = 0, ![reader.idx + HALF] = 0]
      BY <1>1, <1>4, <2>1 DEF ReadInit, Readers
    <3>2. reader.idx \in Nat BY <1>0, <1>1 DEF Readers
    <3>3. ASSUME NEW i \in Indices,
                 i < reader.idx + 1 \/ (HALF <= i /\ i < HALF + (reader.idx + 1))
          PROVE  reader'.samples[i] = 0
      <4>1. reader.samples \in [Indices -> Nat] BY <1>1 DEF Readers
      <4>2. i = reader.idx \/ i = reader.idx + HALF \/ i < reader.idx
            \/ (HALF <= i /\ i < HALF + reader.idx)
        BY <1>0, <3>2, <3>3
      <4>3. i < reader.idx \/ (HALF <= i /\ i < HALF + reader.idx) => reader.samples[i] = 0
        BY <1>4 DEF SamplesInv, ReadInit
      <4> QED BY <3>1, <4>1, <4>2, <4>3
    <3> QED BY <3>1, <3>3 DEF ConnectedInv, SamplesInv, Passing
  <2>2. CASE ~(reader.idx < HALF)
    <3>1. /\ reader'.state = "CONNECT" /\ reader'.counter = 0 /\ reader'.iteration = 0
          /\ reader'.samples = reader.samples
      BY <1>1, <1>4, <2>2 DEF ReadInit, Readers
    <3>2. reader.state = "INIT" /\ reader.idx = HALF
      BY <1>0, <1>1, <1>4, <2>2 DEF ReadInit, ReaderInv, Readers
    <3>3. ASSUME NEW i \in Indices PROVE reader.samples[i] = 0
      <4>1. i < HALF \/ (HALF <= i /\ i < HALF + HALF) BY <1>0
      <4> QED BY <3>2, <4>1 DEF SamplesInv
    <3>4. ASSUME NEW j \in Indices
          PROVE  reader'.samples[IndexRead(j)] = reader'.iteration + IF j < CellsRead' THEN 1 ELSE 0
      <4>1. CellsRead' = 0 BY <3>1 DEF CellsRead
      <4>2. ~(j < 0) BY <1>0
      <4> QED BY <1>2, <3>1, <3>3, <4>1, <4>2
    <3> QED BY <3>1, <3>4 DEF ConnectedInv, SamplesInv
  <2> QED BY <2>1, <2>2
<1>5. CASE ReadConnect(m, done)
  <2>1. /\ reader.state = "CONNECT" /\ reader'.state = "CONNECT_DELAY"
        /\ reader'.counter = reader.counter /\ reader'.iteration = reader.iteration
        /\ reader'.samples = reader.samples /\ reader'.cellNr = cellNrReadOrder(reader.counter)
    BY <1>1, <1>5 DEF ReadConnect, Readers
  <2>2. cellNrReadOrder(reader.counter) \in Cells
    BY <1>0, <1>1, <2>1, OrderIsOfCells DEF ReaderInv, Readers
  <2>3. Connects(matrix', cellNrReadOrder(reader.counter))
    BY <1>5, <2>2, ConnectingIsOK DEF ReadConnect
  <2>4. ConnectedInv' BY <2>1, <2>3 DEF ConnectedInv, Connects, Terminals
  <2>5. CellsRead' = CellsRead BY <2>1 DEF CellsRead
  <2> QED BY <2>1, <2>4, <2>5 DEF SamplesInv, Passing
<1>6. CASE ReadDelay(m, done)
  <2>1. /\ reader.state = "CONNECT_DELAY" /\ reader'.state \in {"CONNECT_DELAY", "VALUE"}
        /\ reader'.counter = reader.counter /\ reader'.iteration = reader.iteration
        /\ reader'.samples = reader.samples /\ reader'.cellNr = reader.cellNr
    BY <1>1, <1>6 DEF ReadDelay, Readers
  <2>2. matrix' = matrix BY <1>6, <2>1 DEF ReadDelay
  <2>3. ConnectedInv' BY <2>1, <2>2 DEF ConnectedInv, Connects, Terminals
  <2>4. CellsRead' = CellsRead BY <2>1 DEF CellsRead
  <2> QED BY <2>1, <2>3, <2>4 DEF SamplesInv, Passing
<1>7. CASE ReadValue(m, done)
  <2>1. reader.state = "VALUE" /\ reader.counter < NUMBER_OF_CELLS
    BY <1>1, <1>7 DEF ReadValue, ReaderInv
  <2>2. reader.cellNr = cellNrReadOrder(reader.counter) /\ Connects(matrix, reader.cellNr)
    BY <2>1 DEF ConnectedInv
  <2>3. reader.counter \in Indices BY <1>0, <1>1, <2>1 DEF Readers
  <2> DEFINE i == IndexRead(reader.counter)
  <2>4. i \in Indices BY <1>2, <2>3
  <2>5. /\ reader'.state = "NEXT_CELL"
        /\ reader'.counter = reader.counter /\ reader'.iteration = reader.iteration
        /\ reader'.samples = [reader.samples EXCEPT ![i] = reader.samples[i] + 1]
    BY <1>1, <1>7, <2>2, <2>4 DEF ReadValue, Readers, IndexRead
  <2>6. CellsRead = reader.counter /\ CellsRead' = reader.counter + 1
    BY <1>1, <2>1, <2>5 DEF CellsRead, Readers
  <2>7. ASSUME NEW j \in Indices
        PROVE  reader'.samples[IndexRead(j)] = reader.iteration + IF j < CellsRead' THEN 1 ELSE 0
    <3>1. /\ reader.samples \in [Indices -> Nat] /\ reader.iteration \in Nat /\ j \in Nat
          /\ reader.counter \in Nat
      BY <1>0, <1>1, <2>3 DEF Readers
    <3>2. reader.samples[IndexRead(j)] = reader.iteration + IF j < reader.counter THEN 1 ELSE 0
      BY <2>1, <2>6 DEF SamplesInv, Passing
    <3>3. CASE j = reader.counter
      <4>1. reader.samples[i] = reader.iteration BY <3>1, <3>2, <3>3
      <4>2. reader'.samples[i] = reader.iteration + 1 BY <2>4, <2>5, <3>1, <4>1
      <4> QED BY <2>6, <3>1, <3>3, <4>2
    <3>4. CASE j # reader.counter
      <4>1. IndexRead(j) # i BY <2>3, <3>4, NoCellIsReadTwice
      <4>2. reader'.samples[IndexRead(j)] = reader.samples[IndexRead(j)]
        BY <1>2, <2>5, <3>1, <4>1
      <4>3. j < reader.counter <=> j < reader.counter + 1 BY <3>1, <3>4
      <4> QED BY <2>6, <3>2, <4>2, <4>3
    <3> QED BY <3>3, <3>4
  <2> QED BY <2>5, <2>7 DEF ConnectedInv, SamplesInv
<1>8. CASE ReadNextCell(m, done)
  <2>1. /\ reader.state = "NEXT_CELL" /\ reader.counter < NUMBER_OF_CELLS
        /\ reader.counter \in Nat
    BY <1>0, <1>1, <1>8 DEF ReadNextCell, ReaderInv, Readers
  <2>2. /\ reader'.counter = reader.counter + 1 /\ reader'.iteration = reader.iteration
        /\ reader'.samples = reader.samples
        /\ reader'.state = IF reader.counter + 1 < NUMBER_OF_CELLS THEN "CONNECT" ELSE "NEXT_ITERATION"
    BY <1>1, <1>8 DEF ReadNextCell, Readers
  <2>3. reader'.state \in {"CONNECT", "NEXT_ITERATION"} BY <2>2
  <2>4. CellsRead' = CellsRead BY <2>1, <2>2, <2>3 DEF CellsRead
  <2>5. reader'.state = "NEXT_ITERATION" => reader'.counter = NUMBER_OF_CELLS
    BY <1>0, <2>1, <2>2
  <2> QED BY <2>1, <2>2, <2>3, <2>4, <2>5 DEF ConnectedInv, SamplesInv, Passing
<1>9. CASE ReadNextIteration(m, done)
  <2>1. /\ reader.state = "NEXT_ITERATION" /\ reader.counter = NUMBER_OF_CELLS
        /\ reader.iteration \in Nat
    BY <1>0, <1>1, <1>9 DEF ReadNextIteration, SamplesInv, Readers
  <2>2. /\ reader'.counter = 0 /\ reader'.iteration = reader.iteration + 1
        /\ reader'.samples = reader.samples
        /\ reader'.state = IF reader.iteration + 1 = ITERATIONS THEN "DONE" ELSE "CONNECT"
    BY <1>1, <1>9 DEF ReadNextIteration, Readers
  <2>3. ASSUME NEW j \in Indices PROVE reader'.samples[IndexRead(j)] = reader'.iteration
    <3>1. CellsRead = NUMBER_OF_CELLS BY <1>0, <2>1 DEF CellsRead
    <3>2. j < NUMBER_OF_CELLS BY <1>0
    <3> QED BY <2>1, <2>2, <3>1, <3>2 DEF SamplesInv, Passing
  <2>4. CASE reader.iteration + 1 = ITERATIONS
    <3>1. ASSUME NEW i \in Indices PROVE reader'.samples[i] = ITERATIONS
      BY <2>2, <2>3, <2>4, EveryCellIsRead
    <3> QED BY <2>2, <2>4, <3>1 DEF ConnectedInv, SamplesInv, Passing
  <2>5. CASE reader.iteration + 1 # ITERATIONS
    <3>1. reader'.state = "CONNECT" /\ CellsRead' = 0 BY <2>2, <2>5 DEF CellsRead
    <3>2. ASSUME NEW j \in Indices
          PROVE  reader'.samples[IndexRead(j)] = reader'.iteration + IF j < CellsRead' THEN 1 ELSE 0
      BY <1>0, <2>1, <2>2, <2>3, <3>1
    <3> QED BY <3>1, <3>2 DEF ConnectedInv, SamplesInv
  <2> QED BY <2>4, <2>5
<1>10. CASE ReadDone(m, done)
  <2>1. reader.state = "DONE" /\ reader'.samples = reader.samples
    BY <1>1, <1>10 DEF ReadDone, Readers
  <2>2. CASE reader'.state = "DONE" BY <2>1, <2>2 DEF ConnectedInv, SamplesInv, Passing
  <2>3. CASE reader'.state = "INIT" /\ reader'.idx = 0
    <3>1. ASSUME NEW i \in Indices PROVE ~(i < 0 \/ (HALF <= i /\ i < HALF + 0)) BY <1>0
    <3> QED BY <2>3, <3>1 DEF ConnectedInv, SamplesInv, Passing
  <2> QED BY <1>1, <1>10, <2>1, <2>2, <2>3 DEF ReadDone, Readers
<1> QED BY <1>3, <1>4, <1>5, <1>6, <1>7, <1>8, <1>9, <1>10 DEF Reader
\* A tick hands the reader the matrix as it was, or its beginning.
LEMMA TickReads ==
  ASSUME IInv, history.aborts = 0, MeanInv,
         EnableTick \/ QuietTick \/ BalancingTick \/ BalancingStopTick \/ StopTick
  PROVE  ConnectedInv' /\ SamplesInv'
<1>1. RestInv /\ ConnectedInv /\ SamplesInv BY DEF MeanInv
<1>2. CASE \E on \in BOOLEAN, done \in BOOLEAN : Reader(matrix, on, done)
  BY <1>1, <1>2, ReaderReads, CaseFacts
<1>3. CASE EnableTick \/ QuietTick \/ StopTick
  BY <1>2, <1>3, CaseFacts DEF EnableTick, QuietTick, StopTick
<1>4. CASE BalancingStopTick BY <1>1, <1>4 DEF BalancingStopTick, RestInv
<1>5. CASE BalancingTick
  <2>0. mode = "Balancing" /\ history.fresh BY <1>1, <1>5 DEF BalancingTick, RestInv
  <2>1. CASE BalanceInit BY <1>2, <2>1 DEF BalanceInit
  <2>2. CASE BalanceCompare BY <1>2, <2>2, CaseFacts DEF BalanceCompare
  <2>3. CASE BalanceDone BY <1>2, <2>3, CaseFacts DEF BalanceDone
  <2>4. CASE \/ BalanceRead("READ_CELL_VOLTAGES", "VERIFY_HIGH")
             \/ BalanceRead("DISCHARGE_READ_CELL_VOLTAGES", "VERIFY_LOW")
    <3>1. enableReadCellVoltages' \in BOOLEAN BY <2>4, CaseFacts, Zenon DEF BalanceRead
    <3> QED BY <1>2, <2>4, <3>1, CaseFacts DEF BalanceRead
  <2>5. CASE BalanceConnect
    <3> DEFINE c == balancing.cellNr
               n == switch_matrix_connect_cell(switch_matrix_reset(matrix), c)
               m == switch_matrix_set_cell_polarity(n, c)
    <3>1. c \in Cells BY CaseFacts DEF Balancers
    <3>2. MatrixOK(n) /\ Connects(n, c) BY <3>1, CaseFacts, ConnectingIsOK
    <3> HIDE DEF n
    <3>3. MatrixOK(m) BY <3>1, <3>2, PolarityIsOK
    <3> HIDE DEF m
    <3>4. Reader(m, enableReadCellVoltages, readCellVoltagesBalancingDone)
      BY <2>5 DEF BalanceConnect, m, n
    <3>5. reader.state = "INIT" BY <2>0, <2>5 DEF BalanceConnect, IInv, SessionInv
    <3> QED BY <1>1, <3>3, <3>4, <3>5, ReaderReads
  <2>6. CASE \E elapsed \in BOOLEAN : Discharge(elapsed)
    <3> DEFINE n == switch_matrix_connect_cell(switch_matrix_reset(matrix), balancing.cellNr)
    <3>1. balancing.cellNr \in Cells BY CaseFacts DEF Balancers
    <3>2. MatrixOK(n) BY <3>1, CaseFacts, ConnectingIsOK
    <3>3. reader.state = "INIT" BY <2>0, <2>6 DEF Discharge, IInv, SessionInv
    <3>4. \/ Reader(n, TRUE, FALSE)
          \/ Reader(matrix, enableReadCellVoltages, readCellVoltagesBalancingDone)
      BY <2>6 DEF Discharge
    <3> HIDE DEF n
    <3>5. CASE Reader(n, TRUE, FALSE) BY <1>1, <3>2, <3>3, <3>5, ReaderReads
    <3> QED BY <1>2, <3>4, <3>5, CaseFacts
  <2> QED BY <1>5, <2>1, <2>2, <2>3, <2>4, <2>5, <2>6 DEF BalancingTick, BalancingAllCells
<1> QED BY <1>3, <1>4, <1>5

\* A session that is not cut short is left by its last case only.
LEMMA TickRests ==
  ASSUME IInv, MeanInv, Tick, history'.aborts = 0
  PROVE  history.aborts = 0 /\ RestInv'
<1>1. history.aborts = 0 /\ ~Aborts
  <2>1. history'.aborts = history.aborts + IF Aborts THEN 1 ELSE 0 BY DEF Tick, Look
  <2>2. history.aborts \in Nat BY AbortAssumption DEF IInv, TypeOK, Histories
  <2> HIDE DEF Aborts
  <2>3. CASE Aborts BY <2>1, <2>2, <2>3
  <2>4. CASE ~Aborts BY <2>1, <2>2, <2>4
  <2> QED BY <2>3, <2>4
<1>2. RestInv BY <1>1 DEF MeanInv
<1>3. balancing \in Balancers BY CaseFacts
<1>4. /\ mode' # "BalancingStop"
      /\ mode' # "Balancing" => balancing'.state = "INIT"
      /\ mode # "Balancing" => balancing.state = "INIT"
  <2>1. CASE mode # "Balancing"
    <3>1. balancing' = balancing /\ balancing.state = "INIT"
      BY <1>2, <2>1 DEF RestInv, Tick, EnableTick, QuietTick, BalancingTick, BalancingStopTick, StopTick
    <3>2. mode' # "BalancingStop"
      BY <1>1, <1>2, <2>1
      DEF RestInv, Tick, EnableTick, QuietTick, BalancingTick, BalancingStopTick, StopTick, Leads, Aborts
    <3> QED BY <3>1, <3>2
  <2>2. CASE mode = "Balancing"
    <3>1. BalancingTick
      BY <2>2 DEF Tick, EnableTick, QuietTick, BalancingStopTick, StopTick
    <3>2. mode' = "Balancing" \/ (mode' = "ChargeInit" /\ balancing.state = "DONE")
      BY <1>1, <2>2, <3>1 DEF BalancingTick, Leads, Aborts
    <3>3. balancing.state = "DONE" => BalanceDone
      BY <3>1 DEF BalancingTick, BalancingAllCells, BalanceInit, BalanceRead, BalanceCompare,
                  VerifyHigh, VerifyLow, NextIteration, BalanceConnect, Discharge
    <3>4. balancing.state = "DONE" => balancing'.state = "INIT"
      BY <1>3, <3>3 DEF BalanceDone, Balancers
    <3> QED BY <2>2, <3>2, <3>4
  <2> QED BY <2>1, <2>2
<1>5. history'.fresh
  <2>1. history'.fresh = IF mode' = "Balancing" /\ mode # "Balancing" THEN balancing.state = "INIT"
                         ELSE history.fresh \/ balancing'.state = "INIT"
    BY DEF Tick, Look
  <2> QED BY <1>2, <1>4, <2>1, Zenon DEF RestInv
<1> QED BY <1>1, <1>4, <1>5 DEF RestInv

(* Where the reader is, the cell it reads is connected, and what it has summed up is of    *)
(* that cell alone, until a session was broken off in the middle of a reading              *)
(* (balancing.c:82-212).                                                                *)
THEOREM Readings == Spec => []MeanInv
<1>1. Init => MeanInv
  <2> SUFFICES ASSUME Init PROVE RestInv /\ ConnectedInv /\ SamplesInv BY DEF MeanInv
  <2>1. RestInv BY DEF Init, RestInv
  <2>2. ConnectedInv BY DEF Init, ConnectedInv
  <2>3. SamplesInv BY DEF Init, SamplesInv, Passing
  <2> QED BY <2>1, <2>2, <2>3
<1>2. IInv /\ MeanInv /\ [Next]_vars => MeanInv'
  <2> SUFFICES ASSUME IInv, MeanInv, [Next]_vars, history'.aborts = 0
               PROVE  RestInv' /\ ConnectedInv' /\ SamplesInv'
    BY DEF MeanInv
  <2>1. CASE Tick
    <3>1. history.aborts = 0 /\ RestInv' BY <2>1, TickRests
    <3> QED BY <2>1, <3>1, TickReads DEF Tick
  <2>2. CASE Trip
    BY <2>2 DEF Trip, MeanInv, RestInv, ConnectedInv, Connects, Terminals, SamplesInv, CellsRead
  <2>3. CASE UNCHANGED vars
    BY <2>3 DEF vars, MeanInv, RestInv, ConnectedInv, Connects, Terminals, SamplesInv, CellsRead
  <2> QED BY <2>1, <2>2, <2>3 DEF Next
<1> QED BY <1>1, <1>2, Invariance, PTL DEF Spec

(* Every mean that is published is that of ITERATIONS readings of its own cell,  *)
(* unless a session was cut short, for a bank of any size: the order of reading  *)
(* leaves out no cell and takes none twice (READ_CELL_VALUE, READ_CELL_DONE).    *)
THEOREM MeansKept == Spec => []MeanUndisturbed
<1>1. MeanInv => MeanUndisturbed BY DEF MeanInv, SamplesInv, MeanUndisturbed
<1> QED BY <1>1, Readings, PTL

-----------------------------------------------------------------------------
(* How long a session waits for a reading.                                   *)

\* The ticks of one cell, of one pass, and of a reading with the clearing of the
\* sums before it, the publication after it and the tick that takes it over.
CellTicks == SETTLE + 4
PassTicks == NUMBER_OF_CELLS * CellTicks + 1
ReadingTicks == HALF + 1 + ITERATIONS * PassTicks + HALF + 2

\* The ticks still to come after the cells of this pass, and after this cell.
PassAhead == (ITERATIONS - reader.iteration - 1) * PassTicks + 1 + HALF + 2
CellsAhead == (NUMBER_OF_CELLS - reader.counter - 1) * CellTicks + PassAhead

\* The ticks of a session that waits before it takes the reading over.
TicksAhead ==
  IF readCellVoltagesBalancingDone THEN 1
  ELSE CASE reader.state = "INIT" -> HALF - reader.idx + 1 + ITERATIONS * PassTicks + HALF + 2
         [] reader.state = "CONNECT" -> CellTicks + CellsAhead
         [] reader.state = "CONNECT_DELAY" -> SETTLE - reader.delay + 3 + CellsAhead
         [] reader.state = "VALUE" -> 2 + CellsAhead
         [] reader.state = "NEXT_CELL" -> 1 + CellsAhead
         [] reader.state = "NEXT_ITERATION" -> PassAhead
         [] reader.state = "DONE" -> HALF - reader.counter + 2

(* A tick of a waiting session takes the reading over or the session is left,    *)
(* or it brings the reading nearer by one tick: the reader never stands still,   *)
(* is never switched off and never begins again (readCellVoltagesBalancingDone). *)
CountsDown == Waiting /\ Tick => ~Waiting' \/ TicksAhead' = TicksAhead - 1

(* How many ticks that can be.                                               *)
WaitIsShort == TicksAhead \in 1 .. ReadingTicks

\* Where the balancing machine waits, the reader is on, also after an abort.
WaitInv ==
  balancing.state \in {"READ_CELL_VOLTAGES", "DISCHARGE_READ_CELL_VOLTAGES"} =>
    enableReadCellVoltages

LEMMA OneLess ==
  /\ \A a, b \in Nat : a >= 1 => (a - 1) * b = a * b - b
  /\ \A a, b \in Nat : a * b \in Nat
  /\ \A a, b, c \in Nat : a <= c => a * b <= c * b
<1>1. \A a, b \in Nat : (a - 1) * b = a * b - b OBVIOUS
<1>2. \A a, b \in Nat : a * b \in Nat OBVIOUS
<1>3. ASSUME NEW a \in Nat, NEW b \in Nat, NEW c \in Nat, a <= c PROVE a * b <= c * b
  <2>1. (c - a) * b \in Nat BY <1>2, <1>3
  <2>2. (c - a) * b = c * b - a * b OBVIOUS
  <2>3. c * b \in Nat /\ a * b \in Nat BY <1>2
  <2> QED BY <2>1, <2>2, <2>3
<1> QED BY <1>1, <1>2, <1>3

LEMMA TicksOfAReading ==
  CellTicks \in Nat /\ CellTicks >= 4 /\ PassTicks \in Nat /\ ReadingTicks \in Nat
<1>0. HALF \in Nat /\ NUMBER_OF_CELLS \in Nat /\ ITERATIONS \in Nat /\ SETTLE \in Nat
  BY HalfAssumption, ReadingAssumption DEF NUMBER_OF_CELLS
<1>1. CellTicks \in Nat /\ CellTicks >= 4 BY <1>0 DEF CellTicks
<1>2. NUMBER_OF_CELLS * CellTicks \in Nat BY <1>0, <1>1, OneLess
<1>3. PassTicks \in Nat BY <1>2 DEF PassTicks
<1>4. ITERATIONS * PassTicks \in Nat BY <1>0, <1>3, OneLess
<1>5. ReadingTicks \in Nat BY <1>0, <1>4 DEF ReadingTicks
<1> QED BY <1>1, <1>3, <1>5

\* The type of the reader, as the sums need it.
LEMMA ReaderFacts ==
  ASSUME IInv
  PROVE  /\ HALF \in Nat /\ HALF >= 1 /\ NUMBER_OF_CELLS = 2 * HALF
         /\ ITERATIONS \in Nat /\ ITERATIONS >= 1 /\ SETTLE \in Nat
         /\ reader \in Readers /\ reader.state \in ReaderStates
         /\ reader.idx \in Nat /\ reader.counter \in Nat /\ reader.iteration \in Nat
         /\ reader.delay \in 0 .. SETTLE
         /\ ReaderInv
  BY HalfAssumption, ReadingAssumption DEF IInv, TypeOK, Readers, Indices, NUMBER_OF_CELLS

LEMMA WaitBounded == ASSUME IInv PROVE WaitIsShort
<1> DEFINE P == PassTicks
           C == CellTicks
           later == ITERATIONS - reader.iteration - 1
           others == NUMBER_OF_CELLS - reader.counter - 1
<1>0. C \in Nat /\ C >= 4 /\ P \in Nat /\ P = NUMBER_OF_CELLS * C + 1
  BY TicksOfAReading DEF PassTicks
<1>1. ITERATIONS * P \in Nat BY <1>0, ReaderFacts, OneLess
<1>2. CASE readCellVoltagesBalancingDone
  <2>1. TicksAhead = 1 BY <1>2 DEF TicksAhead
  <2> HIDE DEF P, C
  <2> QED BY <1>1, <2>1, ReaderFacts DEF WaitIsShort, ReadingTicks, P
<1>3. CASE ~readCellVoltagesBalancingDone /\ reader.state = "INIT"
  <2>1. TicksAhead = HALF - reader.idx + 1 + ITERATIONS * P + HALF + 2 BY <1>3 DEF TicksAhead
  <2>2. reader.idx <= HALF BY <1>3, ReaderFacts DEF ReaderInv
  <2> HIDE DEF P, C
  <2> QED BY <1>1, <2>1, <2>2, ReaderFacts DEF WaitIsShort, ReadingTicks, P
<1>4. CASE ~readCellVoltagesBalancingDone /\ reader.state = "DONE"
  <2>1. TicksAhead = HALF - reader.counter + 2 BY <1>4 DEF TicksAhead
  <2>2. reader.counter <= HALF BY <1>4, ReaderFacts DEF ReaderInv
  <2> HIDE DEF P, C
  <2> QED BY <1>1, <2>1, <2>2, ReaderFacts DEF WaitIsShort, ReadingTicks, P
<1>5. CASE ~readCellVoltagesBalancingDone /\ reader.state \in Passing
  <2>1. later \in Nat /\ later <= ITERATIONS - 1
    BY <1>5, ReaderFacts DEF ReaderInv, Passing
  <2>2. later * P \in Nat /\ later * P <= ITERATIONS * P - P
    <3>1. later * P <= (ITERATIONS - 1) * P BY <1>0, <2>1, ReaderFacts, OneLess
    <3>2. (ITERATIONS - 1) * P = ITERATIONS * P - P BY <1>0, ReaderFacts, OneLess
    <3>3. later * P \in Nat BY <1>0, <2>1, OneLess
    <3> QED BY <3>1, <3>2, <3>3
  <2>3. PassAhead = later * P + 1 + HALF + 2 BY DEF PassAhead
  <2> HIDE DEF P, C, later
  <2>4. PassAhead \in Nat /\ PassAhead >= 1 /\ PassAhead <= ITERATIONS * P - P + HALF + 3
    BY <1>0, <1>1, <2>2, <2>3, ReaderFacts
  <2>5. CASE reader.state = "NEXT_ITERATION"
    <3>1. TicksAhead = PassAhead BY <1>5, <2>5 DEF TicksAhead
    <3>2. P >= 1
      <4>1. NUMBER_OF_CELLS * C \in Nat BY <1>0, ReaderFacts, OneLess
      <4> QED BY <1>0, <4>1
    <3> QED BY <1>0, <1>1, <2>4, <3>1, <3>2, ReaderFacts DEF WaitIsShort, ReadingTicks, P
  <2>6. CASE reader.state # "NEXT_ITERATION"
    <3> USE DEF others
    <3>1. others \in Nat /\ others <= NUMBER_OF_CELLS - 1
      BY <1>5, <2>6, ReaderFacts DEF ReaderInv, Passing
    <3>2. others * C \in Nat /\ others * C <= P - 1 - C
      <4>1. others * C <= (NUMBER_OF_CELLS - 1) * C BY <1>0, <3>1, ReaderFacts, OneLess
      <4>2. (NUMBER_OF_CELLS - 1) * C = NUMBER_OF_CELLS * C - C BY <1>0, ReaderFacts, OneLess
      <4>3. others * C \in Nat BY <1>0, <3>1, OneLess
      <4>4. NUMBER_OF_CELLS * C \in Nat BY <1>0, ReaderFacts, OneLess
      <4> QED BY <1>0, <4>1, <4>2, <4>3, <4>4
    <3>3. CellsAhead = others * C + PassAhead BY DEF CellsAhead, C
    <3> HIDE DEF others
    <3>4. CellsAhead \in Nat /\ CellsAhead <= ITERATIONS * P + HALF + 2 - C
      BY <1>0, <1>1, <2>4, <3>2, <3>3, ReaderFacts
    <3>5. /\ reader.state = "CONNECT" => TicksAhead = C + CellsAhead
          /\ reader.state = "CONNECT_DELAY" => TicksAhead = SETTLE - reader.delay + 3 + CellsAhead
          /\ reader.state = "VALUE" => TicksAhead = 2 + CellsAhead
          /\ reader.state = "NEXT_CELL" => TicksAhead = 1 + CellsAhead
      BY <1>5 DEF TicksAhead, C
    <3>6. SETTLE - reader.delay + 3 \in Nat /\ SETTLE - reader.delay + 3 <= C
          /\ SETTLE - reader.delay + 3 >= 1
      BY ReaderFacts DEF C, CellTicks
    <3>7. TicksAhead \in Nat /\ TicksAhead >= 1 /\ TicksAhead <= C + CellsAhead
      BY <1>0, <1>5, <2>6, <3>4, <3>5, <3>6 DEF Passing
    <3> QED BY <1>0, <1>1, <3>4, <3>7, ReaderFacts DEF WaitIsShort, ReadingTicks, P
  <2> QED BY <2>5, <2>6
<1> QED BY <1>2, <1>3, <1>4, <1>5, ReaderFacts DEF ReaderStates, Passing

\* The reader, while it is on and its reading not yet published.
LEMMA ReaderCountsDown ==
  ASSUME IInv, ~readCellVoltagesBalancingDone,
         NEW ACTION on, on, NEW STATE done, done = FALSE, Reader(matrix, on, done)
  PROVE  TicksAhead' = TicksAhead - 1
<1> DEFINE P == PassTicks
           C == CellTicks
<1>0. C \in Nat /\ C >= 4 /\ P \in Nat /\ P = NUMBER_OF_CELLS * C + 1 /\ C = SETTLE + 4
  BY TicksOfAReading DEF PassTicks, CellTicks
<1>1. /\ reader \in Readers /\ HALF \in Nat /\ NUMBER_OF_CELLS \in Nat
      /\ reader.counter \in Nat /\ reader.iteration \in Nat /\ reader.idx \in Nat
      /\ ITERATIONS \in Nat /\ ITERATIONS >= 1 /\ SETTLE \in Nat /\ NUMBER_OF_CELLS >= 1
  BY ReaderFacts
<1>2. /\ ITERATIONS * P \in Nat /\ (ITERATIONS - 1) * P = ITERATIONS * P - P
      /\ NUMBER_OF_CELLS * C \in Nat /\ (NUMBER_OF_CELLS - 1) * C = NUMBER_OF_CELLS * C - C
  BY <1>0, <1>1, OneLess
<1>3. CASE ReadInit(matrix, done)
  <2>0. reader.state = "INIT" /\ ~readCellVoltagesBalancingDone' BY <1>3 DEF ReadInit
  <2>1. TicksAhead = HALF - reader.idx + 1 + ITERATIONS * P + HALF + 2 BY <2>0 DEF TicksAhead
  <2>2. CASE reader.idx < HALF
    <3>1. reader'.state = "INIT" /\ reader'.idx = reader.idx + 1
      BY <1>1, <1>3, <2>2 DEF ReadInit, Readers
    <3>2. TicksAhead' = HALF - (reader.idx + 1) + 1 + ITERATIONS * P + HALF + 2
      BY <2>0, <3>1 DEF TicksAhead
    <3> HIDE DEF P
    <3> QED BY <1>1, <1>2, <2>1, <3>2
  <2>3. CASE ~(reader.idx < HALF)
    <3>1. reader'.state = "CONNECT" /\ reader'.counter = 0 /\ reader'.iteration = 0
      BY <1>1, <1>3, <2>3 DEF ReadInit, Readers
    <3>2. reader.idx = HALF BY <1>1, <2>0, <2>3, ReaderFacts DEF ReaderInv
    <3>3. TicksAhead' = C + ((NUMBER_OF_CELLS - 0 - 1) * C + ((ITERATIONS - 0 - 1) * P + 1 + HALF + 2))
      BY <2>0, <3>1 DEF TicksAhead, CellsAhead, PassAhead
    <3>4. NUMBER_OF_CELLS - 0 - 1 = NUMBER_OF_CELLS - 1 /\ ITERATIONS - 0 - 1 = ITERATIONS - 1 BY <1>1
    <3> HIDE DEF P, C
    <3> QED BY <1>0, <1>1, <1>2, <2>1, <3>2, <3>3, <3>4
  <2> QED BY <2>2, <2>3
<1>4. ASSUME reader.state \in Passing, ~readCellVoltagesBalancingDone'
      PROVE  /\ PassAhead = (ITERATIONS - reader.iteration - 1) * P + 1 + HALF + 2
             /\ PassAhead \in Nat
             /\ reader.state # "NEXT_ITERATION" => CellsAhead \in Nat
  <2>1. ITERATIONS - reader.iteration - 1 \in Nat
        /\ (reader.state # "NEXT_ITERATION" => NUMBER_OF_CELLS - reader.counter - 1 \in Nat)
    BY <1>1, <1>4, ReaderFacts DEF ReaderInv, Passing
  <2>2. (ITERATIONS - reader.iteration - 1) * P \in Nat BY <1>0, <2>1, OneLess
  <2>3. PassAhead \in Nat BY <1>1, <2>2 DEF PassAhead
  <2>4. reader.state # "NEXT_ITERATION" => (NUMBER_OF_CELLS - reader.counter - 1) * C \in Nat
    BY <1>0, <2>1, OneLess
  <2> QED BY <2>3, <2>4 DEF PassAhead, CellsAhead
<1>5. CASE \/ ReadConnect(matrix, done) \/ ReadDelay(matrix, done) \/ ReadValue(matrix, done)
  <2>1. /\ reader.state \in Passing /\ reader.state # "NEXT_ITERATION"
        /\ reader'.state \in {"CONNECT_DELAY", "VALUE", "NEXT_CELL"}
        /\ reader'.counter = reader.counter /\ reader'.iteration = reader.iteration
        /\ ~readCellVoltagesBalancingDone'
    BY <1>1, <1>5 DEF ReadConnect, ReadDelay, ReadValue, Readers, Passing
  <2>2. CellsAhead' = CellsAhead BY <2>1 DEF CellsAhead, PassAhead
  <2>3. CellsAhead \in Nat BY <1>4, <2>1
  <2>4. CASE ReadConnect(matrix, done)
    <3>1. reader.state = "CONNECT" /\ reader'.state = "CONNECT_DELAY" /\ reader'.delay = 0
      BY <1>1, <2>4 DEF ReadConnect, Readers
    <3>2. TicksAhead = C + CellsAhead /\ TicksAhead' = SETTLE - 0 + 3 + CellsAhead'
      BY <2>1, <3>1 DEF TicksAhead
    <3> HIDE DEF C
    <3> QED BY <1>0, <1>1, <2>2, <2>3, <3>2
  <2>5. CASE ReadDelay(matrix, done)
    <3>1. reader.state = "CONNECT_DELAY" /\ reader.delay \in 0 .. SETTLE
      BY <2>5, ReaderFacts DEF ReadDelay
    <3>2. TicksAhead = SETTLE - reader.delay + 3 + CellsAhead BY <3>1 DEF TicksAhead
    <3>3. CASE reader.delay = SETTLE
      <4>1. reader'.state = "VALUE" BY <1>1, <2>5, <3>3 DEF ReadDelay, Readers
      <4>2. TicksAhead' = 2 + CellsAhead' BY <2>1, <4>1 DEF TicksAhead
      <4> QED BY <1>1, <2>2, <2>3, <3>2, <3>3, <4>2
    <3>4. CASE reader.delay # SETTLE
      <4>1. reader'.state = "CONNECT_DELAY" /\ reader'.delay = reader.delay + 1
        BY <1>1, <2>5, <3>4 DEF ReadDelay, Readers
      <4>2. TicksAhead' = SETTLE - (reader.delay + 1) + 3 + CellsAhead'
        BY <2>1, <4>1 DEF TicksAhead
      <4> QED BY <1>1, <2>2, <2>3, <3>1, <3>2, <4>2
    <3> QED BY <3>3, <3>4
  <2>6. CASE ReadValue(matrix, done)
    <3>1. reader.state = "VALUE" /\ reader'.state = "NEXT_CELL"
      BY <1>1, <2>6 DEF ReadValue, Readers
    <3>2. TicksAhead = 2 + CellsAhead /\ TicksAhead' = 1 + CellsAhead'
      BY <2>1, <3>1 DEF TicksAhead
    <3> QED BY <2>2, <2>3, <3>2
  <2> QED BY <1>5, <2>4, <2>5, <2>6
<1>6. CASE ReadNextCell(matrix, done)
  <2>1. /\ reader.state = "NEXT_CELL" /\ reader.counter < NUMBER_OF_CELLS
        /\ ~readCellVoltagesBalancingDone'
        /\ reader'.counter = reader.counter + 1 /\ reader'.iteration = reader.iteration
        /\ reader'.state = IF reader.counter + 1 < NUMBER_OF_CELLS THEN "CONNECT" ELSE "NEXT_ITERATION"
    BY <1>1, <1>6, ReaderFacts DEF ReadNextCell, ReaderInv, Readers
  <2>2. PassAhead' = PassAhead BY <2>1 DEF PassAhead
  <2>3. PassAhead \in Nat BY <1>4, <2>1 DEF Passing
  <2>4. TicksAhead = 1 + ((NUMBER_OF_CELLS - reader.counter - 1) * C + PassAhead)
    BY <2>1 DEF TicksAhead, CellsAhead
  <2>5. CASE reader.counter + 1 < NUMBER_OF_CELLS
    <3> DEFINE others == NUMBER_OF_CELLS - reader.counter - 1
    <3>1. TicksAhead' = C + ((NUMBER_OF_CELLS - (reader.counter + 1) - 1) * C + PassAhead')
      BY <2>1, <2>5 DEF TicksAhead, CellsAhead
    <3>2. NUMBER_OF_CELLS - (reader.counter + 1) - 1 = others - 1 /\ others \in Nat /\ others >= 1
      BY <1>1, <2>5
    <3>3. TicksAhead = 1 + (others * C + PassAhead) /\ TicksAhead' = C + ((others - 1) * C + PassAhead')
      BY <2>4, <3>1, <3>2
    <3> HIDE DEF C, others
    <3>4. (others - 1) * C = others * C - C /\ others * C \in Nat BY <1>0, <3>2, OneLess
    <3> QED BY <1>0, <2>2, <2>3, <3>3, <3>4
  <2>6. CASE ~(reader.counter + 1 < NUMBER_OF_CELLS)
    <3>1. NUMBER_OF_CELLS - reader.counter - 1 = 0 BY <1>1, <2>1, <2>6
    <3>2. 0 * C = 0 BY <1>0
    <3>3. TicksAhead' = PassAhead' BY <2>1, <2>6 DEF TicksAhead
    <3> HIDE DEF C
    <3> QED BY <2>2, <2>3, <2>4, <3>1, <3>2, <3>3
  <2> QED BY <2>5, <2>6
<1>7. CASE ReadNextIteration(matrix, done)
  <2>1. /\ reader.state = "NEXT_ITERATION" /\ reader.iteration < ITERATIONS
        /\ ~readCellVoltagesBalancingDone'
        /\ reader'.counter = 0 /\ reader'.iteration = reader.iteration + 1
        /\ reader'.state = IF reader.iteration + 1 = ITERATIONS THEN "DONE" ELSE "CONNECT"
    BY <1>1, <1>7, ReaderFacts DEF ReadNextIteration, ReaderInv, Readers
  <2> DEFINE later == ITERATIONS - reader.iteration - 1
  <2>2. TicksAhead = later * P + 1 + HALF + 2 BY <2>1 DEF TicksAhead, PassAhead
  <2>3. CASE reader.iteration + 1 = ITERATIONS
    <3>1. later = 0 BY <1>1, <2>3
    <3>2. 0 * P = 0 BY <1>0
    <3>3. TicksAhead' = HALF - 0 + 2 BY <2>1, <2>3 DEF TicksAhead
    <3> HIDE DEF P, later
    <3> QED BY <1>1, <2>2, <3>1, <3>2, <3>3
  <2>4. CASE reader.iteration + 1 # ITERATIONS
    <3>1. TicksAhead' = C + ((NUMBER_OF_CELLS - 0 - 1) * C
                             + ((ITERATIONS - (reader.iteration + 1) - 1) * P + 1 + HALF + 2))
      BY <2>1, <2>4 DEF TicksAhead, CellsAhead, PassAhead
    <3>2. /\ NUMBER_OF_CELLS - 0 - 1 = NUMBER_OF_CELLS - 1
          /\ ITERATIONS - (reader.iteration + 1) - 1 = later - 1 /\ later \in Nat /\ later >= 1
      BY <1>1, <2>1, <2>4
    <3>3. TicksAhead' = C + ((NUMBER_OF_CELLS - 1) * C + ((later - 1) * P + 1 + HALF + 2))
      BY <3>1, <3>2
    <3> HIDE DEF P, C, later
    <3>4. (later - 1) * P = later * P - P /\ later * P \in Nat BY <1>0, <3>2, OneLess
    <3> QED BY <1>0, <1>1, <1>2, <2>2, <3>3, <3>4
  <2> QED BY <2>3, <2>4
<1>8. CASE ReadDone(matrix, done)
  <2>1. reader.state = "DONE" /\ reader.counter <= HALF
    BY <1>8, ReaderFacts DEF ReadDone, ReaderInv
  <2>2. TicksAhead = HALF - reader.counter + 2 BY <2>1 DEF TicksAhead
  <2>3. CASE reader.counter = HALF
    <3>1. readCellVoltagesBalancingDone' BY <1>8, <2>3 DEF ReadDone
    <3>2. TicksAhead' = 1 BY <3>1 DEF TicksAhead
    <3> QED BY <1>1, <2>2, <2>3, <3>2
  <2>4. CASE reader.counter # HALF
    <3>1. reader'.state = "DONE" /\ reader'.counter = reader.counter + 1
      BY <1>1, <1>8, <2>1, <2>4 DEF ReadDone, Readers
    <3>2. ~readCellVoltagesBalancingDone' BY <1>8, <2>4, Zenon DEF ReadDone
    <3>3. TicksAhead' = HALF - (reader.counter + 1) + 2 BY <3>1, <3>2 DEF TicksAhead
    <3> QED BY <1>1, <2>2, <3>3
  <2> QED BY <2>3, <2>4
<1> QED BY <1>3, <1>5, <1>6, <1>7, <1>8 DEF Reader

(* While a session waits for a reading, the reader is enabled.                         *)
THEOREM WaitsWithReader == Spec => []WaitInv
<1>1. Init => WaitInv BY DEF Init, WaitInv
<1>2. IInv /\ WaitInv /\ [Next]_vars => WaitInv'
  <2> SUFFICES ASSUME IInv, WaitInv, [Next]_vars PROVE WaitInv' OBVIOUS
  <2>0. balancing \in Balancers BY CaseFacts
  <2>1. CASE EnableTick \/ QuietTick \/ BalancingStopTick \/ StopTick
    BY <2>1 DEF EnableTick, QuietTick, BalancingStopTick, StopTick, WaitInv
  <2>2. CASE BalancingTick
    <3>1. CASE BalanceInit BY <3>1 DEF BalanceInit, WaitInv
    <3>2. CASE \/ BalanceRead("READ_CELL_VOLTAGES", "VERIFY_HIGH")
               \/ BalanceRead("DISCHARGE_READ_CELL_VOLTAGES", "VERIFY_LOW")
      <4>1. CASE readCellVoltagesBalancingDone
        BY <2>0, <3>2, <4>1 DEF BalanceRead, WaitInv, Balancers
      <4>2. CASE ~readCellVoltagesBalancingDone
        BY <2>0, <3>2, <4>2, Zenon DEF BalanceRead, WaitInv
      <4> QED BY <4>1, <4>2
    <3>3. CASE BalanceCompare
      BY <2>0, <3>3 DEF BalanceCompare, VerifyHigh, VerifyLow, NextIteration, WaitInv, Balancers
    <3>4. CASE BalanceConnect BY <2>0, <3>4 DEF BalanceConnect, WaitInv, Balancers
    <3>5. CASE \E elapsed \in BOOLEAN : Discharge(elapsed) BY <3>5 DEF Discharge, WaitInv
    <3>6. CASE BalanceDone BY <2>0, <3>6 DEF BalanceDone, WaitInv, Balancers
    <3> QED BY <2>2, <3>1, <3>2, <3>3, <3>4, <3>5, <3>6 DEF BalancingTick, BalancingAllCells
  <2>3. CASE Trip BY <2>3 DEF Trip, WaitInv
  <2>4. CASE UNCHANGED vars BY <2>4 DEF vars, WaitInv
  <2> QED BY <2>1, <2>2, <2>3, <2>4 DEF Next, Tick
<1> QED BY <1>1, <1>2, Invariance, PTL DEF Spec

(* A session waits for a reading no longer than ReadingTicks ticks, for a bank of *)
(* any size: every tick of the wait takes one off the ticks that are left, and    *)
(* nothing else adds to them.  With a clock that ticks, that is ReadingArrives.   *)
THEOREM ReadingNears ==
  Spec => []WaitIsShort /\ [][CountsDown]_vars /\ [][~Tick => TicksAhead' = TicksAhead]_vars
<1>1. IInv => WaitIsShort BY WaitBounded
<1>2. IInv /\ WaitInv /\ [Next]_vars => [CountsDown]_vars
  <2> SUFFICES ASSUME IInv, WaitInv, Waiting, Tick, Waiting' PROVE TicksAhead' = TicksAhead - 1
    BY DEF CountsDown
  <2>0. balancing \in Balancers BY CaseFacts
  <2>1. BalancingTick
    BY DEF Tick, Waiting, EnableTick, QuietTick, BalancingStopTick, StopTick
  <2>2. \/ BalanceRead("READ_CELL_VOLTAGES", "VERIFY_HIGH")
        \/ BalanceRead("DISCHARGE_READ_CELL_VOLTAGES", "VERIFY_LOW")
    BY <2>1 DEF BalancingTick, BalancingAllCells, Waiting, BalanceInit, BalanceCompare, VerifyHigh,
                VerifyLow, NextIteration, BalanceConnect, Discharge, BalanceDone
  <2>3. ~readCellVoltagesBalancingDone BY <2>0, <2>2 DEF BalanceRead, Waiting, Balancers
  <2>4. enableReadCellVoltages' BY <2>2, <2>3, Zenon DEF BalanceRead, WaitInv, Waiting
  <2>5. Reader(matrix, enableReadCellVoltages', readCellVoltagesBalancingDone)
    BY <2>2 DEF BalanceRead
  <2>6. readCellVoltagesBalancingDone = FALSE BY <2>3, CaseFacts
  <2> QED BY <2>3, <2>4, <2>5, <2>6, ReaderCountsDown
<1>3. [Next]_vars => [~Tick => TicksAhead' = TicksAhead]_vars
  <2> SUFFICES ASSUME Trip PROVE TicksAhead' = TicksAhead BY DEF Next
  <2> QED BY DEF Trip, TicksAhead, CellsAhead, PassAhead
<1> QED BY <1>1, <1>2, <1>3, Invariance, WaitsWithReader, PTL DEF Spec
=============================================================================
