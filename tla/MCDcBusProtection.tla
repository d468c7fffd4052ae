-------------------------- MODULE MCDcBusProtection --------------------------
(***************************************************************************)
(* DcBusProtection with a bounded number of disturbances, so that what one  *)
(* of them leads to can be told apart from what the next one does, and with *)
(* a count of the faults that have followed the last of them.               *)
(***************************************************************************)
EXTENDS DcBusProtection

CONSTANT MaxDisturbances  \* eFuse interrupts, requests, readings outside the limits

VARIABLES disturbances, faults

mcVars == <<vars, disturbances, faults>>

MCInit == Init /\ disturbances = 0 /\ faults = 0

Calm == bus = "normal" /\ load = "normal" /\ occurred = {}

\* The readings return to normal at no cost.
Calming ==
  /\ Reading
  /\ bus' \in {bus, "normal"} /\ load' \in {load, "normal"} /\ hot' \in {hot, FALSE}

\* Every step that does not disturb the system; faults are counted from calm on.
Step(A) ==
  /\ A
  /\ UNCHANGED disturbances
  /\ faults' = CASE ~Calm -> 0
                 [] Calm /\ controller # "fault" /\ controller' = "fault" /\ faults < MaxDisturbances + 3
                      -> faults + 1
                 [] OTHER -> faults

Disturb ==
  /\ disturbances < MaxDisturbances
  /\ disturbances' = disturbances + 1
  /\ faults' = 0
  /\ Reading \/ RequestedTick \/ \E f \in Fuses : EfuseInterrupt(f)

MCNext == Step(OwnTick) \/ Step(SuperLoop) \/ Step(INT_myCPUTIMER2_ISR) \/ Step(Calming) \/ Disturb

\* The ADC interrupt and the timer interrupt come for ever, the super loop
\* turns for ever, and the operator starts a unit that is down.
LiveSpec ==
  /\ MCInit /\ [][MCNext]_mcVars
  /\ WF_vars(OwnTick) /\ WF_vars(SuperLoop) /\ WF_vars(INT_myCPUTIMER2_ISR)
  /\ WF_vars(StartTick("up") /\ AfterTick)

\* An over-current that the average of two samples has confirmed takes a unit
\* that is up to Fault, whatever the next tick makes of State_Next
\* (DCDC.c:448-454).  Not so if the unit was still down when dcbus_check looked
\* at it: then the trip is reported and forgotten.
TripShutsDown == efuse_top_half_flag /\ step # "report" /\ controller = "up" ~> controller = "fault"

\* An over-voltage that does not go away takes a unit that is up to Fault
\* (error_handling_CPU2.c:124-177).
OverVoltageShutsDown == controller = "up" /\ bus = "over" ~> controller = "fault" \/ bus # "over"

\* So does an over-current of the load (error_handling_CPU2.c:33-85).
OverCurrentShutsDown ==
  controller = "up" /\ load # "normal" ~> controller = "fault" \/ load = "normal"

\* One trip leads to at most three faults, and each further disturbance to one
\* more: State_Next, the short-circuit check and a handler that the Fault has
\* frozen at its stop can each cost a start, but none of them does so twice
\* (error_handling_CPU2.c:65-85, state_machine.c:310-329).
FewFaults == faults <= disturbances + 2

\* Once the disturbances are over, starting the unit brings it up for good.
Recovers == <>[](bus = "normal" /\ load = "normal") => <>[](controller = "up")
=============================================================================
