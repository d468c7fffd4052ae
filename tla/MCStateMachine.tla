--------------------------- MODULE MCStateMachine ---------------------------
(***************************************************************************)
(* StateMachine in an environment that disturbs it a bounded number of      *)
(* times, for the liveness properties: a tick that finds a request pending  *)
(* gives up the transition of its own, so an operator who never stops       *)
(* asking, or a bus that never stops tripping, can hold the machine where   *)
(* it is.                                                                   *)
(***************************************************************************)
EXTENDS StateMachine

CONSTANT MaxDisturbances

VARIABLE disturbances

MCInit == Init /\ disturbances = 0

\* Everything that is neither a tick nor the way back of the super loop.
Disturbance ==
  \/ Cpu1 \/ InputTripInterrupt
  \/ AcceptSwitchCommand \/ BeginProtection
  \/ EfuseVinTrip \/ EfuseBBTrip
  \/ OverVoltagePersists \/ ShortCircuit \/ StopMainStateMachine

Disturbed ==
  /\ disturbances < MaxDisturbances
  /\ disturbances' = disturbances + 1
  /\ Disturbance

Undisturbed ==
  /\ Tick \/ SwitchCommand \/ EndProtection
  /\ UNCHANGED disturbances

MCNext == Undisturbed \/ Disturbed

\* The ADC interrupt ticks for ever; the super loop comes back from what it
\* began; the bank current decays once its reference is 0.
Fairness ==
  /\ WF_vars(Tick)
  /\ WF_vars(SwitchCommand \/ EndProtection)
  /\ WF_vars(ChargeStop /\ State_Current' # "ChargeStop")
  /\ WF_vars(RegulateStop /\ State_Current' # "RegulateStop")

LiveSpec == MCInit /\ [][MCNext]_<<vars, disturbances>> /\ Fairness

\* An error that a protection has raised ends with every switch open and every
\* converter stopped (state_machine.c:310-329, 366-368).
ErrorShutsDown == dpmuErrorOcurredFlag ~> closed = {} /\ running = {}

\* The machine does not stay in Fault: it waits in PreInitialized for a start.
FaultIsLeft == State_Current = "Fault" ~> State_Current = "PreInitialized"

\* Stopping, from whichever state and however often disturbed, comes to an end.
StopsInTheEnd == State_Current \in Stopping ~> State_Current \in {"Idle", "Fault"}

\* The soft start comes to an end, even if a protection has taken the inrush
\* duty back to 0 or a request has held up its last tick.
SoftstartEnds == State_Current = "Softstart" ~> State_Current # "Softstart"

\* The delay before trickle charging comes to an end, even if its last tick is
\* lost to a request and PrestateCounter wraps.
DelayEnds == State_Current = "TrickleChargeDelay" ~> State_Current # "TrickleChargeDelay"
=============================================================================
