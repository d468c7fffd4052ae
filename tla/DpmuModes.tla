----------------------------- MODULE DpmuModes -----------------------------
(***************************************************************************)
(* What the DPMU promises to the rest of the power system, without the      *)
(* states of its controller: the mode it is in, whether it is armed (has    *)
(* completed a soft start and not given it up since), and which converter   *)
(* drives power.                                                            *)
(*   - power flows only in a mode that works or is stopping;                *)
(*   - the two converters never take over from one another directly;        *)
(*   - work begins only in the ready mode of an armed DPMU;                 *)
(*   - a DPMU that is no longer armed is armed again only by a start, and a  *)
(*     start begins only after a fault has shut everything down.            *)
(***************************************************************************)

VARIABLES mode, armed, power

vars == <<mode, armed, power>>

Modes == {"down", "starting", "ready", "working", "stopping", "fault"}
Powers == {"off", "DCDC", "CLLC"}

TypeOK == mode \in Modes /\ armed \in BOOLEAN /\ power \in Powers

Init == mode = "down" /\ armed = FALSE /\ power = "off"

\* A converter may stop, or start if none runs.
Drive == power' \in Powers /\ (power' # power => "off" \in {power, power'})

\* A converter may stop.
Drop == power' \in {power, "off"}

Off == power = "off" /\ power' = "off"

Disarm == armed' \in {armed, FALSE}

\* A protection, or nothing, between two steps of the controller.
Trip == UNCHANGED <<mode, armed>> /\ Drop

Down ==
  /\ mode = "down" /\ mode' \in {"starting", "fault"}
  /\ ~armed /\ ~armed'
  /\ Off

\* A start that lacks its settings goes back; it ends only by arming the DPMU.
Starting ==
  /\ mode = "starting" /\ mode' \in {"starting", "down", "ready", "stopping", "fault"}
  /\ mode' = "down" => ~armed'
  /\ mode' \in {"ready", "stopping"} => armed'
  /\ armed => armed'
  /\ Off

Ready ==
  /\ mode = "ready" /\ mode' \in {"ready", "working", "fault"}
  /\ mode' = "working" => armed
  /\ Disarm
  /\ Off

Working ==
  /\ mode = "working" /\ mode' \in {"working", "stopping", "fault"}
  /\ Disarm
  /\ Drive

\* Once stopping, a DPMU does not start a converter again.
Stopping ==
  /\ mode = "stopping" /\ mode' \in {"stopping", "ready", "fault"}
  /\ mode' = "ready" => power' = "off"
  /\ Disarm
  /\ Drop

Fault ==
  /\ mode = "fault" /\ mode' \in {"fault", "down"}
  /\ ~armed'
  /\ power' = "off"

Next == Trip \/ Down \/ Starting \/ Ready \/ Working \/ Stopping \/ Fault

Spec == Init /\ [][Next]_vars
=============================================================================
