---------------------------- MODULE MCAlertEngine ----------------------------
(***************************************************************************)
(* The alert engine on a small instance for TLC: one device with one       *)
(* interface, every kind of alert, readings at and around the threshold.   *)
(***************************************************************************)
EXTENDS AlertHistory

CONSTANT MaxAlerts   \* bound on the rows of the alerts table

MCThreshold == [HIGH_BANDWIDTH |-> 80, PACKET_LOSS |-> 5]

Reading(i, m, v, t) == [device |-> CHOOSE d \in Device : TRUE, interface |-> i,
                        index |-> 1, metric |-> m, value |-> v, time |-> t]

\* Latency has no threshold here: its alert type is switched off.
MCRecord ==
  {Reading(i, "device_reachable", v, 1) : i \in Interface \cup {NoInterface}, v \in {0, 1}}
    \cup {Reading(i, "utilization_in", v, t) : i \in Interface, v \in {80, 81}, t \in {1, 2}}
    \cup {Reading(i, "utilization_out", v, 1) : i \in Interface, v \in {80, 81}}
    \cup {Reading(NoInterface, "packet_loss_percent", v, 1) : v \in {5, 6}}
    \cup {Reading(NoInterface, m, 100, 1) : m \in {"latency_avg_ms", "bandwidth_in"}}

MCNext == HNext /\ Len(alerts') \leq MaxAlerts

MCSpec == HInit /\ [][MCNext]_hvars
=============================================================================
