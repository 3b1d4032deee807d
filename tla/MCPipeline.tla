----------------------------- MODULE MCPipeline ------------------------------
(***************************************************************************)
(* The pipeline on a small instance for TLC: one device with one           *)
(* interface, the main collector and a second one, a few polls.            *)
(***************************************************************************)
EXTENDS Pipeline, TLC

CONSTANTS main, demo, r1, eth0,  \* model values
          Controlled,            \* the scenarios that are set
          MaxTransit,            \* bound on the batches on their way
          MaxClock               \* bound on the clock

\* Bounds on the polls; on the changes of scenario, restarts and ticks together; on
\* the faults; and on all of these.
Budget == [polls |-> 4, events |-> 4, faults |-> 1, all |-> 7]

MCModulus == [b \in {64} |-> 1000000000]

MCThreshold == [HIGH_BANDWIDTH |-> 800, HIGH_LATENCY |-> 100, PACKET_LOSS |-> 5]

MCInterfaceName == [i \in SimIndex |-> eth0]

MCRecord ==
  [device : Device, interface : Interface, index : {0}, time : 0..MaxClock,
   metric : {"utilization_in", "utilization_out"}, value : {64, 65, 100, 101, 800, 801, 900, 901}]
  \cup
  [device : Device, interface : {NoInterface}, index : {0}, time : 0..MaxClock,
   metric : {"device_reachable", "latency_avg_ms", "packet_loss_percent"},
   value : {0, 1, 5, 6, 15, 20, 150}]

VARIABLE left   \* how many of them there still may be

MCInit == PInit /\ left = Budget

Spend(kind) == /\ left[kind] > 0 /\ left.all > 0
               /\ left' = [left EXCEPT ![kind] = @ - 1, !.all = @ - 1]

\* The main process has no control surface (demo_scenario.py:9-11): it stays at
\* NORMAL, and the demo script sets its scenario.
Controls == /\ \/ \E s \in Controlled, d \in SimDevice : SetScenario(demo, s, d)
               \/ \E d \in SimDevice : ClearOverride(demo, d)
               \/ SetScenarioForAll(demo, "NORMAL")
            /\ UNCHANGED <<alerts, transit, handling, ups, heard, told>>

\* A batch that is lost or comes twice, or whose evaluation breaks off, is a fault.
MCPoll(a, d) ==
  /\ left.polls > 0 /\ left.all > 0
  /\ PollDevice(a, d)
  /\ \/ /\ Len(transit'[a]) = Len(transit[a]) + 1
        /\ Spend("polls")
     \/ /\ Len(transit'[a]) # Len(transit[a]) + 1
        /\ left.faults > 0 /\ left.all > 1
        /\ left' = [left EXCEPT !.polls = @ - 1, !.faults = @ - 1, !.all = @ - 2]

MCNext == \/ \E a \in App, d \in SimDevice : MCPoll(a, d)
          \/ /\ Spend("events")
             /\ (\E a \in App : RestartApp(a)) \/ Controls \/ TimePasses
          \/ UNCHANGED left /\ ((\E a \in App : Take(a)) \/ EvaluateNext)
          \/ Spend("faults") /\ BreakOff

InBounds == /\ clock' \in 0..MaxClock
            /\ Len(transit'[main]) + Len(transit'[demo]) \leq MaxTransit

MCSpec == MCInit /\ [][MCNext /\ InBounds]_<<pvars, left>>
=============================================================================
