----------------------------- MODULE MCCollector -----------------------------
(***************************************************************************)
(* The collector on small instances for TLC: short counters, and bounds on *)
(* the traffic, the reboots and the clock.                                 *)
(***************************************************************************)
EXTENDS Collector, TLC

CONSTANTS d1, d2, e1, e2,   \* model values
          MaxCarried,       \* bound on the octets a device passes
          MaxLives,         \* bound on the changes of the interfaces
          MaxClock          \* bound on the clock

MCModulus == 2 :> 4

OneDevice == <<d1>>

TwoDevices == <<d1, d2>>

\* The speed of one interface is not known.
MCSpeed == [n \in Name |-> IF n = e1 THEN 8 ELSE 0]

MCWorld == \/ Tick
           \/ \E d \in Device, i \in Index, x \in Direction, n \in 1..Width - 1 :
                 Carry(d, i, x, n) /\ BagCardinality(carried[d]) + n <= MaxCarried
           \/ \E d \in Device, table \in Tables :
                 lives < MaxLives /\ (Reboot(d, table) \/ Reconfigure(d, table))

MCNext == /\ Loop \/ RestartCollector \/ MCWorld
          /\ clock' \in 0..MaxClock

MCSpec == CInit /\ [][MCNext]_cvars /\ WF_cvars(Loop)
=============================================================================
