---------------------------- MODULE MCSnmpSource ----------------------------
(***************************************************************************)
(* Polls over SNMP on a small instance for TLC: two if_indexes, short      *)
(* counters, and bounds on the traffic, the changes and the time.          *)
(***************************************************************************)
EXTENDS SnmpSource

CONSTANTS eth, tun,    \* model values
          MaxPassed,   \* bound on the octets received at if_index 1
          MaxLives,    \* bound on the changes of the interfaces
          MaxEvents    \* bound on these changes, the steps of time and the times
                       \* the clock is set back, together

MCModulus == 1 :> 2

MCColumns == <<"in", "out">>

\* One interface is gone; the other stays where it was, or moves to its index.
MCTables == {2 :> tun, 1 :> tun}

MCInit == SInit /\ DOMAIN ports = Index /\ ports[1].name = eth /\ ports[2].name = tun

\* How often time has passed, the clock was set back and interfaces changed.
Events == Now - ahead + lives

MCWorld == \/ /\ Events < MaxEvents
              /\ \/ Tick
                 \/ SetClock(-1)
                 \/ \E table \in MCTables : lives < MaxLives /\ Change(table)
           \/ \E n \in 1..Width - 1 :
                 Carry(1, "in", n) /\ ports[1].passed["in"] + n <= MaxPassed

MCNext == Start \/ Request \/ MCWorld

MCSpec == MCInit /\ [][MCNext]_svars /\ WF_svars(Request)
=============================================================================
