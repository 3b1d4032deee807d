---------------------------- MODULE MCIcmpSource -----------------------------
(***************************************************************************)
(* The poll loop with ping on a small instance for TLC: two devices        *)
(* without traffic, which have their turn one after the other.             *)
(***************************************************************************)
EXTENDS MCCollector, IcmpSource

MCINext == /\ \/ ILoop \/ PingIsLate \/ RestartMeasuring
              \/ MCWorld /\ UNCHANGED ivars
           /\ clock' \in 0..MaxClock

MCISpec == IInit /\ [][MCINext]_<<cvars, ivars>> /\ WF_<<cvars, ivars>>(ILoop)
=============================================================================
