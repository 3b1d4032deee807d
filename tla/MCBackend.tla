------------------------------ MODULE MCBackend ------------------------------
(***************************************************************************)
(* The ingestion path on a small instance for TLC: one device with one     *)
(* interface and three calls, each with any of four batches.               *)
(***************************************************************************)
EXTENDS Backend

MCThreshold == [HIGH_BANDWIDTH |-> 80]

Dev == CHOOSE d \in Device : TRUE

Ifc == CHOOSE i \in Interface : TRUE

Rec(d, i, m, v, t) == [device |-> d, interface |-> i, index |-> 1, metric |-> m,
                       value |-> v, time |-> t]

\* The device is down; it is up again and busy; both directions contradict one
\* another; a malformed record before two that contradict one another.
MCBatch ==
  {<<Rec(Dev, NoInterface, "device_reachable", 0, 1)>>,
   <<Rec(Dev, NoInterface, "device_reachable", 1, 2),
     Rec(Dev, Ifc, "utilization_in", 81, 2)>>,
   <<Rec(Dev, Ifc, "utilization_in", 80, 3),
     Rec(Dev, Ifc, "utilization_out", 81, 3)>>,
   <<Rec(NoDevice, Ifc, "utilization_in", 81, 4),
     Rec(Dev, NoInterface, "device_reachable", 1, 4),
     Rec(Dev, NoInterface, "device_reachable", 0, 5)>>}

MCRecord == {r \in UNION {{b[i] : i \in DOMAIN b} : b \in MCBatch} : IsValid(r)}
=============================================================================
