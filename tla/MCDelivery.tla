------------------------------ MODULE MCDelivery ------------------------------
(***************************************************************************)
(* Delivery on a small instance for TLC: collectors with a device each,    *)
(* whose reachability and inbound utilization change from poll to poll.    *)
(***************************************************************************)
EXTENDS Delivery

MCThreshold == [HIGH_BANDWIDTH |-> 80]

MCCall == Collector \X (1..MaxBatches) \X (1..MaxRetries + 1)

MCPolled == CHOOSE p \in [Collector -> {{d} : d \in Device}] :
              \A x, y \in Collector : p[x] = p[y] => x = y

Ifc == CHOOSE i \in Interface : TRUE

Rec(d, i, m, v, t) == [device |-> d, interface |-> i, index |-> 1, metric |-> m,
                       value |-> v, time |-> t]

\* Down; up and busy; up and quiet.
MCBatch ==
  UNION {{<<Rec(d, NoInterface, "device_reachable", 0, t)>>,
          <<Rec(d, NoInterface, "device_reachable", 1, t),
            Rec(d, Ifc, "utilization_in", 81, t)>>,
          <<Rec(d, NoInterface, "device_reachable", 1, t),
            Rec(d, Ifc, "utilization_in", 80, t)>>} : d \in Device, t \in 1..MaxBatches}

MCRecord == UNION {{b[i] : i \in DOMAIN b} : b \in MCBatch}
=============================================================================
