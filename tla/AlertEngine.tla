----------------------------- MODULE AlertEngine -----------------------------
(***************************************************************************)
(* The threshold alert engine, src/Code/backend/alerts/engine.py, over the *)
(* alerts table of src/Code/backend/models/orm.py.  One evaluation of one  *)
(* record is one database transaction, hence one step.                     *)
(*                                                                         *)
(* Metric values and timestamps are integers: the engine only compares a   *)
(* value with 0 or with a threshold and copies a timestamp.                *)
(***************************************************************************)
EXTENDS Integers, Sequences, FiniteSets

CONSTANTS Device,       \* device ids
          Interface,    \* interface names
          NoInterface,  \* interface_name is NULL
          Threshold,    \* the loaded thresholds, by alert type
          Record        \* the well-formed telemetry records that may come in

\* The table _METRIC_TYPE_TO_ALERT_TYPE, with the reachability record, which
\* evaluate_record dispatches before it looks the table up.
AlertType == [device_reachable    |-> "DEVICE_DOWN",
              utilization_in      |-> "HIGH_BANDWIDTH",
              utilization_out     |-> "HIGH_BANDWIDTH",
              latency_avg_ms      |-> "HIGH_LATENCY",
              packet_loss_percent |-> "PACKET_LOSS"]

AlertMetric == DOMAIN AlertType

\* A threshold that the configuration file leaves out disables its alert type;
\* the reachability alert has no threshold to configure.
ASSUME ThresholdAssumption ==
  /\ DOMAIN Threshold \subseteq {"HIGH_BANDWIDTH", "HIGH_LATENCY", "PACKET_LOSS"}
  /\ \A a \in DOMAIN Threshold : Threshold[a] \in Int

\* index is the record's interface_index, time its timestamp; most metrics are
\* none that an alert is about.
TelemetryRecord ==
  [device : Device, interface : Interface \cup {NoInterface},
   index : Int, metric : AlertMetric \cup STRING, value : Int, time : Int]

ASSUME RecordAssumption == Record \subseteq TelemetryRecord

NoTime == -1   \* resolved_at is NULL

\* What an alert is about: the columns _find_active selects on.
AlertKey(d, i, m) ==
  [device |-> d, interface |-> i, alertType |-> AlertType[m], metric |-> m]

Key == {AlertKey(d, i, m) : d \in Device, i \in Interface \cup {NoInterface},
                            m \in AlertMetric}

AlertRow == [key : Key, value : Int, status : {"ACTIVE", "RESOLVED"},
             startedAt : Int, resolvedAt : Int]

VARIABLE alerts   \* the alerts table; a row's primary key is its position

-----------------------------------------------------------------------------
\* Whether evaluate_record evaluates this metric type at all.
Relevant(m) == \/ m = "device_reachable"
               \/ m \in AlertMetric /\ AlertType[m] \in DOMAIN Threshold

\* The reachability alert is about the device, whatever interface the record
\* names.
KeyOf(r) == AlertKey(r.device,
                     IF r.metric = "device_reachable" THEN NoInterface
                                                      ELSE r.interface,
                     r.metric)

Breaching(r) == IF r.metric = "device_reachable"
                  THEN r.value = 0
                  ELSE r.value > Threshold[AlertType[r.metric]]

\* Slip, and once the code's own (see the comment on metric_type in orm.py):
\* the query does not tell the two directions of an interface apart.
FindActiveByAlertType(k) ==
  {n \in DOMAIN alerts : /\ alerts[n].key.device = k.device
                         /\ alerts[n].key.interface = k.interface
                         /\ alerts[n].key.alertType = k.alertType
                         /\ alerts[n].status = "ACTIVE"}

\* Slip: the query does not filter on the status.
FindAny(k) == {n \in DOMAIN alerts : alerts[n].key = k}

\* The rows _find_active may return.
FindActive(k) ==
  {n \in DOMAIN alerts : alerts[n].key = k /\ alerts[n].status = "ACTIVE"}

Open(k) == FindActive(k) # {}

-----------------------------------------------------------------------------
NewAlert(r) == [key |-> KeyOf(r), value |-> r.value, status |-> "ACTIVE",
                startedAt |-> r.time, resolvedAt |-> NoTime]

\* Slip: no look for an existing alert before the insert.
RaiseAlways(r) == Breaching(r) /\ alerts' = Append(alerts, NewAlert(r))

\* Slip: a new breach reactivates the last alert of its key.
RaiseReopens(r) ==
  /\ Breaching(r)
  /\ FindActive(KeyOf(r)) = {}
  /\ IF FindAny(KeyOf(r)) = {}
       THEN alerts' = Append(alerts, NewAlert(r))
       ELSE \E n \in FindAny(KeyOf(r)) :
              alerts' = [alerts EXCEPT ![n].status = "ACTIVE", ![n].resolvedAt = NoTime]

Raise(r) ==
  /\ Breaching(r)
  /\ FindActive(KeyOf(r)) = {}
  /\ alerts' = Append(alerts, NewAlert(r))

Resolve(r) ==
  /\ ~Breaching(r)
  /\ \E n \in FindActive(KeyOf(r)) :
        alerts' = [alerts EXCEPT ![n].status = "RESOLVED",
                                 ![n].resolvedAt = r.time]

\* A breach while one is already ACTIVE, or a reading in range with none.
Keep(r) ==
  /\ Breaching(r) <=> FindActive(KeyOf(r)) # {}
  /\ UNCHANGED alerts

EvaluateRecord(r) ==
  \/ /\ Relevant(r.metric)
     /\ Raise(r) \/ Resolve(r) \/ Keep(r)
  \/ /\ ~Relevant(r.metric)
     /\ UNCHANGED alerts

-----------------------------------------------------------------------------
\* The engine on its own, fed any records in any order.
EngineInit == alerts = <<>>

EngineNext == \E r \in Record : EvaluateRecord(r)

EngineSpec == EngineInit /\ [][EngineNext]_alerts

-----------------------------------------------------------------------------
AlertsTypeOK == alerts \in Seq(AlertRow)

\* Deduplication, the engine's "critical requirement" (engine.py:4-8): whatever
\* readings come, in whatever order and however often, a monitored condition has at
\* most one ACTIVE row.
OneActivePerKey ==
  \A k \in Key : \A m, n \in FindActive(k) : m = n

\* A step resolves row n, and changes nothing else.
OnlyResolves(n) ==
  /\ alerts[n].status = "ACTIVE" /\ alerts'[n].status = "RESOLVED"
  /\ alerts'[n] = [alerts[n] EXCEPT !.status = "RESOLVED",
                                    !.resolvedAt = alerts'[n].resolvedAt]
  /\ Len(alerts') = Len(alerts)
  /\ \A m \in DOMAIN alerts \ {n} : alerts'[m] = alerts[m]

HistoryStep ==
  /\ Len(alerts) \leq Len(alerts') /\ Len(alerts') \leq Len(alerts) + 1
  /\ \A n \in DOMAIN alerts : alerts'[n] = alerts[n] \/ OnlyResolves(n)

\* The history of a condition is a history: a row, once RESOLVED, is never
\* touched again, an ACTIVE one keeps what it says of the breach until it is
\* resolved, and one evaluation changes one row at most (engine.py:104-157).
HistoryIsKept == [][HistoryStep]_alerts

\* The table implements the contract: an ACTIVE row is an open condition, the
\* rows of a condition are its episodes.
RowsOfKey(k) == {n \in DOMAIN alerts : alerts[n].key = k}

Contract == INSTANCE AlertContract
              WITH open     <- [k \in Key |-> Open(k)],
                   episodes <- [k \in Key |-> Cardinality(RowsOfKey(k))]

ImplementsContract == Contract!Spec

=============================================================================
