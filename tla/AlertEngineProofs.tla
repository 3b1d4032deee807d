-------------------------- MODULE AlertEngineProofs --------------------------
(***************************************************************************)
(* Proofs about AlertEngine, for any devices, interfaces, thresholds and   *)
(* records.  The lemmas about one evaluation are stated for EvaluateRecord *)
(* alone, so that the proofs of the modules that call the engine can use   *)
(* them too; history is of the engine on its own.                          *)
(***************************************************************************)
EXTENDS AlertHistory, FiniteSetTheorems, TLAPS

EngineInv == AlertsTypeOK /\ OneActivePerKey

-----------------------------------------------------------------------------
\* The key of a relevant record is one of the keys of the table.
LEMMA KeyOfType ==
  ASSUME NEW r \in TelemetryRecord, Relevant(r.metric)
  PROVE  KeyOf(r) \in Key
<1>1. r.device \in Device /\ r.interface \in Interface \cup {NoInterface}
  BY DEF TelemetryRecord
<1>2. r.metric \in AlertMetric
  BY DEF Relevant, AlertMetric, AlertType
<1>. QED
  BY <1>1, <1>2 DEF KeyOf, Key

\* A row inserted by an evaluation is well-formed.
LEMMA NewAlertType ==
  ASSUME NEW r \in TelemetryRecord, Relevant(r.metric)
  PROVE  NewAlert(r) \in AlertRow
<1>1. r.value \in Int /\ r.time \in Int
  BY DEF TelemetryRecord
<1>. QED
  BY <1>1, KeyOfType DEF NewAlert, AlertRow, NoTime

\* What an evaluation may do to the table, as a case distinction.
LEMMA EvaluateCases ==
  ASSUME NEW r \in TelemetryRecord, EvaluateRecord(r)
  PROVE  \/ Relevant(r.metric) /\ Raise(r)
         \/ Relevant(r.metric) /\ Resolve(r)
         \/ UNCHANGED alerts
BY DEF EvaluateRecord, Keep

\* An insert keeps the old rows and adds one at the end.
LEMMA RaiseRows ==
  ASSUME AlertsTypeOK, NEW r \in TelemetryRecord, Relevant(r.metric), Raise(r)
  PROVE  /\ alerts' \in Seq(AlertRow)
         /\ Len(alerts') = Len(alerts) + 1
         /\ \A n \in DOMAIN alerts : n \in DOMAIN alerts' /\ alerts'[n] = alerts[n]
         /\ alerts'[Len(alerts) + 1] = NewAlert(r)
BY NewAlertType DEF AlertsTypeOK, Raise

\* A resolution changes the status and the end of one ACTIVE row.
LEMMA ResolveRows ==
  ASSUME AlertsTypeOK, NEW r \in TelemetryRecord, Relevant(r.metric), Resolve(r)
  PROVE  \E n \in FindActive(KeyOf(r)) :
            /\ alerts' \in Seq(AlertRow)
            /\ Len(alerts') = Len(alerts)
            /\ \A i \in DOMAIN alerts \ {n} : alerts'[i] = alerts[i]
            /\ alerts'[n].key = alerts[n].key
            /\ alerts'[n].value = alerts[n].value
            /\ alerts'[n].startedAt = alerts[n].startedAt
            /\ alerts'[n].status = "RESOLVED"
            /\ alerts'[n].resolvedAt = r.time
<1>1. PICK n \in FindActive(KeyOf(r)) :
        alerts' = [alerts EXCEPT ![n].status = "RESOLVED", ![n].resolvedAt = r.time]
  BY DEF Resolve
<1>2. n \in DOMAIN alerts /\ alerts[n] \in AlertRow
  BY DEF FindActive, AlertsTypeOK
<1> DEFINE row == [alerts[n] EXCEPT !.status = "RESOLVED", !.resolvedAt = r.time]
<1>3. r.time \in Int
  BY DEF TelemetryRecord
<1>4. alerts' = [alerts EXCEPT ![n] = row]
  BY <1>1, <1>2
<1>5. /\ row \in AlertRow
      /\ row.key = alerts[n].key /\ row.value = alerts[n].value
      /\ row.startedAt = alerts[n].startedAt
      /\ row.status = "RESOLVED" /\ row.resolvedAt = r.time
  BY <1>2, <1>3 DEF AlertRow
<1> HIDE DEF row
<1>6. /\ alerts' \in Seq(AlertRow) /\ Len(alerts') = Len(alerts)
      /\ alerts'[n] = row
      /\ \A i \in DOMAIN alerts \ {n} : alerts'[i] = alerts[i]
  BY <1>2, <1>4, <1>5 DEF AlertsTypeOK
<1>. QED
  BY <1>5, <1>6

-----------------------------------------------------------------------------
\* One evaluation keeps the table well-formed and deduplicated
\* (evaluate_record, engine.py:55-172).
LEMMA EvaluateKeepsInv ==
  ASSUME EngineInv, NEW r \in TelemetryRecord, EvaluateRecord(r)
  PROVE  EngineInv'
<1>1. CASE UNCHANGED alerts
  BY <1>1 DEF EngineInv, AlertsTypeOK, OneActivePerKey, FindActive
<1>2. CASE Relevant(r.metric) /\ Raise(r)
  <2>1. /\ AlertsTypeOK' /\ Len(alerts') = Len(alerts) + 1
        /\ \A n \in DOMAIN alerts : n \in DOMAIN alerts' /\ alerts'[n] = alerts[n]
        /\ alerts'[Len(alerts) + 1] = NewAlert(r)
    BY <1>2, RaiseRows DEF EngineInv, AlertsTypeOK
  <2>2. SUFFICES ASSUME NEW k \in Key, NEW m \in FindActive(k)', NEW n \in FindActive(k)'
                 PROVE  m = n
    BY <2>1 DEF EngineInv, OneActivePerKey
  <2>3. DOMAIN alerts = 1..Len(alerts) /\ DOMAIN alerts' = 1..(Len(alerts) + 1)
    BY <2>1 DEF EngineInv, AlertsTypeOK
  <2>4. CASE k = KeyOf(r)
    <3>1. \A i \in DOMAIN alerts : i \notin FindActive(k)'
      BY <1>2, <2>1, <2>4 DEF Raise, FindActive
    <3>. QED
      BY <2>3, <3>1 DEF FindActive, EngineInv, AlertsTypeOK
  <2>5. CASE k # KeyOf(r)
    <3>1. Len(alerts) + 1 \notin FindActive(k)'
      BY <2>1, <2>5 DEF FindActive, NewAlert
    <3>2. m \in FindActive(k) /\ n \in FindActive(k)
      BY <2>1, <2>3, <3>1 DEF FindActive, EngineInv, AlertsTypeOK
    <3>. QED
      BY <3>2 DEF EngineInv, OneActivePerKey
  <2>. QED
    BY <2>4, <2>5
<1>3. CASE Relevant(r.metric) /\ Resolve(r)
  <2>1. PICK n \in FindActive(KeyOf(r)) :
          /\ AlertsTypeOK' /\ Len(alerts') = Len(alerts)
          /\ \A i \in DOMAIN alerts \ {n} : alerts'[i] = alerts[i]
          /\ alerts'[n].status = "RESOLVED"
    BY <1>3, ResolveRows DEF EngineInv, AlertsTypeOK
  <2>2. \A k \in Key : FindActive(k)' \subseteq FindActive(k)
    BY <2>1 DEF FindActive, EngineInv, AlertsTypeOK
  <2>. QED
    BY <2>1, <2>2 DEF EngineInv, OneActivePerKey
<1>. QED
  BY <1>1, <1>2, <1>3, EvaluateCases

\* The table starts empty.
LEMMA EngineInitInv == EngineInit => EngineInv
BY DEF EngineInit, EngineInv, AlertsTypeOK, OneActivePerKey, FindActive

\* The engine keeps its table well-formed and never has two ACTIVE alerts of one
\* key, whatever records it is fed.
THEOREM EngineInvariant == EngineSpec => [](AlertsTypeOK /\ OneActivePerKey)
<1>1. EngineInv /\ [EngineNext]_alerts => EngineInv'
  <2> SUFFICES ASSUME EngineInv, [EngineNext]_alerts
               PROVE  EngineInv'
    OBVIOUS
  <2>1. CASE EngineNext
    BY <2>1, EvaluateKeepsInv, RecordAssumption DEF EngineNext
  <2>2. CASE UNCHANGED alerts
    BY <2>2 DEF EngineInv, AlertsTypeOK, OneActivePerKey, FindActive
  <2>. QED
    BY <2>1, <2>2
<1>. QED
  BY <1>1, EngineInitInv, PTL DEF EngineSpec, EngineInv

-----------------------------------------------------------------------------
\* What an evaluation makes of the conditions: it decides the one of its own
\* record and leaves the others as they are (engine.py:100-127).
LEMMA EvaluateDecides ==
  ASSUME EngineInv, NEW r \in TelemetryRecord, EvaluateRecord(r), NEW k \in Key
  PROVE  /\ (Relevant(r.metric) /\ k = KeyOf(r)) => (Open(k)' <=> Breaching(r))
         /\ ~(Relevant(r.metric) /\ k = KeyOf(r)) => (Open(k)' <=> Open(k))
<1>1. CASE ~Relevant(r.metric)
  BY <1>1 DEF EvaluateRecord, Open, FindActive
<1>2. CASE Relevant(r.metric) /\ Keep(r)
  BY <1>2 DEF Keep, Open, FindActive
<1>3. CASE Relevant(r.metric) /\ Raise(r)
  <2>1. /\ Len(alerts') = Len(alerts) + 1 /\ alerts' \in Seq(AlertRow)
        /\ \A n \in DOMAIN alerts : n \in DOMAIN alerts' /\ alerts'[n] = alerts[n]
        /\ alerts'[Len(alerts) + 1] = NewAlert(r)
    BY <1>3, RaiseRows DEF EngineInv
  <2>2. DOMAIN alerts = 1..Len(alerts) /\ DOMAIN alerts' = 1..(Len(alerts) + 1)
    BY <2>1 DEF EngineInv, AlertsTypeOK
  <2>3. CASE k = KeyOf(r)
    <3>1. Len(alerts) + 1 \in FindActive(k)'
      BY <2>1, <2>2, <2>3 DEF FindActive, NewAlert, EngineInv, AlertsTypeOK
    <3>. QED
      BY <1>3, <2>3, <3>1 DEF Open, Raise
  <2>4. CASE k # KeyOf(r)
    <3>1. FindActive(k)' = FindActive(k)
      <4>1. Len(alerts) + 1 \notin FindActive(k)'
        BY <2>1, <2>4 DEF FindActive, NewAlert
      <4>. QED
        BY <2>1, <2>2, <4>1 DEF FindActive, EngineInv, AlertsTypeOK
    <3>. QED
      BY <2>4, <3>1 DEF Open
  <2>. QED
    BY <2>3, <2>4
<1>4. CASE Relevant(r.metric) /\ Resolve(r)
  <2>1. PICK n \in FindActive(KeyOf(r)) :
          /\ alerts' \in Seq(AlertRow) /\ Len(alerts') = Len(alerts)
          /\ \A i \in DOMAIN alerts \ {n} : alerts'[i] = alerts[i]
          /\ alerts'[n].key = alerts[n].key /\ alerts'[n].status = "RESOLVED"
    BY <1>4, ResolveRows DEF EngineInv
  <2>2. DOMAIN alerts' = DOMAIN alerts /\ n \in DOMAIN alerts /\ alerts[n].key = KeyOf(r)
    BY <2>1 DEF FindActive, EngineInv, AlertsTypeOK
  <2>3. CASE k = KeyOf(r)
    <3>1. \A i \in FindActive(k) : i = n
      BY <2>1, <2>3 DEF EngineInv, OneActivePerKey
    <3>2. FindActive(k)' = {}
      BY <2>1, <2>2, <3>1 DEF FindActive
    <3>. QED
      BY <1>4, <2>3, <3>2 DEF Open, Resolve
  <2>4. CASE k # KeyOf(r)
    <3>1. FindActive(k)' = FindActive(k)
      BY <2>1, <2>2, <2>4 DEF FindActive
    <3>. QED
      BY <2>4, <3>1 DEF Open
  <2>. QED
    BY <2>3, <2>4
<1>. QED
  BY <1>1, <1>2, <1>3, <1>4 DEF EvaluateRecord

-----------------------------------------------------------------------------
HistoryType == history \in [Key -> Seq(BOOLEAN)]

\* The latest reading comes first, and what is remembered stays a sequence.
LEMMA LatestFirst ==
  ASSUME NEW b \in BOOLEAN, NEW s \in Seq(BOOLEAN)
  PROVE  /\ Latest(<<b>> \o s) \in Seq(BOOLEAN)
         /\ Latest(<<b>> \o s) # <<>> /\ Latest(<<b>> \o s)[1] = b
<1> DEFINE t == <<b>> \o s
<1>1. /\ t \in Seq(BOOLEAN) /\ Len(t) = Len(s) + 1 /\ Len(s) \in Nat /\ t[1] = b
  BY SMT
<1> HIDE DEF t
<1>2. CASE Len(t) > 2
  <2>1. Latest(t) = SubSeq(t, 1, 2)
    BY <1>2 DEF Latest
  <2>2. /\ SubSeq(t, 1, 2) \in Seq(BOOLEAN) /\ Len(SubSeq(t, 1, 2)) = 2
        /\ SubSeq(t, 1, 2)[1] = b
    BY <1>1, <1>2
  <2>3. SubSeq(t, 1, 2) # <<>>
    <3>1. \A u \in Seq(BOOLEAN) : Len(u) = 2 => u # <<>>
      OBVIOUS
    <3>. QED
      BY <2>2, <3>1
  <2>4. Latest(t) \in Seq(BOOLEAN) /\ Latest(t) # <<>> /\ Latest(t)[1] = b
    BY <2>1, <2>2, <2>3
  <2>. QED
    BY <2>4 DEF t
<1>3. CASE ~(Len(t) > 2)
  <2>1. Latest(t) = t /\ t # <<>>
    BY <1>1, <1>3 DEF Latest
  <2>. QED
    BY <1>1, <2>1 DEF t
<1>. QED
  BY <1>2, <1>3

\* An alert is open exactly when the last reading of its condition breached, for
\* any thresholds and records: one evaluation decides the condition of its own record
\* and leaves the others alone (engine.py:100-157).
THEOREM EngineOpenIffLastBreaches == HSpec => []OpenIffLastBreaches
<1> DEFINE Inv == EngineInv /\ HistoryType /\ OpenIffLastBreaches
<1>1. HInit => Inv
  <2>1. SUFFICES ASSUME HInit PROVE Inv
    OBVIOUS
  <2>2. \A k \in Key : history[k] = <<>> /\ ~Open(k)
    BY <2>1 DEF HInit, EngineInit, Open, FindActive
  <2>. QED
    BY <2>1, <2>2, EngineInitInv DEF HInit, HistoryType, OpenIffLastBreaches
<1>2. Inv /\ [HNext]_hvars => Inv'
  <2>1. SUFFICES ASSUME Inv, [HNext]_hvars PROVE Inv'
    OBVIOUS
  <2>2. CASE UNCHANGED hvars
    BY <2>1, <2>2 DEF hvars, EngineInv, AlertsTypeOK, OneActivePerKey, HistoryType,
                      OpenIffLastBreaches, Open, FindActive
  <2>3. ASSUME NEW r \in TelemetryRecord, EvaluateRecord(r), Remember(r) PROVE Inv'
    <3>1. EngineInv'
      BY <2>1, <2>3, EvaluateKeepsInv
    <3>2. CASE ~Relevant(r.metric)
      <4>1. history' = history
        BY <2>3, <3>2 DEF Remember
      <4>2. \A k \in Key : Open(k)' <=> Open(k)
        BY <2>1, <2>3, <3>2, EvaluateDecides
      <4>. QED
        BY <2>1, <3>1, <4>1, <4>2 DEF HistoryType, OpenIffLastBreaches
    <3>3. CASE Relevant(r.metric)
      <4>1. KeyOf(r) \in Key /\ Breaching(r) \in BOOLEAN
        <5>1. r.value \in Int /\ (r.metric # "device_reachable"
                                   => Threshold[AlertType[r.metric]] \in Int)
          BY <3>3, ThresholdAssumption DEF Relevant, TelemetryRecord
        <5>2. CASE r.metric = "device_reachable"
          BY <3>3, <5>1, <5>2, KeyOfType DEF Breaching
        <5>3. CASE r.metric # "device_reachable"
          BY <3>3, <5>1, <5>3, KeyOfType DEF Breaching
        <5>. QED
          BY <5>2, <5>3
      <4>2. PICK s \in Seq(BOOLEAN) : s = Latest(<<Breaching(r)>> \o history[KeyOf(r)])
        BY <2>1, <4>1, LatestFirst DEF HistoryType
      <4>3. s # <<>> /\ s[1] = Breaching(r)
        BY <2>1, <4>1, <4>2, LatestFirst DEF HistoryType
      <4>4. history' = [history EXCEPT ![KeyOf(r)] = s]
        BY <2>3, <3>3, <4>2 DEF Remember
      <4>5. /\ history' \in [Key -> Seq(BOOLEAN)] /\ history'[KeyOf(r)] = s
            /\ \A k \in Key \ {KeyOf(r)} : history'[k] = history[k]
        BY <2>1, <4>1, <4>4 DEF HistoryType
      <4>6. /\ Open(KeyOf(r))' <=> Breaching(r)
            /\ \A k \in Key \ {KeyOf(r)} : Open(k)' <=> Open(k)
        BY <2>1, <2>3, <3>3, <4>1, EvaluateDecides
      <4>. QED
        BY <2>1, <3>1, <4>3, <4>5, <4>6 DEF HistoryType, OpenIffLastBreaches
    <3>. QED
      BY <3>2, <3>3
  <2>. QED
    BY <2>1, <2>2, <2>3, RecordAssumption DEF HNext
<1>. QED
  BY <1>1, <1>2, PTL DEF HSpec

-----------------------------------------------------------------------------
\* One step of the engine respects the history of the alerts.
LEMMA EvaluateKeepsHistory ==
  ASSUME EngineInv, NEW r \in TelemetryRecord, EvaluateRecord(r)
  PROVE  HistoryStep
<1>0. Len(alerts) \in Nat
  BY DEF EngineInv, AlertsTypeOK
<1>1. CASE UNCHANGED alerts
  BY <1>0, <1>1 DEF HistoryStep
<1>2. CASE Relevant(r.metric) /\ Raise(r)
  <2>1. /\ Len(alerts') = Len(alerts) + 1
        /\ \A n \in DOMAIN alerts : alerts'[n] = alerts[n]
    BY <1>2, RaiseRows DEF EngineInv
  <2>. QED
    BY <1>0, <2>1 DEF HistoryStep
<1>3. CASE Relevant(r.metric) /\ Resolve(r)
  <2>1. PICK n \in FindActive(KeyOf(r)) :
          /\ alerts' \in Seq(AlertRow)
          /\ Len(alerts') = Len(alerts)
          /\ \A i \in DOMAIN alerts \ {n} : alerts'[i] = alerts[i]
          /\ alerts'[n].key = alerts[n].key
          /\ alerts'[n].value = alerts[n].value
          /\ alerts'[n].startedAt = alerts[n].startedAt
          /\ alerts'[n].status = "RESOLVED"
    BY <1>3, ResolveRows DEF EngineInv
  <2>2. n \in DOMAIN alerts /\ alerts[n].status = "ACTIVE"
    BY DEF FindActive
  <2>3. alerts[n] \in AlertRow /\ alerts'[n] \in AlertRow
    BY <2>1, <2>2 DEF EngineInv, AlertsTypeOK
  <2>4. alerts'[n] = [alerts[n] EXCEPT !.status = "RESOLVED",
                                       !.resolvedAt = alerts'[n].resolvedAt]
    BY <2>1, <2>3 DEF AlertRow
  <2>5. OnlyResolves(n)
    BY <2>1, <2>2, <2>4 DEF OnlyResolves
  <2>. QED
    BY <1>0, <2>1, <2>5 DEF HistoryStep
<1>. QED
  BY <1>1, <1>2, <1>3, EvaluateCases

\* The alert history is never rewritten: RESOLVED is final, an ACTIVE row keeps
\* its breach, one evaluation touches one row.
THEOREM EngineHistory == EngineSpec => HistoryIsKept
<1>1. EngineInv /\ [EngineNext]_alerts => [HistoryStep]_alerts
  BY EvaluateKeepsHistory, RecordAssumption DEF EngineNext
<1>. QED
  BY <1>1, EngineInvariant, PTL DEF HistoryIsKept, EngineInv, EngineSpec

-----------------------------------------------------------------------------
\* The rows of a key are finitely many.
LEMMA RowsFinite ==
  ASSUME AlertsTypeOK, NEW k
  PROVE  IsFiniteSet(RowsOfKey(k)) /\ Cardinality(RowsOfKey(k)) \in Nat
<1>1. RowsOfKey(k) \subseteq 1..Len(alerts) /\ Len(alerts) \in Nat
  BY DEF RowsOfKey, AlertsTypeOK
<1>2. IsFiniteSet(1..Len(alerts))
  BY <1>1, FS_Interval
<1>. QED
  BY <1>1, <1>2, FS_Subset, FS_CardinalityType

\* One evaluation is a step of the contract, or none.
LEMMA EvaluateImplements ==
  ASSUME EngineInv, NEW r \in TelemetryRecord, EvaluateRecord(r)
  PROVE  [Contract!Next]_Contract!vars
<1> DEFINE op == [k \in Key |-> Open(k)]
           ep == [k \in Key |-> Cardinality(RowsOfKey(k))]
<1>1. CASE UNCHANGED alerts
  BY <1>1 DEF Contract!vars, Open, FindActive, RowsOfKey
<1>2. CASE Relevant(r.metric) /\ Raise(r)
  <2> DEFINE k == KeyOf(r)
  <2>0. k \in Key
    BY <1>2, KeyOfType
  <2>1. /\ Len(alerts') = Len(alerts) + 1 /\ alerts' \in Seq(AlertRow)
        /\ \A n \in DOMAIN alerts : n \in DOMAIN alerts' /\ alerts'[n] = alerts[n]
        /\ alerts'[Len(alerts) + 1] = NewAlert(r)
    BY <1>2, RaiseRows DEF EngineInv
  <2>2. DOMAIN alerts = 1..Len(alerts) /\ DOMAIN alerts' = 1..(Len(alerts) + 1)
        /\ Len(alerts) \in Nat
    BY <2>1 DEF EngineInv, AlertsTypeOK
  <2>3. ~Open(k) /\ Breaching(r)
    BY <1>2 DEF Raise, Open
  <2>4. op' = [op EXCEPT ![k] = TRUE]
    <3>1. Open(k)' = TRUE
      BY <1>2, <2>0, <2>3, EvaluateDecides
    <3>2. \A j \in Key : j # k => (Open(j)' = Open(j))
      BY EvaluateDecides DEF Open
    <3>. QED
      BY <2>0, <3>1, <3>2, Zenon
  <2>5. \A j \in Key : j # k => RowsOfKey(j)' = RowsOfKey(j)
    BY <2>1, <2>2 DEF RowsOfKey, NewAlert
  <2>6. Cardinality(RowsOfKey(k)') = Cardinality(RowsOfKey(k)) + 1
    <3>1. RowsOfKey(k)' = RowsOfKey(k) \cup {Len(alerts) + 1}
      BY <2>1, <2>2 DEF RowsOfKey, NewAlert
    <3>2. Len(alerts) + 1 \notin RowsOfKey(k)
      BY <2>2 DEF RowsOfKey
    <3>. QED
      BY <3>1, <3>2, RowsFinite, FS_AddElement DEF EngineInv
  <2>7. ep' = [ep EXCEPT ![k] = @ + 1]
    BY <2>0, <2>5, <2>6
  <2>. QED
    BY <2>0, <2>3, <2>4, <2>7 DEF Contract!Next, Contract!Open
<1>3. CASE Relevant(r.metric) /\ Resolve(r)
  <2> DEFINE k == KeyOf(r)
  <2>0. k \in Key
    BY <1>3, KeyOfType
  <2>1. PICK n \in FindActive(KeyOf(r)) :
          /\ alerts' \in Seq(AlertRow) /\ Len(alerts') = Len(alerts)
          /\ \A i \in DOMAIN alerts \ {n} : alerts'[i] = alerts[i]
          /\ alerts'[n].key = alerts[n].key
    BY <1>3, ResolveRows DEF EngineInv
  <2>2. DOMAIN alerts' = DOMAIN alerts
    BY <2>1 DEF EngineInv, AlertsTypeOK
  <2>3. Open(k) /\ ~Breaching(r)
    BY <1>3 DEF Resolve, Open
  <2>4. op' = [op EXCEPT ![k] = FALSE]
    <3>1. Open(k)' = FALSE
      BY <1>3, <2>0, <2>3, EvaluateDecides DEF Open
    <3>2. \A j \in Key : j # k => (Open(j)' = Open(j))
      BY EvaluateDecides DEF Open
    <3>. QED
      BY <2>0, <3>1, <3>2, Zenon
  <2>5. \A j \in Key : RowsOfKey(j)' = RowsOfKey(j)
    BY <2>1, <2>2 DEF RowsOfKey
  <2>6. ep' = ep
    BY <2>5
  <2>. QED
    BY <2>0, <2>3, <2>4, <2>6 DEF Contract!Next, Contract!Close
<1>. QED
  BY <1>1, <1>2, <1>3, EvaluateCases

\* A step that leaves the table alone is none of the contract, and the empty table
\* is where the contract starts.
LEMMA StutterImplements == UNCHANGED alerts => [Contract!Next]_Contract!vars
BY DEF Contract!vars, Open, FindActive, RowsOfKey

LEMMA InitImplements == EngineInit => Contract!Init
<1> SUFFICES ASSUME EngineInit PROVE Contract!Init
  OBVIOUS
<1>1. \A k \in Key : RowsOfKey(k) = {} /\ Open(k) = FALSE
  BY DEF EngineInit, RowsOfKey, Open, FindActive
<1>2. Cardinality({}) = 0
  BY FS_EmptySet
<1>. QED
  BY <1>1, <1>2 DEF Contract!Init

\* The engine implements the contract: it reports a condition as ongoing or
\* not, and one row per episode, for any thresholds and any records.
THEOREM EngineImplementsContract == EngineSpec => ImplementsContract
<1>1. EngineInv /\ [EngineNext]_alerts => [Contract!Next]_Contract!vars
  BY EvaluateImplements, StutterImplements, RecordAssumption DEF EngineNext
<1>. QED
  BY <1>1, InitImplements, EngineInvariant, PTL
     DEF ImplementsContract, Contract!Spec, EngineInv, EngineSpec
=============================================================================
