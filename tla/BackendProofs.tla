---------------------------- MODULE BackendProofs ----------------------------
(***************************************************************************)
(* Proofs about Backend, for any calls, batches, devices, interfaces and   *)
(* thresholds.  The inductive invariant is in three parts: the types, the  *)
(* discipline of the handler (what is evaluated comes before what is not)  *)
(* and the agreement of the tables with the rows evaluated so far.         *)
(***************************************************************************)
EXTENDS Backend, AlertEngineProofs, WellFoundedInduction, SequenceTheorems

-----------------------------------------------------------------------------
\* A non-empty set of naturals has a minimum: the handler's next row exists.
LEMMA MinOfNat ==
  ASSUME NEW S \in SUBSET Nat, S # {}
  PROVE  Min(S) \in S /\ \A x \in S : Min(S) \leq x
<1>1. PICK m \in S : \A y \in S : ~(<<y, m>> \in OpToRel(<, Nat))
  BY NatLessThanWellFounded, WFMin
<1>2. \A y \in S : ~(y < m)
  <2>. SUFFICES ASSUME NEW y \in S, y < m PROVE FALSE
    OBVIOUS
  <2>1. <<y, m>> \in OpToRel(<, Nat)
    BY Zenon DEF OpToRel
  <2>. QED
    BY <1>1, <2>1
<1>3. \A y \in S : m \leq y
  BY <1>2
<1>. QED
  BY <1>3 DEF Min

\* A bounded non-empty set of naturals has a maximum: the last record of a kind
\* in a batch exists.
LEMMA MaxOfNat ==
  ASSUME NEW S \in SUBSET Nat, S # {}, NEW b \in Nat, \A x \in S : x \leq b
  PROVE  Max(S) \in S /\ \A x \in S : x \leq Max(S)
<1> DEFINE T == {b - x : x \in S}
<1>1. T \in SUBSET Nat /\ T # {}
  <2>1. \A x \in S : b - x \in Nat
    OBVIOUS
  <2>. QED
    BY <2>1
<1>2. PICK m \in T : \A y \in T : m \leq y
  BY <1>1, MinOfNat
<1>3. PICK x \in S : m = b - x
  OBVIOUS
<1>4. \A y \in S : y \leq x
  BY <1>2, <1>3
<1>. QED
  BY <1>4 DEF Max

-----------------------------------------------------------------------------
\* The valid records of a batch are records, at positions of the batch.
LEMMA ValidType ==
  ASSUME NEW b \in Batch \cup {<<>>}
  PROVE  /\ Len(b) \in Nat /\ Valid(b) \subseteq 1..Len(b)
         /\ \A i \in Valid(b) : b[i] \in Record
<1>1. CASE b = <<>>
  BY <1>1 DEF Valid
<1>2. CASE b \in Batch
  BY <1>2, BatchAssumption DEF Valid
<1>. QED
  BY <1>1, <1>2

\* The keys given to a batch are new, and above every key in the table.
LEMMA RowsType ==
  ASSUME TypeOK, NEW b \in Batch \cup {<<>>}
  PROVE  /\ RowsOf(b) \subseteq (lastRow + 1)..(lastRow + Len(b))
         /\ \A n \in RowsOf(b) : n - lastRow \in Valid(b)
         /\ RowsOf(b) \cap DOMAIN metrics = {}
<1>1. lastRow \in Nat /\ DOMAIN metrics \subseteq 1..lastRow
  BY DEF TypeOK
<1>2. Len(b) \in Nat /\ Valid(b) \subseteq 1..Len(b)
  BY ValidType
<1>. QED
  BY <1>1, <1>2 DEF RowsOf

\* The metrics table only grows, by the records of the batch.
LEMMA StoreMetricsType ==
  ASSUME TypeOK, NEW b \in Batch \cup {<<>>}, StoreMetrics(b)
  PROVE  /\ lastRow' \in Nat /\ lastRow' = lastRow + Len(b)
         /\ DOMAIN metrics' = DOMAIN metrics \cup RowsOf(b)
         /\ DOMAIN metrics' \subseteq 1..lastRow'
         /\ metrics' \in [DOMAIN metrics' -> Record]
         /\ \A n \in DOMAIN metrics : metrics'[n] = metrics[n]
         /\ \A n \in RowsOf(b) : metrics'[n] = b[n - lastRow]
<1>1. lastRow \in Nat /\ DOMAIN metrics \subseteq 1..lastRow
      /\ metrics \in [DOMAIN metrics -> Record]
  BY DEF TypeOK
<1>2. Len(b) \in Nat /\ \A i \in Valid(b) : b[i] \in Record
  BY ValidType
<1>3. /\ DOMAIN metrics' = DOMAIN metrics \cup RowsOf(b)
      /\ \A n \in DOMAIN metrics' :
           metrics'[n] = IF n \in DOMAIN metrics THEN metrics[n] ELSE b[n - lastRow]
      /\ metrics' = [n \in DOMAIN metrics' |-> metrics'[n]]
  BY DEF StoreMetrics
<1>4. \A n \in DOMAIN metrics' : metrics'[n] \in Record
  BY <1>1, <1>2, <1>3, RowsType
<1>5. lastRow' = lastRow + Len(b)
  BY DEF StoreMetrics
<1>6. DOMAIN metrics' \subseteq 1..lastRow'
  BY <1>1, <1>2, <1>3, <1>5, RowsType
<1>. QED
  BY <1>1, <1>2, <1>3, <1>4, <1>5, <1>6, RowsType

\* The last position of a kind of valid record is a position of that kind.
LEMMA LastPosition ==
  ASSUME NEW b \in Batch \cup {<<>>}, NEW S \in SUBSET Valid(b), S # {}
  PROVE  Max(S) \in S /\ \A i \in S : i \leq Max(S)
<1>1. Len(b) \in Nat /\ Valid(b) \subseteq 1..Len(b)
  BY ValidType
<1>2. S \in SUBSET Nat /\ \A x \in S : x \leq Len(b)
  BY <1>1
<1>. QED
  BY <1>1, <1>2, MaxOfNat

LEMMA StoreDevicesType ==
  ASSUME TypeOK, NEW b \in Batch \cup {<<>>}, StoreDevices(b)
  PROVE  /\ devices' \in [DOMAIN devices' -> [reachable : BOOLEAN, lastSeen : Int]]
         /\ DOMAIN devices' \subseteq Device
<1> DEFINE Of(d) == {i \in Valid(b) : b[i].device = d}
           ReachOf(d) == {i \in Of(d) : b[i].metric = "device_reachable"}
           Was(d) == IF d \in DOMAIN devices THEN devices[d].reachable ELSE TRUE
           Row(d) == [reachable |-> IF ReachOf(d) = {} THEN Was(d)
                                    ELSE b[Max(ReachOf(d))].value # 0,
                      lastSeen  |-> b[Max(Of(d))].time]
           D == DOMAIN devices \cup {b[i].device : i \in Valid(b)}
<1>1. devices' = [d \in D |-> IF Of(d) = {} THEN devices[d] ELSE Row(d)]
  BY DEF StoreDevices
<1>2. D \subseteq Device
  BY ValidType, RecordAssumption DEF TypeOK, TelemetryRecord
<1>3. ASSUME NEW d \in D
      PROVE  (IF Of(d) = {} THEN devices[d] ELSE Row(d))
                \in [reachable : BOOLEAN, lastSeen : Int]
  <2>1. CASE Of(d) = {}
    <3>1. d \in DOMAIN devices
      BY <2>1
    <3>. QED
      BY <2>1, <3>1 DEF TypeOK
  <2>2. CASE Of(d) # {}
    <3>1. b[Max(Of(d))].time \in Int
      <4>1. Max(Of(d)) \in Valid(b)
        BY <2>2, LastPosition
      <4>. QED
        BY <4>1, ValidType, RecordAssumption DEF TelemetryRecord
    <3>2. Was(d) \in BOOLEAN
      BY DEF TypeOK
    <3>. QED
      BY <2>2, <3>1, <3>2
  <2>. QED
    BY <2>1, <2>2
<1>. QED
  BY <1>1, <1>2, <1>3

LEMMA StoreInterfacesType ==
  ASSUME TypeOK, NEW b \in Batch \cup {<<>>}, StoreInterfaces(b)
  PROVE  /\ interfaces' \in [DOMAIN interfaces' -> Interface]
         /\ DOMAIN interfaces' \subseteq Device \X Int
<1> DEFINE Named == {i \in Valid(b) : b[i].interface # NoInterface}
           Slot(i) == <<b[i].device, b[i].index>>
           Of(s) == {i \in Named : Slot(i) = s}
           D == DOMAIN interfaces \cup {Slot(i) : i \in Named}
<1>1. interfaces' = [s \in D |-> IF Of(s) = {} THEN interfaces[s]
                                 ELSE b[Max(Of(s))].interface]
  BY DEF StoreInterfaces
<1>2. \A i \in Valid(b) : /\ b[i].device \in Device /\ b[i].index \in Int
                          /\ b[i].interface \in Interface \cup {NoInterface}
  BY ValidType, RecordAssumption DEF TelemetryRecord
<1>3. D \subseteq Device \X Int
  BY <1>2 DEF TypeOK
<1>4. ASSUME NEW s \in D
      PROVE  (IF Of(s) = {} THEN interfaces[s] ELSE b[Max(Of(s))].interface) \in Interface
  <2>1. CASE Of(s) = {}
    BY <2>1 DEF TypeOK
  <2>2. CASE Of(s) # {}
    <3>1. Max(Of(s)) \in Of(s)
      BY <2>2, LastPosition
    <3>. QED
      BY <2>2, <3>1, <1>2
  <2>. QED
    BY <2>1, <2>2
<1>. QED
  BY <1>1, <1>3, <1>4

-----------------------------------------------------------------------------
\* The handler works through the rows in order: what is evaluated lies before
\* what is still to do, and only a running call has rows to do.
LoopInv == /\ \A m \in evaluated, n \in todo : m < n
           /\ todo # {} => running # NoCall

\* AlertsMatchReadings without the rows that were never evaluated: each alert
\* agrees with the last evaluated reading of its key.  This is what each step
\* preserves; AlertsMatchReadings itself says nothing of a key whose last
\* reading is pending, so it does not carry over when that one is evaluated.
LastEvaluated(n) == \A m \in evaluated : SameKey(m, n) => m \leq n

AgreeInv == \A n \in evaluated :
              (Relevant(metrics[n].metric) /\ LastEvaluated(n))
                => (Open(KeyOf(metrics[n])) <=> Breaching(metrics[n]))

\* The reachability flag of a device is what its last reachability record said;
\* without one the device is as reachable as it was created.
ReachRows(d) == {n \in DOMAIN metrics : /\ metrics[n].device = d
                                        /\ metrics[n].metric = "device_reachable"}

DevicesInv ==
  \A d \in Device :
    /\ \A n \in ReachRows(d) :
          (\A m \in ReachRows(d) : m \leq n)
            => d \in DOMAIN devices /\ (devices[d].reachable <=> metrics[n].value # 0)
    /\ (ReachRows(d) = {} /\ d \in DOMAIN devices) => devices[d].reachable

IndInv == /\ TypeOK /\ OneActivePerKey /\ LoopInv
          /\ AgreeInv /\ AlertsAreJustified /\ DevicesInv

\* A transaction that stores a batch disturbs no evaluated row, so what was
\* said of the evaluated rows still holds.
LEMMA ExtendMetrics ==
  ASSUME TypeOK, AgreeInv, AlertsAreJustified,
         UNCHANGED <<alerts, evaluated>>,
         \A n \in DOMAIN metrics : metrics'[n] = metrics[n]
  PROVE  AgreeInv' /\ AlertsAreJustified'
<1>1. \A n \in evaluated : metrics'[n] = metrics[n]
  BY DEF TypeOK
<1>2. \A m, n \in evaluated : SameKey(m, n)' <=> SameKey(m, n)
  BY <1>1 DEF SameKey
<1>3. AgreeInv'
  BY <1>1, <1>2 DEF AgreeInv, LastEvaluated, Open, FindActive
<1>4. AlertsAreJustified'
  BY <1>1, <1>2 DEF AlertsAreJustified, StartedBy, EndedBy
<1>. QED
  BY <1>3, <1>4

\* The evaluation of the next row settles the alert of its own key and leaves
\* the others alone.
LEMMA EvaluateAgrees ==
  ASSUME TypeOK, OneActivePerKey, AgreeInv,
         NEW n \in DOMAIN metrics, \A m \in evaluated : m < n,
         EvaluateRecord(metrics[n]),
         evaluated' = evaluated \cup {n}, UNCHANGED metrics
  PROVE  AgreeInv'
<1>1. SUFFICES ASSUME NEW i \in evaluated', Relevant(metrics[i].metric), LastEvaluated(i)'
               PROVE  Open(KeyOf(metrics[i]))' <=> Breaching(metrics[i])
  BY DEF AgreeInv
<1>2. metrics[n] \in Record /\ i \in DOMAIN metrics /\ metrics[i] \in Record
      /\ n \in Nat /\ evaluated \subseteq Nat /\ EngineInv
  BY DEF TypeOK, EngineInv
<1>3. KeyOf(metrics[i]) \in Key
  BY <1>1, <1>2, KeyOfType, RecordAssumption
<1>4. CASE Relevant(metrics[n].metric) /\ KeyOf(metrics[i]) = KeyOf(metrics[n])
  <2>1. SameKey(n, i)'
    BY <1>1, <1>4 DEF SameKey
  <2>2. n \leq i
    BY <2>1, <1>1 DEF LastEvaluated
  <2>3. i = n
    <3>1. i \in evaluated \/ i = n
      BY <1>1
    <3>2. ASSUME i \in evaluated PROVE FALSE
      <4>1. i < n
        BY <3>2
      <4>2. i \in Nat /\ n \in Nat
        BY <1>2, <3>2
      <4>. QED
        BY <2>2, <4>1, <4>2
    <3>. QED
      BY <3>1, <3>2
  <2>4. PICK k \in Key : k = KeyOf(metrics[n])
    BY <1>3, <1>4
  <2>5. Open(k)' <=> Breaching(metrics[n])
    BY <2>4, <1>2, <1>4, EvaluateDecides, RecordAssumption
  <2>. QED
    BY <2>3, <2>4, <2>5
<1>5. CASE ~(Relevant(metrics[n].metric) /\ KeyOf(metrics[i]) = KeyOf(metrics[n]))
  <2>1. i # n
    BY <1>1, <1>5
  <2>2. i \in evaluated /\ LastEvaluated(i)
    BY <2>1, <1>1 DEF LastEvaluated, SameKey
  <2>3. Open(KeyOf(metrics[i])) <=> Breaching(metrics[i])
    BY <2>2, <1>1 DEF AgreeInv
  <2>4. Open(KeyOf(metrics[i]))' <=> Open(KeyOf(metrics[i]))
    <3>1. PICK k \in Key : k = KeyOf(metrics[i])
      BY <1>3
    <3>2. ~(Relevant(metrics[n].metric) /\ k = KeyOf(metrics[n]))
      BY <1>5, <3>1
    <3>3. Open(k)' <=> Open(k)
      BY <3>2, <1>2, EvaluateDecides, RecordAssumption
    <3>. QED
      BY <3>1, <3>3
  <2>. QED
    BY <2>3, <2>4
<1>. QED
  BY <1>4, <1>5

\* The evaluation of the next row is what justifies the alert it raises, and the
\* resolution of the one it resolves.
LEMMA EvaluateJustifies ==
  ASSUME TypeOK, OneActivePerKey, AlertsAreJustified,
         NEW n \in DOMAIN metrics, \A m \in evaluated : m < n,
         EvaluateRecord(metrics[n]),
         evaluated' = evaluated \cup {n}, UNCHANGED metrics
  PROVE  AlertsAreJustified'
<1>1. metrics[n] \in Record /\ n \in Nat /\ evaluated \subseteq Nat /\ EngineInv
      /\ AlertsTypeOK
  BY DEF TypeOK, EngineInv
<1>2. \A i, j : SameKey(i, j)' <=> SameKey(i, j)
  BY DEF SameKey
\* A row that the step leaves as it is keeps its justification.
<1>3. ASSUME NEW a \in DOMAIN alerts, alerts'[a] = alerts[a]
      PROVE  \E p \in evaluated' :
               /\ StartedBy(a, p)'
               /\ alerts'[a].status = "RESOLVED" => \E q \in evaluated' : EndedBy(a, p, q)'
  <2>1. PICK p \in evaluated :
          /\ StartedBy(a, p)
          /\ alerts[a].status = "RESOLVED" => \E q \in evaluated : EndedBy(a, p, q)
    BY DEF AlertsAreJustified
  <2>2. StartedBy(a, p)' /\ \A q : EndedBy(a, p, q) => EndedBy(a, p, q)'
    BY <2>1, <1>2, <1>3 DEF StartedBy, EndedBy
  <2>. QED
    BY <2>1, <2>2, <1>3
<1>4. CASE UNCHANGED alerts
  BY <1>3, <1>4 DEF AlertsAreJustified
<1>5. CASE Relevant(metrics[n].metric) /\ Raise(metrics[n])
  <2>1. /\ alerts' \in Seq(AlertRow) /\ Len(alerts') = Len(alerts) + 1
        /\ \A a \in DOMAIN alerts : a \in DOMAIN alerts' /\ alerts'[a] = alerts[a]
        /\ alerts'[Len(alerts) + 1] = NewAlert(metrics[n])
    BY <1>1, <1>5, RaiseRows, RecordAssumption
  <2>2. PICK last \in Nat : last = Len(alerts) + 1
    BY <1>1 DEF AlertsTypeOK
  <2>3. DOMAIN alerts' = DOMAIN alerts \cup {last}
    BY <2>1, <2>2, <1>1 DEF AlertsTypeOK
  <2>4. StartedBy(last, n)' /\ alerts'[last].status = "ACTIVE"
    BY <2>1, <2>2, <1>5 DEF StartedBy, NewAlert, Raise, KeyOf, Breaching
  <2>5. \A a \in DOMAIN alerts :
          \E q \in evaluated' :
             /\ StartedBy(a, q)'
             /\ alerts'[a].status = "RESOLVED" => \E m \in evaluated' : EndedBy(a, q, m)'
    BY <1>3, <2>1
  <2>. QED
    BY <2>3, <2>4, <2>5 DEF AlertsAreJustified
<1>6. CASE Relevant(metrics[n].metric) /\ Resolve(metrics[n])
  <2>1. PICK a \in FindActive(KeyOf(metrics[n])) :
          /\ alerts' \in Seq(AlertRow) /\ Len(alerts') = Len(alerts)
          /\ \A i \in DOMAIN alerts \ {a} : alerts'[i] = alerts[i]
          /\ alerts'[a].key = alerts[a].key
          /\ alerts'[a].value = alerts[a].value
          /\ alerts'[a].startedAt = alerts[a].startedAt
          /\ alerts'[a].resolvedAt = metrics[n].time
    BY <1>1, <1>6, ResolveRows, RecordAssumption
  <2>2. DOMAIN alerts' = DOMAIN alerts /\ a \in DOMAIN alerts
        /\ alerts[a].key = KeyOf(metrics[n])
    BY <2>1, <1>1 DEF AlertsTypeOK, FindActive
  <2>3. PICK p \in evaluated : StartedBy(a, p)
    BY <2>2 DEF AlertsAreJustified
  <2>4. StartedBy(a, p)'
    BY <2>1, <2>3 DEF StartedBy
  <2>5. EndedBy(a, p, n)'
    <3>1. n > p
      BY <1>1, <2>3
    <3>2. SameKey(n, p) /\ ~Breaching(metrics[n])
      BY <1>6, <2>2, <2>3 DEF SameKey, StartedBy, Resolve
    <3>. QED
      BY <2>1, <3>1, <3>2, <1>2 DEF EndedBy
  <2>6. \A i \in DOMAIN alerts \ {a} :
          \E q \in evaluated' :
             /\ StartedBy(i, q)'
             /\ alerts'[i].status = "RESOLVED" => \E m \in evaluated' : EndedBy(i, q, m)'
    BY <1>3, <2>1
  <2>. QED
    BY <2>2, <2>3, <2>4, <2>5, <2>6 DEF AlertsAreJustified
<1>. QED
  BY <1>1, <1>4, <1>5, <1>6, EvaluateCases, RecordAssumption

-----------------------------------------------------------------------------
\* The transaction of a batch sets the flag of each device to its last
\* reachability record, in the batch or before it.
LEMMA StoreKeepsDevices ==
  ASSUME TypeOK, DevicesInv, NEW c \in Call, Store(c)
  PROVE  DevicesInv'
<1> DEFINE b == request[c]
<1>1. b \in Batch \cup {<<>>} /\ StoreMetrics(b) /\ StoreDevices(b)
  BY DEF TypeOK, Store
<1> HIDE DEF b
<1>2. /\ lastRow \in Nat /\ DOMAIN metrics \subseteq 1..lastRow
      /\ DOMAIN metrics' = DOMAIN metrics \cup RowsOf(b)
      /\ \A n \in DOMAIN metrics : metrics'[n] = metrics[n]
      /\ \A n \in RowsOf(b) : metrics'[n] = b[n - lastRow]
  BY <1>1, StoreMetricsType DEF TypeOK
<1>3. /\ RowsOf(b) = {lastRow + i : i \in Valid(b)}
      /\ Valid(b) \subseteq 1..Len(b) /\ Len(b) \in Nat
  BY <1>1, ValidType DEF RowsOf
<1>4. SUFFICES ASSUME NEW d \in Device
               PROVE  /\ \A n \in ReachRows(d)' :
                           (\A m \in ReachRows(d)' : m \leq n)
                              => /\ d \in DOMAIN devices'
                                 /\ devices'[d].reachable <=> metrics'[n].value # 0
                      /\ (ReachRows(d)' = {} /\ d \in DOMAIN devices')
                            => devices'[d].reachable
  BY DEF DevicesInv
<1> DEFINE Of == {i \in Valid(b) : b[i].device = d}
           Reach == {i \in Of : b[i].metric = "device_reachable"}
           Was == IF d \in DOMAIN devices THEN devices[d].reachable ELSE TRUE
<1>5. /\ DOMAIN devices' = DOMAIN devices \cup {b[i].device : i \in Valid(b)}
      /\ (d \in DOMAIN devices /\ Of = {}) => devices'[d] = devices[d]
      /\ Of # {} => /\ d \in DOMAIN devices'
                    /\ devices'[d].reachable
                         = IF Reach = {} THEN Was ELSE b[Max(Reach)].value # 0
  BY <1>1 DEF StoreDevices
<1>6. ReachRows(d)' = ReachRows(d) \cup {lastRow + i : i \in Reach}
  BY <1>2, <1>3 DEF ReachRows
<1>7. CASE Reach = {}
  <2>1. ReachRows(d)' = ReachRows(d) /\ \A n \in ReachRows(d) : metrics'[n] = metrics[n]
    BY <1>2, <1>6, <1>7 DEF ReachRows
  <2>2. d \in DOMAIN devices => d \in DOMAIN devices' /\ devices'[d].reachable = devices[d].reachable
    BY <1>5, <1>7
  <2>3. (d \in DOMAIN devices' /\ d \notin DOMAIN devices) => devices'[d].reachable
    BY <1>5, <1>7
  <2>. QED
    BY <2>1, <2>2, <2>3 DEF DevicesInv
<1>8. CASE Reach # {}
  <2>1. PICK i \in Reach : i = Max(Reach) /\ \A j \in Reach : j \leq i
    BY <1>1, <1>8, LastPosition
  <2>2. d \in DOMAIN devices' /\ devices'[d].reachable = (b[i].value # 0)
    BY <1>5, <1>8, <2>1
  <2>3. i \in Nat /\ lastRow + i \in ReachRows(d)' /\ i \geq 1
    <3>1. i \in Valid(b) /\ lastRow + i \in {lastRow + j : j \in Reach}
      BY <2>1
    <3>. QED
      BY <1>1, <1>6, <3>1, ValidType
  <2>4. \A n \in ReachRows(d)' : (\A m \in ReachRows(d)' : m \leq n) => n = lastRow + i
    <3>1. SUFFICES ASSUME NEW n \in ReachRows(d)', lastRow + i \leq n
                   PROVE  n = lastRow + i
      BY <2>3
    <3>2. CASE n \in ReachRows(d)
      <4>1. n \leq lastRow /\ n \in Nat
        BY <1>2, <3>2 DEF ReachRows
      <4>. QED
        BY <1>2, <2>3, <3>1, <4>1
    <3>3. CASE n \in {lastRow + j : j \in Reach}
      <4>1. PICK j \in Reach : n = lastRow + j
        BY <3>3
      <4>2. j \leq i /\ j \in Nat
        BY <1>3, <2>1
      <4>. QED
        BY <1>2, <2>3, <3>1, <4>1, <4>2
    <3>. QED
      BY <1>6, <3>2, <3>3
  <2>5. metrics'[lastRow + i] = b[i]
    <3>1. lastRow + i \in RowsOf(b)
      BY <2>1 DEF RowsOf
    <3>2. (lastRow + i) - lastRow = i
      BY <1>2, <2>3
    <3>. QED
      BY <1>2, <1>3, <3>1, <3>2
  <2>. QED
    BY <2>2, <2>3, <2>4, <2>5
<1>. QED
  BY <1>7, <1>8

\* What leaves both tables alone leaves the flags right.
LEMMA KeepDevices ==
  ASSUME DevicesInv, UNCHANGED <<metrics, devices>>
  PROVE  DevicesInv'
BY DEF DevicesInv, ReachRows

-----------------------------------------------------------------------------
\* The steps that only move calls about: no table and no row of the handler's
\* work changes, but that a crash forgets the work.
LEMMA CallStepsKeepInv ==
  ASSUME IndInv,
         \/ \E c \in Call, b \in Batch : Arrive(c, b)
         \/ \E c \in Call : Cancel(c)
         \/ Reply \/ Crash \/ Restart
  PROVE  IndInv'
<1>1. UNCHANGED <<tables, ghosts>> /\ (todo' = todo \/ todo' = {})
  BY DEF Arrive, Cancel, Reply, Crash, Restart
<1>2. AgreeInv' /\ AlertsAreJustified'
  BY <1>1, ExtendMetrics DEF IndInv, tables, ghosts
<1>3. OneActivePerKey'
  BY <1>1 DEF IndInv, OneActivePerKey, FindActive, tables
<1>4. LoopInv'
  <2>1. todo' # {} => (running' = running \/ todo = {})
    BY DEF Arrive, Cancel, Reply, Crash, Restart
  <2>. QED
    BY <1>1, <2>1 DEF IndInv, LoopInv, ghosts
<1>5. /\ status' \in [Call -> Status] /\ request' \in [Call -> Batch \cup {<<>>}]
      /\ queue' \in Seq(Call) /\ running' \in Call \cup {NoCall} /\ up' \in BOOLEAN
  <2>1. ASSUME NEW c \in Call, NEW b \in Batch, Arrive(c, b) PROVE <1>5
    BY <2>1 DEF IndInv, TypeOK, Arrive, Status
  <2>2. ASSUME NEW c \in Call, Cancel(c) PROVE <1>5
    <3>1. PICK j \in DOMAIN queue : queue' = RemoveAt(queue, j)
      BY <2>2 DEF Cancel
    <3>2. queue' \in Seq(Call)
      BY <3>1 DEF RemoveAt, IndInv, TypeOK
    <3>. QED
      BY <2>2, <3>2 DEF IndInv, TypeOK, Cancel, Status
  <2>3. CASE Reply
    BY <2>3 DEF IndInv, TypeOK, Reply, Status
  <2>4. CASE Crash
    <3>1. \A c \in Call : status[c] \in Status
      BY DEF IndInv, TypeOK
    <3>2. status' \in [Call -> Status]
      BY <2>4, <3>1 DEF Crash, Status
    <3>3. request' = request /\ queue' = <<>> /\ running' = NoCall /\ up' = FALSE
      BY <2>4 DEF Crash
    <3>4. request \in [Call -> Batch \cup {<<>>}] /\ <<>> \in Seq(Call)
      BY DEF IndInv, TypeOK
    <3>. QED
      BY <3>2, <3>3, <3>4
  <2>5. CASE Restart
    BY <2>5 DEF IndInv, TypeOK, Restart
  <2>. QED
    BY <2>1, <2>2, <2>3, <2>4, <2>5
<1>6. TypeOK'
  BY <1>1, <1>5 DEF IndInv, TypeOK, AlertsTypeOK, tables, ghosts
<1>7. DevicesInv'
  BY <1>1, KeepDevices DEF IndInv, tables
<1>. QED
  BY <1>2, <1>3, <1>4, <1>6, <1>7 DEF IndInv

\* The transaction of a batch, whether the handler goes on with it or not.
LEMMA StoreKeepsTypes ==
  ASSUME TypeOK, NEW c \in Call, Store(c)
  PROVE  /\ lastRow' \in Nat
         /\ metrics' \in [DOMAIN metrics' -> Record] /\ DOMAIN metrics' \subseteq 1..lastRow'
         /\ devices' \in [DOMAIN devices' -> [reachable : BOOLEAN, lastSeen : Int]]
         /\ DOMAIN devices' \subseteq Device
         /\ interfaces' \in [DOMAIN interfaces' -> Interface]
         /\ DOMAIN interfaces' \subseteq Device \X Int
         /\ stored' \in [Call -> SUBSET DOMAIN metrics']
         /\ RowsOf(request[c]) \subseteq DOMAIN metrics'
         /\ DOMAIN metrics \subseteq DOMAIN metrics'
         /\ \A n \in DOMAIN metrics : metrics'[n] = metrics[n] /\ n < lastRow + 1
         /\ \A n \in RowsOf(request[c]) : n \in Nat /\ n \geq lastRow + 1
<1>1. request[c] \in Batch \cup {<<>>}
  BY DEF TypeOK
<1>2. /\ StoreMetrics(request[c]) /\ StoreDevices(request[c]) /\ StoreInterfaces(request[c])
      /\ stored' = [stored EXCEPT ![c] = RowsOf(request[c])]
  BY DEF Store
<1>3. /\ lastRow' \in Nat
      /\ DOMAIN metrics' = DOMAIN metrics \cup RowsOf(request[c])
      /\ DOMAIN metrics' \subseteq 1..lastRow' /\ metrics' \in [DOMAIN metrics' -> Record]
      /\ \A n \in DOMAIN metrics : metrics'[n] = metrics[n]
  BY <1>1, <1>2, StoreMetricsType
<1>4. /\ devices' \in [DOMAIN devices' -> [reachable : BOOLEAN, lastSeen : Int]]
      /\ DOMAIN devices' \subseteq Device
  BY <1>1, <1>2, StoreDevicesType
<1>5. /\ interfaces' \in [DOMAIN interfaces' -> Interface]
      /\ DOMAIN interfaces' \subseteq Device \X Int
  BY <1>1, <1>2, StoreInterfacesType
<1>6. stored' \in [Call -> SUBSET DOMAIN metrics']
  BY <1>2, <1>3 DEF TypeOK
<1>7. lastRow \in Nat /\ DOMAIN metrics \subseteq 1..lastRow /\ Len(request[c]) \in Nat
      /\ RowsOf(request[c]) \subseteq (lastRow + 1)..(lastRow + Len(request[c]))
  BY <1>1, RowsType, ValidType DEF TypeOK
<1>. QED
  BY <1>3, <1>4, <1>5, <1>6, <1>7

\* The call at the head of the queue, when there is one.
LEMMA QueueHead ==
  ASSUME TypeOK, queue # <<>>
  PROVE  Head(queue) \in Call /\ Tail(queue) \in Seq(Call)
BY DEF TypeOK

LEMMA IngestKeepsInv ==
  ASSUME IndInv, Ingest
  PROVE  IndInv'
<1>0. Head(queue) \in Call /\ Tail(queue) \in Seq(Call)
  BY QueueHead DEF Ingest, IndInv
<1>1. PICK c \in Call :
        /\ Store(c) /\ running' = c /\ todo' = RowsOf(request[c])
        /\ status' = [status EXCEPT ![c] = "running"] /\ queue' = Tail(queue)
        /\ queue' \in Seq(Call)
  BY <1>0 DEF Ingest
<1>2. UNCHANGED <<alerts, request, up, evaluated>>
  BY DEF Ingest
<1>3. TypeOK'
  BY <1>1, <1>2, StoreKeepsTypes DEF IndInv, TypeOK, AlertsTypeOK, Status
<1>4. AgreeInv' /\ AlertsAreJustified'
  BY <1>1, <1>2, StoreKeepsTypes, ExtendMetrics DEF IndInv
<1>5. OneActivePerKey'
  BY <1>2 DEF IndInv, OneActivePerKey, FindActive
<1>6. LoopInv'
  <2>1. \A m \in evaluated, n \in RowsOf(request[c]) : m < n
    <3>1. ASSUME NEW m \in evaluated, NEW n \in RowsOf(request[c]) PROVE m < n
      <4>1. m \in DOMAIN metrics /\ m \in Nat /\ lastRow \in Nat
        BY DEF IndInv, TypeOK
      <4>2. m < lastRow + 1 /\ n \geq lastRow + 1 /\ n \in Nat
        BY <1>1, <4>1, StoreKeepsTypes DEF IndInv
      <4>. QED
        BY <4>1, <4>2
    <3>. QED
      BY <3>1
  <2>2. running' # NoCall
    BY <1>1, NoCallAssumption
  <2>. QED
    BY <1>1, <1>2, <2>1, <2>2 DEF LoopInv
<1>7. DevicesInv'
  BY <1>1, StoreKeepsDevices DEF IndInv
<1>. QED
  BY <1>3, <1>4, <1>5, <1>6, <1>7 DEF IndInv

LEMMA IngestFailsKeepsInv ==
  ASSUME IndInv, NEW applied \in BOOLEAN, IngestFails(applied)
  PROVE  IndInv'
<1>0. Head(queue) \in Call /\ Tail(queue) \in Seq(Call)
  BY QueueHead DEF IngestFails, IndInv
<1>1. PICK c \in Call :
        /\ \/ Store(c)
           \/ UNCHANGED <<metrics, lastRow, devices, interfaces, stored>>
        /\ status' = [status EXCEPT ![c] = "rejected"] /\ queue' = Tail(queue)
        /\ queue' \in Seq(Call)
  BY <1>0 DEF IngestFails
<1>2. UNCHANGED <<alerts, request, running, todo, up, evaluated>>
  BY DEF IngestFails
<1>3. TypeOK' /\ \A n \in DOMAIN metrics : metrics'[n] = metrics[n]
  <2>1. CASE Store(c)
    BY <1>1, <1>2, <2>1, StoreKeepsTypes DEF IndInv, TypeOK, AlertsTypeOK, Status
  <2>2. CASE UNCHANGED <<metrics, lastRow, devices, interfaces, stored>>
    BY <1>1, <1>2, <2>2 DEF IndInv, TypeOK, AlertsTypeOK, Status
  <2>. QED
    BY <1>1, <2>1, <2>2
<1>4. AgreeInv' /\ AlertsAreJustified'
  BY <1>2, <1>3, ExtendMetrics DEF IndInv
<1>5. OneActivePerKey' /\ LoopInv'
  BY <1>2 DEF IndInv, OneActivePerKey, FindActive, LoopInv
<1>6. DevicesInv'
  BY <1>1, StoreKeepsDevices, KeepDevices DEF IndInv
<1>. QED
  BY <1>3, <1>4, <1>5, <1>6 DEF IndInv

\* One turn of the evaluation loop, whether or not it goes on.
LEMMA EvaluateNextRow ==
  ASSUME IndInv, todo # {}, EvaluateRecord(metrics[Min(todo)]),
         evaluated' = evaluated \cup {Min(todo)}, UNCHANGED metrics
  PROVE  /\ AlertsTypeOK' /\ OneActivePerKey' /\ AgreeInv' /\ AlertsAreJustified'
         /\ evaluated' \in SUBSET DOMAIN metrics
         /\ \A m \in evaluated', n \in todo \ {Min(todo)} : m < n
<1>1. todo \in SUBSET Nat /\ todo \subseteq DOMAIN metrics /\ evaluated \subseteq Nat
  BY DEF IndInv, TypeOK
<1>2. PICK n \in todo : n = Min(todo) /\ \A x \in todo : n \leq x
  BY <1>1, MinOfNat
<1>3. \A m \in evaluated : m < n
  BY DEF IndInv, LoopInv
<1>4. metrics[n] \in Record /\ EngineInv
  BY <1>1 DEF IndInv, TypeOK, EngineInv
<1>5. EngineInv'
  BY <1>2, <1>4, EvaluateKeepsInv, RecordAssumption
<1>6. AgreeInv' /\ AlertsAreJustified'
  BY <1>1, <1>2, <1>3, EvaluateAgrees, EvaluateJustifies DEF IndInv
<1>7. \A m \in evaluated', x \in todo \ {n} : m < x
  <2>1. \A x \in todo \ {n} : n < x
    BY <1>1, <1>2
  <2>. QED
    BY <1>2, <2>1 DEF IndInv, LoopInv
<1>. QED
  BY <1>1, <1>2, <1>5, <1>6, <1>7 DEF EngineInv, IndInv, TypeOK

LEMMA EvaluateStepKeepsInv ==
  ASSUME IndInv, Evaluate
  PROVE  IndInv'
<1>1. /\ todo # {} /\ EvaluateRecord(metrics[Min(todo)])
      /\ todo' = todo \ {Min(todo)} /\ evaluated' = evaluated \cup {Min(todo)}
      /\ UNCHANGED <<metrics, lastRow, devices, interfaces, stored,
                     status, request, queue, running, up>>
  BY DEF Evaluate
<1>2. /\ AlertsTypeOK' /\ OneActivePerKey' /\ AgreeInv' /\ AlertsAreJustified'
      /\ evaluated' \in SUBSET DOMAIN metrics
      /\ \A m \in evaluated', n \in todo \ {Min(todo)} : m < n
  BY <1>1, EvaluateNextRow
<1>3. TypeOK'
  BY <1>1, <1>2 DEF IndInv, TypeOK
<1>4. LoopInv' /\ DevicesInv'
  BY <1>1, <1>2, KeepDevices DEF IndInv, LoopInv
<1>. QED
  BY <1>2, <1>3, <1>4 DEF IndInv

LEMMA EvaluateFailsKeepsInv ==
  ASSUME IndInv, NEW applied \in BOOLEAN, EvaluateFails(applied)
  PROVE  IndInv'
<1>1. /\ todo # {} /\ todo' = {} /\ running' = NoCall
      /\ status' = [status EXCEPT ![running] = "rejected"]
      /\ UNCHANGED <<metrics, lastRow, devices, interfaces, stored, request, queue, up>>
      /\ \/ EvaluateRecord(metrics[Min(todo)]) /\ evaluated' = evaluated \cup {Min(todo)}
         \/ UNCHANGED <<alerts, evaluated>>
  BY DEF EvaluateFails
<1>2. /\ AlertsTypeOK' /\ OneActivePerKey' /\ AgreeInv' /\ AlertsAreJustified'
      /\ evaluated' \in SUBSET DOMAIN metrics
  <2>1. CASE EvaluateRecord(metrics[Min(todo)]) /\ evaluated' = evaluated \cup {Min(todo)}
    BY <1>1, <2>1, EvaluateNextRow
  <2>2. CASE UNCHANGED <<alerts, evaluated>>
    BY <1>1, <2>2, ExtendMetrics
       DEF IndInv, TypeOK, AlertsTypeOK, OneActivePerKey, FindActive
  <2>. QED
    BY <1>1, <2>1, <2>2
<1>3. TypeOK'
  BY <1>1, <1>2 DEF IndInv, TypeOK, Status
<1>4. LoopInv'
  BY <1>1 DEF LoopInv
<1>5. DevicesInv'
  BY <1>1, KeepDevices DEF IndInv
<1>. QED
  BY <1>2, <1>3, <1>4, <1>5 DEF IndInv

-----------------------------------------------------------------------------
LEMMA InitInv == Init => IndInv
<1> SUFFICES ASSUME Init PROVE IndInv
  OBVIOUS
<1>1. DOMAIN metrics = {} /\ DOMAIN devices = {} /\ DOMAIN interfaces = {}
  BY DEF Init
<1>2. TypeOK
  BY <1>1 DEF Init, TypeOK, EngineInit, AlertsTypeOK, Status
<1>3. OneActivePerKey /\ LoopInv /\ AgreeInv /\ AlertsAreJustified
  BY DEF Init, EngineInit, OneActivePerKey, FindActive, LoopInv, AgreeInv,
         AlertsAreJustified
<1>4. DevicesInv
  BY <1>1 DEF DevicesInv, ReachRows
<1>. QED
  BY <1>2, <1>3, <1>4 DEF IndInv

LEMMA StutterInv == IndInv /\ UNCHANGED vars => IndInv'
<1> SUFFICES ASSUME IndInv, UNCHANGED vars PROVE IndInv'
  OBVIOUS
<1>1. AgreeInv' /\ AlertsAreJustified'
  BY ExtendMetrics DEF IndInv, vars, tables, ghosts
<1>2. TypeOK' /\ OneActivePerKey' /\ LoopInv'
  BY DEF IndInv, TypeOK, AlertsTypeOK, OneActivePerKey, FindActive, LoopInv,
         vars, tables, calls, ghosts
<1>3. DevicesInv'
  BY KeepDevices DEF IndInv, vars, tables
<1>. QED
  BY <1>1, <1>2, <1>3 DEF IndInv

LEMMA NextInv == IndInv /\ [Next]_vars => IndInv'
<1> SUFFICES ASSUME IndInv, [Next]_vars PROVE IndInv'
  OBVIOUS
<1>1. CASE \/ \E c \in Call, b \in Batch : Arrive(c, b)
           \/ \E c \in Call : Cancel(c)
           \/ Reply \/ Crash \/ Restart
  BY <1>1, CallStepsKeepInv
<1>2. CASE Ingest
  BY <1>2, IngestKeepsInv
<1>3. CASE Evaluate
  BY <1>3, EvaluateStepKeepsInv
<1>4. CASE \E applied \in BOOLEAN : IngestFails(applied)
  BY <1>4, IngestFailsKeepsInv
<1>5. CASE \E applied \in BOOLEAN : EvaluateFails(applied)
  BY <1>5, EvaluateFailsKeepsInv
<1>6. CASE UNCHANGED vars
  BY <1>6, StutterInv
<1>. QED
  BY <1>1, <1>2, <1>3, <1>4, <1>5, <1>6 DEF Next, Handle

\* The inductive invariant of the backend: the types, the order of the evaluation
\* and the agreement of the tables (ingestion_service.py:40-73).
THEOREM BackendInvariant == Spec => []IndInv
<1>. QED
  BY InitInv, NextInv, PTL DEF Spec

\* The tables and the state of the calls keep their types.
THEOREM BackendTypes == Spec => []TypeOK
<1>1. IndInv => TypeOK
  BY DEF IndInv
<1>. QED
  BY <1>1, BackendInvariant, PTL

\* Whatever calls arrive, fail, are cancelled or are cut off by a crash, a
\* condition never has two ACTIVE alerts.
THEOREM BackendDeduplicates == Spec => []OneActivePerKey
<1>1. IndInv => OneActivePerKey
  BY DEF IndInv
<1>. QED
  BY <1>1, BackendInvariant, PTL

\* Once the last stored reading of a condition has been evaluated, the alerts
\* table says of the condition what the reading says.
THEOREM BackendAlertsMatch == Spec => []AlertsMatchReadings
<1>1. IndInv => AlertsMatchReadings
  <2> SUFFICES ASSUME IndInv, NEW n \in evaluated, IsLatest(n)
               PROVE  LastEvaluated(n)
    BY DEF IndInv, AgreeInv, AlertsMatchReadings
  <2>. QED
    BY DEF IndInv, TypeOK, IsLatest, LastEvaluated
<1>. QED
  BY <1>1, BackendInvariant, PTL

\* Every alert and every resolution is backed by stored, evaluated readings.
THEOREM BackendAlertsJustified == Spec => []AlertsAreJustified
<1>1. IndInv => AlertsAreJustified
  BY DEF IndInv
<1>. QED
  BY <1>1, BackendInvariant, PTL

\* Unless its last reachability record waits for evaluation, a device is marked
\* unreachable exactly when it has an ACTIVE DEVICE_DOWN alert.
THEOREM BackendReachable == Spec => []ReachableMatchesAlert
<1>1. IndInv => ReachableMatchesAlert
  <2> SUFFICES ASSUME IndInv PROVE ReachableMatchesAlert
    OBVIOUS
  <2> SUFFICES ASSUME NEW d \in Device, NEW k, k = AlertKey(d, NoInterface, "device_reachable"),
                      \A n \in ReachRows(d) : IsLatest(n) => n \in evaluated
               PROVE  Open(k) <=> (d \in DOMAIN devices /\ ~devices[d].reachable)
    BY DEF ReachableMatchesAlert, ReachRows
  <2>1. \A n \in DOMAIN metrics :
          /\ n \in Nat /\ n \leq lastRow /\ metrics[n] \in Record
          /\ (Relevant(metrics[n].metric) /\ KeyOf(metrics[n]) = k) <=> n \in ReachRows(d)
    BY RecordAssumption DEF TelemetryRecord, IndInv, TypeOK, ReachRows, KeyOf, AlertKey, Relevant
  <2>2. CASE ReachRows(d) = {}
    <3>1. ~Open(k)
      BY <2>1, <2>2 DEF IndInv, TypeOK, AlertsAreJustified, StartedBy, Open, FindActive
    <3>. QED
      BY <2>2, <3>1 DEF IndInv, DevicesInv
  <2>3. CASE ReachRows(d) # {}
    <3>1. PICK n \in ReachRows(d) : \A m \in ReachRows(d) : m \leq n
      <4>1. ReachRows(d) \subseteq Nat /\ \A m \in ReachRows(d) : m \leq lastRow
        BY <2>1 DEF ReachRows
      <4>2. lastRow \in Nat
        BY DEF IndInv, TypeOK
      <4>. QED
        BY <2>3, <4>1, <4>2, MaxOfNat
    <3>2. n \in DOMAIN metrics /\ Relevant(metrics[n].metric) /\ KeyOf(metrics[n]) = k
      BY <2>1 DEF ReachRows
    <3>3. IsLatest(n)
      BY <2>1, <3>1, <3>2 DEF IsLatest, SameKey
    <3>4. n \in evaluated /\ LastEvaluated(n)
      BY <3>1, <3>3 DEF IndInv, TypeOK, IsLatest, LastEvaluated
    <3>5. Open(k) <=> Breaching(metrics[n])
      BY <3>2, <3>4 DEF IndInv, AgreeInv
    <3>6. Breaching(metrics[n]) <=> metrics[n].value = 0
      BY <2>1, RecordAssumption DEF TelemetryRecord, Breaching, ReachRows
    <3>. QED
      BY <3>1, <3>5, <3>6 DEF IndInv, DevicesInv
  <2>. QED
    BY <2>2, <2>3
<1>. QED
  BY <1>1, BackendInvariant, PTL
-----------------------------------------------------------------------------
\* A step of the backend evaluates one stored record, or leaves the alerts alone.
LEMMA StepsOfEngine == TypeOK /\ [Next]_vars => [EngineNext]_alerts
<1> SUFFICES ASSUME TypeOK, [Next]_vars PROVE [EngineNext]_alerts
  OBVIOUS
<1>1. CASE todo # {} /\ EvaluateRecord(metrics[Min(todo)])
  <2>1. Min(todo) \in DOMAIN metrics
    BY <1>1, MinOfNat DEF TypeOK
  <2>. QED
    BY <1>1, <2>1 DEF TypeOK, EngineNext
<1>2. UNCHANGED alerts \/ (todo # {} /\ EvaluateRecord(metrics[Min(todo)]))
  BY DEF Next, Handle, Arrive, Cancel, Ingest, IngestFails, Evaluate, EvaluateFails,
         Reply, Crash, Restart, tables, vars
<1>. QED
  BY <1>1, <1>2

\* The backend implements the engine: whatever arrives, fails, is cancelled or cut off
\* by a crash, its alerts table is one the engine makes of some records.
THEOREM BackendImplementsEngine == Spec => EngineSpec
<1>1. Init => EngineInit
  BY DEF Init
<1>. QED
  BY <1>1, StepsOfEngine, BackendTypes, PTL DEF Spec, EngineSpec

\* No crash, failed batch or cancelled call rewrites the alert history: a RESOLVED row
\* is final and an ACTIVE one keeps its breach.
THEOREM BackendHistory == Spec => HistoryIsKept
BY BackendImplementsEngine, EngineHistory, PTL

\* The contract of the engine survives the backend around it: a condition is ongoing or
\* not, and has one row per episode.
THEOREM BackendImplementsContract == Spec => ImplementsContract
BY BackendImplementsEngine, EngineImplementsContract, PTL

-----------------------------------------------------------------------------
\* The calls that wait are distinct and none of them has run; the call being
\* handled is the only one that runs.
QueueInv == /\ \A i \in DOMAIN queue : status[queue[i]] = "queued"
            /\ \A i, j \in DOMAIN queue : queue[i] = queue[j] => i = j
            /\ running # NoCall => status[running] = "running"
            /\ \A c \in Call : status[c] = "running" => running = c

\* The rows of a call are the valid records of its batch, under keys in the
\* order of their positions.
HoldsBatch(c) ==
  \E first \in 0..lastRow :
    /\ stored[c] = {first + i : i \in Valid(request[c])}
    /\ \A i \in Valid(request[c]) : metrics[first + i] = request[c][i]

\* What the rows of a call are at each point of its handling.
CallRowsInv ==
  \A c \in Call :
    /\ status[c] \in {"new", "queued", "cancelled"} => stored[c] = {}
    /\ status[c] \in {"running", "accepted"} => HoldsBatch(c)
    /\ status[c] = "running" => stored[c] \subseteq evaluated \cup todo
    /\ status[c] = "accepted" => stored[c] \subseteq evaluated
    /\ \A d \in Call \ {c} : stored[c] \cap stored[d] = {}

CallInv == QueueInv /\ CallRowsInv

\* What a removal leaves of a sequence.
LEMMA RemoveAtIndex ==
  ASSUME NEW S, NEW s \in Seq(S), NEW i \in DOMAIN s
  PROVE  /\ RemoveAt(s, i) \in Seq(S)
         /\ Len(RemoveAt(s, i)) = Len(s) - 1
         /\ \A j \in DOMAIN RemoveAt(s, i) :
              RemoveAt(s, i)[j] = s[IF j < i THEN j ELSE j + 1]
<1>1. RemoveAt(s, i) = SubSeq(s, 1, i - 1) \o SubSeq(s, i + 1, Len(s))
  BY DEF RemoveAt
<1>2. i \in 1..Len(s) /\ Len(s) \in Nat /\ \A j \in 1..Len(s) : s[j] \in S
  OBVIOUS
<1>3. PICK u : u = SubSeq(s, 1, i - 1)
  OBVIOUS
<1>4. PICK v : v = SubSeq(s, i + 1, Len(s))
  OBVIOUS
<1>5. u \in Seq(S) /\ Len(u) = i - 1 /\ \A j \in 1..(i - 1) : u[j] = s[j]
  BY <1>2, <1>3, SubSeqProperties
<1>6. v \in Seq(S) /\ Len(v) = Len(s) - i /\ \A j \in 1..(Len(s) - i) : v[j] = s[i + j]
  BY <1>2, <1>4, SubSeqProperties
<1>7. /\ u \o v \in Seq(S) /\ Len(u \o v) = Len(s) - 1
      /\ \A j \in DOMAIN (u \o v) :
           (u \o v)[j] = IF j < i THEN u[j] ELSE v[j - (i - 1)]
  BY <1>2, <1>5, <1>6
<1>8. \A j \in DOMAIN (u \o v) : (u \o v)[j] = s[IF j < i THEN j ELSE j + 1]
  <2>1. SUFFICES ASSUME NEW j \in DOMAIN (u \o v)
                 PROVE  (u \o v)[j] = s[IF j < i THEN j ELSE j + 1]
    OBVIOUS
  <2>2. j \in 1..(Len(s) - 1) /\ i \in 1..Len(s) /\ Len(s) \in Nat
    BY <1>2, <1>7
  <2>3. CASE j < i
    BY <1>5, <1>7, <2>2, <2>3
  <2>4. CASE ~(j < i)
    <3>1. j - (i - 1) \in 1..(Len(s) - i) /\ i + (j - (i - 1)) = j + 1
      BY <2>2, <2>4
    <3>. QED
      BY <1>6, <1>7, <2>4, <3>1
  <2>. QED
    BY <2>3, <2>4
<1>. QED
  BY <1>1, <1>3, <1>4, <1>7, <1>8

\* A call keeps the rows it has while the table grows around them.
LEMMA KeepHoldsBatch ==
  ASSUME TypeOK, NEW c \in Call, HoldsBatch(c),
         lastRow' \in Nat, lastRow \leq lastRow',
         stored'[c] = stored[c], request'[c] = request[c],
         \A n \in DOMAIN metrics : metrics'[n] = metrics[n]
  PROVE  HoldsBatch(c)'
<1>1. PICK first \in 0..lastRow :
        /\ stored[c] = {first + i : i \in Valid(request[c])}
        /\ \A i \in Valid(request[c]) : metrics[first + i] = request[c][i]
  BY DEF HoldsBatch
<1>2. first \in 0..lastRow'
  BY DEF TypeOK
<1>3. \A i \in Valid(request[c]) : first + i \in DOMAIN metrics
  BY <1>1 DEF TypeOK
<1>4. Valid(request[c])' = Valid(request[c])
  BY DEF Valid
<1>. QED
  BY <1>1, <1>2, <1>3, <1>4 DEF HoldsBatch

\* A transaction gives the call its batch and touches the rows of no other call.
LEMMA StoreHoldsBatch ==
  ASSUME TypeOK, CallRowsInv, NEW c \in Call, Store(c), UNCHANGED request
  PROVE  /\ HoldsBatch(c)' /\ stored'[c] = RowsOf(request[c])
         /\ lastRow' \in Nat /\ lastRow \leq lastRow'
         /\ \A n \in DOMAIN metrics : metrics'[n] = metrics[n]
         /\ \A d \in Call \ {c} : stored'[d] = stored[d] /\ stored'[c] \cap stored[d] = {}
<1> DEFINE b == request[c]
<1>1. /\ b \in Batch \cup {<<>>} /\ StoreMetrics(b)
      /\ stored' = [stored EXCEPT ![c] = RowsOf(b)]
  BY DEF TypeOK, Store
<1>2. request'[c] = b /\ stored \in [Call -> SUBSET DOMAIN metrics] /\ lastRow \in Nat
  BY DEF TypeOK
<1> HIDE DEF b
<1>3. /\ lastRow' \in Nat /\ lastRow' = lastRow + Len(b)
      /\ \A n \in DOMAIN metrics : metrics'[n] = metrics[n]
      /\ \A n \in RowsOf(b) : metrics'[n] = b[n - lastRow]
  BY <1>1, StoreMetricsType
<1>4. Len(b) \in Nat /\ Valid(b) \subseteq 1..Len(b)
  BY <1>1, ValidType
<1>5. RowsOf(b) \cap DOMAIN metrics = {}
  BY <1>1, RowsType
<1>6. stored'[c] = RowsOf(b)
      /\ \A d \in Call \ {c} : stored'[d] = stored[d] /\ stored'[c] \cap stored[d] = {}
  BY <1>1, <1>2, <1>5
<1>7. lastRow \in 0..lastRow' /\ lastRow \leq lastRow'
  BY <1>2, <1>3, <1>4
<1>8. \A i \in Valid(b) : metrics'[lastRow + i] = b[i]
  <2>1. SUFFICES ASSUME NEW i \in Valid(b) PROVE metrics'[lastRow + i] = b[i]
    OBVIOUS
  <2>2. lastRow + i \in RowsOf(b) /\ (lastRow + i) - lastRow = i
    BY <1>2, <1>4 DEF RowsOf
  <2>. QED
    BY <1>3, <2>2
<1>9. HoldsBatch(c)'
  <2>1. Valid(request[c])' = Valid(b)
    BY <1>2 DEF Valid
  <2>. QED
    BY <1>2, <1>6, <1>7, <1>8, <2>1 DEF HoldsBatch, RowsOf
<1>. QED
  BY <1>3, <1>6, <1>7, <1>9 DEF b

\* The steps that store nothing: a call keeps its rows.
LEMMA KeepAllHoldsBatch ==
  ASSUME TypeOK, NEW c \in Call, HoldsBatch(c), request'[c] = request[c],
         UNCHANGED <<metrics, lastRow, stored>>
  PROVE  HoldsBatch(c)'
BY KeepHoldsBatch DEF TypeOK

LEMMA ArriveKeepsCalls ==
  ASSUME TypeOK, CallInv, NEW c \in Call, NEW b \in Batch, Arrive(c, b)
  PROVE  CallInv'
<1>1. /\ status[c] = "new" /\ status' = [status EXCEPT ![c] = "queued"]
      /\ queue' = Append(queue, c) /\ UNCHANGED <<tables, ghosts, running, todo>>
      /\ request' = [request EXCEPT ![c] = b]
      /\ status \in [Call -> Status] /\ queue \in Seq(Call)
      /\ running \in Call \cup {NoCall}
      /\ request \in [Call -> Batch \cup {<<>>}]
  BY DEF Arrive, TypeOK
<1>2. QueueInv'
  <2>1. \A i \in DOMAIN queue : queue[i] # c
    BY <1>1 DEF CallInv, QueueInv
  <2>2. DOMAIN queue' = DOMAIN queue \cup {Len(queue) + 1}
        /\ queue'[Len(queue) + 1] = c
        /\ \A i \in DOMAIN queue : queue'[i] = queue[i] /\ queue[i] \in Call
    BY <1>1
  <2>3. \A i \in DOMAIN queue' : status'[queue'[i]] = "queued"
    BY <1>1, <2>1, <2>2 DEF CallInv, QueueInv
  <2>4. \A i, j \in DOMAIN queue' : queue'[i] = queue'[j] => i = j
    BY <2>1, <2>2 DEF CallInv, QueueInv
  <2>5. (running' # NoCall => status'[running'] = "running")
        /\ \A d \in Call : status'[d] = "running" => running' = d
    BY <1>1 DEF CallInv, QueueInv
  <2>. QED
    BY <2>3, <2>4, <2>5 DEF QueueInv
<1>3. CallRowsInv'
  <2>1. ASSUME NEW d \in Call, d # c, HoldsBatch(d) PROVE HoldsBatch(d)'
    BY <1>1, <2>1, KeepAllHoldsBatch DEF tables, ghosts
  <2>2. stored[c] = {} /\ stored' = stored /\ evaluated' = evaluated
        /\ \A d \in Call \ {c} : status'[d] = status[d]
        /\ status'[c] = "queued"
    BY <1>1 DEF CallInv, CallRowsInv, ghosts
  <2>. QED
    BY <1>1, <2>1, <2>2 DEF CallInv, CallRowsInv
<1>. QED
  BY <1>2, <1>3 DEF CallInv

LEMMA CancelKeepsCalls ==
  ASSUME TypeOK, CallInv, NEW c \in Call, Cancel(c)
  PROVE  CallInv'
<1>1. /\ status' = [status EXCEPT ![c] = "cancelled"]
      /\ UNCHANGED <<tables, ghosts, request, running, todo>>
      /\ status \in [Call -> Status] /\ queue \in Seq(Call)
      /\ running \in Call \cup {NoCall}
  BY DEF Cancel, TypeOK
<1>2. PICK k \in DOMAIN queue : queue[k] = c /\ queue' = RemoveAt(queue, k)
  BY DEF Cancel
<1>3. status[c] = "queued" /\ stored[c] = {}
  BY <1>2 DEF CallInv, QueueInv, CallRowsInv
<1>4. QueueInv'
  <2>1. /\ Len(queue') = Len(queue) - 1 /\ queue' \in Seq(Call)
        /\ \A j \in DOMAIN queue' : queue'[j] = queue[IF j < k THEN j ELSE j + 1]
    BY <1>1, <1>2, RemoveAtIndex
  <2>2. \A j \in DOMAIN queue' :
          (IF j < k THEN j ELSE j + 1) \in DOMAIN queue \ {k}
    BY <1>1, <2>1
  <2>3. \A j \in DOMAIN queue' : queue'[j] # c /\ status[queue'[j]] = "queued"
                                  /\ queue'[j] \in Call
    BY <1>1, <1>2, <2>1, <2>2 DEF CallInv, QueueInv
  <2>4. \A i, j \in DOMAIN queue' : queue'[i] = queue'[j] => i = j
    <3>1. SUFFICES ASSUME NEW i \in DOMAIN queue', NEW j \in DOMAIN queue',
                          queue'[i] = queue'[j]
                   PROVE  i = j
      OBVIOUS
    <3>2. (IF i < k THEN i ELSE i + 1) = (IF j < k THEN j ELSE j + 1)
      BY <2>1, <2>2, <3>1 DEF CallInv, QueueInv
    <3>3. i \in Nat /\ j \in Nat /\ k \in Nat
      BY <1>1, <2>1
    <3>. QED
      BY <3>2, <3>3
  <2>5. (running' # NoCall => status'[running'] = "running")
        /\ \A d \in Call : status'[d] = "running" => running' = d
    BY <1>1, <1>3 DEF CallInv, QueueInv
  <2>. QED
    BY <1>1, <2>3, <2>4, <2>5 DEF QueueInv
<1>5. CallRowsInv'
  <2>1. ASSUME NEW d \in Call, HoldsBatch(d) PROVE HoldsBatch(d)'
    BY <1>1, <2>1, KeepAllHoldsBatch DEF tables, ghosts
  <2>. QED
    BY <1>1, <1>3, <2>1 DEF CallInv, CallRowsInv, ghosts
<1>. QED
  BY <1>4, <1>5 DEF CallInv

\* The call at the head of the queue leaves it for a state that is not "queued".
LEMMA HeadLeaves ==
  ASSUME TypeOK, CallInv, queue # <<>>, NEW s \in {"running", "rejected"},
         running = NoCall,
         status' = [status EXCEPT ![Head(queue)] = s], queue' = Tail(queue),
         running' = IF s = "running" THEN Head(queue) ELSE NoCall
  PROVE  QueueInv' /\ stored[Head(queue)] = {}
<1>1. PICK c \in Call : c = Head(queue)
  BY QueueHead
<1>2. queue \in Seq(Call) /\ queue[1] = c /\ 1 \in DOMAIN queue
      /\ status \in [Call -> Status]
  BY <1>1 DEF TypeOK
<1>3. queue' \in Seq(Call) /\ Len(queue') = Len(queue) - 1
      /\ \A i \in DOMAIN queue' : queue'[i] = queue[i + 1] /\ i + 1 \in DOMAIN queue /\ i \in Nat
                                   /\ i + 1 # 1
  BY <1>2
<1>4. status[c] = "queued" /\ stored[c] = {}
  BY <1>2 DEF CallInv, QueueInv, CallRowsInv
<1>5. \A i \in DOMAIN queue' : queue'[i] # c /\ queue'[i] \in Call
                                /\ status[queue'[i]] = "queued"
  BY <1>2, <1>3 DEF CallInv, QueueInv
<1>6. \A i, j \in DOMAIN queue' : queue'[i] = queue'[j] => i = j
  BY <1>3 DEF CallInv, QueueInv
<1>7. \A d \in Call : status[d] # "running"
  BY NoCallAssumption DEF CallInv, QueueInv
<1>8. \A d \in Call : status'[d] = "running" => running' = d
  BY <1>1, <1>2, <1>7
<1>9. running' # NoCall => status'[running'] = "running"
  BY <1>1, <1>2
<1>. QED
  BY <1>1, <1>2, <1>4, <1>5, <1>6, <1>8, <1>9 DEF QueueInv

LEMMA IngestKeepsCalls ==
  ASSUME TypeOK, CallInv, Ingest
  PROVE  CallInv'
<1>1. Head(queue) \in Call
  BY QueueHead DEF Ingest
<1>2. QueueInv' /\ stored[Head(queue)] = {}
  BY HeadLeaves DEF Ingest
<1>3. PICK c \in Call :
        /\ c = Head(queue) /\ Store(c) /\ todo' = RowsOf(request[c])
        /\ status' = [status EXCEPT ![c] = "running"]
        /\ UNCHANGED <<request, evaluated>>
  BY <1>1 DEF Ingest
<1>4. /\ HoldsBatch(c)' /\ stored'[c] = RowsOf(request[c])
      /\ lastRow' \in Nat /\ lastRow \leq lastRow'
      /\ \A n \in DOMAIN metrics : metrics'[n] = metrics[n]
      /\ \A d \in Call \ {c} : stored'[d] = stored[d] /\ stored'[c] \cap stored[d] = {}
  BY <1>3, StoreHoldsBatch DEF CallInv
<1>5. \A d \in Call \ {c} : HoldsBatch(d) => HoldsBatch(d)'
  <2>1. ASSUME NEW d \in Call \ {c}, HoldsBatch(d) PROVE HoldsBatch(d)'
    BY <1>3, <1>4, <2>1, KeepHoldsBatch
  <2>. QED
    BY <2>1
<1>6. \A d \in Call \ {c} : status'[d] = status[d] /\ status[d] # "running"
  BY <1>3, NoCallAssumption DEF TypeOK, CallInv, QueueInv, Ingest
<1>7. status'[c] = "running"
  BY <1>3 DEF TypeOK
<1>8. CallRowsInv'
  BY <1>3, <1>4, <1>5, <1>6, <1>7 DEF CallInv, CallRowsInv
<1>. QED
  BY <1>2, <1>8 DEF CallInv

LEMMA IngestFailsKeepsCalls ==
  ASSUME TypeOK, CallInv, NEW applied \in BOOLEAN, IngestFails(applied)
  PROVE  CallInv'
<1>1. Head(queue) \in Call
  BY QueueHead DEF IngestFails
<1>2. QueueInv' /\ stored[Head(queue)] = {}
  BY HeadLeaves DEF IngestFails
<1>3. PICK c \in Call :
        /\ c = Head(queue)
        /\ \/ Store(c)
           \/ UNCHANGED <<metrics, lastRow, stored>>
        /\ status' = [status EXCEPT ![c] = "rejected"]
        /\ UNCHANGED <<request, evaluated, todo>>
  BY <1>1 DEF IngestFails
<1>4. /\ lastRow' \in Nat /\ lastRow \leq lastRow'
      /\ \A n \in DOMAIN metrics : metrics'[n] = metrics[n]
      /\ \A d \in Call \ {c} : stored'[d] = stored[d] /\ stored'[c] \cap stored[d] = {}
  <2>1. CASE Store(c)
    BY <1>3, <2>1, StoreHoldsBatch DEF CallInv
  <2>2. CASE UNCHANGED <<metrics, lastRow, stored>>
    BY <2>2, <1>2, <1>3 DEF TypeOK
  <2>. QED
    BY <1>3, <2>1, <2>2
<1>5. \A d \in Call \ {c} : HoldsBatch(d) => HoldsBatch(d)'
  <2>1. ASSUME NEW d \in Call \ {c}, HoldsBatch(d) PROVE HoldsBatch(d)'
    BY <1>3, <1>4, <2>1, KeepHoldsBatch
  <2>. QED
    BY <2>1
<1>6. \A d \in Call \ {c} : status'[d] = status[d]
  BY <1>3 DEF TypeOK
<1>7. status'[c] = "rejected"
  BY <1>3 DEF TypeOK
<1>8. CallRowsInv'
  BY <1>3, <1>4, <1>5, <1>6, <1>7 DEF CallInv, CallRowsInv
<1>. QED
  BY <1>2, <1>8 DEF CallInv

\* The steps of the evaluation loop and the answer: the tables of readings stay,
\* and the running call may end.
LEMMA RunningKeepsCalls ==
  ASSUME TypeOK, CallInv, running # NoCall,
         UNCHANGED <<metrics, lastRow, stored, request, queue>>,
         evaluated \subseteq evaluated',
         \/ /\ UNCHANGED <<status, running>>
            /\ evaluated \cup todo \subseteq evaluated' \cup todo'
         \/ /\ status' = [status EXCEPT ![running] = "rejected"] /\ running' = NoCall
         \/ /\ status' = [status EXCEPT ![running] = "accepted"] /\ running' = NoCall
            /\ todo = {}
  PROVE  CallInv'
<1>1. PICK c \in Call : c = running /\ status[c] = "running"
  BY DEF TypeOK, CallInv, QueueInv
<1>2. /\ status \in [Call -> Status] /\ queue \in Seq(Call)
      /\ \A d \in Call \ {c} : status'[d] = status[d] /\ status[d] # "running"
      /\ status'[c] \in {"running", "rejected", "accepted"}
  BY <1>1 DEF TypeOK, CallInv, QueueInv
<1>3. QueueInv'
  <2>1. \A i \in DOMAIN queue : queue[i] \in Call /\ queue[i] # c
    BY <1>1, <1>2 DEF CallInv, QueueInv
  <2>2. \A i \in DOMAIN queue : status'[queue[i]] = "queued"
    BY <1>2, <2>1 DEF CallInv, QueueInv
  <2>3. (running' # NoCall => status'[running'] = "running")
        /\ \A d \in Call : status'[d] = "running" => running' = d
    BY <1>1, <1>2 DEF CallInv, QueueInv
  <2>. QED
    BY <2>2, <2>3 DEF QueueInv, CallInv
<1>4. \A d \in Call : HoldsBatch(d) => HoldsBatch(d)'
  <2>1. ASSUME NEW d \in Call, HoldsBatch(d) PROVE HoldsBatch(d)'
    BY <2>1, KeepAllHoldsBatch
  <2>. QED
    BY <2>1
<1>5. \A d \in Call \ {c} : stored[c] \cap stored[d] = {}
  BY DEF CallInv, CallRowsInv
<1>6. HoldsBatch(c)' /\ (status'[c] = "accepted" => stored[c] \subseteq evaluated')
      /\ (status'[c] = "running" => stored[c] \subseteq evaluated' \cup todo')
  BY <1>1, <1>2, <1>4 DEF CallInv, CallRowsInv
<1>7. CallRowsInv'
  BY <1>1, <1>2, <1>4, <1>5, <1>6 DEF CallInv, CallRowsInv
<1>. QED
  BY <1>3, <1>7 DEF CallInv

LEMMA CrashKeepsCalls ==
  ASSUME TypeOK, CallInv, Crash
  PROVE  CallInv'
<1>1. /\ UNCHANGED <<tables, ghosts, request>> /\ queue' = <<>> /\ running' = NoCall
      /\ \A c \in Call : status'[c] = IF status[c] \in {"queued", "running"}
                                         THEN "broken" ELSE status[c]
  BY DEF Crash
<1>2. QueueInv'
  BY <1>1 DEF QueueInv
<1>3. \A d \in Call : HoldsBatch(d) => HoldsBatch(d)'
  <2>1. ASSUME NEW d \in Call, HoldsBatch(d) PROVE HoldsBatch(d)'
    BY <1>1, <2>1, KeepAllHoldsBatch DEF tables, ghosts
  <2>. QED
    BY <2>1
<1>4. CallRowsInv'
  BY <1>1, <1>3 DEF CallInv, CallRowsInv, ghosts
<1>. QED
  BY <1>2, <1>4 DEF CallInv

LEMMA StutterKeepsCalls ==
  ASSUME TypeOK, CallInv, UNCHANGED <<metrics, lastRow, status, request, queue,
                                      running, todo, evaluated, stored>>
  PROVE  CallInv'
<1>1. \A d \in Call : HoldsBatch(d) => HoldsBatch(d)'
  <2>1. ASSUME NEW d \in Call, HoldsBatch(d) PROVE HoldsBatch(d)'
    BY <2>1, KeepAllHoldsBatch
  <2>. QED
    BY <2>1
<1>. QED
  BY <1>1 DEF CallInv, QueueInv, CallRowsInv

LEMMA CallInvNext == IndInv /\ CallInv /\ [Next]_vars => CallInv'
<1> SUFFICES ASSUME IndInv, CallInv, [Next]_vars PROVE CallInv'
  OBVIOUS
<1>0. TypeOK /\ (todo # {} => running # NoCall)
      /\ (todo # {} => Min(todo) \in todo)
  <2>1. todo \in SUBSET Nat
    BY DEF IndInv, TypeOK
  <2>. QED
    BY <2>1, MinOfNat DEF IndInv, LoopInv
<1>1. CASE \E c \in Call, b \in Batch : Arrive(c, b)
  BY <1>0, <1>1, ArriveKeepsCalls
<1>2. CASE \E c \in Call : Cancel(c)
  BY <1>0, <1>2, CancelKeepsCalls
<1>3. CASE Ingest
  BY <1>0, <1>3, IngestKeepsCalls
<1>4. CASE Evaluate
  <2>1. /\ UNCHANGED <<metrics, lastRow, stored, request, queue, status, running>>
        /\ evaluated' = evaluated \cup {Min(todo)} /\ todo' = todo \ {Min(todo)}
        /\ todo # {}
    BY <1>4 DEF Evaluate
  <2>2. evaluated \subseteq evaluated' /\ evaluated \cup todo \subseteq evaluated' \cup todo'
    BY <2>1
  <2>. QED
    BY <1>0, <2>1, <2>2, RunningKeepsCalls
<1>5. CASE Reply
  <2>1. /\ UNCHANGED <<metrics, lastRow, stored, request, queue, evaluated>>
        /\ status' = [status EXCEPT ![running] = "accepted"] /\ running' = NoCall
        /\ running # NoCall /\ todo = {}
    BY <1>5 DEF Reply, tables, ghosts
  <2>. QED
    BY <1>0, <2>1, RunningKeepsCalls
<1>6. CASE \E applied \in BOOLEAN : IngestFails(applied)
  BY <1>0, <1>6, IngestFailsKeepsCalls
<1>7. CASE \E applied \in BOOLEAN : EvaluateFails(applied)
  <2>1. /\ UNCHANGED <<metrics, lastRow, stored, request, queue>>
        /\ evaluated \subseteq evaluated' /\ todo # {}
        /\ status' = [status EXCEPT ![running] = "rejected"] /\ running' = NoCall
    BY <1>7 DEF EvaluateFails
  <2>. QED
    BY <1>0, <2>1, RunningKeepsCalls
<1>8. CASE Crash
  BY <1>0, <1>8, CrashKeepsCalls
<1>9. CASE Restart \/ UNCHANGED vars
  BY <1>0, <1>9, StutterKeepsCalls DEF Restart, vars, tables, calls, ghosts
<1>. QED
  BY <1>1, <1>2, <1>3, <1>4, <1>5, <1>6, <1>7, <1>8, <1>9 DEF Next, Handle

LEMMA CallInvInit == Init => CallInv
BY DEF Init, CallInv, QueueInv, CallRowsInv

\* The calls that wait are distinct and have stored nothing, and a call that
\* runs or was accepted holds its whole batch (servicer.py:29-51).
THEOREM CallInvariant == Spec => []CallInv
<1>. QED
  BY CallInvInit, CallInvNext, BackendInvariant, PTL DEF Spec

\* accepted=True means that every valid record of the batch is stored, once, and
\* evaluated; a call whose handler did not start has left nothing behind.
THEOREM BackendAcceptedComplete == Spec => []AcceptedIsComplete
<1>1. CallInv => AcceptedIsComplete
  BY DEF CallInv, CallRowsInv, HoldsBatch, AcceptedIsComplete
<1>. QED
  BY <1>1, CallInvariant, PTL

-----------------------------------------------------------------------------
\* Rows and calls belong together: every row was written for a call, and the rows
\* of a call are records of its batch, whatever became of the call afterwards.
RowsInv ==
  /\ \A n \in DOMAIN metrics : \E c \in Call : n \in stored[c]
  /\ \A c \in Call : \A n \in stored[c] :
       \E i \in Valid(request[c]) : metrics[n] = request[c][i]

\* Rows are stored for the first call in the queue only, which then leaves it.
LEMMA StoringSteps ==
  ASSUME [Next]_vars
  PROVE  \/ UNCHANGED <<metrics, stored, devices>>
         \/ /\ queue # <<>> /\ Store(Head(queue)) /\ queue' = Tail(queue)
            /\ UNCHANGED request
<1>1. CASE \E c \in Call, b \in Batch : Arrive(c, b)
  BY <1>1 DEF Arrive, tables, ghosts
<1>2. CASE \E c \in Call : Cancel(c)
  BY <1>2 DEF Cancel, tables, ghosts
<1>3. CASE Ingest
  BY <1>3 DEF Ingest
<1>4. CASE \E applied \in BOOLEAN : IngestFails(applied)
  BY <1>4 DEF IngestFails
<1>5. CASE Evaluate \/ \E applied \in BOOLEAN : EvaluateFails(applied)
  BY <1>5 DEF Evaluate, EvaluateFails
<1>6. CASE Reply \/ Crash \/ Restart \/ UNCHANGED vars
  BY <1>6 DEF Reply, Crash, Restart, vars, tables, ghosts
<1>. QED
  BY <1>1, <1>2, <1>3, <1>4, <1>5, <1>6 DEF Next, Handle

\* A call that has rows keeps its batch.
LEMMA RequestStays ==
  ASSUME CallInv, TypeOK, [Next]_vars, NEW c \in Call, stored[c] # {}
  PROVE  request'[c] = request[c]
<1>1. ASSUME NEW d \in Call, NEW b \in Batch, Arrive(d, b) PROVE request'[c] = request[c]
  <2>1. status[d] = "new" /\ request' = [request EXCEPT ![d] = b]
    BY <1>1 DEF Arrive
  <2>2. c # d
    BY <2>1 DEF CallInv, CallRowsInv
  <2>. QED
    BY <2>1, <2>2 DEF TypeOK
<1>2. CASE \E d \in Call : Cancel(d)
  BY <1>2 DEF Cancel
<1>3. CASE Handle
  BY <1>3 DEF Handle, Ingest, IngestFails, Evaluate, EvaluateFails, Reply
<1>4. CASE Crash \/ Restart \/ UNCHANGED vars
  BY <1>4 DEF Crash, Restart, vars, calls
<1>. QED
  BY <1>1, <1>2, <1>3, <1>4 DEF Next

\* A transaction gives a call its rows, each a record of its batch under a key above
\* those in the table.
LEMMA StoreRows ==
  ASSUME TypeOK, NEW c \in Call, Store(c)
  PROVE  /\ DOMAIN metrics' = DOMAIN metrics \cup stored'[c]
         /\ \A n \in DOMAIN metrics : metrics'[n] = metrics[n]
         /\ \A d \in Call \ {c} : stored'[d] = stored[d]
         /\ \A n \in stored'[c] :
              /\ \E i \in Valid(request[c]) : metrics'[n] = request[c][i]
              /\ n \notin DOMAIN metrics /\ \A m \in DOMAIN metrics : m < n
<1>1. PICK b : b = request[c]
  OBVIOUS
<1>2. /\ b \in Batch \cup {<<>>} /\ StoreMetrics(b)
      /\ stored' = [stored EXCEPT ![c] = RowsOf(b)] /\ stored \in [Call -> SUBSET DOMAIN metrics]
      /\ lastRow \in Nat /\ DOMAIN metrics \subseteq 1..lastRow
  BY <1>1 DEF TypeOK, Store
<1>3. stored'[c] = RowsOf(b) /\ \A d \in Call \ {c} : stored'[d] = stored[d]
  BY <1>2
<1>4. /\ DOMAIN metrics' = DOMAIN metrics \cup RowsOf(b)
      /\ \A n \in DOMAIN metrics : metrics'[n] = metrics[n]
      /\ \A n \in RowsOf(b) : metrics'[n] = b[n - lastRow]
  BY <1>2, StoreMetricsType
<1>5. /\ \A n \in RowsOf(b) : n - lastRow \in Valid(b)
      /\ RowsOf(b) \cap DOMAIN metrics = {}
      /\ RowsOf(b) \subseteq (lastRow + 1)..(lastRow + Len(b)) /\ Len(b) \in Nat
  BY <1>2, RowsType, ValidType
<1>6. \A n \in RowsOf(b) : \A m \in DOMAIN metrics : m < n
  BY <1>2, <1>5
<1>. QED
  BY <1>1, <1>3, <1>4, <1>5, <1>6

LEMMA RowsInvNext == TypeOK /\ CallInv /\ RowsInv /\ [Next]_vars => RowsInv'
<1> SUFFICES ASSUME TypeOK, CallInv, RowsInv, [Next]_vars PROVE RowsInv'
  OBVIOUS
<1>1. \A c \in Call : stored[c] # {} => request'[c] = request[c]
  BY RequestStays
<1>2. \A c \in Call : request'[c] = request[c] => Valid(request[c])' = Valid(request[c])
  BY DEF Valid
<1>3. CASE UNCHANGED <<metrics, stored, devices>>
  BY <1>1, <1>2, <1>3 DEF RowsInv
<1>4. CASE queue # <<>> /\ Store(Head(queue)) /\ UNCHANGED request
  <2>1. PICK c \in Call : c = Head(queue) /\ Store(c)
    BY <1>4, QueueHead
  <2>2. stored[c] = {}
    <3>1. status[c] = "queued"
      BY <1>4, <2>1 DEF CallInv, QueueInv, TypeOK
    <3>. QED
      BY <3>1 DEF CallInv, CallRowsInv
  <2>3. /\ DOMAIN metrics' = DOMAIN metrics \cup stored'[c]
        /\ \A n \in DOMAIN metrics : metrics'[n] = metrics[n]
        /\ \A d \in Call \ {c} : stored'[d] = stored[d]
        /\ \A n \in stored'[c] : \E i \in Valid(request[c]) : metrics'[n] = request[c][i]
    BY <2>1, StoreRows
  <2>4. \A d \in Call : stored[d] \subseteq DOMAIN metrics
    BY DEF TypeOK
  <2>5. \A n \in DOMAIN metrics' : \E d \in Call : n \in stored'[d]
    <3>1. SUFFICES ASSUME NEW n \in DOMAIN metrics, n \notin stored'[c]
                   PROVE  \E d \in Call : n \in stored'[d]
      BY <2>3
    <3>2. PICK d \in Call : n \in stored[d]
      BY DEF RowsInv
    <3>3. d # c
      BY <2>2, <3>2
    <3>. QED
      BY <2>3, <3>2, <3>3
  <2>6. ASSUME NEW d \in Call \ {c}, NEW n \in stored'[d]
        PROVE  \E i \in Valid(request[d]) : metrics'[n] = request[d][i]
    <3>1. n \in stored[d] /\ metrics'[n] = metrics[n]
      BY <2>3, <2>4, <2>6
    <3>. QED
      BY <3>1 DEF RowsInv
  <2>7. \A d \in Call : Valid(request[d])' = Valid(request[d]) /\ request'[d] = request[d]
    BY <1>4 DEF Valid
  <2>8. \A d \in Call : \A n \in stored'[d] :
          \E i \in Valid(request[d]) : metrics'[n] = request[d][i]
    BY <2>3, <2>6
  <2>. QED
    BY <2>5, <2>7, <2>8 DEF RowsInv
<1>. QED
  BY <1>3, <1>4, StoringSteps

LEMMA RowsInvInit == Init => RowsInv
BY DEF Init, RowsInv

\* The table of readings holds what the calls carried and nothing else: every row was
\* written for a call and is one of its valid records (ingestion_service.py:38-61).
THEOREM BackendRows == Spec => []RowsInv
<1>1. IndInv => TypeOK
  BY DEF IndInv
<1>. QED
  BY <1>1, RowsInvInit, RowsInvNext, BackendInvariant, CallInvariant, PTL DEF Spec
=============================================================================
