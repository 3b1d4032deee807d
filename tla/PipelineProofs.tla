---------------------------- MODULE PipelineProofs -----------------------------
(***************************************************************************)
(* Proofs about Pipeline and the Simulator in it, for any collectors,      *)
(* devices, interfaces, times of the polls, thresholds and figures of the  *)
(* rounding: the rate that a collector calculates is that of the scenario, *)
(* and the alerts are as the scenario that was last heard of has them.     *)
(***************************************************************************)
EXTENDS Pipeline, AlertEngineProofs, SequenceTheorems, WellFoundedInduction

Overrides == UNION {[D -> Scenario] : D \in SUBSET SimDevice}

SimType ==
  /\ clock \in Nat
  /\ default \in [App -> Scenario]
  /\ overrides \in [App -> Overrides]
  /\ counters \in [App -> [SimDevice -> [SimIndex -> [Direction -> Nat]]]]
  /\ lastPoll \in [App -> [SimDevice -> Nat \cup {Never}]]
  /\ DOMAIN previous = App
  /\ \A a \in App : DOMAIN previous[a] = SimDevice

\* A sample p that is remembered of a device has the time of its last poll t and its
\* counters c.
Current(p, t, c) ==
  p.reachable = TRUE =>
    /\ p.time = t /\ t # Never
    /\ DOMAIN p.ifs = SimIndex
    /\ \A i \in SimIndex, x \in Direction : p.ifs[i].count[x] = c[i][x]

\* The simulator and the collector count from the same poll.
InStep == \A a \in App, d \in SimDevice :
            Current(previous[a][d], lastPoll[a][d], counters[a][d])

SimInv == SimType /\ InStep

-----------------------------------------------------------------------------
\* The figures of scenarios.py are whole tenths of a percent of the line.
LEMMA WholeRates ==
  ASSUME NEW s \in Scenario, NEW x \in Direction
  PROVE  /\ Throughput[s][x] \in Nat
         /\ \E k \in Nat : Throughput[s][x] = 1250 * k
<1>1. s \in {"NORMAL", "HIGH_BANDWIDTH", "HIGH_LATENCY", "PACKET_LOSS", "DEVICE_DOWN", "RECOVERY"}
  BY DEF Scenario, Throughput
<1>2. \E k \in {0, 64, 100, 800, 900} : Throughput[s][x] = 1250 * k
  BY <1>1, DirectionAssumption DEF Throughput, Traffic
<1>. QED
  BY <1>2

LEMMA Quotient ==
  ASSUME NEW k \in Nat, NEW e \in Nat \ {0}
  PROVE  ((1250 * k) * e) \div (1250 * e) = k
<1>1. PICK b \in Nat \ {0} : b = 1250 * e
  OBVIOUS
<1>2. (1250 * k) * e = b * k
  BY <1>1
<1>3. (b * k) \div b = k
  OBVIOUS
<1>. QED
  BY <1>1, <1>2, <1>3

LEMMA UtilizationIsRate ==
  ASSUME NEW s \in Scenario, NEW x \in Direction, NEW e \in Nat \ {0}
  PROVE  Utilization(Throughput[s][x] * e, e) = RateOf(s, x)
<1>1. PICK k \in Nat : Throughput[s][x] = 1250 * k
  BY WholeRates
<1>2. Utilization((1250 * k) * e, e) = k
  BY Quotient DEF Utilization, LineRate
<1>3. RateOf(s, x) = k
  BY <1>1, Quotient DEF RateOf, Utilization, LineRate
<1>. QED
  BY <1>1, <1>2, <1>3

LEMMA ScenarioType ==
  ASSUME SimType, NEW a \in App, NEW d \in SimDevice
  PROVE  ScenarioOf(a, d) \in Scenario
BY DEF SimType, ScenarioOf, Overrides

LEMMA AdvanceType ==
  ASSUME SimType, NEW a \in App, NEW d \in SimDevice, NEW s \in Scenario
  PROVE  /\ Advanced(a, d, s) \in [SimIndex -> [Direction -> Nat]]
         /\ \A i \in SimIndex, x \in Direction :
              /\ counters[a][d][i][x] \in Nat
              /\ Advance(Throughput[s][x], lastPoll[a][d], clock) \in Nat
              /\ Advanced(a, d, s)[i][x] =
                   counters[a][d][i][x] + Advance(Throughput[s][x], lastPoll[a][d], clock)
<1>1. \A x \in Direction : Advance(Throughput[s][x], lastPoll[a][d], clock) \in Nat
  <2>1. SUFFICES ASSUME NEW x \in Direction
                 PROVE  Advance(Throughput[s][x], lastPoll[a][d], clock) \in Nat
    OBVIOUS
  <2>2. lastPoll[a][d] \in Int /\ clock \in Int
    BY DEF SimType, Never
  <2>3. PICK r \in Nat : r = Throughput[s][x]
    BY WholeRates
  <2>4. r \div 1000 \in Nat
    OBVIOUS
  <2>5. \A e \in Int : e > 0 => r * e \in Nat
    OBVIOUS
  <2>. QED
    BY <2>2, <2>3, <2>4, <2>5 DEF Advance
<1>2. counters[a][d] \in [SimIndex -> [Direction -> Nat]]
  BY DEF SimType
<1>. QED
  BY <1>1, <1>2 DEF Advanced

-----------------------------------------------------------------------------
\* What a collector starts with.
LEMMA FreshTypes ==
  /\ "NORMAL" \in Scenario /\ <<>> \in Overrides
  /\ FreshApp \in [SimDevice -> [SimIndex -> [Direction -> Nat]]]
<1>1. "NORMAL" \in Scenario
  BY DEF Scenario, Throughput
<1>2. <<>> \in [{} -> Scenario] /\ {} \in SUBSET SimDevice
  OBVIOUS
<1>. QED
  BY <1>1, <1>2 DEF Overrides, FreshApp, ZeroCounters

LEMMA InitSimInv == PInit => SimInv
BY FreshTypes DEF PInit, SimInit, SimInv, SimType, InStep, Current, NoSample

\* A sample taken now is current.
LEMMA SampleIsCurrent ==
  ASSUME SimType, NEW a \in App, NEW d \in SimDevice, NEW s \in Scenario
  PROVE  /\ s # "DEVICE_DOWN" => Current(SampleOf(a, d, s), clock, Advanced(a, d, s))
         /\ s = "DEVICE_DOWN" => Current(SampleOf(a, d, s), clock, counters[a][d])
<1>1. clock # Never
  BY DEF SimType, Never
<1>2. SampleOf(a, d, "DEVICE_DOWN").reachable = FALSE
  BY DEF SampleOf
<1>3. ASSUME s # "DEVICE_DOWN"
      PROVE  /\ SampleOf(a, d, s).time = clock
             /\ SampleOf(a, d, s).ifs = [i \in SimIndex |-> [count |-> Advanced(a, d, s)[i]]]
  BY <1>3 DEF SampleOf
<1>. QED
  BY <1>1, <1>2, <1>3 DEF Current

LEMMA PollSimInv ==
  ASSUME SimInv, NEW a \in App, NEW d \in SimDevice, Poll(a, d)
  PROVE  SimInv'
<1>. DEFINE s == ScenarioOf(a, d)
            c == IF s = "DEVICE_DOWN" THEN counters[a][d] ELSE Advanced(a, d, s)
<1>1. s \in Scenario
  BY ScenarioType DEF SimInv
<1>2. /\ lastPoll' = [lastPoll EXCEPT ![a][d] = clock]
      /\ counters' = [counters EXCEPT ![a][d] = c]
      /\ previous' = [previous EXCEPT ![a][d] = SampleOf(a, d, s)]
      /\ UNCHANGED <<clock, default, overrides>>
  BY DEF Poll
<1>3. c \in [SimIndex -> [Direction -> Nat]] /\ Current(SampleOf(a, d, s), clock, c)
  BY <1>1, AdvanceType, SampleIsCurrent DEF SimInv, SimType
<1>. HIDE DEF s, c
<1>4. SimType'
  BY <1>2, <1>3 DEF SimInv, SimType
<1>5. ASSUME NEW b \in App, NEW e \in SimDevice
      PROVE  Current(previous'[b][e], lastPoll'[b][e], counters'[b][e])
  <2>1. CASE b = a /\ e = d
    <3>1. /\ previous'[b][e] = SampleOf(a, d, s) /\ lastPoll'[b][e] = clock
          /\ counters'[b][e] = c
      BY <1>2, <2>1 DEF SimInv, SimType
    <3>. QED
      BY <1>3, <3>1
  <2>2. CASE ~(b = a /\ e = d)
    <3>1. /\ previous'[b][e] = previous[b][e] /\ lastPoll'[b][e] = lastPoll[b][e]
          /\ counters'[b][e] = counters[b][e]
      BY <1>2, <2>2 DEF SimInv, SimType
    <3>. QED
      BY <3>1 DEF SimInv, InStep
  <2>. QED
    BY <2>1, <2>2
<1>6. InStep'
  BY <1>5 DEF InStep
<1>. QED
  BY <1>4, <1>6 DEF SimInv

LEMMA RestartSimInv ==
  ASSUME SimInv, NEW a \in App, Restart(a)
  PROVE  SimInv'
<1>1. SimType'
  BY FreshTypes DEF Restart, SimInv, SimType
<1>2. ASSUME NEW b \in App, NEW e \in SimDevice
      PROVE  Current(previous'[b][e], lastPoll'[b][e], counters'[b][e])
  <2>1. CASE b = a
    <3>1. previous'[b][e].reachable = FALSE
      BY <2>1 DEF Restart, SimInv, SimType, NoSample
    <3>. QED
      BY <3>1 DEF Current
  <2>2. CASE b # a
    <3>1. /\ previous'[b] = previous[b] /\ lastPoll'[b] = lastPoll[b]
          /\ counters'[b] = counters[b]
      BY <2>2 DEF Restart, SimInv, SimType
    <3>. QED
      BY <3>1 DEF SimInv, InStep
  <2>. QED
    BY <2>1, <2>2
<1>. QED
  BY <1>1, <1>2 DEF SimInv, InStep

\* Of the controller only the scenarios change.
LEMMA ControlSimInv ==
  ASSUME SimInv, NEW a \in App, Control(a) \/ Uncontrol(a)
  PROVE  SimInv'
<1>1. UNCHANGED <<clock, counters, lastPoll, previous>>
  BY DEF Control, Uncontrol, SetScenario, SetScenarioForAll, ClearOverride
<1>2. PICK D \in SUBSET SimDevice : overrides[a] \in [D -> Scenario]
  BY DEF SimInv, SimType, Overrides
<1>3. /\ default' \in [App -> Scenario]
      /\ overrides' \in [App -> Overrides]
  <2>1. ASSUME NEW s \in Scenario, NEW d \in SimDevice, SetScenario(a, s, d)
        PROVE  <1>3!:
    <3>1. Override(overrides[a], d, s) \in [D \cup {d} -> Scenario]
      BY <1>2 DEF Override
    <3>2. D \cup {d} \in SUBSET SimDevice
      OBVIOUS
    <3>3. overrides' = [overrides EXCEPT ![a] = Override(overrides[a], d, s)]
      BY <2>1 DEF SetScenario
    <3>4. Override(overrides[a], d, s) \in Overrides
      BY <3>1, <3>2 DEF Overrides
    <3>. QED
      BY <2>1, <3>3, <3>4 DEF SetScenario, SimInv, SimType
  <2>2. ASSUME NEW s \in Scenario, SetScenarioForAll(a, s)
        PROVE  <1>3!:
    BY <2>2, FreshTypes DEF SetScenarioForAll, SimInv, SimType
  <2>3. ASSUME NEW d \in SimDevice, ClearOverride(a, d)
        PROVE  <1>3!:
    <3>1. Restrict(overrides[a], DOMAIN overrides[a] \ {d}) \in [D \ {d} -> Scenario]
      BY <1>2 DEF Restrict
    <3>2. D \ {d} \in SUBSET SimDevice
      OBVIOUS
    <3>3. overrides' = [overrides EXCEPT ![a] =
                          Restrict(overrides[a], DOMAIN overrides[a] \ {d})]
      BY <2>3 DEF ClearOverride
    <3>4. Restrict(overrides[a], DOMAIN overrides[a] \ {d}) \in Overrides
      BY <3>1, <3>2 DEF Overrides
    <3>. QED
      BY <2>3, <3>3, <3>4 DEF ClearOverride, SimInv, SimType
  <2>. QED
    BY <2>1, <2>2, <2>3 DEF Control, Uncontrol
<1>. QED
  BY <1>1, <1>3 DEF SimInv, SimType, InStep

LEMMA NextSimInv ==
  ASSUME SimInv, [PNext]_pvars
  PROVE  SimInv'
<1>1. ASSUME NEW a \in App, NEW d \in SimDevice, PollDevice(a, d)
      PROVE  SimInv'
  BY <1>1, PollSimInv DEF PollDevice
<1>2. ASSUME NEW a \in App, RestartApp(a)
      PROVE  SimInv'
  BY <1>2, RestartSimInv DEF RestartApp
<1>3. ASSUME NEW a \in App, Control(a) \/ Uncontrol(a)
      PROVE  SimInv'
  BY <1>3, ControlSimInv
<1>4. CASE TimePasses
  BY <1>4 DEF TimePasses, Tick, simvars, SimInv, SimType, InStep
<1>5. ASSUME UNCHANGED <<clock, simvars>>
      PROVE  SimInv'
  BY <1>5 DEF simvars, SimInv, SimType, InStep
<1>. QED
  BY <1>1, <1>2, <1>3, <1>4, <1>5 DEF PNext, Take, EvaluateNext, BreakOff, pvars

LEMMA SpecSimInv == PSpec => []SimInv
<1>1. PInit => SimInv
  BY InitSimInv
<1>2. SimInv /\ [PNext]_pvars => SimInv'
  BY NextSimInv
<1>. QED
  BY <1>1, <1>2, PTL DEF PSpec

-----------------------------------------------------------------------------
\* A rate is calculated from the octets between two polls, and over the same time.
LEMMA RateIsOfScenario ==
  ASSUME SimInv, NEW a \in App, NEW d \in SimDevice, NEW ix \in Measured(a, d)
  PROVE  UtilizationOf(a, d, ix[1], ix[2]) = RateOf(ScenarioOf(a, d), ix[2])
<1>. DEFINE p == previous[a][d]
            s == ScenarioOf(a, d)
            q == SampleOf(a, d, s)
            i == ix[1]
            x == ix[2]
            e == clock - lastPoll[a][d]
            old == p.ifs[i].count[x]
            new == q.ifs[i].count[x]
<1>1. /\ i \in Matched(p, q) /\ x \in Direction
      /\ Measure(p, q, i, x).valid
  BY DEF Measured
<1>2. p.reachable /\ q.reachable /\ i \in DOMAIN p.ifs
  BY <1>1 DEF Matched
<1>3. /\ s \in Scenario /\ p.reachable = TRUE
      /\ s # "DEVICE_DOWN"
  BY <1>2, ScenarioType DEF SimInv, SampleOf
<1>4. /\ p.time = lastPoll[a][d] /\ lastPoll[a][d] # Never /\ i \in SimIndex
      /\ old = counters[a][d][i][x]
  BY <1>1, <1>2, <1>3 DEF SimInv, InStep, Current
<1>5. q.time = clock /\ new = Advanced(a, d, s)[i][x]
  BY <1>3, <1>4 DEF SampleOf
<1>6. Elapsed(p, q) = e
  BY <1>4, <1>5 DEF Elapsed
<1>7. e \in Nat \ {0}
  <2>1. CalculateBandwidth(old, new, e, CounterBits).valid
    BY <1>1, <1>6 DEF Measure
  <2>2. e > 0
    BY <2>1 DEF CalculateBandwidth, Comparable, Invalid
  <2>. QED
    BY <1>4, <2>2 DEF SimInv, SimType
<1>8. /\ old \in Nat /\ Throughput[s][x] * e \in Nat
      /\ new = old + Throughput[s][x] * e
  <2>1. Advance(Throughput[s][x], lastPoll[a][d], clock) = Throughput[s][x] * e
    BY <1>4, <1>7 DEF Advance
  <2>2. Throughput[s][x] \in Nat
    BY <1>1, <1>3, WholeRates
  <2>. QED
    BY <1>1, <1>3, <1>4, <1>5, <1>7, <2>1, <2>2, AdvanceType DEF SimInv
<1>9. Measure(p, q, i, x).octets = Throughput[s][x] * e
  <2>1. new >= old /\ new - old = Throughput[s][x] * e
    BY <1>8
  <2>2. Measure(p, q, i, x) = CalculateBandwidth(old, new, e, CounterBits)
    BY <1>6 DEF Measure
  <2>3. CalculateBandwidth(old, new, e, CounterBits).valid
    BY <1>1, <2>2
  <2>. HIDE DEF p, q, old, new, e, s
  <2>4. CalculateBandwidth(old, new, e, CounterBits).octets = new - old
    BY <2>1, <2>3 DEF CalculateBandwidth, Invalid
  <2>. QED
    BY <2>1, <2>2, <2>4
<1>. QED
  BY <1>1, <1>3, <1>6, <1>7, <1>9, UtilizationIsRate DEF UtilizationOf

\* Whatever was polled before, the rate is that of the scenario polled under
\* (simulator_source.py:58-78).
THEOREM SimulatorRates == PSpec => []RatesFollowScenario
<1>1. SimInv => RatesFollowScenario
  BY RateIsOfScenario DEF RatesFollowScenario
<1>. QED
  BY <1>1, SpecSimInv, PTL
-----------------------------------------------------------------------------
\* Induction, for sets of naturals.
LEMMA AllNaturals ==
  ASSUME NEW S \in SUBSET Nat, 0 \in S, \A i \in S : i + 1 \in S
  PROVE  S = Nat
<1>1. SUFFICES ASSUME Nat \ S # {} PROVE FALSE
  OBVIOUS
<1>2. PICK m \in Nat \ S : \A y \in Nat \ S : ~(<<y, m>> \in OpToRel(<, Nat))
  BY <1>1, NatLessThanWellFounded, WFMin
<1>3. ASSUME NEW y \in Nat \ S, y < m PROVE FALSE
  <2>1. <<y, m>> \in OpToRel(<, Nat)
    BY <1>3, Zenon DEF OpToRel
  <2>. QED
    BY <1>2, <2>1
<1>4. m # 0 /\ m - 1 \in Nat /\ m - 1 < m
  OBVIOUS
<1>. QED
  BY <1>3, <1>4

Flat(f, ss, k) == f = [i \in 1..k |-> IF i = 1 THEN ss[i] ELSE f[i - 1] \o ss[i]]

LEMMA FlatExists ==
  ASSUME NEW ss, NEW n \in Nat
  PROVE  \E f : Flat(f, ss, n)
<1>. DEFINE S == {k \in Nat : \E f : Flat(f, ss, k)}
<1>1. 0 \in S
  <2>. DEFINE f == [i \in 1..0 |-> ss[i]]
  <2>1. Flat(f, ss, 0)
    BY DEF Flat
  <2>. QED
    BY <2>1
<1>2. ASSUME NEW k \in S PROVE k + 1 \in S
  <2>1. PICK g : Flat(g, ss, k)
    BY <1>2
  <2>2. /\ DOMAIN g = 1..k
        /\ \A i \in 1..k : g[i] = IF i = 1 THEN ss[i] ELSE g[i - 1] \o ss[i]
    BY <2>1, Zenon DEF Flat
  <2>. DEFINE f == [i \in 1..(k + 1) |-> IF i \in 1..k THEN g[i]
                                         ELSE IF i = 1 THEN ss[i] ELSE g[i - 1] \o ss[i]]
  <2>3. ASSUME NEW i \in 1..(k + 1)
        PROVE  f[i] = IF i = 1 THEN ss[i] ELSE f[i - 1] \o ss[i]
    <3>1. CASE i = 1
      BY <2>2, <3>1
    <3>2. CASE i # 1
      <4>1. i - 1 \in 1..k /\ i - 1 \in 1..(k + 1)
        BY <3>2
      <4>2. f[i - 1] = g[i - 1]
        BY <4>1
      <4>3. f[i] = IF i \in 1..k THEN g[i] ELSE g[i - 1] \o ss[i]
        BY <3>2
      <4>4. i \in 1..k => g[i] = g[i - 1] \o ss[i]
        BY <2>2, <3>2
      <4>5. f[i] = g[i - 1] \o ss[i]
        BY <4>3, <4>4
      <4>. HIDE DEF f
      <4>. QED
        BY <3>2, <4>2, <4>5
    <3>. QED
      BY <3>1, <3>2
  <2>4. Flat(f, ss, k + 1)
    <3>1. DOMAIN f = 1..(k + 1) /\ f = [i \in 1..(k + 1) |-> f[i]]
      OBVIOUS
    <3>. HIDE DEF f
    <3>. QED
      BY <2>3, <3>1, Zenon DEF Flat
  <2>. QED
    BY <2>4
<1>3. S = Nat
  BY <1>1, <1>2, AllNaturals
<1>. QED
  BY <1>3

LEMMA BothEntries ==
  ASSUME NEW S, NEW s \in Seq(S), NEW t \in Seq(S)
  PROVE  s \o t \in Seq(S) /\ ToSet(s \o t) = ToSet(s) \cup ToSet(t)
<1>1. /\ s \o t \in Seq(S) /\ Len(s \o t) = Len(s) + Len(t)
      /\ \A i \in 1..Len(s) + Len(t) :
           (s \o t)[i] = IF i <= Len(s) THEN s[i] ELSE t[i - Len(s)]
  BY ConcatProperties
<1>2. /\ Len(s) \in Nat /\ Len(t) \in Nat /\ DOMAIN s = 1..Len(s) /\ DOMAIN t = 1..Len(t)
      /\ DOMAIN (s \o t) = 1..Len(s) + Len(t)
  BY <1>1, LenProperties
<1>3. ASSUME NEW i \in DOMAIN s PROVE s[i] \in ToSet(s \o t)
  <2>1. i \in 1..Len(s) + Len(t) /\ (s \o t)[i] = s[i]
    BY <1>1, <1>2
  <2>. QED
    BY <1>2, <2>1 DEF ToSet
<1>4. ASSUME NEW i \in DOMAIN t PROVE t[i] \in ToSet(s \o t)
  <2>1. /\ i + Len(s) \in 1..Len(s) + Len(t) /\ (s \o t)[i + Len(s)] = t[i]
    BY <1>1, <1>2
  <2>. QED
    BY <1>2, <2>1 DEF ToSet
<1>5. ASSUME NEW i \in DOMAIN (s \o t) PROVE (s \o t)[i] \in ToSet(s) \cup ToSet(t)
  <2>1. CASE i <= Len(s)
    BY <1>1, <1>2, <2>1 DEF ToSet
  <2>2. CASE i > Len(s)
    <3>1. i - Len(s) \in DOMAIN t /\ (s \o t)[i] = t[i - Len(s)]
      BY <1>1, <1>2, <2>2
    <3>. QED
      BY <3>1 DEF ToSet
  <2>. QED
    BY <1>2, <2>1, <2>2
<1>6. ToSet(s \o t) \subseteq ToSet(s) \cup ToSet(t)
  BY <1>5 DEF ToSet
<1>7. ToSet(s) \cup ToSet(t) \subseteq ToSet(s \o t)
  BY <1>3, <1>4 DEF ToSet
<1>. QED
  BY <1>1, <1>6, <1>7

\* Flattened, sequences have the entries of them all.
LEMMA FlattenOf ==
  ASSUME NEW S, NEW n \in Nat, NEW ss \in [1..n -> Seq(S)]
  PROVE  /\ FlattenSeq(ss) \in Seq(S)
         /\ ToSet(FlattenSeq(ss)) = UNION {ToSet(ss[i]) : i \in 1..n}
<1>0. ss \in Seq(Seq(S)) /\ Len(ss) = n
  OBVIOUS
<1>1. CASE n = 0
  <2>1. ss = <<>> /\ FlattenSeq(ss) = ss
    BY <1>0, <1>1 DEF FlattenSeq
  <2>2. 1..n = {} /\ ToSet(ss) = {}
    BY <1>1, <2>1 DEF ToSet
  <2>3. UNION {ToSet(ss[i]) : i \in 1..n} = {}
    BY <2>2
  <2>4. PICK t \in Seq(S) : t = FlattenSeq(ss)
    BY <2>1, EmptySeq
  <2>5. ToSet(t) = {}
    BY <2>1, <2>2, <2>4
  <2>. QED
    BY <2>3, <2>4, <2>5
<1>2. CASE n > 0
  <2>1. PICK f : Flat(f, ss, n) /\ FlattenSeq(ss) = f[n]
    <3>1. Flat(CHOOSE f : Flat(f, ss, n), ss, n)
      BY FlatExists
    <3>2. FlattenSeq(ss) = (CHOOSE f : Flat(f, ss, n))[n]
      BY <1>0, <1>2 DEF FlattenSeq, Flat
    <3>. QED
      BY <3>1, <3>2
  <2>2. \A i \in 1..n : f[i] = IF i = 1 THEN ss[i] ELSE f[i - 1] \o ss[i]
    BY <2>1, Zenon DEF Flat
  <2>. DEFINE G == {i \in Nat : i \in 1..n => /\ f[i] \in Seq(S)
                                              /\ ToSet(f[i]) = UNION {ToSet(ss[j]) : j \in 1..i}}
  <2>3. 0 \in G
    OBVIOUS
  <2>4. ASSUME NEW i \in G PROVE i + 1 \in G
    <3>1. SUFFICES ASSUME i + 1 \in 1..n
                   PROVE  /\ f[i + 1] \in Seq(S)
                          /\ ToSet(f[i + 1]) = UNION {ToSet(ss[j]) : j \in 1..(i + 1)}
      OBVIOUS
    <3>2. ss[i + 1] \in Seq(S)
      BY <3>1
    <3>3. CASE i = 0
      <4>1. f[i + 1] = ss[i + 1]
        BY <2>2, <3>1, <3>3
      <4>2. 1..(i + 1) = {i + 1}
        BY <3>3
      <4>. QED
        BY <3>2, <4>1, <4>2
    <3>4. CASE i # 0
      <4>1. i \in 1..n /\ f[i + 1] = f[i] \o ss[i + 1]
        <5>1. i \in 1..n /\ i + 1 # 1 /\ (i + 1) - 1 = i
          BY <3>1, <3>4
        <5>2. f[i + 1] = f[(i + 1) - 1] \o ss[i + 1]
          BY <2>2, <3>1, <5>1
        <5>. QED
          BY <5>1, <5>2
      <4>2. f[i] \in Seq(S) /\ ToSet(f[i]) = UNION {ToSet(ss[j]) : j \in 1..i}
        BY <4>1
      <4>3. f[i + 1] \in Seq(S) /\ ToSet(f[i + 1]) = ToSet(f[i]) \cup ToSet(ss[i + 1])
        BY <3>2, <4>1, <4>2, BothEntries
      <4>4. 1..(i + 1) = 1..i \cup {i + 1}
        OBVIOUS
      <4>. QED
        BY <4>2, <4>3, <4>4
    <3>. QED
      BY <3>3, <3>4
  <2>5. G = Nat
    <3>. HIDE DEF G
    <3>1. G \in SUBSET Nat
      BY DEF G
    <3>. QED
      BY <2>3, <2>4, <3>1, AllNaturals
  <2>6. n \in G
    BY <2>5
  <2>. QED
    BY <1>2, <2>1, <2>6
<1>. QED
  BY <1>1, <1>2

-----------------------------------------------------------------------------
\* The alerts.  What a batch reports is as its scenario has it.
Reported(d, s) == {r \in TelemetryRecord : /\ r.device = d /\ r.metric \in AlertMetric
                                           /\ r.value \in Values(s, r.metric)}

SimBatch == [device : SimDevice, scenario : Scenario, ups : 0..2,
             records : Seq(TelemetryRecord)]

SoundBatch == {b \in SimBatch : b.records \in Seq(Reported(b.device, b.scenario)) \ {<<>>}}

WayInv == /\ transit \in [App -> Seq(SoundBatch)]
          /\ handling \in SoundBatch \cup {NoBatch}

HeardInv == /\ heard \in [Key -> Scenario \cup {"none"}]
            /\ EngineInv /\ AlertsTellLastHeard

\* What the second poll in a row sends is about every condition of the device.
Covers(b, k) == \E r \in ToSet(b.records) : KeyOf(r) = k

Whole(b) == b.ups = 2 => \A k \in SimKeys(b.device) : Covers(b, k)

WholeInv ==
  /\ ups \in [App -> [SimDevice -> 0..2]]
  /\ \A a \in App, d \in SimDevice : ups[a][d] > 0 => previous[a][d].reachable = TRUE
  /\ \A a \in App : \A b \in ToSet(transit[a]) : Whole(b)

\* All of a device was heard under the scenario it was told to be in, and of a batch
\* at hand all but what its records still say.
ToldInv ==
  /\ told \in [SimDevice -> [scenario : Scenario \cup {"none"}, ups : 0..2]]
  /\ \A d \in SimDevice : told[d].ups = 2 =>
        \A k \in SimKeys(d) : heard[k] = told[d].scenario /\ heard[k] \in Scenario
  /\ handling # NoBatch =>
       /\ told[handling.device].ups = 0
       /\ handling.ups = 2 => \A k \in SimKeys(handling.device) :
                                heard[k] = handling.scenario \/ Covers(handling, k)

\* The counters of 64 bits have not run full.
CountersFit == \A a \in App, d \in SimDevice, i \in SimIndex, x \in Direction :
                 counters[a][d][i][x] < Modulus[CounterBits]

-----------------------------------------------------------------------------
\* What build_batch makes of a poll.
LEMMA RatesAreWhole ==
  ASSUME NEW s \in Scenario, NEW x \in Direction
  PROVE  RateOf(s, x) \in Nat
<1>1. PICK k \in Nat : Throughput[s][x] = 1250 * k
  BY WholeRates
<1>2. RateOf(s, x) = k
  BY <1>1, Quotient DEF RateOf, Utilization, LineRate
<1>. QED
  BY <1>2

LEMMA RoundedType ==
  ASSUME NEW v \in Nat, NEW e \in Rounding
  PROVE  Rounded(v, e) \in Int
BY PipelineAssumption DEF Rounded

LEMMA LatencyType ==
  ASSUME NEW s \in Scenario
  PROVE  LatencyProfile[s].avg \in Nat /\ LatencyProfile[s].loss \in Nat
<1>1. s \in {"NORMAL", "HIGH_BANDWIDTH", "HIGH_LATENCY", "PACKET_LOSS", "DEVICE_DOWN", "RECOVERY"}
  BY DEF Scenario, Throughput
<1>. QED
  BY <1>1 DEF LatencyProfile

LEMMA MetricsOf ==
  /\ \A x \in Direction : MetricOf[x] \in AlertMetric
  /\ {"device_reachable", "latency_avg_ms", "packet_loss_percent"} \subseteq AlertMetric
<1>1. AlertMetric = {"device_reachable", "utilization_in", "utilization_out",
                     "latency_avg_ms", "packet_loss_percent"}
  BY DEF AlertMetric, AlertType
<1>2. MetricOf["in"] = "utilization_in" /\ MetricOf["out"] = "utilization_out"
  BY DEF MetricOf
<1>3. \A x \in Direction : x = "in" \/ x = "out"
  BY DirectionAssumption
<1>4. \A x \in Direction : MetricOf[x] \in {"utilization_in", "utilization_out"}
  BY <1>2, <1>3
<1>5. \A x \in Direction : MetricOf[x] \in AlertMetric
  BY <1>1, <1>4
<1>6. {"device_reachable", "latency_avg_ms", "packet_loss_percent"} \subseteq AlertMetric
  BY <1>1
<1>. QED
  BY <1>5, <1>6

\* A record whose value is one of its scenario.
LEMMA TelemetryReported ==
  ASSUME SimType, NEW d \in SimDevice, NEW s \in Scenario,
         NEW i \in Interface \cup {NoInterface}, NEW m \in AlertMetric,
         NEW v \in Int, v \in Values(s, m)
  PROVE  Telemetry(d, i, m, v) \in Reported(d, s)
<1>1. d \in Device /\ clock \in Int
  BY PipelineAssumption DEF SimType
<1>2. Telemetry(d, i, m, v) \in TelemetryRecord
  BY <1>1 DEF Telemetry, TelemetryRecord
<1>. QED
  BY <1>2 DEF Telemetry, Reported

LEMMA AddedReported ==
  ASSUME SimInv, NEW a \in App, NEW d \in SimDevice, NEW i \in SimIndex, NEW x \in Direction,
         NEW e \in Rounding
  PROVE  AddIfValid(a, d, i, x, e) \in Seq(Reported(d, ScenarioOf(a, d)))
<1>1. CASE <<i, x>> \notin Measured(a, d)
  BY <1>1, EmptySeq DEF AddIfValid
<1>2. CASE <<i, x>> \in Measured(a, d)
  <2>1. PICK s \in Scenario : s = ScenarioOf(a, d)
    BY ScenarioType DEF SimInv
  <2>2. UtilizationOf(a, d, i, x) = RateOf(s, x)
    BY <1>2, <2>1, RateIsOfScenario
  <2>3. PICK v \in Int : v = Rounded(RateOf(s, x), e)
    BY RatesAreWhole, RoundedType
  <2>4. v \in Values(s, MetricOf[x])
    BY <2>3, DirectionAssumption DEF Values, MetricOf
  <2>5. InterfaceName[i] \in Interface
    BY PipelineAssumption
  <2>6. PICK r \in Reported(d, s) : r = Telemetry(d, InterfaceName[i], MetricOf[x], v)
    BY <2>4, <2>5, MetricsOf, TelemetryReported DEF SimInv
  <2>7. AddIfValid(a, d, i, x, e) = <<r>>
    BY <1>2, <2>2, <2>3, <2>6 DEF AddIfValid
  <2>. QED
    BY <2>1, <2>7
<1>. QED
  BY <1>1, <1>2

\* The two directions of an interface.
Interfaces(a, d, e) ==
  [i \in DOMAIN InterfaceName |-> AddIfValid(a, d, i, "in", e) \o AddIfValid(a, d, i, "out", e)]

LEMMA UtilizationReported ==
  ASSUME SimInv, NEW a \in App, NEW d \in SimDevice, NEW e \in Rounding
  PROVE  /\ UtilizationRecords(a, d, e) \in Seq(Reported(d, ScenarioOf(a, d)))
         /\ \A i \in SimIndex, x \in Direction :
              ToSet(AddIfValid(a, d, i, x, e)) \subseteq ToSet(UtilizationRecords(a, d, e))
         /\ \A r \in ToSet(UtilizationRecords(a, d, e)) :
              \E i \in SimIndex, x \in Direction : r \in ToSet(AddIfValid(a, d, i, x, e))
<1>. DEFINE S == Reported(d, ScenarioOf(a, d))
<1>1. PICK n \in Nat : n = Len(InterfaceName) /\ DOMAIN InterfaceName = 1..n /\ SimIndex = 1..n
  BY PipelineAssumption
<1>2. PICK ss : ss = Interfaces(a, d, e)
  OBVIOUS
<1>3. ASSUME NEW i \in 1..n
      PROVE  /\ ss[i] \in Seq(S)
             /\ \A x \in Direction : ToSet(AddIfValid(a, d, i, x, e)) \subseteq ToSet(ss[i])
             /\ \A r \in ToSet(ss[i]) :
                  \E x \in Direction : r \in ToSet(AddIfValid(a, d, i, x, e))
  <2>1. /\ AddIfValid(a, d, i, "in", e) \in Seq(S) /\ AddIfValid(a, d, i, "out", e) \in Seq(S)
    BY <1>1, AddedReported, DirectionAssumption
  <2>2. ss[i] = AddIfValid(a, d, i, "in", e) \o AddIfValid(a, d, i, "out", e)
    BY <1>1, <1>2 DEF Interfaces
  <2>. HIDE DEF S
  <2>. QED
    BY <2>1, <2>2, BothEntries, DirectionAssumption
<1>4. ss \in [1..n -> Seq(S)]
  <2>. HIDE DEF S
  <2>1. ss = [i \in 1..n |-> ss[i]]
    BY <1>1, <1>2 DEF Interfaces
  <2>. QED
    BY <1>3, <2>1
<1>5. UtilizationRecords(a, d, e) = FlattenSeq(ss)
  BY <1>2 DEF UtilizationRecords, Interfaces
<1>. HIDE DEF S
<1>6. /\ FlattenSeq(ss) \in Seq(S)
      /\ ToSet(FlattenSeq(ss)) = UNION {ToSet(ss[i]) : i \in 1..n}
  BY <1>4, FlattenOf
<1>7. ASSUME NEW i \in SimIndex, NEW x \in Direction
      PROVE  ToSet(AddIfValid(a, d, i, x, e)) \subseteq ToSet(FlattenSeq(ss))
  BY <1>1, <1>3, <1>6
<1>8. ASSUME NEW r \in ToSet(FlattenSeq(ss))
      PROVE  \E i \in SimIndex, x \in Direction : r \in ToSet(AddIfValid(a, d, i, x, e))
  BY <1>1, <1>3, <1>6
<1>. QED
  BY <1>5, <1>6, <1>7, <1>8 DEF S

LEMMA SomeEntries ==
  /\ \A r : ToSet(<<r>>) = {r}
  /\ \A r, q : ToSet(<<r, q>>) = {r, q}
BY DEF ToSet

LEMMA ThreeParts ==
  ASSUME NEW S, NEW r \in S, NEW l \in S, NEW p \in S, NEW u \in Seq(S)
  PROVE  /\ (<<r>> \o u) \o <<l, p>> \in Seq(S) \ {<<>>}
         /\ ToSet((<<r>> \o u) \o <<l, p>>) = {r} \cup ToSet(u) \cup {l, p}
<1>1. <<r>> \in Seq(S) /\ <<l, p>> \in Seq(S)
  OBVIOUS
<1>2. PICK f \in Seq(S) : f = <<r>>
  BY <1>1, Zenon
<1>3. PICK t \in Seq(S) : t = <<l, p>>
  BY <1>1, Zenon
<1>4. ToSet(f) = {r} /\ ToSet(t) = {l, p}
  BY <1>2, <1>3, SomeEntries, Zenon
<1>5. f \o u \in Seq(S) /\ ToSet(f \o u) = {r} \cup ToSet(u)
  <2>1. f \o u \in Seq(S) /\ ToSet(f \o u) = ToSet(f) \cup ToSet(u)
    BY BothEntries, Zenon
  <2>. QED
    BY <1>4, <2>1, Zenon
<1>6. PICK g \in Seq(S) : g = f \o u
  BY <1>5, Zenon
<1>7. g \o t \in Seq(S) /\ ToSet(g \o t) = ({r} \cup ToSet(u)) \cup {l, p}
  <2>1. g \o t \in Seq(S) /\ ToSet(g \o t) = ToSet(g) \cup ToSet(t)
    BY BothEntries, Zenon
  <2>. QED
    BY <1>4, <1>5, <1>6, <2>1, Zenon
<1>8. PICK h \in Seq(S) : h = g \o t
  BY <1>7, Zenon
<1>9. h # <<>>
  <2>1. r \in ToSet(h)
    BY <1>7, <1>8
  <2>. QED
    BY <2>1 DEF ToSet
<1>10. h = (<<r>> \o u) \o <<l, p>>
  BY <1>2, <1>3, <1>6, <1>8, Zenon
<1>. QED
  BY <1>7, <1>8, <1>9, <1>10

\* The three parts of a batch of a device that is up.
LEMMA UpRecords ==
  ASSUME SimInv, NEW a \in App, NEW d \in SimDevice, NEW e \in Rounding,
         NEW s, s = ScenarioOf(a, d), s # "DEVICE_DOWN"
  PROVE  /\ Records(a, d, s, e) \in Seq(Reported(d, s)) \ {<<>>}
         /\ ToSet(Records(a, d, s, e)) =
              {Telemetry(d, NoInterface, "device_reachable", 1)}
                \cup ToSet(UtilizationRecords(a, d, e))
                \cup {Telemetry(d, NoInterface, "latency_avg_ms", LatencyProfile[s].avg),
                      Telemetry(d, NoInterface, "packet_loss_percent", LatencyProfile[s].loss)}
<1>0. s \in Scenario /\ SimType
  BY ScenarioType DEF SimInv
<1>1. PICK r \in Reported(d, s) : r = Telemetry(d, NoInterface, "device_reachable", 1)
  <2>1. 1 \in Values(s, "device_reachable")
    BY DEF Values
  <2>. QED
    BY <1>0, <2>1, MetricsOf, TelemetryReported
<1>2. PICK l \in Reported(d, s) :
        l = Telemetry(d, NoInterface, "latency_avg_ms", LatencyProfile[s].avg)
  <2>1. LatencyProfile[s].avg \in Values(s, "latency_avg_ms")
    BY DEF Values
  <2>. QED
    BY <1>0, <2>1, MetricsOf, LatencyType, TelemetryReported
<1>3. PICK p \in Reported(d, s) :
        p = Telemetry(d, NoInterface, "packet_loss_percent", LatencyProfile[s].loss)
  <2>1. LatencyProfile[s].loss \in Values(s, "packet_loss_percent")
    BY DEF Values
  <2>. QED
    BY <1>0, <2>1, MetricsOf, LatencyType, TelemetryReported
<1>4. PICK u \in Seq(Reported(d, s)) : u = UtilizationRecords(a, d, e)
  BY UtilizationReported
<1>5. Records(a, d, s, e) = (<<r>> \o u) \o <<l, p>>
  BY <1>1, <1>2, <1>3, <1>4 DEF Records, LatencyRecords
<1>. QED
  BY <1>1, <1>2, <1>3, <1>4, <1>5, ThreeParts

LEMMA RecordsReported ==
  ASSUME SimInv, NEW a \in App, NEW d \in SimDevice, NEW e \in Rounding,
         NEW s, s = ScenarioOf(a, d)
  PROVE  Records(a, d, s, e) \in Seq(Reported(d, s)) \ {<<>>}
<1>1. CASE s = "DEVICE_DOWN"
  <2>1. 0 \in Values(s, "device_reachable")
    BY <1>1 DEF Values
  <2>2. PICK r \in Reported(d, s) : r = Telemetry(d, NoInterface, "device_reachable", 0)
    BY <2>1, MetricsOf, ScenarioType, TelemetryReported DEF SimInv
  <2>3. Records(a, d, s, e) = <<r>>
    BY <1>1, <2>2 DEF Records
  <2>. QED
    BY <2>3
<1>. QED
  BY <1>1, UpRecords

LEMMA BatchIsSound ==
  ASSUME SimInv, NEW a \in App, NEW d \in SimDevice, NEW e \in Rounding,
         NEW s, s = ScenarioOf(a, d)
  PROVE  [device |-> d, scenario |-> s, ups |-> Ups(a, d, s), records |-> Records(a, d, s, e)]
            \in SoundBatch
<1>1. Records(a, d, s, e) \in Seq(Reported(d, s)) \ {<<>>} /\ s \in Scenario
  BY RecordsReported, ScenarioType DEF SimInv
<1>2. Seq(Reported(d, s)) \subseteq Seq(TelemetryRecord)
  BY SeqMonotonic DEF Reported
<1>3. Ups(a, d, s) \in 0..2
  BY DEF Ups
<1>. QED
  BY <1>1, <1>2, <1>3 DEF SoundBatch, SimBatch

\* The second poll in a row measures everything, unless a counter runs full.
LEMMA MeasuredAll ==
  ASSUME SimInv, CountersFit, NEW a \in App, NEW d \in SimDevice,
         NEW s, s = ScenarioOf(a, d), s # "DEVICE_DOWN",
         \A j \in SimIndex, y \in Direction : Advanced(a, d, s)[j][y] < Modulus[CounterBits],
         previous[a][d].reachable = TRUE, clock > lastPoll[a][d],
         NEW i \in SimIndex, NEW x \in Direction
  PROVE  <<i, x>> \in Measured(a, d)
<1>. DEFINE p == previous[a][d]
            q == SampleOf(a, d, s)
            old == p.ifs[i].count[x]
            new == q.ifs[i].count[x]
<1>0. s \in Scenario
  BY ScenarioType DEF SimInv
<1>1. /\ p.time = lastPoll[a][d] /\ lastPoll[a][d] # Never
      /\ DOMAIN p.ifs = SimIndex /\ old = counters[a][d][i][x]
  BY DEF SimInv, InStep, Current
<1>2. /\ q.reachable = TRUE /\ q.time = clock
      /\ DOMAIN q.ifs = SimIndex /\ new = Advanced(a, d, s)[i][x]
  BY DEF SampleOf
<1>3. i \in Matched(p, q)
  BY <1>1, <1>2 DEF Matched
<1>4. clock \in Nat /\ lastPoll[a][d] \in Nat
  BY <1>1 DEF SimInv, SimType
<1>5. Elapsed(p, q) \in Nat /\ Elapsed(p, q) > 0
  <2>1. Elapsed(p, q) = clock - lastPoll[a][d]
    BY <1>1, <1>2 DEF Elapsed
  <2>. QED
    BY <1>4, <2>1
<1>6. PICK o \in Nat, g \in Nat : /\ o = counters[a][d][i][x]
                                  /\ g = Advance(Throughput[s][x], lastPoll[a][d], clock)
                                  /\ Advanced(a, d, s)[i][x] = o + g
  BY <1>0, AdvanceType DEF SimInv
<1>7. PICK m \in Nat : m = Modulus[CounterBits] /\ CounterBits \in DOMAIN Modulus
  BY ModulusAssumption
<1>8. old = o /\ new = o + g /\ o < m /\ o + g < m
  BY <1>1, <1>2, <1>6, <1>7 DEF CountersFit
<1>. HIDE DEF p, q, old, new
<1>9. CalculateBandwidth(old, new, Elapsed(p, q), CounterBits).valid
  <2>1. Comparable(old, new, Elapsed(p, q), CounterBits)
    BY <1>5, <1>7, <1>8 DEF Comparable
  <2>2. ~IsReset(old, new, Elapsed(p, q), CounterBits)
    BY <1>8 DEF IsReset
  <2>. QED
    BY <2>1, <2>2 DEF CalculateBandwidth
<1>10. Measure(p, q, i, x).valid
  BY <1>9 DEF Measure, old, new
<1>. QED
  BY <1>3, <1>10 DEF Measured, p, q

\* What the batch of the second poll in a row is about.
LEMMA RecordsCover ==
  ASSUME SimInv, NEW a \in App, NEW d \in SimDevice, NEW e \in Rounding,
         NEW s, s = ScenarioOf(a, d), s # "DEVICE_DOWN",
         \A i \in SimIndex, x \in Direction : <<i, x>> \in Measured(a, d),
         NEW k \in SimKeys(d)
  PROVE  \E r \in ToSet(Records(a, d, s, e)) : KeyOf(r) = k
<1>. DEFINE R == ToSet(Records(a, d, s, e))
<1>0. /\ Telemetry(d, NoInterface, "device_reachable", 1) \in R
      /\ Telemetry(d, NoInterface, "latency_avg_ms", LatencyProfile[s].avg) \in R
      /\ Telemetry(d, NoInterface, "packet_loss_percent", LatencyProfile[s].loss) \in R
      /\ ToSet(UtilizationRecords(a, d, e)) \subseteq R
  BY UpRecords
<1>1. \A i, m, v : KeyOf(Telemetry(d, i, m, v)) =
                     AlertKey(d, IF m = "device_reachable" THEN NoInterface ELSE i, m)
  BY DEF KeyOf, Telemetry
<1>2. ASSUME NEW i \in SimIndex, NEW x \in Direction,
             k = AlertKey(d, InterfaceName[i], MetricOf[x])
      PROVE  \E r \in R : KeyOf(r) = k
  <2>1. PICK r : /\ AddIfValid(a, d, i, x, e) = <<r>>
                 /\ r = Telemetry(d, InterfaceName[i], MetricOf[x],
                                  Rounded(UtilizationOf(a, d, i, x), e))
    BY DEF AddIfValid
  <2>2. r \in R
    <3>1. ToSet(AddIfValid(a, d, i, x, e)) \subseteq ToSet(UtilizationRecords(a, d, e))
      BY UtilizationReported
    <3>2. r \in ToSet(AddIfValid(a, d, i, x, e))
      BY <2>1, SomeEntries
    <3>. QED
      BY <1>0, <3>1, <3>2, Zenon
  <2>3. MetricOf[x] # "device_reachable"
    BY DirectionAssumption DEF MetricOf
  <2>4. KeyOf(r) = k
    BY <1>1, <1>2, <2>1, <2>3, Zenon
  <2>. QED
    BY <2>2, <2>4, Zenon
<1>3. ASSUME NEW m \in {"device_reachable", "latency_avg_ms", "packet_loss_percent"},
             k = AlertKey(d, NoInterface, m)
      PROVE  \E r \in R : KeyOf(r) = k
  <2>. HIDE DEF R
  <2>1. PICK v : Telemetry(d, NoInterface, m, v) \in R
    BY <1>0
  <2>2. KeyOf(Telemetry(d, NoInterface, m, v)) = k
    BY <1>1, <1>3
  <2>. QED
    BY <2>1, <2>2, Zenon
<1>. HIDE DEF R
<1>4. \/ \E i \in SimIndex, x \in Direction : k = AlertKey(d, InterfaceName[i], MetricOf[x])
      \/ \E m \in {"device_reachable", "latency_avg_ms", "packet_loss_percent"} :
            k = AlertKey(d, NoInterface, m)
  BY DEF SimKeys
<1>. QED
  BY <1>2, <1>3, <1>4, Zenon DEF R

-----------------------------------------------------------------------------
\* The batches on their way.
Sent(a, d, e, b) ==
  /\ b.device = d /\ b.ups = Ups(a, d, ScenarioOf(a, d))
  /\ b.records = Records(a, d, ScenarioOf(a, d), e)
  /\ transit' \in [App -> Seq(SoundBatch)]
  /\ \A c \in App : \A g \in ToSet(transit'[c]) : g = b \/ g \in ToSet(transit[c])

LEMMA SendWay ==
  ASSUME SimInv, WayInv, NEW a \in App, NEW d \in SimDevice, PollDevice(a, d)
  PROVE  \E e \in Rounding, b \in SoundBatch : Sent(a, d, e, b)
<1>1. PICK s \in Scenario : s = ScenarioOf(a, d)
  BY ScenarioType DEF SimInv
<1>2. PICK e \in Rounding, n \in 0..MaxCopies :
        transit' = [transit EXCEPT ![a] = @ \o
          [c \in 1..n |-> [device |-> d, scenario |-> s, ups |-> Ups(a, d, s),
                           records |-> Records(a, d, s, e)]]]
  BY <1>1 DEF PollDevice
<1>3. PICK b \in SoundBatch :
        b = [device |-> d, scenario |-> s, ups |-> Ups(a, d, s), records |-> Records(a, d, s, e)]
  BY <1>1, BatchIsSound
<1>4. n \in Nat
  BY PipelineAssumption
<1>5. [c \in 1..n |-> b] \in Seq(SoundBatch)
  BY <1>4
<1>6. PICK copies \in Seq(SoundBatch) : copies = [c \in 1..n |-> b]
  BY <1>5, Zenon
<1>7. ToSet(copies) \subseteq {b}
  BY <1>6 DEF ToSet
<1>8. transit[a] \in Seq(SoundBatch) /\ transit \in [App -> Seq(SoundBatch)]
  BY DEF WayInv
<1>9. transit' = [transit EXCEPT ![a] = transit[a] \o copies]
  BY <1>2, <1>3, <1>6, Zenon
<1>10. /\ transit[a] \o copies \in Seq(SoundBatch)
       /\ ToSet(transit[a] \o copies) = ToSet(transit[a]) \cup ToSet(copies)
  BY <1>8, BothEntries, Zenon
<1>11. transit' \in [App -> Seq(SoundBatch)]
  BY <1>8, <1>9, <1>10
<1>12. ASSUME NEW c \in App, NEW g \in ToSet(transit'[c])
       PROVE  g = b \/ g \in ToSet(transit[c])
  <2>1. CASE c = a
    <3>1. transit'[c] = transit[a] \o copies
      BY <1>8, <1>9, <2>1
    <3>. QED
      BY <1>7, <1>10, <2>1, <3>1
  <2>2. CASE c # a
    <3>1. transit'[c] = transit[c]
      BY <1>8, <1>9, <2>2
    <3>. QED
      BY <3>1, Zenon
  <2>. QED
    BY <2>1, <2>2
<1>13. /\ b.device = d /\ b.ups = Ups(a, d, s) /\ b.records = Records(a, d, s, e)
  BY <1>3
<1>14. Sent(a, d, e, b)
  BY <1>1, <1>11, <1>12, <1>13, Zenon DEF Sent
<1>. QED
  BY <1>14

LEMMA FirstAndRest ==
  ASSUME NEW S, NEW s \in Seq(S), s # <<>>
  PROVE  /\ Head(s) \in S /\ Tail(s) \in Seq(S)
         /\ ToSet(s) = {Head(s)} \cup ToSet(Tail(s))
<1>1. /\ Head(s) \in S /\ Tail(s) \in Seq(S) /\ Len(Tail(s)) = Len(s) - 1
      /\ \A i \in 1..Len(Tail(s)) : Tail(s)[i] = s[i + 1]
  BY HeadTailProperties
<1>2. /\ Len(s) \in Nat /\ Len(s) > 0 /\ DOMAIN s = 1..Len(s) /\ Head(s) = s[1]
      /\ DOMAIN Tail(s) = 1..Len(s) - 1
  BY <1>1, EmptySeq, LenProperties
<1>3. ASSUME NEW i \in DOMAIN s PROVE s[i] \in {Head(s)} \cup ToSet(Tail(s))
  <2>1. CASE i = 1
    BY <1>2, <2>1
  <2>2. CASE i # 1
    <3>1. i - 1 \in DOMAIN Tail(s) /\ Tail(s)[i - 1] = s[i]
      BY <1>1, <1>2, <2>2
    <3>. QED
      BY <3>1 DEF ToSet
  <2>. QED
    BY <2>1, <2>2
<1>4. ASSUME NEW i \in DOMAIN Tail(s) PROVE Tail(s)[i] \in ToSet(s)
  <2>1. i + 1 \in DOMAIN s /\ Tail(s)[i] = s[i + 1]
    BY <1>1, <1>2
  <2>. QED
    BY <2>1 DEF ToSet
<1>5. Head(s) \in ToSet(s)
  <2>1. 1 \in DOMAIN s
    BY <1>2
  <2>. QED
    BY <1>2, <2>1 DEF ToSet
<1>6. ToSet(s) \subseteq {Head(s)} \cup ToSet(Tail(s))
  BY <1>3 DEF ToSet
<1>7. ToSet(Tail(s)) \subseteq ToSet(s)
  BY <1>4 DEF ToSet
<1>. QED
  BY <1>1, <1>5, <1>6, <1>7

LEMMA TakeWay ==
  ASSUME WayInv, NEW a \in App, Take(a)
  PROVE  /\ WayInv'
         /\ handling' \in SoundBatch /\ handling' \in ToSet(transit[a])
         /\ \A c \in App : ToSet(transit'[c]) \subseteq ToSet(transit[c])
<1>1. PICK t \in Seq(SoundBatch) : t = transit[a] /\ t # <<>>
  BY DEF WayInv, Take
<1>2. /\ Head(t) \in SoundBatch /\ Tail(t) \in Seq(SoundBatch)
      /\ ToSet(t) = {Head(t)} \cup ToSet(Tail(t))
  BY <1>1, FirstAndRest
<1>3. handling' = Head(t) /\ transit' = [transit EXCEPT ![a] = Tail(t)]
  BY <1>1 DEF Take
<1>4. transit \in [App -> Seq(SoundBatch)]
  BY DEF WayInv
<1>5. transit' \in [App -> Seq(SoundBatch)]
  BY <1>2, <1>3, <1>4
<1>6. ASSUME NEW c \in App PROVE ToSet(transit'[c]) \subseteq ToSet(transit[c])
  <2>1. CASE c = a
    <3>1. transit'[c] = Tail(t)
      BY <1>3, <1>4, <2>1
    <3>. QED
      BY <1>1, <1>2, <2>1, <3>1
  <2>2. CASE c # a
    <3>1. transit'[c] = transit[c]
      BY <1>3, <1>4, <2>2
    <3>. QED
      BY <3>1, Zenon
  <2>. QED
    BY <2>1, <2>2
<1>7. handling' \in SoundBatch /\ handling' \in ToSet(transit[a])
  BY <1>1, <1>2, <1>3
<1>. QED
  BY <1>5, <1>6, <1>7 DEF WayInv

-----------------------------------------------------------------------------
\* One turn of the loop: a record r of device d, of a batch of scenario s, with more
\* records to come.
Turn(d, s, r, rest) ==
  /\ handling \in SoundBatch /\ handling.device = d /\ handling.scenario = s
  /\ ToSet(handling.records) = {r} \cup ToSet(rest)
  /\ EvaluateRecord(r) /\ heard' = [heard EXCEPT ![KeyOf(r)] = s]
  /\ \/ /\ rest = <<>> /\ handling' = NoBatch
        /\ told' = [told EXCEPT ![d] = [scenario |-> s, ups |-> handling.ups]]
     \/ /\ rest # <<>> /\ UNCHANGED told
        /\ handling' \in SoundBatch
        /\ handling'.device = d /\ handling'.scenario = s
        /\ handling'.ups = handling.ups /\ handling'.records = rest

LEMMA TurnWay ==
  ASSUME WayInv, EvaluateNext
  PROVE  /\ \E d \in SimDevice, s \in Scenario :
              \E r \in Reported(d, s), rest \in Seq(Reported(d, s)) : Turn(d, s, r, rest)
         /\ WayInv'
<1>1. handling \in SoundBatch
  BY DEF WayInv, EvaluateNext
<1>2. PICK d \in SimDevice, s \in Scenario : d = handling.device /\ s = handling.scenario
  BY <1>1 DEF SoundBatch, SimBatch
<1>3. PICK S : S = Reported(d, s)
  OBVIOUS
<1>4. PICK q \in Seq(S) : q = handling.records /\ q # <<>>
  BY <1>1, <1>2, <1>3 DEF SoundBatch
<1>5. Head(q) \in S /\ Tail(q) \in Seq(S) /\ ToSet(q) = {Head(q)} \cup ToSet(Tail(q))
  BY <1>4, FirstAndRest
<1>6. PICK r \in S, rest \in Seq(S) : r = Head(q) /\ rest = Tail(q)
  BY <1>5, Zenon
<1>7. /\ EvaluateRecord(r) /\ heard' = [heard EXCEPT ![KeyOf(r)] = s]
      /\ IF rest = <<>>
           THEN /\ handling' = NoBatch
                /\ told' = [told EXCEPT ![d] = [scenario |-> s, ups |-> handling.ups]]
           ELSE handling' = [handling EXCEPT !.records = rest] /\ UNCHANGED told
      /\ UNCHANGED transit
  BY <1>2, <1>4, <1>6, Zenon DEF EvaluateNext
<1>8. ASSUME handling' = [handling EXCEPT !.records = rest], rest # <<>>
      PROVE  /\ handling' \in SoundBatch
             /\ handling'.device = d /\ handling'.scenario = s
             /\ handling'.ups = handling.ups /\ handling'.records = rest
  <2>1. handling \in SimBatch
    BY <1>1 DEF SoundBatch
  <2>2. rest \in Seq(TelemetryRecord)
    <3>1. S \subseteq TelemetryRecord
      BY <1>3 DEF Reported
    <3>. QED
      BY <3>1, SeqMonotonic
  <2>3. /\ handling' \in SimBatch /\ handling'.device = d /\ handling'.scenario = s
        /\ handling'.ups = handling.ups /\ handling'.records = rest
    BY <1>2, <1>8, <2>1, <2>2 DEF SimBatch
  <2>. QED
    BY <1>3, <1>8, <2>3 DEF SoundBatch
<1>9. WayInv'
  BY <1>7, <1>8, Zenon DEF WayInv
<1>10. ToSet(handling.records) = {r} \cup ToSet(rest)
  BY <1>4, <1>5, <1>6, Zenon
<1>11. \/ /\ rest = <<>> /\ handling' = NoBatch
          /\ told' = [told EXCEPT ![d] = [scenario |-> s, ups |-> handling.ups]]
       \/ /\ rest # <<>> /\ UNCHANGED told
          /\ handling' \in SoundBatch
          /\ handling'.device = d /\ handling'.scenario = s
          /\ handling'.ups = handling.ups /\ handling'.records = rest
  BY <1>7, <1>8, Zenon
<1>12. Turn(d, s, r, rest)
  BY <1>1, <1>2, <1>7, <1>10, <1>11, Zenon DEF Turn
<1>. QED
  BY <1>3, <1>9, <1>12, Zenon

LEMMA ReportedKey ==
  ASSUME NEW d \in SimDevice, NEW s \in Scenario, NEW r \in Reported(d, s)
  PROVE  /\ r \in TelemetryRecord
         /\ KeyOf(r) \in Key /\ KeyOf(r).device = d /\ KeyOf(r).metric = r.metric
         /\ r.metric \in AlertMetric
<1>1. /\ r \in TelemetryRecord /\ r.device = d /\ r.metric \in AlertMetric
      /\ r.device \in Device /\ r.interface \in Interface \cup {NoInterface}
  BY DEF Reported, TelemetryRecord
<1>2. PICK i \in Interface \cup {NoInterface} : KeyOf(r) = AlertKey(d, i, r.metric)
  BY <1>1 DEF KeyOf
<1>3. AlertKey(d, i, r.metric) \in Key
  BY <1>1 DEF Key
<1>. QED
  BY <1>1, <1>2, <1>3 DEF AlertKey

\* After an evaluation the alert of its condition is as the scenario has it.
LEMMA EvaluateHeard ==
  ASSUME HeardInv, NEW d \in SimDevice, NEW s \in Scenario, NEW r \in Reported(d, s),
         EvaluateRecord(r), heard' = [heard EXCEPT ![KeyOf(r)] = s]
  PROVE  HeardInv'
<1>1. /\ r \in TelemetryRecord /\ KeyOf(r) \in Key /\ KeyOf(r).metric = r.metric
      /\ r.value \in Values(s, r.metric)
  BY ReportedKey DEF Reported
<1>2. heard' \in [Key -> Scenario \cup {"none"}]
  BY <1>1 DEF HeardInv
<1>3. EngineInv'
  BY <1>1, EvaluateKeepsInv DEF HeardInv
<1>4. ASSUME NEW k \in Key
      PROVE  IF Relevant(k.metric) /\ heard'[k] # "none" THEN IsAs(k, heard[k])' ELSE ~Open(k)'
  <2>1. /\ Relevant(r.metric) /\ k = KeyOf(r) => (Open(k)' <=> Breaching(r))
        /\ ~(Relevant(r.metric) /\ k = KeyOf(r)) => (Open(k)' <=> Open(k))
    BY <1>1, EvaluateDecides DEF HeardInv
  <2>2. IF Relevant(k.metric) /\ heard[k] # "none" THEN IsAs(k, heard[k]) ELSE ~Open(k)
    BY DEF HeardInv, AlertsTellLastHeard
  <2>3. CASE k # KeyOf(r)
    <3>1. heard'[k] = heard[k] /\ (Open(k)' <=> Open(k))
      BY <1>1, <2>1, <2>3 DEF HeardInv
    <3>. QED
      BY <2>2, <3>1 DEF IsAs, Open
  <2>4. CASE k = KeyOf(r) /\ ~Relevant(r.metric)
    BY <1>1, <2>1, <2>2, <2>4
  <2>5. CASE k = KeyOf(r) /\ Relevant(r.metric)
    <3>1. k.metric = r.metric /\ heard'[k] = s
      BY <1>1, <2>5 DEF HeardInv
    <3>2. Breaching(r) <=> Breaches(r.metric, r.value)
      BY DEF Breaching, Breaches
    <3>3. Open(k)' = Breaches(r.metric, r.value)
      BY <2>1, <2>5, <3>2 DEF Open, Breaches
    <3>4. IsAs(k, heard[k])'
      BY <1>1, <3>1, <3>3 DEF IsAs
    <3>5. s # "none"
      BY DEF Scenario, Throughput
    <3>. QED
      BY <1>1, <2>5, <3>1, <3>4, <3>5
  <2>. QED
    BY <2>3, <2>4, <2>5
<1>5. AlertsTellLastHeard'
  BY <1>4 DEF AlertsTellLastHeard
<1>. QED
  BY <1>2, <1>3, <1>5 DEF HeardInv

-----------------------------------------------------------------------------
PipeInv == SimInv /\ WayInv /\ HeardInv

\* The actions, by what of the invariants they touch.
LEMMA PNextCases ==
  ASSUME [PNext]_pvars
  PROVE  \/ \E a \in App, d \in SimDevice : PollDevice(a, d)
         \/ \E a \in App : RestartApp(a)
         \/ \E a \in App : Take(a)
         \/ EvaluateNext
         \/ BreakOff
         \/ UNCHANGED <<previous, alerts, transit, handling, ups, heard, told>>
BY DEF PNext, pvars, simvars, Control, Uncontrol, SetScenario, SetScenarioForAll,
       ClearOverride, TimePasses, Tick

LEMMA HeardKept ==
  ASSUME HeardInv, UNCHANGED <<alerts, heard>>
  PROVE  HeardInv'
BY DEF HeardInv, EngineInv, AlertsTypeOK, OneActivePerKey, FindActive,
       AlertsTellLastHeard, IsAs, Open

LEMMA InitPipeInv == PInit => PipeInv
<1>. SUFFICES ASSUME PInit PROVE PipeInv
  OBVIOUS
<1>1. SimInv
  BY InitSimInv
<1>2. WayInv
  <2>1. <<>> \in Seq(SoundBatch)
    OBVIOUS
  <2>. QED
    BY <2>1 DEF PInit, WayInv
<1>3. EngineInv
  BY EngineInitInv DEF PInit
<1>4. \A k \in Key : ~Open(k)
  BY DEF PInit, EngineInit, Open, FindActive
<1>5. HeardInv
  BY <1>3, <1>4 DEF PInit, HeardInv, AlertsTellLastHeard
<1>. QED
  BY <1>1, <1>2, <1>5 DEF PipeInv

LEMMA NextPipeInv ==
  ASSUME PipeInv, [PNext]_pvars
  PROVE  PipeInv'
<1>. USE DEF PipeInv
<1>1. SimInv'
  BY NextSimInv
<1>2. ASSUME NEW a \in App, NEW d \in SimDevice, PollDevice(a, d)
      PROVE  WayInv' /\ HeardInv'
  <2>1. transit' \in [App -> Seq(SoundBatch)]
    BY <1>2, SendWay DEF Sent
  <2>2. UNCHANGED <<alerts, handling, heard>>
    BY <1>2 DEF PollDevice
  <2>. QED
    BY <2>1, <2>2, HeardKept DEF WayInv
<1>3. ASSUME NEW a \in App, Take(a)
      PROVE  WayInv' /\ HeardInv'
  BY <1>3, TakeWay, HeardKept DEF Take
<1>4. CASE EvaluateNext
  <2>1. PICK d \in SimDevice, s \in Scenario :
           \E r \in Reported(d, s), rest \in Seq(Reported(d, s)) : Turn(d, s, r, rest)
    BY <1>4, TurnWay, Zenon
  <2>2. PICK r \in Reported(d, s) :
          EvaluateRecord(r) /\ heard' = [heard EXCEPT ![KeyOf(r)] = s]
    BY <2>1, Zenon DEF Turn
  <2>. QED
    BY <1>1, <1>4, <2>2, EvaluateHeard, TurnWay
<1>5. ASSUME UNCHANGED <<alerts, transit, heard>>, handling' \in {handling, NoBatch}
      PROVE  WayInv' /\ HeardInv'
  BY <1>5, HeardKept DEF WayInv
<1>6. WayInv' /\ HeardInv'
  BY <1>2, <1>3, <1>4, <1>5, PNextCases DEF RestartApp, BreakOff
<1>. QED
  BY <1>1, <1>6

LEMMA SpecPipeInv == PSpec => []PipeInv
BY InitPipeInv, NextPipeInv, PTL DEF PSpec

\* The alerts say what was last heard, whatever was lost, repeated or broken off
\* (ingestion_service.py:66-73).
THEOREM PipelineAlertsTellLastHeard == PSpec => []AlertsTellLastHeard
<1>1. PipeInv => AlertsTellLastHeard
  BY DEF PipeInv, HeardInv
<1>. QED
  BY <1>1, SpecPipeInv, PTL

-----------------------------------------------------------------------------
\* A batch does not contradict itself: two records of one metric, whatever their
\* interfaces, say the same.
BatchAgrees(b) ==
  \A r, q \in ToSet(b.records) : r.metric = q.metric => r.value = q.value

NoContradiction == /\ \A a \in App : \A b \in ToSet(transit[a]) : BatchAgrees(b)
                   /\ BatchAgrees(handling)

\* What a record of metric m says in a batch of scenario s, given the rounding of it.
ValueAt(s, m, e) ==
  CASE m = "device_reachable"    -> IF s = "DEVICE_DOWN" THEN 0 ELSE 1
    [] m = "latency_avg_ms"      -> LatencyProfile[s].avg
    [] m = "packet_loss_percent" -> LatencyProfile[s].loss
    [] m = "utilization_in"      -> Rounded(RateOf(s, "in"), e)
    [] m = "utilization_out"     -> Rounded(RateOf(s, "out"), e)

LEMMA UtilizationValue ==
  ASSUME SimInv, NEW a \in App, NEW d \in SimDevice, NEW e \in Rounding,
         NEW s, s = ScenarioOf(a, d), NEW r \in ToSet(UtilizationRecords(a, d, e))
  PROVE  r.value = ValueAt(s, r.metric, e)
<1>1. PICK i \in SimIndex, x \in Direction : r \in ToSet(AddIfValid(a, d, i, x, e))
  BY UtilizationReported
<1>2. <<i, x>> \in Measured(a, d)
  BY <1>1 DEF AddIfValid, ToSet
<1>3. UtilizationOf(a, d, i, x) = RateOf(s, x)
  BY <1>2, RateIsOfScenario
<1>4. r = Telemetry(d, InterfaceName[i], MetricOf[x], Rounded(RateOf(s, x), e))
  BY <1>1, <1>2, <1>3, SomeEntries DEF AddIfValid
<1>5. r.metric = MetricOf[x] /\ r.value = Rounded(RateOf(s, x), e)
  BY <1>4 DEF Telemetry
<1>. QED
  BY <1>5, DirectionAssumption DEF MetricOf, ValueAt

\* build_batch gives all records of a batch from one poll (telemetry_builder.py:18-35).
LEMMA RecordsAgree ==
  ASSUME SimInv, NEW a \in App, NEW d \in SimDevice, NEW e \in Rounding,
         NEW s, s = ScenarioOf(a, d), NEW r \in ToSet(Records(a, d, s, e))
  PROVE  r.value = ValueAt(s, r.metric, e)
<1>0. \A i, m, v : Telemetry(d, i, m, v).metric = m /\ Telemetry(d, i, m, v).value = v
  BY DEF Telemetry
<1>1. CASE s = "DEVICE_DOWN"
  <2>1. r = Telemetry(d, NoInterface, "device_reachable", 0)
    BY <1>1, SomeEntries DEF Records
  <2>. QED
    BY <1>0, <1>1, <2>1 DEF ValueAt
<1>2. CASE s # "DEVICE_DOWN"
  <2>1. \/ r \in ToSet(UtilizationRecords(a, d, e))
        \/ r = Telemetry(d, NoInterface, "device_reachable", 1)
        \/ r = Telemetry(d, NoInterface, "latency_avg_ms", LatencyProfile[s].avg)
        \/ r = Telemetry(d, NoInterface, "packet_loss_percent", LatencyProfile[s].loss)
    BY <1>2, UpRecords
  <2>2. CASE r = Telemetry(d, NoInterface, "device_reachable", 1)
    BY <1>0, <1>2, <2>2 DEF ValueAt
  <2>3. CASE r = Telemetry(d, NoInterface, "latency_avg_ms", LatencyProfile[s].avg)
    BY <1>0, <2>3 DEF ValueAt
  <2>4. CASE r = Telemetry(d, NoInterface, "packet_loss_percent", LatencyProfile[s].loss)
    BY <1>0, <2>4 DEF ValueAt
  <2>. QED
    BY <2>1, <2>2, <2>3, <2>4, UtilizationValue
<1>. QED
  BY <1>1, <1>2

LEMMA NoContradictionNext ==
  ASSUME PipeInv, NoContradiction, [PNext]_pvars
  PROVE  NoContradiction'
<1>0. SimInv /\ WayInv
  BY DEF PipeInv
<1>1. ASSUME NEW a \in App, NEW d \in SimDevice, PollDevice(a, d) PROVE NoContradiction'
  <2>1. PICK e \in Rounding, b \in SoundBatch : Sent(a, d, e, b)
    BY <1>0, <1>1, SendWay
  <2>2. PICK s : s = ScenarioOf(a, d)
    OBVIOUS
  <2>3. \A r \in ToSet(b.records) : r.value = ValueAt(s, r.metric, e)
    BY <1>0, <2>1, <2>2, RecordsAgree DEF Sent
  <2>4. BatchAgrees(b)
    BY <2>3 DEF BatchAgrees
  <2>5. handling' = handling
    BY <1>1 DEF PollDevice
  <2>. QED
    BY <2>1, <2>4, <2>5 DEF NoContradiction, Sent, BatchAgrees
<1>2. ASSUME NEW a \in App, Take(a) PROVE NoContradiction'
  BY <1>0, <1>2, TakeWay DEF NoContradiction, BatchAgrees
<1>3. CASE EvaluateNext
  <2>1. PICK d \in SimDevice, s \in Scenario :
           \E r \in Reported(d, s), rest \in Seq(Reported(d, s)) : Turn(d, s, r, rest)
    BY <1>0, <1>3, TurnWay, Zenon
  <2>2. PICK r \in Reported(d, s), rest \in Seq(Reported(d, s)) : Turn(d, s, r, rest)
    BY <2>1
  <2>3. handling' = NoBatch \/ ToSet(handling'.records) \subseteq ToSet(handling.records)
    BY <2>2 DEF Turn
  <2>4. ToSet(NoBatch.records) = {}
    BY DEF NoBatch, ToSet
  <2>5. BatchAgrees(handling)'
    BY <2>3, <2>4 DEF NoContradiction, BatchAgrees
  <2>6. transit' = transit
    BY <1>3 DEF EvaluateNext
  <2>. QED
    BY <2>5, <2>6 DEF NoContradiction, BatchAgrees
<1>4. ASSUME UNCHANGED transit, handling' \in {handling, NoBatch} PROVE NoContradiction'
  <2>1. ToSet(NoBatch.records) = {}
    BY DEF NoBatch, ToSet
  <2>. QED
    BY <1>4, <2>1 DEF NoContradiction, BatchAgrees
<1>. QED
  BY <1>1, <1>2, <1>3, <1>4, PNextCases DEF RestartApp, BreakOff

\* The batches that the simulated sources give never contradict themselves, however
\* many interfaces share a name, so the order of the records of a batch does not
\* decide an alert.
THEOREM PipelineBatchesAgree == PSpec => []NoContradiction
<1>1. PInit => NoContradiction
  <2>1. ToSet(<<>>) = {} /\ NoBatch.records = <<>>
    BY DEF ToSet, NoBatch
  <2>. QED
    BY <2>1 DEF PInit, NoContradiction, BatchAgrees
<1>. QED
  BY <1>1, NoContradictionNext, SpecPipeInv, PTL DEF PSpec

-----------------------------------------------------------------------------
\* A step of the pipeline evaluates one reported record, or leaves the alerts alone.
LEMMA AlertSteps ==
  ASSUME PipeInv, [PNext]_pvars
  PROVE  UNCHANGED alerts \/ \E r \in TelemetryRecord : EvaluateRecord(r)
<1>1. CASE EvaluateNext
  <2>1. PICK d \in SimDevice, s \in Scenario :
           \E r \in Reported(d, s), rest \in Seq(Reported(d, s)) : Turn(d, s, r, rest)
    BY <1>1, TurnWay, Zenon DEF PipeInv
  <2>2. PICK r \in Reported(d, s) : EvaluateRecord(r)
    BY <2>1, Zenon DEF Turn
  <2>. QED
    BY <2>2, ReportedKey
<1>. QED
  BY <1>1, PNextCases DEF PollDevice, RestartApp, Take, BreakOff

\* From the simulator to the table, the alert history is never rewritten, whatever the
\* scenarios, restarts and lost, repeated or broken off batches (engine.py:104-157).
THEOREM PipelineHistory == PSpec => HistoryIsKept
<1>1. PipeInv /\ [PNext]_pvars => [HistoryStep]_alerts
  BY AlertSteps, EvaluateKeepsHistory DEF PipeInv, HeardInv
<1>. QED
  BY <1>1, SpecPipeInv, PTL DEF PSpec, HistoryIsKept

\* The alerts of the simulated network implement the contract of the engine, with the
\* records the sources really build in place of any records.
THEOREM PipelineImplementsContract == PSpec => ImplementsContract
<1>1. PInit => Contract!Init
  BY InitImplements DEF PInit
<1>2. PipeInv /\ [PNext]_pvars => [Contract!Next]_Contract!vars
  BY AlertSteps, EvaluateImplements, StutterImplements DEF PipeInv, HeardInv
<1>. QED
  BY <1>1, <1>2, SpecPipeInv, PTL DEF PSpec, ImplementsContract, Contract!Spec

-----------------------------------------------------------------------------
\* The second poll in a row of a device that is up.
LEMMA SimKeysType ==
  ASSUME NEW d \in SimDevice, NEW k \in SimKeys(d)
  PROVE  k \in Key /\ k.device = d
<1>1. PICK i \in Interface \cup {NoInterface}, m \in AlertMetric : k = AlertKey(d, i, m)
  <2>1. \/ \E i \in SimIndex, x \in Direction : k = AlertKey(d, InterfaceName[i], MetricOf[x])
        \/ \E m \in {"device_reachable", "latency_avg_ms", "packet_loss_percent"} :
              k = AlertKey(d, NoInterface, m)
    BY DEF SimKeys
  <2>2. \A i \in SimIndex : InterfaceName[i] \in Interface
    BY PipelineAssumption
  <2>. QED
    BY <2>1, <2>2, MetricsOf
<1>2. d \in Device
  BY PipelineAssumption
<1>3. k \in Key
  BY <1>1, <1>2 DEF Key
<1>4. k.device = d
  BY <1>1 DEF AlertKey
<1>. QED
  BY <1>3, <1>4

LEMMA PollWhole ==
  ASSUME SimInv, WayInv, WholeInv, CountersFit, CountersFit',
         NEW a \in App, NEW d \in SimDevice, PollDevice(a, d)
  PROVE  WholeInv'
<1>1. PICK s \in Scenario : s = ScenarioOf(a, d)
  BY ScenarioType DEF SimInv
<1>2. PICK e \in Rounding, b \in SoundBatch : Sent(a, d, e, b)
  BY SendWay
<1>3. /\ ups' = [ups EXCEPT ![a][d] = Ups(a, d, s)]
      /\ previous' = [previous EXCEPT ![a][d] = SampleOf(a, d, s)]
      /\ s # "DEVICE_DOWN" => counters'[a][d] = Advanced(a, d, s)
  BY <1>1 DEF PollDevice, Poll, SimInv, SimType
<1>4. Ups(a, d, s) \in 0..2 /\ (Ups(a, d, s) > 0 => s # "DEVICE_DOWN")
  BY DEF Ups
<1>5. ups' \in [App -> [SimDevice -> 0..2]]
  BY <1>3, <1>4 DEF WholeInv
<1>6. ASSUME NEW c \in App, NEW f \in SimDevice, ups'[c][f] > 0
      PROVE  previous'[c][f].reachable = TRUE
  <2>1. CASE c = a /\ f = d
    <3>1. ups'[c][f] = Ups(a, d, s) /\ previous'[c][f] = SampleOf(a, d, s)
      BY <1>3, <2>1 DEF WholeInv, SimInv, SimType
    <3>. QED
      BY <1>4, <1>6, <3>1 DEF SampleOf
  <2>2. CASE ~(c = a /\ f = d)
    <3>1. ups'[c][f] = ups[c][f] /\ previous'[c][f] = previous[c][f]
      BY <1>3, <2>2 DEF WholeInv, SimInv, SimType
    <3>. QED
      BY <1>6, <3>1 DEF WholeInv
  <2>. QED
    BY <2>1, <2>2
<1>7. Whole(b)
  <2>1. SUFFICES ASSUME b.ups = 2, NEW k \in SimKeys(d) PROVE Covers(b, k)
    BY <1>2 DEF Whole, Sent
  <2>2. s # "DEVICE_DOWN" /\ clock > lastPoll[a][d] /\ ups[a][d] > 0
    BY <1>1, <1>2, <2>1 DEF Ups, Sent
  <2>3. previous[a][d].reachable = TRUE
    BY <2>2 DEF WholeInv
  <2>4. \A i \in SimIndex, x \in Direction : Advanced(a, d, s)[i][x] < Modulus[CounterBits]
    BY <1>3, <2>2 DEF CountersFit
  <2>5. \A i \in SimIndex, x \in Direction : <<i, x>> \in Measured(a, d)
    BY <1>1, <2>2, <2>3, <2>4, MeasuredAll
  <2>6. \E r \in ToSet(Records(a, d, s, e)) : KeyOf(r) = k
    BY <1>1, <2>1, <2>2, <2>5, RecordsCover
  <2>. QED
    BY <1>1, <1>2, <2>6 DEF Covers, Sent
<1>8. \A c \in App : \A g \in ToSet(transit'[c]) : Whole(g)
  BY <1>2, <1>7 DEF WholeInv, Sent
<1>. QED
  BY <1>5, <1>6, <1>8 DEF WholeInv

LEMMA RestartWhole ==
  ASSUME SimInv, WholeInv, NEW a \in App, RestartApp(a)
  PROVE  WholeInv'
<1>1. /\ ups' = [ups EXCEPT ![a] = [d \in SimDevice |-> 0]]
      /\ previous' = [previous EXCEPT ![a] = [d \in SimDevice |-> NoSample]]
      /\ UNCHANGED transit
  BY DEF RestartApp, Restart
<1>2. ups' \in [App -> [SimDevice -> 0..2]]
  BY <1>1 DEF WholeInv
<1>3. ASSUME NEW c \in App, NEW d \in SimDevice, ups'[c][d] > 0
      PROVE  previous'[c][d].reachable = TRUE
  <2>1. c # a
    BY <1>1, <1>3 DEF WholeInv
  <2>2. ups'[c][d] = ups[c][d] /\ previous'[c][d] = previous[c][d]
    BY <1>1, <2>1 DEF WholeInv, SimInv, SimType
  <2>. QED
    BY <1>3, <2>2 DEF WholeInv
<1>. QED
  BY <1>1, <1>2, <1>3 DEF WholeInv

LEMMA NextWholeInv ==
  ASSUME PipeInv, WholeInv, CountersFit, CountersFit', [PNext]_pvars
  PROVE  WholeInv'
<1>1. ASSUME NEW a \in App, Take(a) PROVE WholeInv'
  <2>1. UNCHANGED <<ups, previous>>
    BY <1>1 DEF Take, simvars
  <2>2. \A c \in App : ToSet(transit'[c]) \subseteq ToSet(transit[c])
    BY <1>1, TakeWay DEF PipeInv
  <2>. QED
    BY <2>1, <2>2 DEF WholeInv
<1>2. ASSUME UNCHANGED <<ups, previous, transit>> PROVE WholeInv'
  BY <1>2 DEF WholeInv
<1>. QED
  BY <1>1, <1>2, PollWhole, RestartWhole, PNextCases
     DEF PipeInv, EvaluateNext, BreakOff, simvars

-----------------------------------------------------------------------------
\* What is told of a device.
LEMMA TakeTold ==
  ASSUME WayInv, WholeInv, ToldInv, NEW a \in App, Take(a)
  PROVE  ToldInv'
<1>1. PICK b \in SoundBatch : b = handling' /\ b \in ToSet(transit[a])
  BY TakeWay
<1>2. b.device \in SimDevice /\ Whole(b)
  BY <1>1 DEF SoundBatch, SimBatch, WholeInv
<1>3. told' = [told EXCEPT ![b.device] = Nothing] /\ UNCHANGED heard
  BY <1>1 DEF Take
<1>4. told' \in [SimDevice -> [scenario : Scenario \cup {"none"}, ups : 0..2]]
  <2>1. Nothing \in [scenario : Scenario \cup {"none"}, ups : 0..2]
    BY DEF Nothing
  <2>. QED
    BY <1>2, <1>3, <2>1 DEF ToldInv
<1>5. ASSUME NEW d \in SimDevice, told'[d].ups = 2
      PROVE  d # b.device /\ told'[d] = told[d]
  BY <1>2, <1>3, <1>5 DEF ToldInv, Nothing
<1>6. told'[b.device].ups = 0
  BY <1>2, <1>3 DEF ToldInv, Nothing
<1>7. b.ups = 2 => \A k \in SimKeys(b.device) : Covers(b, k)
  BY <1>2 DEF Whole
<1>. QED
  BY <1>1, <1>3, <1>4, <1>5, <1>6, <1>7 DEF ToldInv

LEMMA EvaluateTold ==
  ASSUME WayInv, HeardInv, ToldInv, EvaluateNext
  PROVE  ToldInv'
<1>1. PICK d \in SimDevice, s \in Scenario :
         \E r \in Reported(d, s), rest \in Seq(Reported(d, s)) : Turn(d, s, r, rest)
  BY TurnWay, Zenon
<1>2. PICK r \in Reported(d, s), rest \in Seq(Reported(d, s)) :
           /\ handling \in SoundBatch /\ handling.device = d /\ handling.scenario = s
           /\ ToSet(handling.records) = {r} \cup ToSet(rest)
           /\ heard' = [heard EXCEPT ![KeyOf(r)] = s]
           /\ \/ /\ rest = <<>> /\ handling' = NoBatch
                 /\ told' = [told EXCEPT ![d] = [scenario |-> s, ups |-> handling.ups]]
              \/ /\ rest # <<>> /\ UNCHANGED told
                 /\ handling'.device = d /\ handling'.scenario = s
                 /\ handling'.ups = handling.ups /\ handling'.records = rest
  BY <1>1, Zenon DEF Turn
<1>3. handling # NoBatch /\ handling.ups \in 0..2
  BY <1>2 DEF SoundBatch, SimBatch, EvaluateNext
<1>4. /\ told[d].ups = 0
      /\ handling.ups = 2 => \A k \in SimKeys(d) : heard[k] = s \/ Covers(handling, k)
  BY <1>2, <1>3 DEF ToldInv
<1>5. KeyOf(r) \in Key /\ KeyOf(r).device = d
  BY ReportedKey
<1>6. /\ heard'[KeyOf(r)] = s
      /\ \A k \in Key : k # KeyOf(r) => heard'[k] = heard[k]
  BY <1>2, <1>5 DEF HeardInv
<1>7. ASSUME NEW f \in SimDevice, f # d, NEW k \in SimKeys(f)
      PROVE  heard'[k] = heard[k]
  <2>1. k \in Key /\ k.device = f
    BY SimKeysType
  <2>. QED
    BY <1>5, <1>6, <1>7, <2>1
<1>8. ASSUME handling.ups = 2, NEW k \in SimKeys(d)
      PROVE  heard'[k] = s \/ \E g \in ToSet(rest) : KeyOf(g) = k
  <2>1. k \in Key
    BY SimKeysType
  <2>2. CASE k = KeyOf(r)
    BY <1>6, <2>2
  <2>3. CASE k # KeyOf(r)
    <3>1. heard'[k] = heard[k]
      BY <1>6, <2>1, <2>3
    <3>2. CASE heard[k] = s
      BY <3>1, <3>2
    <3>3. CASE Covers(handling, k)
      <4>1. PICK g \in {r} \cup ToSet(rest) : KeyOf(g) = k
        BY <1>2, <3>3, Zenon DEF Covers
      <4>. QED
        BY <2>3, <4>1
    <3>. QED
      BY <1>4, <1>8, <3>2, <3>3
  <2>. QED
    BY <2>2, <2>3
<1>9. CASE /\ rest = <<>> /\ handling' = NoBatch
           /\ told' = [told EXCEPT ![d] = [scenario |-> s, ups |-> handling.ups]]
  <2>1. told' \in [SimDevice -> [scenario : Scenario \cup {"none"}, ups : 0..2]]
    <3>1. [scenario |-> s, ups |-> handling.ups] \in [scenario : Scenario \cup {"none"}, ups : 0..2]
      BY <1>3
    <3>. QED
      BY <1>9, <3>1 DEF ToldInv
  <2>2. ToSet(rest) = {}
    BY <1>9 DEF ToSet
  <2>3. ASSUME NEW f \in SimDevice, told'[f].ups = 2, NEW k \in SimKeys(f)
        PROVE  heard'[k] = told'[f].scenario /\ heard'[k] \in Scenario
    <3>1. CASE f = d
      <4>1. told'[f].scenario = s /\ handling.ups = 2
        BY <1>9, <2>3, <3>1 DEF ToldInv
      <4>. QED
        BY <1>8, <2>2, <2>3, <3>1, <4>1
    <3>2. CASE f # d
      <4>1. told'[f] = told[f]
        BY <1>9, <3>2 DEF ToldInv
      <4>2. heard'[k] = heard[k]
        BY <1>7, <3>2
      <4>. QED
        BY <2>3, <4>1, <4>2 DEF ToldInv
    <3>. QED
      BY <3>1, <3>2
  <2>. QED
    BY <1>9, <2>1, <2>3 DEF ToldInv
<1>10. CASE /\ rest # <<>> /\ UNCHANGED told
            /\ handling'.device = d /\ handling'.scenario = s
            /\ handling'.ups = handling.ups /\ handling'.records = rest
  <2>1. ASSUME NEW f \in SimDevice, told'[f].ups = 2, NEW k \in SimKeys(f)
        PROVE  heard'[k] = told'[f].scenario /\ heard'[k] \in Scenario
    <3>1. f # d
      BY <1>4, <1>10, <2>1
    <3>2. heard'[k] = heard[k]
      BY <1>7, <3>1
    <3>. QED
      BY <1>10, <2>1, <3>2 DEF ToldInv
  <2>2. handling.ups = 2 => \A k \in SimKeys(d) : heard'[k] = s \/ Covers(handling, k)'
    BY <1>8, <1>10 DEF Covers
  <2>. QED
    BY <1>4, <1>10, <2>1, <2>2 DEF ToldInv
<1>. QED
  BY <1>2, <1>9, <1>10, Zenon

LEMMA NextToldInv ==
  ASSUME PipeInv, WholeInv, ToldInv, [PNext]_pvars
  PROVE  ToldInv'
<1>1. ASSUME UNCHANGED <<told, heard>>, handling' \in {handling, NoBatch}
      PROVE  ToldInv'
  BY <1>1 DEF ToldInv, Covers
<1>. QED
  BY <1>1, TakeTold, EvaluateTold, PNextCases
     DEF PipeInv, PollDevice, RestartApp, BreakOff

\* A scenario shows after two polls, as long as no counter of 64 bits runs full:
\* that takes it thousands of years at the rates of the scenarios, and the second
\* poll is the one that has a utilization (test_end_to_end.py:86-89).
THEOREM PipelineTwoPolls == PSpec /\ []CountersFit => []TwoPollsSuffice
<1>. DEFINE TInv == WholeInv /\ ToldInv
<1>1. PInit => TInv
  <2>1. SUFFICES ASSUME PInit PROVE TInv
    OBVIOUS
  <2>2. ups \in [App -> [SimDevice -> 0..2]] /\ \A a \in App, d \in SimDevice : ups[a][d] = 0
    BY <2>1 DEF PInit
  <2>3. \A a \in App : ToSet(transit[a]) = {}
    BY <2>1 DEF PInit, ToSet
  <2>4. /\ told \in [SimDevice -> [scenario : Scenario \cup {"none"}, ups : 0..2]]
        /\ \A d \in SimDevice : told[d].ups = 0
    BY <2>1 DEF PInit, Nothing
  <2>5. handling = NoBatch
    BY <2>1 DEF PInit
  <2>6. WholeInv
    BY <2>2, <2>3 DEF WholeInv
  <2>7. ToldInv
    BY <2>4, <2>5 DEF ToldInv
  <2>. QED
    BY <2>6, <2>7
<1>2. PipeInv /\ CountersFit /\ CountersFit' /\ TInv /\ [PNext]_pvars => TInv'
  BY NextWholeInv, NextToldInv
<1>3. PipeInv /\ TInv => TwoPollsSuffice
  <2>1. SUFFICES ASSUME PipeInv, ToldInv, NEW d \in SimDevice, told[d].ups = 2,
                        NEW k \in SimKeys(d), Relevant(k.metric)
                 PROVE  IsAs(k, told[d].scenario)
    BY DEF TwoPollsSuffice
  <2>2. heard[k] = told[d].scenario /\ heard[k] \in Scenario
    BY <2>1 DEF ToldInv
  <2>3. heard[k] # "none"
    BY <2>2 DEF Scenario, Throughput
  <2>4. k \in Key
    BY SimKeysType
  <2>. QED
    BY <2>1, <2>2, <2>3, <2>4 DEF PipeInv, HeardInv, AlertsTellLastHeard
<1>. QED
  BY <1>1, <1>2, <1>3, SpecPipeInv, PTL DEF PSpec

=============================================================================
