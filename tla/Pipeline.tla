------------------------------ MODULE Pipeline -------------------------------
(***************************************************************************)
(* The whole way from a scenario of the simulator to an alert: collectors  *)
(* in SIMULATION mode (main.py, and beside it scripts/demo_scenario.py),   *)
(* the batches on their way to the backend, and the alert engine that      *)
(* evaluates their records one after the other.                            *)
(*                                                                         *)
(* Of a batch there are the records that alerts are about.  What happens   *)
(* to a call is Delivery's subject; here a batch comes any number of times *)
(* (lost, or retried after an answer that came too late), in the order of  *)
(* its connection, and its evaluation may break off.  The devices of a     *)
(* round may be polled in any order.                                       *)
(***************************************************************************)
EXTENDS Simulator, AlertEngine, SequencesExt

CONSTANTS InterfaceName,  \* InterfaceName[i]: the name of the interface with if_index i
          Rounding,       \* what rounding may add to a utilization
          MaxCopies       \* how often one batch may arrive

ASSUME PipelineAssumption ==
  /\ InterfaceName \in Seq(Interface) /\ SimIndex = DOMAIN InterfaceName
  /\ SimDevice \subseteq Device /\ Rounding \subseteq Nat /\ MaxCopies \in Nat

VARIABLES transit,   \* transit[a]: the batches of a on their way
          handling   \* the batch at hand in the backend, without the records done

\* History variables: the polls in a row that found a device up, each later than
\* the one before; the scenario of the last reading evaluated of a condition;
\* and what the last batch of a device was, unless it broke off.
VARIABLES ups, heard, told

pvars == <<clock, simvars, alerts, transit, handling, ups, heard, told>>

NoBatch == [device |-> "none", scenario |-> "none", ups |-> 0, records |-> <<>>]

Nothing == [scenario |-> "none", ups |-> 0]

PInit == /\ SimInit /\ EngineInit
         /\ transit = [a \in App |-> <<>>]
         /\ handling = NoBatch
         /\ ups = [a \in App |-> [d \in SimDevice |-> 0]]
         /\ heard = [k \in Key |-> "none"]
         /\ told = [d \in SimDevice |-> Nothing]

-----------------------------------------------------------------------------
\* The collector: build_batch.

Telemetry(d, i, m, v) == [device |-> d, interface |-> i, index |-> 0,
                          metric |-> m, value |-> v, time |-> clock]

MetricOf == [in |-> "utilization_in", out |-> "utilization_out"]

\* Rounding makes a difference to a utilization that is exactly at the threshold:
\* 100 * (bits / seconds) / speed may come out a little above it.
Rounded(v, e) == IF v \in Range(Threshold) THEN v + e ELSE v

\* _add_if_valid, for the utilization of an interface in one direction.
AddIfValid(a, d, i, x, e) ==
  IF <<i, x>> \in Measured(a, d)
    THEN <<Telemetry(d, InterfaceName[i], MetricOf[x],
                     Rounded(UtilizationOf(a, d, i, x), e))>>
    ELSE <<>>

UtilizationRecords(a, d, e) ==
  FlattenSeq([i \in DOMAIN InterfaceName |->
                AddIfValid(a, d, i, "in", e) \o AddIfValid(a, d, i, "out", e)])

\* Slip: a figure of 0 passes for none.
LatencyRecordsTruthy(d, s) ==
  SelectSeq(<<Telemetry(d, NoInterface, "latency_avg_ms", LatencyProfile[s].avg),
              Telemetry(d, NoInterface, "packet_loss_percent", LatencyProfile[s].loss)>>,
            LAMBDA r : r.value # 0)

\* SimulatedLatencySource.measure.
LatencyRecords(d, s) ==
  <<Telemetry(d, NoInterface, "latency_avg_ms", LatencyProfile[s].avg),
    Telemetry(d, NoInterface, "packet_loss_percent", LatencyProfile[s].loss)>>

Records(a, d, s, e) ==
  IF s = "DEVICE_DOWN"
    THEN <<Telemetry(d, NoInterface, "device_reachable", 0)>>
    ELSE <<Telemetry(d, NoInterface, "device_reachable", 1)>>
           \o UtilizationRecords(a, d, e) \o LatencyRecords(d, s)

Ups(a, d, s) == IF s = "DEVICE_DOWN" THEN 0
                ELSE IF clock > lastPoll[a][d] /\ ups[a][d] > 0 THEN 2
                ELSE 1

\* One device of a round: _poll_device and send_batch.
PollDevice(a, d) ==
  LET s == ScenarioOf(a, d)
  IN  /\ Poll(a, d)
      /\ ups' = [ups EXCEPT ![a][d] = Ups(a, d, s)]
      /\ \E e \in Rounding, n \in 0..MaxCopies :
           LET batch == [device |-> d, scenario |-> s, ups |-> Ups(a, d, s),
                         records |-> Records(a, d, s, e)]
           IN  transit' = [transit EXCEPT ![a] = @ \o [c \in 1..n |-> batch]]
      /\ UNCHANGED <<alerts, handling, heard, told>>

\* The process ends; what it has sent is still on its way.
RestartApp(a) == /\ Restart(a)
                 /\ ups' = [ups EXCEPT ![a] = [d \in SimDevice |-> 0]]
                 /\ UNCHANGED <<alerts, transit, handling, heard, told>>

\* The scenario is set between two polls.
Control(a) == /\ \E s \in Scenario :
                   \/ \E d \in SimDevice : SetScenario(a, s, d)
                   \/ SetScenarioForAll(a, s)
              /\ UNCHANGED <<alerts, transit, handling, ups, heard, told>>

Uncontrol(a) == /\ \E d \in SimDevice : ClearOverride(a, d)
                /\ UNCHANGED <<alerts, transit, handling, ups, heard, told>>

TimePasses == Tick /\ UNCHANGED <<alerts, transit, handling, ups, heard, told>>

-----------------------------------------------------------------------------
\* The backend: one batch at a time.

Take(a) == /\ handling = NoBatch /\ transit[a] # <<>>
           /\ handling' = Head(transit[a])
           /\ transit' = [transit EXCEPT ![a] = Tail(@)]
           /\ told' = [told EXCEPT ![handling'.device] = Nothing]
           /\ UNCHANGED <<clock, simvars, alerts, ups, heard>>

\* One turn of the loop over the records of the batch.
EvaluateNext ==
  /\ handling # NoBatch
  /\ LET r == Head(handling.records)
         rest == Tail(handling.records)
     IN  /\ EvaluateRecord(r)
         /\ heard' = [heard EXCEPT ![KeyOf(r)] = handling.scenario]
         /\ IF rest = <<>>
              THEN /\ handling' = NoBatch
                   /\ told' = [told EXCEPT ![handling.device] =
                                 [scenario |-> handling.scenario, ups |-> handling.ups]]
              ELSE /\ handling' = [handling EXCEPT !.records = rest]
                   /\ UNCHANGED told
  /\ UNCHANGED <<clock, simvars, transit, ups>>

\* An evaluation raises, or the backend stops: the rest is not evaluated.
BreakOff == /\ handling # NoBatch
            /\ handling' = NoBatch
            /\ UNCHANGED <<clock, simvars, alerts, transit, ups, heard, told>>

PNext == \/ \E a \in App : RestartApp(a) \/ Control(a) \/ Uncontrol(a) \/ Take(a)
         \/ \E a \in App, d \in SimDevice : PollDevice(a, d)
         \/ TimePasses \/ EvaluateNext \/ BreakOff

PSpec == PInit /\ [][PNext]_pvars

-----------------------------------------------------------------------------
\* What a reading of metric m may say under scenario s.
Values(s, m) ==
  CASE m = "device_reachable"    -> {IF s = "DEVICE_DOWN" THEN 0 ELSE 1}
    [] m = "latency_avg_ms"      -> {LatencyProfile[s].avg}
    [] m = "packet_loss_percent" -> {LatencyProfile[s].loss}
    [] m = "utilization_in"      -> {Rounded(RateOf(s, "in"), e) : e \in Rounding}
    [] m = "utilization_out"     -> {Rounded(RateOf(s, "out"), e) : e \in Rounding}

Breaches(m, v) == IF m = "device_reachable" THEN v = 0 ELSE v > Threshold[AlertType[m]]

\* The alert of k is as scenario s has it: it is open if all its readings breach,
\* and not if none does.  The outbound traffic of HIGH_BANDWIDTH is exactly at the
\* threshold: rounding decides.
IsAs(k, s) == LET breaches == {Breaches(k.metric, v) : v \in Values(s, k.metric)}
              IN  Open(k) \in breaches

\* An alert is open exactly if the scenario that its condition was last heard of
\* under breaches, whichever collector it was heard from, over lost and repeated
\* batches, and batches whose evaluation broke off; a condition that nothing is
\* heard of keeps its alert, and one that is switched off has none (scenarios.py:29-48, ingestion_service.py:66-73).
AlertsTellLastHeard ==
  \A k \in Key : IF Relevant(k.metric) /\ heard[k] # "none" THEN IsAs(k, heard[k])
                                                           ELSE ~Open(k)

\* The conditions that the simulator reports of a device.
SimKeys(d) ==
  {AlertKey(d, NoInterface, m) : m \in {"device_reachable", "latency_avg_ms",
                                        "packet_loss_percent"}}
    \cup {AlertKey(d, InterfaceName[i], MetricOf[x]) : i \in SimIndex, x \in Direction}

\* A scenario shows after two polls (test_end_to_end.py:86-89): once a batch of
\* the second poll in a row that found the device up is evaluated, every alert of
\* the device is as its scenario has it, whatever was missed before.
TwoPollsSuffice ==
  \A d \in SimDevice : told[d].ups = 2 =>
    \A k \in SimKeys(d) : Relevant(k.metric) => IsAs(k, told[d].scenario)
=============================================================================
