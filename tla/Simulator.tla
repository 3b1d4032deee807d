------------------------------ MODULE Simulator ------------------------------
(***************************************************************************)
(* The simulated sources of src/Code/collector/simulator/ and what a       *)
(* collector in SIMULATION mode makes of them: counters that advance with  *)
(* the time between the polls, at the rates of the scenario of the moment, *)
(* and the bandwidth the collector calculates back from them.              *)
(*                                                                         *)
(* There may be several collectors, each with a simulator of its own: the  *)
(* main process and the demo script, src/Code/scripts/demo_scenario.py.    *)
(* None of the awaits between poll_device and the end of measure suspends  *)
(* on simulated sources, so that all of it is one step.                    *)
(*                                                                         *)
(* Octets are counted in hundreds, time in seconds, rates in tenths of a   *)
(* percent of the line.                                                    *)
(***************************************************************************)
EXTENDS Bandwidth, Functions

CONSTANTS App,        \* collectors
          SimDevice,  \* the devices of devices.yaml
          SimIndex    \* the if_indexes of _SIMULATED_INTERFACES

ASSUME DirectionAssumption == Direction = {"in", "out"}

\* Speed of every interface: 1 Gbps.
LineRate == 1250000

Traffic(in, out) == [in |-> in, out |-> out]

\* SCENARIO_THROUGHPUT_BYTES_PER_SECOND.
Throughput == [NORMAL         |-> Traffic(125000, 80000),
               HIGH_BANDWIDTH |-> Traffic(1125000, 1000000),
               HIGH_LATENCY   |-> Traffic(125000, 80000),
               PACKET_LOSS    |-> Traffic(125000, 80000),
               DEVICE_DOWN    |-> Traffic(0, 0),
               RECOVERY       |-> Traffic(125000, 80000)]

\* SCENARIO_LATENCY_PROFILE: the average in milliseconds, the loss in percent.
LatencyProfile == [NORMAL         |-> [avg |-> 5,   loss |-> 0],
                   HIGH_BANDWIDTH |-> [avg |-> 15,  loss |-> 0],
                   HIGH_LATENCY   |-> [avg |-> 150, loss |-> 0],
                   PACKET_LOSS    |-> [avg |-> 20,  loss |-> 15],
                   DEVICE_DOWN    |-> [avg |-> 0,   loss |-> 100],
                   RECOVERY       |-> [avg |-> 6,   loss |-> 0]]

Scenario == DOMAIN Throughput

VARIABLES clock,      \* the wall clock, one for all
          default,    \* default[a]: _default of the ScenarioController of a
          overrides,  \* overrides[a]: _overrides
          counters,   \* counters[a][d]: the octets of each interface of d
          lastPoll,   \* lastPoll[a][d]: _last_poll_time of d, if there is one
          previous    \* previous[a][d]: _previous_samples of d

simvars == <<default, overrides, counters, lastPoll, previous>>

Never == -1   \* no time yet

NoSample == [reachable |-> FALSE, time |-> 0, ifs |-> <<>>]

\* An entry that setdefault would make.
ZeroCounters == [i \in SimIndex |-> [x \in Direction |-> 0]]

FreshApp == [d \in SimDevice |-> ZeroCounters]

SimInit == /\ clock = 0
           /\ default = [a \in App |-> "NORMAL"]
           /\ overrides = [a \in App |-> <<>>]
           /\ counters = [a \in App |-> FreshApp]
           /\ lastPoll = [a \in App |-> [d \in SimDevice |-> Never]]
           /\ previous = [a \in App |-> [d \in SimDevice |-> NoSample]]

-----------------------------------------------------------------------------
\* ScenarioController.

ScenarioOf(a, d) == IF d \in DOMAIN overrides[a] THEN overrides[a][d] ELSE default[a]

Override(f, d, s) == [e \in DOMAIN f \cup {d} |-> IF e = d THEN s ELSE f[e]]

SetScenario(a, s, d) ==
  /\ overrides' = [overrides EXCEPT ![a] = Override(@, d, s)]
  /\ UNCHANGED <<clock, default, counters, lastPoll, previous>>

\* For all devices: the overrides are gone.
SetScenarioForAll(a, s) ==
  /\ default' = [default EXCEPT ![a] = s]
  /\ overrides' = [overrides EXCEPT ![a] = <<>>]
  /\ UNCHANGED <<clock, counters, lastPoll, previous>>

ClearOverride(a, d) ==
  /\ overrides' = [overrides EXCEPT ![a] = Restrict(@, DOMAIN @ \ {d})]
  /\ UNCHANGED <<clock, default, counters, lastPoll, previous>>

\* Time passes, or the clock is set back.
Tick == /\ clock' \in {clock - 1, clock + 1} \cap Nat
        /\ UNCHANGED simvars

-----------------------------------------------------------------------------
\* The octets that pass between two polls; an interval that is empty or negative
\* counts as a millisecond, the first one as a second.
Advance(rate, last, now) ==
  LET elapsed == IF last = Never THEN 1 ELSE now - last
  IN  IF elapsed > 0 THEN rate * elapsed ELSE rate \div 1000

Advanced(a, d, s) ==
  [i \in SimIndex |-> [x \in Direction |->
     counters[a][d][i][x] + Advance(Throughput[s][x], lastPoll[a][d], clock)]]

\* The sample of poll_device; a device that is down has no counters to show.
SampleOf(a, d, s) ==
  IF s = "DEVICE_DOWN"
    THEN [reachable |-> FALSE, time |-> clock, ifs |-> <<>>]
    ELSE [reachable |-> TRUE, time |-> clock,
          ifs |-> [i \in SimIndex |-> [count |-> Advanced(a, d, s)[i]]]]

\* Slip: a device that is down leaves the last sample it was seen with.
PollKeepsReachable(a, d) ==
  LET s == ScenarioOf(a, d)
  IN  /\ lastPoll' = [lastPoll EXCEPT ![a][d] = clock]
      /\ counters' = [counters EXCEPT ![a][d] =
                        IF s = "DEVICE_DOWN" THEN @ ELSE Advanced(a, d, s)]
      /\ previous' = [previous EXCEPT ![a][d] =
                        IF s = "DEVICE_DOWN" THEN @ ELSE SampleOf(a, d, s)]
      /\ UNCHANGED <<clock, default, overrides>>

\* poll_device, and the sample that _poll_device remembers.
Poll(a, d) ==
  LET s == ScenarioOf(a, d)
  IN  /\ lastPoll' = [lastPoll EXCEPT ![a][d] = clock]
      /\ counters' = [counters EXCEPT ![a][d] =
                        IF s = "DEVICE_DOWN" THEN @ ELSE Advanced(a, d, s)]
      /\ previous' = [previous EXCEPT ![a][d] = SampleOf(a, d, s)]
      /\ UNCHANGED <<clock, default, overrides>>

\* A collector that starts: main.py again, or the demo script.
Restart(a) ==
  /\ default' = [default EXCEPT ![a] = "NORMAL"]
  /\ overrides' = [overrides EXCEPT ![a] = <<>>]
  /\ counters' = [counters EXCEPT ![a] = FreshApp]
  /\ lastPoll' = [lastPoll EXCEPT ![a] = [d \in SimDevice |-> Never]]
  /\ previous' = [previous EXCEPT ![a] = [d \in SimDevice |-> NoSample]]
  /\ UNCHANGED clock

-----------------------------------------------------------------------------
\* What the poll of d by a would measure now: the interfaces and directions with a
\* valid bandwidth, and their utilization.
Measured(a, d) ==
  LET p == previous[a][d]
      s == SampleOf(a, d, ScenarioOf(a, d))
  IN  {ix \in Matched(p, s) \X Direction : Measure(p, s, ix[1], ix[2]).valid}

\* In tenths of a percent, rounded down.
Utilization(octets, elapsed) == octets \div ((LineRate \div 1000) * elapsed)

UtilizationOf(a, d, i, x) ==
  LET p == previous[a][d]
      s == SampleOf(a, d, ScenarioOf(a, d))
  IN  Utilization(Measure(p, s, i, x).octets, Elapsed(p, s))

-----------------------------------------------------------------------------
\* The utilization that scenario s stands for.
RateOf(s, x) == Utilization(Throughput[s][x], 1)

\* The point of a simulator of counters (simulator_source.py:5-10): whatever was
\* polled before, through changes of scenario, outages, restarts, polls at the same
\* moment and a clock set back, what the collector calculates is the rate of the
\* scenario it polls under, neither diluted by the time before nor multiplied.
RatesFollowScenario ==
  \A a \in App, d \in SimDevice : \A ix \in Measured(a, d) :
    UtilizationOf(a, d, ix[1], ix[2]) = RateOf(ScenarioOf(a, d), ix[2])
=============================================================================
