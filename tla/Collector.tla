------------------------------ MODULE Collector ------------------------------
(***************************************************************************)
(* The poll loop of the collector, src/Code/collector/main.py, over        *)
(* devices that carry traffic, reboot, renumber their interfaces and stop  *)
(* answering, and the batch it builds of each poll                         *)
(* (src/Code/collector/grpc_client/telemetry_builder.py).                  *)
(*                                                                         *)
(* Between two awaits of the loop anything may happen to the devices and   *)
(* to the wall clock.  A poll itself is one step here: the sample is a     *)
(* snapshot of the device.                                                 *)
(***************************************************************************)
EXTENDS Ports, Sequences, Bags

CONSTANTS Device,      \* device ids
          DeviceList,  \* the devices of devices.yaml, in order
          Speed        \* Speed[n]: what interface n says of its speed, maybe 0

ASSUME DeviceListAssumption == DeviceList \in Seq(Device) /\ DeviceList # <<>>

ASSUME SpeedAssumption == Speed \in [Name -> Nat]

VARIABLES net,       \* net[d]: the interfaces of device d, by if_index
          clock,     \* the wall clock of the collector
          previous,  \* _previous_samples
          turn,      \* the place in DeviceList of the device at hand
          pc,        \* where the loop is
          job        \* what _poll_device holds of that device

\* History variables: how often interfaces changed and, of each device, the bag of
\* the octets that passed and the bag of those reported; an octet belongs to a
\* counter <<if_index, life, direction>>.
VARIABLES lives, carried, reported

cvars == <<net, clock, previous, turn, pc, job, lives, carried, reported>>

\* No previous sample serves like one of a device that did not answer: there is
\* nothing to compare with.
NoSample == [reachable |-> FALSE, time |-> 0, ifs |-> <<>>]

NoJob == [previous |-> NoSample, sample |-> NoSample, latency |-> "none"]

CInit == /\ net = [d \in Device |-> <<>>]
         /\ clock = 0 /\ lives = 0
         /\ previous = [d \in Device |-> NoSample]
         /\ turn = 1 /\ pc = "poll" /\ job = NoJob
         /\ carried = [d \in Device |-> EmptyBag]
         /\ reported = [d \in Device |-> EmptyBag]

-----------------------------------------------------------------------------
\* The devices and the clock.

loop == <<previous, turn, pc, job, reported>>

\* Octets pass an interface; its counter wraps around.
Carry(d, i, x, n) ==
  /\ i \in DOMAIN net[d]
  /\ net' = [net EXCEPT ![d][i] = Pass(@, x, n)]
  /\ carried' = [carried EXCEPT ![d] = @ (+) [c \in {<<i, net[d][i].life, x>>} |-> n]]
  /\ UNCHANGED <<clock, lives, loop>>

\* The device reboots: the counters start at 0, under indexes given anew.
Reboot(d, table) ==
  /\ lives' = lives + 1
  /\ net' = [net EXCEPT ![d] = Rebooted(table, lives')]
  /\ UNCHANGED <<clock, loop, carried>>

\* Interfaces come and go; those that stay keep their counters.
Reconfigure(d, table) ==
  /\ lives' = lives + 1
  /\ net' = [net EXCEPT ![d] = Reconfigured(net[d], table, lives')]
  /\ UNCHANGED <<clock, loop, carried>>

\* Time passes, or the clock is set back.
Tick == /\ \E step \in {-1, 1} : clock' = clock + step
        /\ UNCHANGED <<net, lives, loop, carried>>

-----------------------------------------------------------------------------
\* The poll loop.

world == <<net, clock, lives, carried>>

\* Slip: the index runs to the length of the list, not below it.
NextDevicePastEnd ==
  IF turn <= Len(DeviceList)
    THEN turn' = turn + 1 /\ pc' = "poll"
    ELSE turn' = 1 /\ pc' = "sleep"

NextDevice == IF turn < Len(DeviceList)
                THEN turn' = turn + 1 /\ pc' = "poll"
                ELSE turn' = 1 /\ pc' = "sleep"

\* Slip: the sample is remembered when there is none (setdefault).
PollKeepsFirst(s) ==
  /\ pc = "poll"
  /\ LET d == DeviceList[turn]
     IN  /\ job' = [previous |-> previous[d], sample |-> s, latency |-> "none"]
         /\ previous' = [previous EXCEPT ![d] = IF @.reachable THEN @ ELSE s]
  /\ pc' = "measure"
  /\ UNCHANGED <<world, turn, reported>>

\* poll_device returns a sample; it takes the place of the previous one.
Poll(s) ==
  /\ pc = "poll"
  /\ LET d == DeviceList[turn]
     IN  /\ job' = [previous |-> previous[d], sample |-> s, latency |-> "none"]
         /\ previous' = [previous EXCEPT ![d] = s]
  /\ pc' = "measure"
  /\ UNCHANGED <<world, turn, reported>>

Answered == Poll([reachable |-> TRUE, time |-> clock,
                  ifs |-> net[DeviceList[turn]]])

NotAnswered == Poll([reachable |-> FALSE, time |-> clock, ifs |-> <<>>])

\* Slip: the exception leaves the loop over the devices.
PollRaisesOut == /\ pc = "poll"
                 /\ turn' = 1 /\ pc' = "sleep"
                 /\ UNCHANGED <<world, previous, job, reported>>

\* poll_device raises: poll_once logs it and goes on with the next device.
PollRaises == /\ pc = "poll"
              /\ NextDevice
              /\ UNCHANGED <<world, previous, job, reported>>

\* measure raises ("none"), finds no answer, or returns the latency.
MeasureLatency ==
  /\ pc = "measure"
  /\ \E r \in {"none", "lost", "answered"} : job' = [job EXCEPT !.latency = r]
  /\ pc' = "send"
  /\ UNCHANGED <<world, previous, turn, reported>>

\* build_batch: the readings of each metric type.  A device that did not answer
\* has its reachability record only.
BuildBatch(j) ==
  LET valid == {ix \in Matched(j.previous, j.sample) \X Direction :
                  Measure(j.previous, j.sample, ix[1], ix[2]).valid}
      reading(ix) == [index |-> ix[1], direction |-> ix[2],
                      interface |-> j.sample.ifs[ix[1]].name,
                      measured |-> Measure(j.previous, j.sample, ix[1], ix[2])]
      bandwidth == {reading(ix) : ix \in valid}
  IN  [device_reachable |-> j.sample.reachable,
       bandwidth   |-> bandwidth,
       utilization |-> {r \in bandwidth : UtilizationValid(r.measured, Speed[r.interface])},
       latency     |-> j.sample.reachable /\ j.latency = "answered",
       packet_loss |-> j.sample.reachable /\ j.latency # "none"]

\* A reset that went through as a wraparound.
Misread(j, r) == /\ r.measured.wrapped
                 /\ j.previous.ifs[r.index].life # j.sample.ifs[r.index].life

\* The octets in the readings of a job: a bag.
Octets(j, readings) ==
  LET counter(r) == <<r.index, j.sample.ifs[r.index].life, r.direction>>
      counted    == {r \in readings : ~Misread(j, r) /\ r.measured.octets > 0}
  IN  [c \in {counter(r) : r \in counted} |->
         (CHOOSE r \in counted : counter(r) = c).measured.octets]

\* The batch goes to send_batch, whose answer is only logged.
Send ==
  /\ pc = "send"
  /\ reported' = [reported EXCEPT ![DeviceList[turn]] =
                    @ (+) Octets(job, BuildBatch(job).bandwidth)]
  /\ NextDevice
  /\ job' = NoJob
  /\ UNCHANGED <<world, previous>>

\* The sleep between two rounds is over.
Wake == /\ pc = "sleep"
        /\ pc' = "poll"
        /\ UNCHANGED <<world, previous, turn, job, reported>>

\* The collector is restarted: the samples were in its memory.
RestartCollector ==
  /\ previous' = [d \in Device |-> NoSample]
  /\ turn' = 1 /\ pc' = "poll" /\ job' = NoJob
  /\ UNCHANGED <<world, reported>>

Loop == Answered \/ NotAnswered \/ PollRaises \/ MeasureLatency \/ Send \/ Wake

World == \/ Tick
         \/ \E d \in Device, i \in Index, x \in Direction, n \in 1..Width - 1 :
               Carry(d, i, x, n)
         \/ \E d \in Device, table \in Tables :
               Reboot(d, table) \/ Reconfigure(d, table)

CNext == Loop \/ RestartCollector \/ World

\* Every await of the loop has a timeout: of SNMP, of ping and of send_batch.
CSpec == CInit /\ [][CNext]_cvars /\ WF_cvars(Loop)

-----------------------------------------------------------------------------
IsTable(ifs) == DOMAIN ifs \subseteq Index /\ ifs \in [DOMAIN ifs -> Port]

IsSample(s) == /\ s.reachable \in BOOLEAN
               /\ s.time \in Int
               /\ IsTable(s.ifs)

CTypeOK ==
  /\ net = [d \in Device |-> net[d]] /\ \A d \in Device : IsTable(net[d])
  /\ clock \in Int /\ lives \in Nat
  /\ previous = [d \in Device |-> previous[d]]
  /\ \A d \in Device : IsSample(previous[d])
  /\ turn \in 1..Len(DeviceList)
  /\ pc \in {"poll", "measure", "send", "sleep"}
  /\ job = [previous |-> job.previous, sample |-> job.sample, latency |-> job.latency]
  /\ IsSample(job.previous) /\ IsSample(job.sample)

\* What really passed interface i in direction x between the samples of the
\* job: since the previous one or, if the counters started anew, since then.
Passed(i, x) ==
  LET p == job.previous.ifs[i]
      s == job.sample.ifs[i]
  IN  IF p.life = s.life THEN s.passed[x] - p.passed[x] ELSE s.passed[x]

\* A bandwidth is exact: when the counters lived on and did not lap, it is what
\* passed, wraparound or not, and however many polls failed in between
\* (bandwidth.py:87-104, main.py:105-108).
MeasuredIsPassed ==
  \A i \in Matched(job.previous, job.sample), x \in Direction :
    LET m == Measure(job.previous, job.sample, i, x)
    IN  (/\ m.valid
         /\ job.previous.ifs[i].life = job.sample.ifs[i].life
         /\ Passed(i, x) < Width)
          => m.octets = Passed(i, x)

\* A reset "never" makes "a fabricated spike" (README.md:270-273): a bandwidth is
\* above what really passed only as a wraparound within the ceiling, and never
\* for a reading in which no time went by (bandwidth.py:77-101).
NoSpike ==
  \A i \in Matched(job.previous, job.sample), x \in Direction :
    LET m == Measure(job.previous, job.sample, i, x)
        t == Elapsed(job.previous, job.sample)
    IN  m.valid => /\ t > 0
                   /\ \/ m.octets <= Passed(i, x)
                      \/ m.wrapped /\ Plausible(m.octets, t)

\* No octet is reported twice: what is reported of each counter of a device is part
\* of what passed that counter, over failed polls, reboots, renumbered interfaces and restarts, but
\* for a reset that went through as a wraparound (main.py:105-108,
\* interface_metrics.py:90-104).
ReportedOnce == \A d \in Device : reported[d] \sqsubseteq carried[d]

\* A device that never answers, or whose poll always raises, does not keep the
\* others from being polled: every device has its turn again and again, unless
\* the collector is restarted again and again (main.py:91-101, 126-128).
EveryDevicePolled ==
  \/ \A k \in DOMAIN DeviceList : []<>(turn = k /\ pc = "poll")
  \/ []<><<RestartCollector>>_cvars
=============================================================================
