------------------------------ MODULE IcmpSource ------------------------------
(***************************************************************************)
(* The latency measurement of the poll loop with the system's ping,        *)
(* src/Code/collector/ping/icmp_source.py: a child process that sends its  *)
(* probes, may hang or fail, and is killed when the overall timeout is     *)
(* over.  Collector takes measure as one step; here its awaits are steps,  *)
(* and the loop around it stays the one of Collector.                      *)
(*                                                                         *)
(* Time is counted in half seconds, from the start of the process.         *)
(***************************************************************************)
EXTENDS Collector

CONSTANTS Count,            \* probes_per_measurement
          TimeoutHalves,    \* timeout_seconds, in half seconds
          UnreachableIsReply \* whether ping counts a router's "host unreachable"
                            \* among the received: so on Windows, not on Linux

ASSUME CountAssumption == Count \in Nat \ {0} /\ TimeoutHalves \in Nat

\* The longest one probe takes: ping waits for a reply for timeout_seconds, and on
\* Linux for a whole number of seconds, at least 1; and it sends one a second.
ProbeTime == IF TimeoutHalves < 2 THEN 2 ELSE TimeoutHalves

\* overall_timeout: the probes, and 5 seconds.
Budget == TimeoutHalves * Count + 10

\* A ping that works is through before the overall timeout.  The code does not see
\* to it: with a timeout_seconds of 0.5 it takes at most 9 probes.
ASSUME PatienceAssumption == Count * ProbeTime < Budget

VARIABLES step,    \* where measure is
          ping,    \* the child process
          result   \* the IcmpResult

ivars == <<step, ping, result>>

\* stalled and failed are history: whether ping lost time on other things than
\* its probes, and whether it gave up before it had sent them all.
NoPing == [state |-> "none", time |-> 0, sent |-> 0, answered |-> 0, refused |-> 0,
           stalled |-> FALSE, failed |-> FALSE]

NoResult == [reachable |-> FALSE, loss |-> 0, sent |-> 0, received |-> 0]

-----------------------------------------------------------------------------
\* The child process.

\* One more probe: a reply, a router's "host unreachable", or nothing in time.
Probe(t, outcome) ==
  /\ ping.state = "running"
  /\ ping.sent < Count /\ ping.time + t \leq Budget
  /\ ping' = [ping EXCEPT !.time = @ + t,
                          !.sent = @ + 1,
                          !.answered = IF outcome = "reply" THEN @ + 1 ELSE @,
                          !.refused = IF outcome = "unreachable" THEN @ + 1 ELSE @]

\* All probes are sent: ping prints its summary and ends.
Exit == /\ ping.state = "running" /\ ping.sent = Count /\ ~ping.stalled
        /\ ping' = [ping EXCEPT !.state = "exited"]

\* ping loses time, say in the resolution of the name.
Stall(t) == /\ ping.state = "running" /\ t > 0 /\ ping.time + t \leq Budget
            /\ ping' = [ping EXCEPT !.time = @ + t, !.stalled = TRUE]

\* A ping that has stalled ends after all, with its summary or without.
LateExit == /\ ping.state = "running" /\ ping.stalled
            /\ \E f \in BOOLEAN :
                  /\ f \/ ping.sent = Count
                  /\ ping' = [ping EXCEPT !.state = "exited", !.failed = f]

\* ping gives up: no such host, no route.  There is no summary to parse.
Fail == /\ ping.state = "running" /\ ping.sent < Count
        /\ ping' = [ping EXCEPT !.state = "exited", !.failed = TRUE]

\* A killed process ends.
Die == /\ ping.state = "killed"
       /\ ping' = [ping EXCEPT !.state = "exited"]

\* What goes on of itself; while ping stalls it is the time that goes on.
PingRuns == /\ \/ \E t \in 0..ProbeTime, o \in {"reply", "unreachable", "silence"} :
                    Probe(t, o)
               \/ ping.stalled /\ \E t \in 1..Budget : Stall(t)
               \/ Exit \/ Fail \/ Die
            /\ UNCHANGED <<cvars, step, result>>

PingIsLate == /\ \/ \E t \in 1..Budget : Stall(t)
                 \/ LateExit
              /\ UNCHANGED <<cvars, step, result>>

-----------------------------------------------------------------------------
\* measure, and the try around it in _poll_device.

Unreachable(sent) == [reachable |-> FALSE, loss |-> 100, sent |-> sent, received |-> 0]

Received(p) == IF UnreachableIsReply THEN p.answered + p.refused ELSE p.answered

\* Slip: the lost probes pass for a percentage.
ParseOutputUnscaled(p) ==
  [reachable |-> p.answered > 0, loss |-> 100 * (p.sent - Received(p)),
   sent |-> p.sent, received |-> Received(p)]

\* _parse_output.  The line of round-trip times is there when a reply was.
ParseOutput(p) ==
  IF p.failed
    THEN Unreachable(Count)
    ELSE [reachable |-> p.answered > 0,
          loss      |-> (100 * (p.sent - Received(p))) \div p.sent,
          sent      |-> p.sent, received |-> Received(p)]

\* measure returns r.
Return(r) ==
  /\ pc' = "send" /\ step' = "idle" /\ result' = r
  /\ job' = [job EXCEPT !.latency = IF r.reachable THEN "answered" ELSE "lost"]
  /\ UNCHANGED <<world, previous, turn, reported>>

\* measure raises; _poll_device logs it and goes on without a result.
Raise ==
  /\ pc' = "send" /\ step' = "idle" /\ result' = NoResult
  /\ job' = [job EXCEPT !.latency = "none"]
  /\ UNCHANGED <<world, previous, turn, reported>>

\* create_subprocess_exec returns.
Spawn == /\ pc = "measure" /\ step = "idle"
         /\ step' = "communicate"
         /\ ping' = [NoPing EXCEPT !.state = "running"]
         /\ UNCHANGED <<cvars, result>>

\* It raises: no ping on the PATH or no permission, or another OSError.
SpawnFails == /\ pc = "measure" /\ step = "idle"
              /\ Return(Unreachable(0)) \/ Raise
              /\ UNCHANGED ping

\* communicate returns: the process is at its end.
Communicated == /\ step = "communicate" /\ ping.state = "exited"
                /\ Return(ParseOutput(ping))
                /\ UNCHANGED ping

\* Slip: wait_for is given the timeout of one probe.
TimesOutEarly ==
  /\ step = "communicate" /\ ping.time \geq TimeoutHalves
  /\ ping.state = "running"
  /\ step' = "reap" /\ ping' = [ping EXCEPT !.state = "killed"]
  /\ UNCHANGED <<cvars, result>>

\* Slip: the process is waited for but not killed.
TimesOutNoKill == /\ step = "communicate" /\ ping.time \geq Budget
                  /\ step' = "reap"
                  /\ UNCHANGED <<cvars, ping, result>>

\* Slip: the timeout leaves the process alone.
TimesOutAndLeaves == /\ step = "communicate" /\ ping.time \geq Budget
                     /\ Return(Unreachable(Count))
                     /\ UNCHANGED ping

\* wait_for times out.  kill of a process that has just ended may raise
\* ProcessLookupError, which measure does not catch.
TimesOut ==
  /\ step = "communicate" /\ ping.time \geq Budget
  /\ \/ /\ ping.state = "running"
        /\ step' = "reap" /\ ping' = [ping EXCEPT !.state = "killed"]
        /\ UNCHANGED <<cvars, result>>
     \/ /\ ping.state = "exited"
        /\ step' = "reap"
        /\ UNCHANGED <<cvars, ping, result>>
     \/ /\ ping.state = "exited"
        /\ Raise
        /\ UNCHANGED ping

\* proc.wait() returns.
Reaped == /\ step = "reap" /\ ping.state = "exited"
          /\ Return(Unreachable(Count))
          /\ UNCHANGED ping

MeasureStep == Spawn \/ SpawnFails \/ Communicated \/ TimesOut \/ Reaped

-----------------------------------------------------------------------------
\* The loop around it: the next device is measured with a ping of its own.
AroundMeasure ==
  \/ (Answered \/ NotAnswered \/ PollRaises \/ Wake) /\ UNCHANGED ivars
  \/ /\ Send
     /\ ping' = NoPing /\ result' = NoResult
     /\ UNCHANGED step

\* The ping of a collector that stops goes on without it.
RestartMeasuring == /\ RestartCollector
                    /\ step' = "idle" /\ ping' = NoPing /\ result' = NoResult

IInit == CInit /\ step = "idle" /\ ping = NoPing /\ result = NoResult

ILoop == AroundMeasure \/ MeasureStep \/ PingRuns

INext == ILoop \/ PingIsLate \/ RestartMeasuring \/ (World /\ UNCHANGED ivars)

\* A ping that does not stall goes on and ends; time passes; a killed process ends.
ISpec == IInit /\ [][INext]_<<cvars, ivars>> /\ WF_<<cvars, ivars>>(ILoop)

-----------------------------------------------------------------------------
ITypeOK ==
  /\ step \in {"idle", "communicate", "reap"}
  /\ ping \in [state : {"none", "running", "killed", "exited"}, time : 0..Budget,
               sent : 0..Count, answered : 0..Count, refused : 0..Count,
               stalled : BOOLEAN, failed : BOOLEAN]
  /\ result \in [reachable : BOOLEAN, loss : 0..100, sent : 0..Count, received : 0..Count]

\* A measurement says what ping saw: a ping that neither stalled nor gave up is
\* never cut off by the overall timeout, a device one of whose replies came in is
\* reachable, and the loss reported is the share of the probes that were not
\* replied to (icmp_source.py:55-67, 148-161).
LossIsHonest ==
  (/\ pc = "send" /\ ping.state # "none"
   /\ ~ping.stalled /\ ~ping.failed) =>
     /\ job.latency = IF ping.answered > 0 THEN "answered" ELSE "lost"
     /\ result.loss = (100 * (Count - Received(ping))) \div Count

\* The loop leaves no ping behind: whatever ping does, it is at its end when the
\* next device's turn comes (icmp_source.py:60-62).
NoPingLeftRunning == pc # "measure" => ping.state \in {"none", "exited"}

\* To the loop, measure with all its awaits is one step, that ends whatever ping does
\* and changes nothing but the latency at hand: a result, or none where measure
\* raises, as the loop catches it (collector/main.py:110-114, icmp_source.py:57-67).
MeasureImplementsCollector == CSpec
=============================================================================
