------------------------------ MODULE SnmpSource ------------------------------
(***************************************************************************)
(* One poll after the other of one device over SNMP                        *)
(* (src/Code/collector/snmp/snmp_source.py, transport.py): the GET of      *)
(* sysUpTime, the walk over ifName, then the columns of each interface     *)
(* found, one GET each.  Every request is a step: the device carries       *)
(* traffic, reboots and loses interfaces, and time passes, between them.   *)
(***************************************************************************)
EXTENDS Ports, SequencesExt

CONSTANT Columns  \* the columns read of an interface, in order, with the counters
                  \* of every Direction among them

ASSUME ColumnsAssumption ==
  /\ Columns \in Seq(STRING) \ {<<>>} /\ Cardinality(ToSet(Columns)) = Len(Columns)
  /\ Direction \subseteq ToSet(Columns)

ASSUME IndexAssumption == Index \subseteq Nat

VARIABLES ports, clock,     \* the device, and the wall clock of the collector
          permitted,        \* authorized in devices.yaml, with credentials
          pc,               \* what the poll waits for
          open,             \* a transport is open
          rows,             \* name_rows: the rows of the walk still to be read
          values,           \* the columns read of the first of them
          found,            \* interfaces
          previous, sample, \* the last two samples returned
          result            \* how the last poll ended

\* History variables: how often interfaces changed, how far the clock was set ahead
\* and, of the poll, when it began, which interfaces stayed in place, what was not
\* answered and of which interfaces.
VARIABLES lives, ahead, began, steady, trouble, lost

device == <<ports, clock, lives, ahead, steady>>
samples == <<previous, sample>>
history == <<began, trouble, lost>>
svars == <<device, permitted, pc, open, rows, values, found, samples, result, history>>

\* The time that has really passed, which nobody sets.
Now == clock - ahead

\* No sample, or that of a device that is not reachable.
NotReachable(time) ==
  [reachable |-> FALSE, ifs |-> <<>>, time |-> time, began |-> 0, ahead |-> 0]

\* A sample has the time of the wall clock; the properties know when its poll really
\* began and how far the clock was ahead when it ended.
Reachable(time) ==
  [reachable |-> TRUE, ifs |-> found, time |-> time, began |-> began, ahead |-> ahead]

\* load_snmp_credentials: what it returns, or the exception it raises.
Credentials(version, community) ==
  CASE version = "v2c" /\ community -> "community"
    [] version = "v3"               -> "NotImplementedError"
    [] OTHER                        -> "SNMPConfigError"

\* The safety gate and the credentials; what they look at stays for the life of
\* the process: devices.yaml as loaded, SNMP_VERSION, whether there is a community.
Permitted(authorized, version, community) ==
  authorized /\ Credentials(version, community) = "community"

SInit == /\ ports \in {Rebooted(table, 0) : table \in Tables}
         /\ clock = 0 /\ lives = 0 /\ ahead = 0
         /\ permitted \in {Permitted(a, v, c) : a, c \in BOOLEAN, v \in {"v1", "v2c", "v3"}}
         /\ pc = "idle" /\ open = FALSE /\ rows = <<>> /\ values = <<>> /\ found = <<>>
         /\ previous = NotReachable(0) /\ sample = NotReachable(0) /\ result = "none"
         /\ began = 0 /\ steady = {} /\ trouble = {} /\ lost = {}

-----------------------------------------------------------------------------
\* The device and the time.

source == <<permitted, pc, open, rows, values, found, samples, result, history>>

Carry(i, x, n) == /\ i \in DOMAIN ports
                  /\ ports' = [ports EXCEPT ![i] = Pass(@, x, n)]
                  /\ UNCHANGED <<clock, lives, ahead, steady, source>>

\* A reboot, or a change of the configuration.
Change(table) ==
  /\ lives' = lives + 1
  /\ ports' \in {Rebooted(table, lives'), Reconfigured(ports, table, lives')}
  /\ steady' = {i \in steady : i \in DOMAIN ports' /\ ports'[i].life = ports[i].life}
  /\ UNCHANGED <<clock, ahead, source>>

Tick == clock' = clock + 1 /\ UNCHANGED <<ports, lives, ahead, steady, source>>

\* The wall clock is set, forward or back.
SetClock(step) == /\ clock' = clock + step /\ ahead' = ahead + step
                  /\ UNCHANGED <<ports, lives, steady, source>>

-----------------------------------------------------------------------------
\* The end of a poll: the transport is closed on every path.

\* Slip: closed where the sample is returned, not in a finally.
EndLeavesOpen(how) == /\ pc' = "idle" /\ result' = how
                      /\ open' = (open /\ how = "raised")
                      /\ rows' = <<>> /\ values' = <<>> /\ found' = <<>>

End(how) == /\ pc' = "idle" /\ open' = FALSE /\ result' = how
            /\ rows' = <<>> /\ values' = <<>> /\ found' = <<>>

Return(s) == End("returned") /\ sample' = s /\ previous' = sample

Raise == End("raised") /\ UNCHANGED samples

Unreachable == Return(NotReachable(clock))

\* Why a poll does not have all it asked for; gone: the interface is not there.
Trouble(kind, gone) == trouble' = trouble \cup {[at |-> pc, kind |-> kind, gone |-> gone]}

\* The device does not answer in time, or answers with an error status.
Refusal == {"timeout", "error"}

-----------------------------------------------------------------------------
\* The requests of a poll.

Start ==
  /\ pc = "idle"
  /\ began' = Now /\ steady' = DOMAIN ports /\ trouble' = {} /\ lost' = {}
  /\ IF permitted THEN pc' = "uptime" /\ open' = TRUE /\ result' = "none"
                  ELSE result' = "raised" /\ UNCHANGED <<pc, open>>
  /\ UNCHANGED <<ports, clock, lives, ahead, permitted, rows, values, found, samples>>

\* GET sysUpTime.  What the agent has in place of a missing value is no number.
GetUptime ==
  /\ pc = "uptime"
  /\ \/ /\ pc' = "walk"
        /\ UNCHANGED <<open, rows, values, found, samples, result, trouble>>
     \/ \E kind \in Refusal : Trouble(kind, FALSE) /\ Unreachable
     \/ Trouble("absent", FALSE) /\ Raise
  /\ UNCHANGED <<device, permitted, began, lost>>

\* Slip: the walk asks for the row it has.
NextIndexAgain == {i \in DOMAIN ports : \A k \in DOMAIN rows : rows[k].index <= i}

\* The rows of the table that follow those of the walk so far.
NextIndex == {i \in DOMAIN ports : \A k \in DOMAIN rows : rows[k].index < i}

\* GETNEXT of ifName, to the end of the column.
Walk ==
  /\ pc = "walk"
  /\ \/ /\ NextIndex # {}
        /\ LET i == Min(NextIndex)
           IN  rows' = Append(rows, [index |-> i, name |-> ports[i].name])
        /\ UNCHANGED <<pc, open, values, found, samples, result, trouble>>
     \/ /\ NextIndex = {}
        /\ pc' = "get"
        /\ UNCHANGED <<open, rows, values, found, samples, result, trouble>>
     \/ \E kind \in Refusal : Trouble(kind, FALSE) /\ Unreachable
  /\ UNCHANGED <<device, permitted, began, lost>>

\* What the agent answers for column c of interface i: a value, of which the
\* properties know when it was read and what was counted, or noSuchInstance.
Answer(i, c) ==
  LET counter == i \in DOMAIN ports /\ c \in Direction
  IN  [absent |-> i \notin DOMAIN ports,
       count  |-> IF counter THEN ports[i].count[c] ELSE 0,
       life   |-> IF counter THEN ports[i].life ELSE 0,
       passed |-> IF counter THEN ports[i].passed[c] ELSE 0,
       at     |-> Now]

\* Slip: one counter is taken for both directions.
SampleOfMixed(read) ==
  LET any == CHOOSE x \in Direction : TRUE
  IN  [name |-> Head(rows).name,
       count  |-> [x \in Direction |-> read[any].count],
       life   |-> [x \in Direction |-> read[x].life],
       passed |-> [x \in Direction |-> read[x].passed],
       at     |-> [x \in Direction |-> read[x].at]]

\* The InterfaceSample, named as in the walk.
SampleOf(read) == [name   |-> Head(rows).name,
                   count  |-> [x \in Direction |-> read[x].count],
                   life   |-> [x \in Direction |-> read[x].life],
                   passed |-> [x \in Direction |-> read[x].passed],
                   at     |-> [x \in Direction |-> read[x].at]]

With(f, k, v) == [j \in DOMAIN f \cup {k} |-> IF j = k THEN v ELSE f[j]]

\* A column is answered; after the last one the values are converted to numbers.
Receive ==
  /\ pc = "get" /\ rows # <<>>
  /\ LET i    == Head(rows).index
         c    == Columns[Cardinality(DOMAIN values) + 1]
         read == With(values, c, Answer(i, c))
     IN  \/ /\ DOMAIN read # ToSet(Columns)
            /\ values' = read
            /\ UNCHANGED <<pc, open, rows, found, samples, result, trouble, lost>>
         \/ /\ DOMAIN read = ToSet(Columns) /\ \A col \in DOMAIN read : ~read[col].absent
            /\ found' = With(found, i, SampleOf(read))
            /\ rows' = Tail(rows) /\ values' = <<>>
            /\ UNCHANGED <<pc, open, samples, result, trouble, lost>>
         \/ /\ DOMAIN read = ToSet(Columns) /\ \E col \in DOMAIN read : read[col].absent
            /\ Trouble("absent", TRUE) /\ lost' = lost \cup {i}
            /\ Raise
  /\ UNCHANGED <<device, permitted, began>>

\* Slips: no further interface is read, the same one again, the device is lost.
SkipBreaks == rows' = <<>> /\ values' = <<>> /\ UNCHANGED <<pc, open, found, samples, result>>

SkipRepeats == values' = <<>> /\ UNCHANGED <<pc, open, rows, found, samples, result>>

SkipFails == Unreachable

\* An interface that does not answer is left out.
Skip == /\ rows' = Tail(rows) /\ values' = <<>>
        /\ UNCHANGED <<pc, open, found, samples, result>>

\* A column is not answered in time, or answered with an error status.
Refused ==
  /\ pc = "get" /\ rows # <<>>
  /\ lost' = lost \cup {Head(rows).index}
  /\ \E kind \in Refusal :
       /\ Trouble(kind, Head(rows).index \notin DOMAIN ports)
       /\ IF kind = "timeout" THEN Skip ELSE Unreachable
  /\ UNCHANGED <<device, permitted, began>>

\* Slip: the time is taken when the poll begins.
CompleteStampsStart ==
  /\ pc = "get" /\ rows = <<>>
  /\ Return(Reachable(began + ahead))
  /\ UNCHANGED <<device, permitted, history>>

\* Every interface is read: the sample, and its time.
Complete ==
  /\ pc = "get" /\ rows = <<>>
  /\ Return(Reachable(clock))
  /\ UNCHANGED <<device, permitted, history>>

Request == GetUptime \/ Walk \/ Receive \/ Refused \/ Complete

World == \/ Tick
         \/ \E step \in Int : SetClock(step)
         \/ \E i \in Index, x \in Direction, n \in 1..Width - 1 : Carry(i, x, n)
         \/ \E table \in Tables : Change(table)

SNext == Start \/ Request \/ World

\* Every request has a timeout.
SSpec == SInit /\ [][SNext]_svars /\ WF_svars(Request)

-----------------------------------------------------------------------------
IsSample(s) ==
  /\ s.reachable \in BOOLEAN /\ s.began \in Nat /\ s.time \in Int /\ s.ahead \in Int
  /\ \A i \in DOMAIN s.ifs : i \in Index /\ s.ifs[i].name \in Name

\* Types; and the rows of a walk have ever greater indexes (transport.py:130-152).
STypeOK ==
  /\ \A i \in DOMAIN ports : i \in Index /\ ports[i] \in Port
  /\ clock \in Int /\ ahead \in Int /\ lives \in Nat /\ steady \subseteq DOMAIN ports
  /\ pc \in {"idle", "uptime", "walk", "get"} /\ result \in {"none", "returned", "raised"}
  /\ \A k \in DOMAIN rows : rows[k].index \in Index /\ rows[k].name \in Name
  /\ \A k \in 2..Len(rows) : rows[k - 1].index < rows[k].index
  /\ DOMAIN values \subseteq ToSet(Columns) /\ DOMAIN found \subseteq Index
  /\ IsSample(previous) /\ IsSample(sample)

\* An interface that stays in place during a poll and whose requests are answered
\* is in the sample, with its own name and counters, whatever becomes of the
\* interfaces around it in the middle of the walk and the reads
\* (snmp_source.py:114-153).
SteadyIsSampled ==
  (pc = "idle" /\ result = "returned" /\ sample.reachable) =>
    \A i \in steady \ lost :
      /\ i \in DOMAIN sample.ifs
      /\ sample.ifs[i].name = ports[i].name
      /\ \A x \in Direction : sample.ifs[i].life[x] = ports[i].life

\* A poll gives up the device when, and only when, sysUpTime or the walk fails, or
\* a request is answered with an error status or without a number; one that times
\* out costs its interface only (snmp_source.py:74-109, 130-138).
DeviceFailsForCause ==
  (pc = "idle" /\ result # "none" /\ permitted) =>
    (result = "returned" /\ sample.reachable
       <=> \A t \in trouble : t.at = "get" /\ t.kind = "timeout")

\* What is measured from two polls is what passed between the two reads of each
\* counter, though no two counters are read at one time; over a reset it is no more
\* than passed since, but for one that went through as a wraparound within the
\* ceiling (snmp_source.py:121-152, bandwidth.py:87-104).
MeasuredBetweenReads ==
  \A i \in Matched(previous, sample), x \in Direction :
    LET m == Measure(previous, sample, i, x)
        p == previous.ifs[i]
        s == sample.ifs[i]
        d == s.passed[x] - p.passed[x]
    IN  m.valid =>
          IF p.life[x] = s.life[x]
            THEN d < Width => m.octets = d
            ELSE \/ m.octets <= s.passed[x]
                 \/ m.wrapped /\ Plausible(m.octets, Elapsed(previous, sample))

\* The timestamps are those of a wall clock (sources/base.py:54-56), which may be set
\* between them.  But for what it was set meanwhile, the time a rate is taken over is
\* that between the two reads of the counter, at most the earlier poll too short and
\* at most the later one too long (snmp_source.py:90-97, interface_metrics.py:93).
SkewIsBounded ==
  \A i \in Matched(previous, sample), x \in Direction :
    LET window  == sample.ifs[i].at[x] - previous.ifs[i].at[x]
        set     == sample.ahead - previous.ahead
        t       == Elapsed(previous, sample) - set
        Took(s) == (s.time - s.ahead) - s.began
    IN  window <= t + Took(previous) /\ t <= window + Took(sample)

\* A transport is open only while its poll runs, however the poll ends
\* (snmp_source.py:108-109).
TransportIsClosed == open => pc # "idle"

\* A poll ends, whatever the device answers or fails to answer and however its
\* table changes (snmp_source.py:114-155).
PollEnds == []<>(pc = "idle")

\* "Interface can vanish between the walk and the per-column GETs [...] Skip it
\* rather than failing the whole device" (snmp_source.py:131-133).
VanishedIsSkipped ==
  (/\ pc = "idle" /\ result # "none" /\ permitted
   /\ \A t \in trouble : t.at = "get" /\ t.gone)
    => result = "returned" /\ sample.reachable
=============================================================================
