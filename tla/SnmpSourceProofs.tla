--------------------------- MODULE SnmpSourceProofs ---------------------------
(***************************************************************************)
(* Proofs about the polls over SNMP: how a poll ends, that it closes its   *)
(* transport, how far its timestamp is from its reads, that it samples the *)
(* interfaces that stay in place, and that what is measured from two polls *)
(* is what passed between the reads.                                       *)
(***************************************************************************)
EXTENDS SnmpSource, PortsProofs, WellFoundedInduction, FiniteSetTheorems

\* Nothing has gone wrong but columns that were not answered in time.
OnlyColumnsLost == \A t \in trouble : t.at = "get" /\ t.kind = "timeout"

\* A poll that still runs has its transport open and has lost columns only; one that
\* has ended has closed it and says whether it lost more.
PollInv ==
  /\ pc \in {"idle", "uptime", "walk", "get"}
  /\ pc # "idle" => permitted /\ open /\ result = "none" /\ OnlyColumnsLost
  /\ pc = "idle" => ~open
  /\ (pc = "idle" /\ result # "none" /\ permitted) =>
       (result = "returned" /\ sample.reachable <=> OnlyColumnsLost)

\* A poll that loses more than a column is given up.
GivenUp == /\ pc' = "idle" /\ open' = FALSE
           /\ ~(result' = "returned" /\ sample'.reachable)
           /\ ~OnlyColumnsLost'

-----------------------------------------------------------------------------
LEMMA UnreachableGivesUp ==
  ASSUME NEW kind, NEW gone, Trouble(kind, gone), Unreachable,
         ~(pc = "get" /\ kind = "timeout")
  PROVE  GivenUp
<1>1. [at |-> pc, kind |-> kind, gone |-> gone] \in trouble'
  BY DEF Trouble
<1>2. ~OnlyColumnsLost'
  BY <1>1 DEF OnlyColumnsLost
<1>3. sample'.reachable = FALSE
  BY DEF Unreachable, Return, NotReachable
<1>. QED
  BY <1>2, <1>3 DEF GivenUp, Unreachable, Return, End

LEMMA RaiseGivesUp ==
  ASSUME NEW kind, NEW gone, Trouble(kind, gone), Raise, kind # "timeout"
  PROVE  GivenUp
<1>1. [at |-> pc, kind |-> kind, gone |-> gone] \in trouble'
  BY DEF Trouble
<1>2. ~OnlyColumnsLost'
  BY <1>1 DEF OnlyColumnsLost
<1>. QED
  BY <1>2 DEF GivenUp, Raise, End

LEMMA GivenUpKeepsInv ==
  ASSUME GivenUp, PollInv
  PROVE  PollInv'
BY DEF GivenUp, PollInv

\* A step within a poll that adds no trouble.
LEMMA GoingOnKeepsInv ==
  ASSUME PollInv, pc # "idle", pc' \in {"uptime", "walk", "get"},
         UNCHANGED <<permitted, open, result, trouble>>
  PROVE  PollInv'
BY DEF PollInv, OnlyColumnsLost

-----------------------------------------------------------------------------
LEMMA InitInv == SInit => PollInv
BY DEF SInit, PollInv, OnlyColumnsLost

LEMMA StepInv == PollInv /\ [SNext]_svars => PollInv'
<1>. SUFFICES ASSUME PollInv, [SNext]_svars PROVE PollInv'
  OBVIOUS
<1>1. CASE Start
  BY <1>1 DEF Start, samples, PollInv, OnlyColumnsLost
<1>2. CASE GetUptime
  <2>1. CASE pc' = "walk" /\ UNCHANGED <<open, rows, values, found, samples, result, trouble>>
    BY <1>2, <2>1, GoingOnKeepsInv DEF GetUptime
  <2>2. CASE \E kind \in Refusal : Trouble(kind, FALSE) /\ Unreachable
    BY <1>2, <2>2, UnreachableGivesUp, GivenUpKeepsInv DEF GetUptime
  <2>3. CASE Trouble("absent", FALSE) /\ Raise
    BY <2>3, RaiseGivesUp, GivenUpKeepsInv
  <2>. QED
    BY <1>2, <2>1, <2>2, <2>3 DEF GetUptime
<1>3. CASE Walk
  <2>1. CASE \E kind \in Refusal : Trouble(kind, FALSE) /\ Unreachable
    BY <1>3, <2>1, UnreachableGivesUp, GivenUpKeepsInv DEF Walk
  <2>2. CASE pc' \in {"walk", "get"} /\ UNCHANGED <<open, result, trouble>>
    BY <1>3, <2>2, GoingOnKeepsInv DEF Walk
  <2>. QED
    BY <1>3, <2>1, <2>2 DEF Walk
<1>4. CASE Receive
  <2>1. CASE UNCHANGED <<pc, open, result, trouble>>
    BY <1>4, <2>1, GoingOnKeepsInv DEF Receive
  <2>2. CASE Trouble("absent", TRUE) /\ Raise
    BY <2>2, RaiseGivesUp, GivenUpKeepsInv
  <2>. QED
    BY <1>4, <2>1, <2>2 DEF Receive
<1>5. CASE Refused
  <2>1. PICK kind \in Refusal, gone \in BOOLEAN :
          /\ pc = "get" /\ permitted' = permitted /\ Trouble(kind, gone)
          /\ IF kind = "timeout" THEN Skip ELSE Unreachable
    BY <1>5 DEF Refused
  <2>2. CASE kind = "timeout"
    <3>1. trouble' = trouble \cup {[at |-> "get", kind |-> "timeout", gone |-> gone]}
      BY <2>1, <2>2 DEF Trouble
    <3>2. OnlyColumnsLost => OnlyColumnsLost'
      BY <3>1 DEF OnlyColumnsLost
    <3>. QED
      BY <2>1, <2>2, <3>2 DEF Skip, PollInv
  <2>3. CASE kind # "timeout"
    BY <2>1, <2>3, UnreachableGivesUp, GivenUpKeepsInv
  <2>. QED
    BY <2>2, <2>3
<1>6. CASE Complete
  <2>1. /\ pc = "get" /\ pc' = "idle" /\ open' = FALSE /\ result' = "returned"
        /\ sample'.reachable = TRUE /\ UNCHANGED <<permitted, trouble>>
    BY <1>6 DEF Complete, Reachable, Return, End, history
  <2>2. OnlyColumnsLost /\ OnlyColumnsLost'
    BY <2>1 DEF PollInv, OnlyColumnsLost
  <2>. QED
    BY <2>1, <2>2 DEF PollInv
<1>7. CASE World
  <2>1. UNCHANGED <<permitted, pc, open, samples, result, trouble>>
    BY <1>7 DEF World, Tick, SetClock, Carry, Change, source, history
  <2>. QED
    BY <2>1 DEF PollInv, OnlyColumnsLost, samples
<1>8. CASE UNCHANGED svars
  BY <1>8 DEF svars, samples, history, PollInv, OnlyColumnsLost
<1>. QED
  BY <1>1, <1>2, <1>3, <1>4, <1>5, <1>6, <1>7, <1>8 DEF SNext, Request

\* The two facts below from the start of the first poll on.
THEOREM SnmpInvariant == SSpec => []PollInv
BY InitInv, StepInv, PTL DEF SSpec

\* A device is given up for a cause, and for each such cause: its uptime, the walk, an
\* error status or a missing value, and never for a column that is not answered in
\* time (snmp_source.py:74-109, 130-138).
THEOREM SnmpFailsForCause == SSpec => []DeviceFailsForCause
<1>1. PollInv => DeviceFailsForCause
  BY DEF PollInv, DeviceFailsForCause, OnlyColumnsLost
<1>. QED
  BY <1>1, SnmpInvariant, PTL

\* Whichever way a poll ends, its transport is closed (snmp_source.py:108-109).
THEOREM SnmpClosesTransport == SSpec => []TransportIsClosed
<1>1. PollInv => TransportIsClosed
  BY DEF PollInv, TransportIsClosed
<1>. QED
  BY <1>1, SnmpInvariant, PTL

-----------------------------------------------------------------------------
\* Every counter of ifs was read between the two times.
ReadWithin(ifs, from, to) ==
  \A i \in DOMAIN ifs, x \in Direction :
    ifs[i].at[x] \in Nat /\ from <= ifs[i].at[x] /\ ifs[i].at[x] <= to

\* The counters of a sample were read while its poll ran, in the time that really
\* passed: its timestamp is as far ahead of that as the clock was.
Timed(s) == /\ s.began \in Nat /\ s.time \in Int /\ s.ahead \in Int
            /\ ReadWithin(s.ifs, s.began, s.time - s.ahead)

ColumnsReadWithin(read, from, to) ==
  \A c \in DOMAIN read : read[c].at \in Nat /\ from <= read[c].at /\ read[c].at <= to

\* What has been read so far was read since the poll began.
TimesInv ==
  /\ clock \in Int /\ ahead \in Int /\ Now \in Nat /\ began \in Nat /\ began <= Now
  /\ pc = "idle" => values = <<>> /\ found = <<>>
  /\ ColumnsReadWithin(values, began, Now)
  /\ ReadWithin(found, began, Now)
  /\ Timed(previous) /\ Timed(sample)

LEMMA NothingRead ==
  ASSUME NEW from, NEW to
  PROVE  ReadWithin(<<>>, from, to) /\ ColumnsReadWithin(<<>>, from, to)
BY DEF ReadWithin, ColumnsReadWithin

LEMMA NotReachableTimed ==
  ASSUME NEW time \in Int
  PROVE  Timed(NotReachable(time))
BY NothingRead DEF Timed, NotReachable

\* A poll ends with what it has read so far, or with nothing.
LEMMA EndKeepsTimes ==
  ASSUME TimesInv, NEW s, Timed(s), Return(s), UNCHANGED <<clock, ahead, began>>
  PROVE  TimesInv'
<1>1. /\ pc' = "idle" /\ values' = <<>> /\ found' = <<>>
      /\ sample' = s /\ previous' = sample
  BY DEF Return, End
<1>2. Timed(previous') /\ Timed(sample')
  BY <1>1 DEF TimesInv
<1>3. ReadWithin(found', began', Now') /\ ColumnsReadWithin(values', began', Now')
  BY <1>1, NothingRead
<1>. QED
  BY <1>1, <1>2, <1>3 DEF TimesInv, Timed, Now

LEMMA UnreachableKeepsTimes ==
  ASSUME TimesInv, Unreachable, UNCHANGED <<clock, ahead, began>>
  PROVE  TimesInv'
<1>1. Timed(NotReachable(clock))
  BY NotReachableTimed DEF TimesInv
<1>. QED
  BY <1>1, EndKeepsTimes DEF Unreachable

LEMMA RaiseKeepsTimes ==
  ASSUME TimesInv, Raise, UNCHANGED <<clock, ahead, began>>
  PROVE  TimesInv'
<1>1. pc' = "idle" /\ values' = <<>> /\ found' = <<>> /\ UNCHANGED <<previous, sample>>
  BY DEF Raise, End, samples
<1>2. ReadWithin(found', began', Now') /\ ColumnsReadWithin(values', began', Now')
  BY <1>1, NothingRead
<1>. QED
  BY <1>1, <1>2 DEF TimesInv, Timed, Now

\* A step within a poll that reads nothing.
LEMMA NothingReadKeepsTimes ==
  ASSUME TimesInv, pc # "idle", pc' # "idle",
         UNCHANGED <<clock, ahead, began, found, samples>>, values' \in {values, <<>>}
  PROVE  TimesInv'
<1>1. UNCHANGED <<previous, sample>>
  BY DEF samples
<1>2. ColumnsReadWithin(values', began', Now')
  BY NothingRead DEF TimesInv, Now
<1>. QED
  BY <1>1, <1>2 DEF TimesInv, Timed, Now

LEMMA ReceiveKeepsTimes ==
  ASSUME TimesInv, Receive, pc # "idle"
  PROVE  TimesInv'
<1>0. UNCHANGED <<clock, ahead, began>> /\ Now' = Now /\ Now \in Nat /\ began \in Nat /\ began <= Now
  BY DEF Receive, device, TimesInv, Now
<1>1. PICK i, c, read :
        /\ read = With(values, c, Answer(i, c))
        /\ \/ values' = read /\ UNCHANGED <<pc, found, samples>>
           \/ /\ DOMAIN read = ToSet(Columns)
              /\ found' = With(found, i, SampleOf(read))
              /\ values' = <<>> /\ UNCHANGED <<pc, samples>>
           \/ Raise
  BY DEF Receive
<1>2. ColumnsReadWithin(read, began, Now)
  <2>1. SUFFICES ASSUME NEW k \in DOMAIN read
                 PROVE  read[k].at \in Nat /\ began <= read[k].at /\ read[k].at <= Now
    BY DEF ColumnsReadWithin
  <2>2. \/ k \in DOMAIN values /\ read[k] = values[k]
        \/ read[k] = Answer(i, c)
    BY <1>1, <2>1 DEF With
  <2>3. Answer(i, c).at = Now
    BY DEF Answer
  <2>. QED
    BY <1>0, <2>2, <2>3 DEF TimesInv, ColumnsReadWithin
<1>3. CASE values' = read /\ UNCHANGED <<pc, found, samples>>
  <2>1. UNCHANGED <<previous, sample>>
    BY <1>3 DEF samples
  <2>. QED
    BY <1>0, <1>2, <1>3, <2>1 DEF TimesInv, Timed
<1>4. CASE /\ DOMAIN read = ToSet(Columns)
           /\ found' = With(found, i, SampleOf(read))
           /\ values' = <<>> /\ UNCHANGED <<pc, samples>>
  <2>1. UNCHANGED <<previous, sample>>
    BY <1>4 DEF samples
  <2>2. ReadWithin(found', began, Now)
    <3>1. SUFFICES ASSUME NEW k \in DOMAIN found', NEW x \in Direction
                   PROVE  /\ found'[k].at[x] \in Nat
                          /\ began <= found'[k].at[x] /\ found'[k].at[x] <= Now
      BY DEF ReadWithin
    <3>2. \/ k \in DOMAIN found /\ found'[k] = found[k]
          \/ found'[k] = SampleOf(read)
      BY <1>4, <3>1 DEF With
    <3>3. x \in DOMAIN read
      BY <1>4, <3>1, ColumnsAssumption
    <3>4. SampleOf(read).at[x] = read[x].at
      BY <3>1 DEF SampleOf
    <3>. QED
      BY <1>2, <3>1, <3>2, <3>3, <3>4 DEF TimesInv, ReadWithin, ColumnsReadWithin
  <2>3. ColumnsReadWithin(values', began, Now)
    BY <1>4, NothingRead
  <2>. QED
    BY <1>0, <1>4, <2>1, <2>2, <2>3 DEF TimesInv, Timed
<1>5. CASE Raise
  BY <1>0, <1>5, RaiseKeepsTimes
<1>. QED
  BY <1>1, <1>3, <1>4, <1>5

LEMMA TimesInit == SInit => TimesInv
BY NothingRead, NotReachableTimed DEF SInit, TimesInv, Now

LEMMA TimesStep == PollInv /\ TimesInv /\ [SNext]_svars => TimesInv'
<1>. SUFFICES ASSUME PollInv, TimesInv, [SNext]_svars PROVE TimesInv'
  OBVIOUS
<1>1. CASE Start
  <2>1. /\ pc = "idle" /\ began' = Now /\ UNCHANGED <<clock, ahead>> /\ Now' = Now
        /\ UNCHANGED <<values, found, previous, sample>>
    BY <1>1 DEF Start, samples, Now
  <2>2. ReadWithin(found', began', Now') /\ ColumnsReadWithin(values', began', Now')
    BY <2>1, NothingRead DEF TimesInv
  <2>. QED
    BY <2>1, <2>2 DEF TimesInv, Timed
<1>2. CASE GetUptime
  <2>1. UNCHANGED <<clock, ahead, began>> /\ pc # "idle"
    BY <1>2 DEF GetUptime, device
  <2>2. \/ pc' = "walk" /\ UNCHANGED <<values, found, samples>>
        \/ Unreachable
        \/ Raise
    BY <1>2 DEF GetUptime
  <2>. QED
    BY <2>1, <2>2, NothingReadKeepsTimes, UnreachableKeepsTimes, RaiseKeepsTimes
<1>3. CASE Walk
  <2>1. UNCHANGED <<clock, ahead, began>> /\ pc = "walk"
    BY <1>3 DEF Walk, device
  <2>2. \/ pc' \in {"walk", "get"} /\ UNCHANGED <<values, found, samples>>
        \/ Unreachable
    BY <1>3, <2>1 DEF Walk
  <2>. QED
    BY <2>1, <2>2, NothingReadKeepsTimes, UnreachableKeepsTimes
<1>4. CASE Receive
  <2>1. pc # "idle"
    BY <1>4 DEF Receive
  <2>. QED
    BY <1>4, <2>1, ReceiveKeepsTimes
<1>5. CASE Refused
  <2>1. UNCHANGED <<clock, ahead, began>> /\ pc = "get"
    BY <1>5 DEF Refused, device
  <2>2. Skip \/ Unreachable
    BY <1>5 DEF Refused
  <2>3. CASE Skip
    <3>1. pc' = pc /\ values' = <<>> /\ UNCHANGED <<found, samples>>
      BY <2>3 DEF Skip
    <3>. QED
      BY <2>1, <3>1, NothingReadKeepsTimes
  <2>. QED
    BY <2>1, <2>2, <2>3, UnreachableKeepsTimes
<1>6. CASE Complete
  <2>1. UNCHANGED <<clock, ahead, began>>
    BY <1>6 DEF Complete, device, history
  <2>2. PICK s : s = Reachable(clock)
    OBVIOUS
  <2>3. Timed(s) /\ Return(s)
    BY <1>6, <2>2 DEF Complete, Reachable, Timed, TimesInv, Now
  <2>. QED
    BY <2>1, <2>3, EndKeepsTimes
<1>7. CASE World
  <2>1. UNCHANGED <<began, pc, values, found, previous, sample>>
    BY <1>7 DEF World, Tick, SetClock, Carry, Change, source, samples, history
  <2>2. clock' \in Int /\ ahead' \in Int /\ Now' \in {Now, Now + 1}
    <3>1. CASE Tick
      BY <3>1 DEF Tick, TimesInv, Now
    <3>2. CASE \E step \in Int : SetClock(step)
      BY <3>2 DEF SetClock, TimesInv, Now
    <3>3. CASE UNCHANGED <<clock, ahead>>
      BY <3>3 DEF TimesInv, Now
    <3>. QED
      BY <1>7, <3>1, <3>2, <3>3 DEF World, Carry, Change
  <2>3. Now \in Nat /\ Now' \in Nat /\ Now <= Now' /\ began \in Nat /\ began <= Now'
    BY <2>2 DEF TimesInv
  <2>4. ReadWithin(found, began, Now') /\ ColumnsReadWithin(values, began, Now')
    BY <2>3 DEF TimesInv, ReadWithin, ColumnsReadWithin
  <2>. QED
    BY <2>1, <2>2, <2>3, <2>4 DEF TimesInv, Timed
<1>8. CASE UNCHANGED svars
  <2>1. UNCHANGED <<clock, ahead, began, pc, values, found, previous, sample>>
    BY <1>8 DEF svars, device, samples, history
  <2>. QED
    BY <2>1 DEF TimesInv, Timed, Now
<1>. QED
  BY <1>1, <1>2, <1>3, <1>4, <1>5, <1>6, <1>7, <1>8 DEF SNext, Request

\* But for what the wall clock was set between the two timestamps, the time a rate is
\* taken over differs from that between the two reads of its counter by no more than
\* the polls took (snmp_source.py:90-97, sources/base.py:54-56).
THEOREM SnmpSkewIsBounded == SSpec => []SkewIsBounded
<1>1. TimesInv => SkewIsBounded
  <2>. SUFFICES ASSUME TimesInv, NEW i \in Matched(previous, sample), NEW x \in Direction
                PROVE  LET window  == sample.ifs[i].at[x] - previous.ifs[i].at[x]
                           set     == sample.ahead - previous.ahead
                           t       == Elapsed(previous, sample) - set
                           Took(s) == (s.time - s.ahead) - s.began
                       IN  window <= t + Took(previous) /\ t <= window + Took(sample)
    BY DEF SkewIsBounded
  <2>1. i \in DOMAIN previous.ifs /\ i \in DOMAIN sample.ifs
    BY DEF Matched
  <2>2. /\ previous.began \in Nat /\ previous.time \in Int /\ previous.ahead \in Int
        /\ sample.began \in Nat /\ sample.time \in Int /\ sample.ahead \in Int
        /\ previous.ifs[i].at[x] \in Nat /\ sample.ifs[i].at[x] \in Nat
        /\ previous.began <= previous.ifs[i].at[x]
        /\ previous.ifs[i].at[x] <= previous.time - previous.ahead
        /\ sample.began <= sample.ifs[i].at[x]
        /\ sample.ifs[i].at[x] <= sample.time - sample.ahead
    BY <2>1 DEF TimesInv, Timed, ReadWithin
  <2>3. Elapsed(previous, sample) = sample.time - previous.time
    BY DEF Elapsed
  <2>. QED
    BY <2>2, <2>3
<1>. QED
  BY <1>1, InitInv, StepInv, TimesInit, TimesStep, PTL DEF SSpec

-----------------------------------------------------------------------------
\* The walk and what is read of its rows.

ValuesInv == /\ DOMAIN values \subseteq ToSet(Columns)
             /\ DOMAIN values # ToSet(Columns)

WalkRow == [index : Index, name : Name]

\* The interfaces of the device, each of a life begun by now.
DeviceInv ==
  /\ \A i \in DOMAIN ports : i \in Index /\ ports[i] \in Port /\ ports[i].life <= lives
  /\ lives \in Nat /\ steady \subseteq DOMAIN ports

RowsInv ==
  /\ rows \in Seq(WalkRow)
  /\ \A k \in 2..Len(rows) : rows[k - 1].index < rows[k].index
  /\ DOMAIN found \subseteq Index /\ \A i \in DOMAIN found : found[i].name \in Name
  /\ pc \in {"idle", "uptime"} => rows = <<>>
  /\ pc \in {"idle", "uptime", "walk"} => values = <<>> /\ found = <<>>
  /\ pc \in {"uptime", "walk"} => lost = {}

Named(s) == \A i \in DOMAIN s.ifs : i \in Index /\ s.ifs[i].name \in Name

TableInv == DeviceInv /\ RowsInv /\ ValuesInv /\ Named(previous) /\ Named(sample)

-----------------------------------------------------------------------------
LEMMA LeastIndex ==
  ASSUME NEW S \in SUBSET Nat, S # {}
  PROVE  Min(S) \in S /\ \A x \in S : Min(S) <= x
<1>1. PICK m \in S : \A y \in S : ~(<<y, m>> \in OpToRel(<, Nat))
  BY NatLessThanWellFounded, WFMin
<1>2. \A y \in S : ~(y < m)
  <2>. SUFFICES ASSUME NEW y \in S, y < m PROVE FALSE
    OBVIOUS
  <2>1. <<y, m>> \in OpToRel(<, Nat)
    BY Zenon DEF OpToRel
  <2>. QED
    BY <1>1, <2>1
<1>3. \A y \in S : m <= y
  BY <1>2
<1>. QED
  BY <1>3 DEF Min

LEMMA ColumnsType ==
  /\ Len(Columns) \in Nat /\ Len(Columns) > 0 /\ DOMAIN Columns = 1..Len(Columns)
  /\ ToSet(Columns) = {Columns[k] : k \in 1..Len(Columns)} /\ ToSet(Columns) # {}
  /\ IsFiniteSet(ToSet(Columns)) /\ Cardinality(ToSet(Columns)) = Len(Columns)
<1>1. Len(Columns) \in Nat /\ Len(Columns) > 0 /\ DOMAIN Columns = 1..Len(Columns)
  BY ColumnsAssumption
<1>2. ToSet(Columns) = {Columns[k] : k \in 1..Len(Columns)}
  BY <1>1 DEF ToSet
<1>3. IsFiniteSet(1..Len(Columns))
  BY <1>1, FS_Interval
<1>4. IsFiniteSet(ToSet(Columns))
  <2>1. Columns \in Surjection(1..Len(Columns), ToSet(Columns))
    BY <1>1, <1>2, ColumnsAssumption DEF Surjection
  <2>. QED
    BY <2>1, <1>3, FS_Surjection
<1>5. ToSet(Columns) # {}
  <2>1. 1 \in DOMAIN Columns
    BY <1>1
  <2>. QED
    BY <2>1, Zenon DEF ToSet
<1>6. Cardinality(ToSet(Columns)) = Len(Columns)
  BY ColumnsAssumption
<1>. QED
  BY <1>1, <1>2, <1>4, <1>5, <1>6

\* While columns are still to be read there is a next one.
LEMMA NextColumn ==
  ASSUME ValuesInv
  PROVE  Columns[Cardinality(DOMAIN values) + 1] \in ToSet(Columns)
<1>1. PICK read \in SUBSET ToSet(Columns) : read = DOMAIN values /\ read # ToSet(Columns)
  BY DEF ValuesInv
<1>2. IsFiniteSet(ToSet(Columns)) /\ Cardinality(ToSet(Columns)) = Len(Columns)
  BY ColumnsType
<1>3. /\ IsFiniteSet(read) /\ Cardinality(read) <= Len(Columns)
      /\ Len(Columns) # Cardinality(read)
  BY <1>1, <1>2, FS_Subset
<1>4. Cardinality(read) \in Nat
  BY <1>3, FS_CardinalityType
<1>5. Cardinality(read) + 1 \in 1..Len(Columns)
  BY <1>3, <1>4, ColumnsType
<1>. QED
  BY <1>1, <1>5, ColumnsType

\* No value is read at the beginning of a poll, of an interface, or after the end.
LEMMA NoValues == ASSUME values' = <<>> PROVE ValuesInv'
BY ColumnsType DEF ValuesInv

\* The next row of the walk.
LEMMA NextRow ==
  ASSUME DeviceInv, NextIndex # {}
  PROVE  /\ Min(NextIndex) \in DOMAIN ports
         /\ \A k \in DOMAIN rows : rows[k].index < Min(NextIndex)
         /\ \A i \in NextIndex : Min(NextIndex) <= i
<1>1. NextIndex \in SUBSET Nat
  BY IndexAssumption DEF NextIndex, DeviceInv
<1>2. Min(NextIndex) \in NextIndex /\ \A i \in NextIndex : Min(NextIndex) <= i
  BY <1>1, LeastIndex
<1>. QED
  BY <1>2 DEF NextIndex

-----------------------------------------------------------------------------
\* A poll that ends.
LEMMA EndKeepsTable ==
  ASSUME TableInv, NEW how, End(how), UNCHANGED device,
         Named(previous'), Named(sample')
  PROVE  TableInv'
<1>1. UNCHANGED <<ports, lives, steady>> /\ rows' = <<>> /\ values' = <<>> /\ found' = <<>>
      /\ pc' = "idle"
  BY DEF device, End
<1>2. DeviceInv'
  BY <1>1 DEF TableInv, DeviceInv
<1>3. RowsInv'
  BY <1>1 DEF RowsInv
<1>4. Named(previous)' /\ Named(sample)'
  BY DEF Named
<1>. QED
  BY <1>1, <1>2, <1>3, <1>4, NoValues DEF TableInv

LEMMA UnreachableKeepsTable ==
  ASSUME TableInv, Unreachable, UNCHANGED device
  PROVE  TableInv'
<1>1. Named(NotReachable(clock))
  BY DEF Named, NotReachable
<1>. QED
  BY <1>1, EndKeepsTable DEF Unreachable, Return, TableInv

LEMMA RaiseKeepsTable ==
  ASSUME TableInv, Raise, UNCHANGED device
  PROVE  TableInv'
BY EndKeepsTable DEF Raise, TableInv, samples

\* A step of a poll that leaves the device and the samples alone.
LEMMA PollKeepsTable ==
  ASSUME TableInv, RowsInv', ValuesInv', UNCHANGED <<device, samples>>
  PROVE  TableInv'
BY DEF TableInv, DeviceInv, Named, device, samples

-----------------------------------------------------------------------------
\* The device between two steps of a poll: an interface goes on counting or is a new
\* one, and the ones that stayed in place since the poll began get fewer.
DeviceMoves ==
  /\ lives' \in Nat /\ lives <= lives'
  /\ \A i \in DOMAIN ports' :
       /\ i \in Index /\ ports'[i] \in Port /\ ports'[i].life <= lives'
       /\ \/ i \in DOMAIN ports /\ Continues(ports[i], ports'[i])
          \/ ports'[i].life > lives /\ \A x \in Direction : /\ ports'[i].count[x] = 0
                                                            /\ ports'[i].passed[x] = 0
  /\ steady' \subseteq steady \cap DOMAIN ports'
  /\ \A i \in steady' : ports'[i].life = ports[i].life

LEMMA StandsStill ==
  ASSUME DeviceInv, UNCHANGED <<ports, lives, steady>>
  PROVE  DeviceMoves
<1>1. \A i \in DOMAIN ports : Continues(ports[i], ports[i])
  BY DEF Continues
<1>. QED
  BY <1>1 DEF DeviceInv, DeviceMoves

LEMMA CarryMoves ==
  ASSUME DeviceInv, NEW i \in Index, NEW x \in Direction, NEW n \in 1..Width - 1,
         Carry(i, x, n)
  PROVE  DeviceMoves
<1>1. /\ i \in DOMAIN ports /\ ports' = [ports EXCEPT ![i] = Pass(ports[i], x, n)]
      /\ UNCHANGED <<lives, steady>>
  BY DEF Carry
<1>2. PICK q : q = Pass(ports[i], x, n)
  OBVIOUS
<1>3. q \in Port /\ q.life = ports[i].life /\ Continues(ports[i], q)
  BY <1>1, <1>2, PassType, PassContinues DEF DeviceInv
<1>4. DOMAIN ports' = DOMAIN ports /\ \A j \in DOMAIN ports : ports'[j] = IF j = i THEN q ELSE ports[j]
  BY <1>1, <1>2
<1>5. ASSUME NEW j \in DOMAIN ports
      PROVE  /\ j \in Index /\ ports'[j] \in Port /\ ports'[j].life = ports[j].life
             /\ ports[j].life <= lives /\ Continues(ports[j], ports'[j])
  <2>1. Continues(ports[j], ports[j])
    BY DEF Continues
  <2>. QED
    BY <1>3, <1>4, <2>1 DEF DeviceInv
<1>. QED
  BY <1>1, <1>4, <1>5 DEF DeviceMoves, DeviceInv

LEMMA ChangeMoves ==
  ASSUME DeviceInv, NEW table \in Tables, Change(table)
  PROVE  DeviceMoves
<1>1. /\ lives \in Nat /\ lives' = lives + 1
      /\ steady' = {i \in steady : i \in DOMAIN ports' /\ ports'[i].life = ports[i].life}
      /\ ports' \in {Rebooted(table, lives'), Reconfigured(ports, table, lives')}
  BY DEF Change, DeviceInv
<1>2. DOMAIN table \subseteq Index /\ \A i \in DOMAIN table : table[i] \in Name
  BY DEF Tables
<1>3. /\ DOMAIN ports' = DOMAIN table
      /\ \A i \in DOMAIN table : \/ i \in DOMAIN ports /\ ports'[i] = ports[i]
                                 \/ ports'[i] = Fresh(table[i], lives + 1)
  BY <1>1 DEF Rebooted, Reconfigured
<1>4. ASSUME NEW i \in DOMAIN table
      PROVE  /\ i \in Index /\ ports'[i] \in Port /\ ports'[i].life <= lives'
             /\ \/ i \in DOMAIN ports /\ Continues(ports[i], ports'[i])
                \/ ports'[i].life > lives /\ \A x \in Direction : /\ ports'[i].count[x] = 0
                                                                  /\ ports'[i].passed[x] = 0
  <2>1. CASE i \in DOMAIN ports /\ ports'[i] = ports[i]
    <3>1. Continues(ports[i], ports[i])
      BY DEF Continues
    <3>. QED
      BY <1>1, <2>1, <3>1 DEF DeviceInv, Port
  <2>2. CASE ports'[i] = Fresh(table[i], lives + 1)
    BY <1>1, <1>2, <2>2, FreshType
  <2>. QED
    BY <1>3, <2>1, <2>2
<1>. QED
  BY <1>1, <1>3, <1>4 DEF DeviceMoves

\* What a step of the device or the time leaves alone.
LEMMA WorldMoves ==
  ASSUME DeviceInv, World
  PROVE  DeviceMoves /\ UNCHANGED source
<1>1. CASE Tick
  BY <1>1, StandsStill DEF Tick
<1>2. CASE \E i \in Index, x \in Direction, n \in 1..Width - 1 : Carry(i, x, n)
  BY <1>2, CarryMoves DEF Carry
<1>3. CASE \E table \in Tables : Change(table)
  BY <1>3, ChangeMoves DEF Change
<1>4. CASE \E step \in Int : SetClock(step)
  BY <1>4, StandsStill DEF SetClock
<1>. QED
  BY <1>1, <1>2, <1>3, <1>4 DEF World

\* An interface that stayed in place is still of the same name and life.
LEMMA SteadyStays ==
  ASSUME DeviceInv, DeviceMoves, NEW i \in steady'
  PROVE  /\ i \in steady /\ i \in DOMAIN ports /\ i \in DOMAIN ports'
         /\ ports'[i].life = ports[i].life /\ ports'[i].name = ports[i].name
<1>1. /\ i \in steady /\ i \in DOMAIN ports' /\ ports'[i].life = ports[i].life
      /\ i \in DOMAIN ports /\ ports[i] \in Port /\ ports[i].life <= lives
  BY DEF DeviceMoves, DeviceInv
<1>2. ~(ports'[i].life > lives)
  BY <1>1 DEF DeviceInv, Port
<1>. QED
  BY <1>1, <1>2 DEF DeviceMoves, Continues

LEMMA MovesKeepDevice ==
  ASSUME DeviceInv, DeviceMoves
  PROVE  DeviceInv'
BY DEF DeviceInv, DeviceMoves

-----------------------------------------------------------------------------
\* One row read.
LEMMA TailRows ==
  ASSUME RowsInv, rows # <<>>
  PROVE  /\ 1 \in DOMAIN rows /\ Head(rows) = rows[1] /\ rows[1] \in WalkRow
         /\ Tail(rows) \in Seq(WalkRow) /\ DOMAIN Tail(rows) = 1..Len(rows) - 1
         /\ Len(Tail(rows)) = Len(rows) - 1 /\ Len(rows) \in Nat
         /\ \A k \in 1..Len(rows) - 1 : Tail(rows)[k] = rows[k + 1]
         /\ \A k \in 2..Len(Tail(rows)) : Tail(rows)[k - 1].index < Tail(rows)[k].index
<1>1. rows \in Seq(WalkRow) /\ Len(rows) \in Nat /\ Len(rows) > 0
  BY DEF RowsInv
<1>2. /\ 1 \in DOMAIN rows /\ Head(rows) = rows[1] /\ rows[1] \in WalkRow
      /\ Tail(rows) \in Seq(WalkRow) /\ DOMAIN Tail(rows) = 1..Len(rows) - 1
      /\ Len(Tail(rows)) = Len(rows) - 1
      /\ \A k \in 1..Len(rows) - 1 : Tail(rows)[k] = rows[k + 1]
  BY <1>1
<1>3. ASSUME NEW k \in 2..Len(rows) - 1
      PROVE  Tail(rows)[k - 1].index < Tail(rows)[k].index
  <2>1. k - 1 \in 1..Len(rows) - 1 /\ k \in 1..Len(rows) - 1 /\ k + 1 \in 2..Len(rows)
    BY <1>1
  <2>2. rows[(k + 1) - 1].index < rows[k + 1].index
    BY <2>1 DEF RowsInv
  <2>3. (k + 1) - 1 = k /\ Tail(rows)[k - 1] = rows[(k - 1) + 1] /\ (k - 1) + 1 = k
    BY <1>2, <2>1
  <2>. QED
    BY <1>2, <2>1, <2>2, <2>3
<1>. QED
  BY <1>1, <1>2, <1>3

LEMMA WalkKeepsRows ==
  ASSUME DeviceInv, RowsInv, pc = "walk", NextIndex # {}, pc' = pc,
         rows' = Append(rows, [index |-> Min(NextIndex), name |-> ports[Min(NextIndex)].name]),
         UNCHANGED <<values, found, lost>>
  PROVE  RowsInv'
<1>1. PICK i : i = Min(NextIndex)
  OBVIOUS
<1>2. PICK row : row = [index |-> i, name |-> ports[i].name]
  OBVIOUS
<1>3. i \in DOMAIN ports /\ \A k \in DOMAIN rows : rows[k].index < i
  BY <1>1, NextRow
<1>4. row \in WalkRow /\ row.index = i
  BY <1>2, <1>3 DEF DeviceInv, Port, WalkRow
<1>5. rows \in Seq(WalkRow) /\ rows' = Append(rows, row) /\ Len(rows) \in Nat
  BY <1>1, <1>2 DEF RowsInv
<1>6. /\ rows' \in Seq(WalkRow) /\ Len(rows') = Len(rows) + 1
      /\ \A k \in 1..Len(rows) : rows'[k] = rows[k]
      /\ rows'[Len(rows) + 1] = row
  BY <1>4, <1>5
<1>7. ASSUME NEW k \in 2..Len(rows')
      PROVE  rows'[k - 1].index < rows'[k].index
  <2>1. CASE k = Len(rows) + 1
    BY <1>3, <1>4, <1>5, <1>6, <2>1
  <2>2. CASE k \in 2..Len(rows)
    <3>1. k - 1 \in 1..Len(rows) /\ k \in 1..Len(rows) /\ rows[k - 1].index < rows[k].index
      BY <2>2 DEF RowsInv
    <3>. QED
      BY <1>6, <3>1
  <2>. QED
    BY <1>5, <1>6, <2>1, <2>2
<1>. QED
  BY <1>6, <1>7 DEF RowsInv

\* The outcomes of an answer: there are more columns to read, the interface is read,
\* or the device is given up.
ColumnRead(read) ==
  /\ DOMAIN read # ToSet(Columns)
  /\ values' = read /\ UNCHANGED <<pc, rows, found, samples, result, lost>>

InterfaceRead(i, read) ==
  /\ DOMAIN read = ToSet(Columns) /\ \A c \in DOMAIN read : ~read[c].absent
  /\ found' = With(found, i, SampleOf(read)) /\ rows' = Tail(rows) /\ values' = <<>>
  /\ UNCHANGED <<pc, samples, result, lost>>

LEMMA ReceiveCases ==
  ASSUME TableInv, Receive
  PROVE  \E i, c, read :
           /\ i \in Index /\ c \in ToSet(Columns)
           /\ pc = "get" /\ rows # <<>> /\ i = Head(rows).index
           /\ read = With(values, c, Answer(i, c)) /\ DOMAIN read \subseteq ToSet(Columns)
           /\ ColumnRead(read) \/ InterfaceRead(i, read) \/ Raise
           /\ UNCHANGED <<device, began>>
<1>1. pc = "get" /\ rows # <<>> /\ UNCHANGED <<device, began>>
  BY DEF Receive
<1>2. PICK i, c, read :
        /\ i = Head(rows).index /\ c = Columns[Cardinality(DOMAIN values) + 1]
        /\ read = With(values, c, Answer(i, c))
        /\ ColumnRead(read) \/ InterfaceRead(i, read) \/ Raise
  BY DEF Receive, ColumnRead, InterfaceRead
<1>3. c \in ToSet(Columns)
  BY <1>2, NextColumn DEF TableInv
<1>4. i \in Index
  BY <1>1, <1>2, TailRows DEF TableInv, WalkRow
<1>5. DOMAIN read \subseteq ToSet(Columns)
  BY <1>2, <1>3 DEF With, TableInv, ValuesInv
<1>. QED
  BY <1>1, <1>2, <1>3, <1>4, <1>5

LEMMA TailKeepsRows ==
  ASSUME RowsInv, pc = "get", pc' = pc, rows # <<>>, rows' = Tail(rows), values' = <<>>,
         DOMAIN found' \subseteq Index, \A i \in DOMAIN found' : found'[i].name \in Name
  PROVE  RowsInv'
BY TailRows DEF RowsInv

LEMMA ReceiveKeepsTable ==
  ASSUME TableInv, Receive
  PROVE  TableInv'
<1>1. PICK i, c, read :
        /\ i \in Index /\ c \in ToSet(Columns)
        /\ pc = "get" /\ rows # <<>> /\ i = Head(rows).index
        /\ read = With(values, c, Answer(i, c)) /\ DOMAIN read \subseteq ToSet(Columns)
        /\ ColumnRead(read) \/ InterfaceRead(i, read) \/ Raise
        /\ UNCHANGED <<device, began>>
  BY ReceiveCases
<1>2. CASE ColumnRead(read)
  <2>1. ValuesInv'
    BY <1>1, <1>2 DEF ColumnRead, ValuesInv
  <2>2. RowsInv'
    BY <1>1, <1>2 DEF ColumnRead, TableInv, RowsInv
  <2>. QED
    BY <1>1, <1>2, <2>1, <2>2, PollKeepsTable DEF ColumnRead
<1>3. CASE InterfaceRead(i, read)
  <2>1. pc' = pc /\ rows' = Tail(rows) /\ values' = <<>> /\ UNCHANGED samples
        /\ found' = With(found, i, SampleOf(read))
    BY <1>3 DEF InterfaceRead
  <2>2. SampleOf(read).name \in Name
    BY <1>1, TailRows DEF SampleOf, TableInv, WalkRow
  <2>3. DOMAIN found' \subseteq Index /\ \A j \in DOMAIN found' : found'[j].name \in Name
    BY <1>1, <2>1, <2>2 DEF With, TableInv, RowsInv
  <2>4. RowsInv'
    BY <1>1, <2>1, <2>3, TailKeepsRows DEF TableInv
  <2>. QED
    BY <1>1, <2>1, <2>4, NoValues, PollKeepsTable
<1>4. CASE Raise
  BY <1>1, <1>4, RaiseKeepsTable
<1>. QED
  BY <1>1, <1>2, <1>3, <1>4

LEMMA TableInit == SInit => TableInv
<1>. SUFFICES ASSUME SInit PROVE TableInv
  OBVIOUS
<1>1. PICK table \in Tables : ports = Rebooted(table, 0)
  BY DEF SInit
<1>2. DOMAIN table \subseteq Index /\ \A i \in DOMAIN table : table[i] \in Name
  BY DEF Tables
<1>3. DOMAIN ports = DOMAIN table /\ \A i \in DOMAIN table : ports[i] = Fresh(table[i], 0)
  BY <1>1 DEF Rebooted
<1>4. DeviceInv
  BY <1>2, <1>3, FreshType DEF SInit, DeviceInv
<1>5. /\ pc = "idle" /\ rows = <<>> /\ values = <<>> /\ found = <<>>
      /\ previous = NotReachable(0) /\ sample = NotReachable(0)
  BY DEF SInit
<1>6. RowsInv
  BY <1>5 DEF RowsInv
<1>7. ValuesInv
  BY <1>5, ColumnsType DEF ValuesInv
<1>. QED
  BY <1>4, <1>5, <1>6, <1>7 DEF TableInv, Named, NotReachable

LEMMA TableStep == TableInv /\ [SNext]_svars => TableInv'
<1>. SUFFICES ASSUME TableInv, [SNext]_svars PROVE TableInv'
  OBVIOUS
<1>1. CASE Start
  <2>1. /\ pc = "idle" /\ steady' = DOMAIN ports /\ lost' = {} /\ pc' \in {"idle", "uptime"}
        /\ UNCHANGED <<ports, lives, rows, values, found, previous, sample>>
    BY <1>1 DEF Start, samples
  <2>2. DeviceInv' /\ RowsInv' /\ ValuesInv'
    BY <2>1 DEF TableInv, DeviceInv, RowsInv, ValuesInv
  <2>. QED
    BY <2>1, <2>2 DEF TableInv, Named
<1>2. CASE GetUptime
  <2>1. UNCHANGED <<device, lost>> /\ pc = "uptime"
    BY <1>2 DEF GetUptime
  <2>2. CASE pc' = "walk" /\ UNCHANGED <<open, rows, values, found, samples, result, trouble>>
    <3>1. RowsInv' /\ ValuesInv'
      BY <2>1, <2>2 DEF TableInv, RowsInv, ValuesInv
    <3>. QED
      BY <2>1, <2>2, <3>1, PollKeepsTable
  <2>. QED
    BY <1>2, <2>1, <2>2, UnreachableKeepsTable, RaiseKeepsTable DEF GetUptime
<1>3. CASE Walk
  <2>1. UNCHANGED <<device, lost>> /\ pc = "walk"
    BY <1>3 DEF Walk
  <2>2. CASE /\ NextIndex # {}
             /\ rows' = Append(rows, [index |-> Min(NextIndex),
                                      name  |-> ports[Min(NextIndex)].name])
             /\ UNCHANGED <<pc, open, values, found, samples, result, trouble>>
    <3>1. RowsInv' /\ ValuesInv'
      BY <2>1, <2>2, WalkKeepsRows DEF TableInv, ValuesInv
    <3>. QED
      BY <2>1, <2>2, <3>1, PollKeepsTable
  <2>3. CASE pc' = "get" /\ UNCHANGED <<open, rows, values, found, samples, result, trouble>>
    <3>1. RowsInv' /\ ValuesInv'
      BY <2>1, <2>3 DEF TableInv, RowsInv, ValuesInv
    <3>. QED
      BY <2>1, <2>3, <3>1, PollKeepsTable
  <2>. QED
    BY <1>3, <2>1, <2>2, <2>3, UnreachableKeepsTable DEF Walk
<1>4. CASE Receive
  BY <1>4, ReceiveKeepsTable
<1>5. CASE Refused
  <2>1. pc = "get" /\ rows # <<>> /\ UNCHANGED device
    BY <1>5 DEF Refused
  <2>2. CASE Skip
    <3>1. pc' = pc /\ rows' = Tail(rows) /\ values' = <<>> /\ UNCHANGED <<found, samples>>
      BY <2>2 DEF Skip
    <3>2. RowsInv'
      BY <2>1, <3>1, TailKeepsRows DEF TableInv, RowsInv
    <3>. QED
      BY <2>1, <3>1, <3>2, NoValues, PollKeepsTable
  <2>. QED
    BY <1>5, <2>1, <2>2, UnreachableKeepsTable DEF Refused
<1>6. CASE Complete
  <2>1. PICK s : /\ s = Reachable(clock)
                 /\ End("returned") /\ sample' = s /\ previous' = sample /\ UNCHANGED device
    BY <1>6 DEF Complete, Return
  <2>2. Named(sample') /\ Named(previous')
    BY <2>1 DEF Reachable, Named, TableInv, RowsInv
  <2>. QED
    BY <2>1, <2>2, EndKeepsTable
<1>7. CASE World
  <2>1. DeviceInv'
    BY <1>7, WorldMoves, MovesKeepDevice DEF TableInv
  <2>2. UNCHANGED <<pc, rows, values, found, previous, sample, lost>>
    BY <1>7, WorldMoves DEF source, samples, history, TableInv
  <2>. QED
    BY <2>1, <2>2 DEF TableInv, RowsInv, ValuesInv, Named
<1>8. CASE UNCHANGED svars
  <2>1. UNCHANGED <<ports, lives, steady, pc, rows, values, found, previous, sample, lost>>
    BY <1>8 DEF svars, device, samples, history
  <2>. QED
    BY <2>1 DEF TableInv, DeviceInv, RowsInv, ValuesInv, Named
<1>. QED
  BY <1>1, <1>2, <1>3, <1>4, <1>5, <1>6, <1>7, <1>8 DEF SNext, Request

-----------------------------------------------------------------------------
\* How a poll ended and whether the device answered.
ResultInv == /\ result \in {"none", "returned", "raised"}
             /\ previous.reachable \in BOOLEAN /\ sample.reachable \in BOOLEAN

LEMMA ResultStep == ResultInv /\ [SNext]_svars => ResultInv'
<1>. SUFFICES ASSUME ResultInv, [SNext]_svars PROVE ResultInv'
  OBVIOUS
<1>1. ASSUME NEW s, s.reachable \in BOOLEAN, Return(s) PROVE ResultInv'
  BY <1>1 DEF Return, End, ResultInv
<1>2. ASSUME Unreachable PROVE ResultInv'
  <2>1. PICK b \in BOOLEAN : b = FALSE
    OBVIOUS
  <2>2. NotReachable(clock).reachable = b
    BY <2>1 DEF NotReachable
  <2>3. NotReachable(clock).reachable \in BOOLEAN
    BY <2>2
  <2>. QED
    BY <1>1, <1>2, <2>3 DEF Unreachable
<1>3. ASSUME Raise PROVE ResultInv'
  BY <1>3 DEF Raise, End, samples, ResultInv
<1>4. CASE Start
  BY <1>4 DEF Start, samples, ResultInv
<1>5. CASE GetUptime
  BY <1>2, <1>3, <1>5 DEF GetUptime, samples, ResultInv
<1>6. CASE Walk
  BY <1>2, <1>6 DEF Walk, samples, ResultInv
<1>7. CASE Receive
  BY <1>3, <1>7 DEF Receive, samples, ResultInv
<1>8. CASE Refused
  BY <1>2, <1>8 DEF Refused, Skip, samples, ResultInv
<1>9. CASE Complete
  <2>1. PICK b \in BOOLEAN : b = TRUE
    OBVIOUS
  <2>2. Reachable(clock).reachable = b
    BY <2>1 DEF Reachable
  <2>3. Reachable(clock).reachable \in BOOLEAN /\ Return(Reachable(clock))
    BY <1>9, <2>2 DEF Complete
  <2>. QED
    BY <1>1, <2>3
<1>10. CASE World
  BY <1>10 DEF World, Tick, SetClock, Carry, Change, source, samples, ResultInv
<1>11. CASE UNCHANGED svars
  BY <1>11 DEF svars, samples, ResultInv
<1>. QED
  BY <1>4, <1>5, <1>6, <1>7, <1>8, <1>9, <1>10, <1>11 DEF SNext, Request

\* Every variable is of its type, and the rows of a walk have ever greater indexes
\* (transport.py:130-152).
THEOREM SnmpTypes == SSpec => []STypeOK
<1>1. SInit => ResultInv
  BY DEF SInit, ResultInv, NotReachable
<1>2. PollInv /\ TimesInv /\ TableInv /\ ResultInv => STypeOK
  <2>. SUFFICES ASSUME PollInv, TimesInv, TableInv, ResultInv PROVE STypeOK
    OBVIOUS
  <2>1. IsSample(previous) /\ IsSample(sample)
    <3>1. previous.reachable \in BOOLEAN /\ sample.reachable \in BOOLEAN
      BY DEF ResultInv
    <3>2. Timed(previous) /\ Timed(sample) /\ Named(previous) /\ Named(sample)
      BY DEF TimesInv, TableInv
    <3>. QED
      BY <3>1, <3>2, Zenon DEF IsSample, Timed, Named
  <2>2. \A k \in DOMAIN rows : rows[k].index \in Index /\ rows[k].name \in Name
    <3>1. rows \in Seq(WalkRow)
      BY DEF TableInv, RowsInv
    <3>2. ASSUME NEW k \in DOMAIN rows PROVE rows[k] \in WalkRow
      BY <3>1
    <3>. QED
      BY <3>2 DEF WalkRow
  <2>3. /\ pc \in {"idle", "uptime", "walk", "get"} /\ result \in {"none", "returned", "raised"}
        /\ clock \in Int /\ ahead \in Int
    BY DEF PollInv, ResultInv, TimesInv
  <2>. QED
    BY <2>1, <2>2, <2>3 DEF STypeOK, TableInv, DeviceInv, RowsInv, ValuesInv
<1>. QED
  BY <1>1, <1>2, ResultStep, InitInv, StepInv, TimesInit, TimesStep, TableInit, TableStep, PTL
  DEF SSpec

-----------------------------------------------------------------------------
\* Which interfaces that stay in place are read already, and as what.

Covered(i) == \E k \in DOMAIN rows : rows[k].index = i

\* s is a sample of the interface that is p now.
SampledAs(s, p) == s.name = p.name /\ \A x \in Direction : s.life[x] = p.life

RowsNamed == \A k \in DOMAIN rows :
               rows[k].index \in steady => rows[k].name = ports[rows[k].index].name

WalkReaches == pc = "walk" => \A i \in steady : \/ Covered(i)
                                                \/ \A k \in DOMAIN rows : rows[k].index < i

GetsReach == pc = "get" => \A i \in steady \ lost : Covered(i) \/ i \in DOMAIN found

FoundSteady == \A i \in DOMAIN found \cap steady : SampledAs(found[i], ports[i])

ColumnsSteady ==
  rows # <<>> =>
    \A c \in DOMAIN values \cap Direction :
      Head(rows).index \in steady => values[c].life = ports[Head(rows).index].life

ReturnedSteady ==
  (pc = "idle" /\ result = "returned" /\ sample.reachable) =>
    \A i \in steady \ lost : i \in DOMAIN sample.ifs /\ SampledAs(sample.ifs[i], ports[i])

SteadyInv == /\ RowsNamed /\ WalkReaches /\ GetsReach
             /\ FoundSteady /\ ColumnsSteady /\ ReturnedSteady

\* A poll that ends without a sample of the device.
LEMMA NoSampleSteady ==
  ASSUME NEW how, End(how), how = "raised" \/ sample' = NotReachable(clock)
  PROVE  SteadyInv'
<1>1. pc' = "idle" /\ rows' = <<>> /\ found' = <<>> /\ values' = <<>> /\ result' = how
  BY DEF End
<1>2. RowsNamed' /\ WalkReaches' /\ GetsReach' /\ FoundSteady' /\ ColumnsSteady'
  BY <1>1 DEF RowsNamed, WalkReaches, GetsReach, FoundSteady, ColumnsSteady
<1>3. ReturnedSteady'
  BY <1>1 DEF ReturnedSteady, NotReachable
<1>. QED
  BY <1>2, <1>3 DEF SteadyInv

LEMMA UnreachableSteady == ASSUME Unreachable PROVE SteadyInv'
BY NoSampleSteady DEF Unreachable, Return

LEMMA RaiseSteady == ASSUME Raise PROVE SteadyInv'
BY NoSampleSteady DEF Raise

\* The walk reaches the interfaces that stay in place one after the other.
LEMMA WalkSteady ==
  ASSUME TableInv, SteadyInv, pc = "walk", NextIndex # {}, pc' = pc,
         rows' = Append(rows, [index |-> Min(NextIndex), name |-> ports[Min(NextIndex)].name]),
         UNCHANGED <<ports, steady, values, found>>
  PROVE  SteadyInv'
<1>1. PICK i : i = Min(NextIndex)
  OBVIOUS
<1>2. PICK row : row = [index |-> i, name |-> ports[i].name]
  OBVIOUS
<1>3. rows \in Seq(WalkRow) /\ rows' = Append(rows, row) /\ values = <<>> /\ found = <<>>
  BY <1>1, <1>2 DEF TableInv, RowsInv
<1>4. i \in DOMAIN ports /\ \A j \in NextIndex : i <= j
  BY <1>1, NextRow DEF TableInv
<1>5. row \in WalkRow /\ row.index = i /\ row.name = ports[i].name
  BY <1>2, <1>4 DEF TableInv, DeviceInv, Port, WalkRow
<1>6. /\ DOMAIN rows = 1..Len(rows) /\ Len(rows) \in Nat /\ DOMAIN rows' = 1..Len(rows) + 1
      /\ \A k \in DOMAIN rows : rows'[k] = rows[k]
      /\ rows'[Len(rows) + 1] = row
  BY <1>3, <1>5
<1>7. RowsNamed'
  BY <1>5, <1>6 DEF RowsNamed, SteadyInv
<1>8. WalkReaches'
  <2>. SUFFICES ASSUME NEW j \in steady
                PROVE  Covered(j)' \/ \A k \in DOMAIN rows' : rows'[k].index < j
    BY DEF WalkReaches
  <2>1. CASE Covered(j)
    BY <1>6, <2>1 DEF Covered
  <2>2. CASE \A k \in DOMAIN rows : rows[k].index < j
    <3>1. j \in NextIndex /\ j \in Nat /\ i \in Nat
      BY <1>4, <2>2, IndexAssumption DEF NextIndex, TableInv, DeviceInv
    <3>2. i = j \/ i < j
      BY <1>4, <3>1
    <3>3. i = j => Covered(j)'
      BY <1>5, <1>6 DEF Covered
    <3>4. i < j => \A k \in DOMAIN rows' : rows'[k].index < j
      BY <1>5, <1>6, <2>2
    <3>. QED
      BY <3>2, <3>3, <3>4
  <2>. QED
    BY <2>1, <2>2 DEF SteadyInv, WalkReaches
<1>9. GetsReach' /\ FoundSteady' /\ ColumnsSteady' /\ ReturnedSteady'
  BY <1>3 DEF GetsReach, FoundSteady, ColumnsSteady, ReturnedSteady
<1>. QED
  BY <1>7, <1>8, <1>9 DEF SteadyInv

\* At the end of the walk every interface that stayed in place is among its rows.
LEMMA WalkEndsSteady ==
  ASSUME TableInv, SteadyInv, pc = "walk", NextIndex = {}, pc' = "get",
         UNCHANGED <<ports, steady, rows, values, found>>
  PROVE  SteadyInv'
<1>1. values = <<>> /\ found = <<>>
  BY DEF TableInv, RowsInv
<1>2. GetsReach'
  <2>. SUFFICES ASSUME NEW j \in steady PROVE Covered(j)
    BY DEF GetsReach, Covered
  <2>1. j \notin NextIndex /\ j \in DOMAIN ports
    BY DEF TableInv, DeviceInv
  <2>. QED
    BY <2>1 DEF NextIndex, SteadyInv, WalkReaches
<1>3. RowsNamed'
  BY DEF RowsNamed, SteadyInv
<1>. QED
  BY <1>1, <1>2, <1>3
  DEF SteadyInv, WalkReaches, FoundSteady, ColumnsSteady, ReturnedSteady

\* What an interface that stayed in place answers is its own.
LEMMA ColumnReadSteady ==
  ASSUME TableInv, SteadyInv, NEW i, i = Head(rows).index, NEW c, rows # <<>>,
         NEW read, read = With(values, c, Answer(i, c))
  PROVE  \A k \in DOMAIN read \cap Direction : i \in steady => read[k].life = ports[i].life
<1>1. SUFFICES ASSUME NEW k \in DOMAIN read \cap Direction, i \in steady
               PROVE  read[k].life = ports[i].life
  OBVIOUS
<1>2. i \in DOMAIN ports
  BY <1>1 DEF TableInv, DeviceInv
<1>3. CASE k = c
  BY <1>1, <1>2, <1>3 DEF With, Answer
<1>4. CASE k # c
  BY <1>1, <1>4 DEF With, SteadyInv, ColumnsSteady
<1>. QED
  BY <1>3, <1>4

\* One row read: the rows after it, and what is found with it.
LEMMA RowSteady ==
  ASSUME TableInv, SteadyInv, pc = "get", pc' = pc, rows # <<>>, rows' = Tail(rows),
         values' = <<>>, FoundSteady', UNCHANGED <<ports, steady>>,
         DOMAIN found \subseteq DOMAIN found', lost \subseteq lost',
         Head(rows).index \in lost' \/ Head(rows).index \in DOMAIN found'
  PROVE  SteadyInv'
<1>1. /\ 1 \in DOMAIN rows /\ Head(rows) = rows[1]
      /\ DOMAIN rows' = 1..Len(rows) - 1 /\ DOMAIN rows = 1..Len(rows) /\ Len(rows) \in Nat
      /\ \A k \in 1..Len(rows) - 1 : rows'[k] = rows[k + 1]
  BY TailRows DEF TableInv, RowsInv
<1>2. RowsNamed'
  <2>. SUFFICES ASSUME NEW k \in 1..Len(rows) - 1, rows[k + 1].index \in steady
                PROVE  rows[k + 1].name = ports[rows[k + 1].index].name
    BY <1>1 DEF RowsNamed
  <2>1. k + 1 \in DOMAIN rows
    BY <1>1
  <2>. QED
    BY <2>1 DEF SteadyInv, RowsNamed
<1>3. GetsReach'
  <2>. SUFFICES ASSUME NEW j \in steady \ lost', Covered(j), j \notin DOMAIN found'
                PROVE  Covered(j)'
    BY DEF GetsReach, SteadyInv
  <2>1. PICK k \in DOMAIN rows : rows[k].index = j
    BY DEF Covered
  <2>2. k # 1
    BY <1>1, <2>1
  <2>3. k - 1 \in 1..Len(rows) - 1 /\ (k - 1) + 1 = k
    BY <1>1, <2>1, <2>2
  <2>4. rows'[k - 1] = rows[k]
    BY <1>1, <2>3
  <2>. QED
    BY <1>1, <2>1, <2>3, <2>4 DEF Covered
<1>4. WalkReaches' /\ ColumnsSteady' /\ ReturnedSteady'
  BY DEF WalkReaches, ColumnsSteady, ReturnedSteady
<1>. QED
  BY <1>2, <1>3, <1>4 DEF SteadyInv

LEMMA ReceiveSteady ==
  ASSUME TableInv, SteadyInv, Receive
  PROVE  SteadyInv'
<1>1. PICK i, c, read :
        /\ i \in Index /\ c \in ToSet(Columns)
        /\ pc = "get" /\ rows # <<>> /\ i = Head(rows).index
        /\ read = With(values, c, Answer(i, c)) /\ DOMAIN read \subseteq ToSet(Columns)
        /\ ColumnRead(read) \/ InterfaceRead(i, read) \/ Raise
        /\ UNCHANGED <<device, began>>
  BY ReceiveCases
<1>2. UNCHANGED <<ports, steady>>
  BY <1>1 DEF device
<1>3. \A k \in DOMAIN read \cap Direction : i \in steady => read[k].life = ports[i].life
  BY <1>1, ColumnReadSteady
<1>4. CASE ColumnRead(read)
  <2>1. values' = read /\ UNCHANGED <<pc, rows, found, sample, result, lost>>
    BY <1>4 DEF ColumnRead, samples
  <2>2. ColumnsSteady'
    BY <1>1, <1>2, <1>3, <2>1 DEF ColumnsSteady
  <2>3. RowsNamed' /\ FoundSteady'
    BY <1>2, <2>1 DEF RowsNamed, FoundSteady, SteadyInv
  <2>4. WalkReaches' /\ GetsReach' /\ ReturnedSteady'
    BY <1>1, <1>2, <2>1 DEF WalkReaches, GetsReach, ReturnedSteady, SteadyInv, Covered
  <2>. QED
    BY <2>2, <2>3, <2>4 DEF SteadyInv
<1>5. CASE InterfaceRead(i, read)
  <2>1. /\ found' = With(found, i, SampleOf(read)) /\ rows' = Tail(rows) /\ values' = <<>>
        /\ DOMAIN read = ToSet(Columns) /\ pc' = pc /\ lost' = lost
    BY <1>5 DEF InterfaceRead
  <2>2. i \in steady => SampledAs(SampleOf(read), ports[i])
    <3>1. SUFFICES ASSUME i \in steady PROVE SampledAs(SampleOf(read), ports[i])
      OBVIOUS
    <3>2. SampleOf(read).name = ports[i].name
      <4>1. 1 \in DOMAIN rows /\ Head(rows) = rows[1]
        BY <1>1, TailRows DEF TableInv
      <4>. QED
        BY <1>1, <3>1, <4>1 DEF SampleOf, SteadyInv, RowsNamed
    <3>3. \A x \in Direction : SampleOf(read).life[x] = ports[i].life
      BY <1>3, <2>1, <3>1, ColumnsAssumption DEF SampleOf
    <3>. QED
      BY <3>2, <3>3 DEF SampledAs
  <2>3. /\ DOMAIN found' = DOMAIN found \cup {i}
        /\ \A j \in DOMAIN found' : found'[j] = IF j = i THEN SampleOf(read) ELSE found[j]
    BY <2>1 DEF With
  <2>4. FoundSteady'
    BY <1>2, <2>2, <2>3 DEF FoundSteady, SteadyInv
  <2>. QED
    BY <1>1, <1>2, <2>1, <2>3, <2>4, RowSteady
<1>6. CASE Raise
  BY <1>6, RaiseSteady
<1>. QED
  BY <1>1, <1>4, <1>5, <1>6

\* Time passes for the device: what stays in place keeps its name and its life.
LEMMA WorldSteady ==
  ASSUME TableInv, SteadyInv, World
  PROVE  SteadyInv'
<1>1. UNCHANGED <<pc, rows, values, found, sample, result, lost>>
  BY WorldMoves DEF source, samples, history, TableInv
<1>2. ASSUME NEW i \in steady'
      PROVE  i \in steady /\ ports'[i].life = ports[i].life /\ ports'[i].name = ports[i].name
  BY <1>2, WorldMoves, SteadyStays DEF TableInv
<1>3. RowsNamed'
  BY <1>1, <1>2 DEF RowsNamed, SteadyInv
<1>4. WalkReaches' /\ GetsReach'
  BY <1>1, <1>2 DEF WalkReaches, GetsReach, SteadyInv, Covered
<1>5. FoundSteady'
  BY <1>1, <1>2 DEF FoundSteady, SteadyInv, SampledAs
<1>6. ColumnsSteady'
  BY <1>1, <1>2 DEF ColumnsSteady, SteadyInv
<1>7. ReturnedSteady'
  BY <1>1, <1>2 DEF ReturnedSteady, SteadyInv, SampledAs
<1>. QED
  BY <1>3, <1>4, <1>5, <1>6, <1>7 DEF SteadyInv

LEMMA SteadyInit == SInit => SteadyInv
BY DEF SInit, SteadyInv, RowsNamed, WalkReaches, GetsReach, FoundSteady, ColumnsSteady,
       ReturnedSteady

LEMMA SteadyStep == TableInv /\ SteadyInv /\ [SNext]_svars => SteadyInv'
<1>. SUFFICES ASSUME TableInv, SteadyInv, [SNext]_svars PROVE SteadyInv'
  OBVIOUS
<1>1. CASE Start
  <2>1. /\ rows = <<>> /\ values = <<>> /\ found = <<>>
        /\ pc' \in {"idle", "uptime"} /\ (pc' = "idle" => result' = "raised")
        /\ UNCHANGED <<rows, values, found>>
    BY <1>1 DEF Start, TableInv, RowsInv
  <2>. QED
    BY <2>1 DEF SteadyInv, RowsNamed, WalkReaches, GetsReach, FoundSteady, ColumnsSteady,
                ReturnedSteady
<1>2. CASE GetUptime
  <2>1. CASE pc' = "walk" /\ UNCHANGED <<open, rows, values, found, samples, result, trouble>>
    <3>1. rows = <<>> /\ values = <<>> /\ found = <<>>
      BY <1>2 DEF GetUptime, TableInv, RowsInv
    <3>. QED
      BY <2>1, <3>1 DEF SteadyInv, RowsNamed, WalkReaches, GetsReach, FoundSteady,
                        ColumnsSteady, ReturnedSteady
  <2>. QED
    BY <1>2, <2>1, UnreachableSteady, RaiseSteady DEF GetUptime
<1>3. CASE Walk
  <2>1. UNCHANGED <<ports, steady>> /\ pc = "walk"
    BY <1>3 DEF Walk, device
  <2>2. CASE /\ NextIndex # {}
             /\ rows' = Append(rows, [index |-> Min(NextIndex),
                                      name  |-> ports[Min(NextIndex)].name])
             /\ UNCHANGED <<pc, open, values, found, samples, result, trouble>>
    BY <2>1, <2>2, WalkSteady
  <2>3. CASE /\ NextIndex = {} /\ pc' = "get"
             /\ UNCHANGED <<open, rows, values, found, samples, result, trouble>>
    BY <2>1, <2>3, WalkEndsSteady
  <2>. QED
    BY <1>3, <2>2, <2>3, UnreachableSteady DEF Walk
<1>4. CASE Receive
  BY <1>4, ReceiveSteady
<1>5. CASE Refused
  <2>1. /\ pc = "get" /\ rows # <<>> /\ lost' = lost \cup {Head(rows).index}
        /\ UNCHANGED <<ports, steady>>
    BY <1>5 DEF Refused, device
  <2>2. CASE Skip
    <3>1. pc' = pc /\ rows' = Tail(rows) /\ values' = <<>> /\ found' = found
      BY <2>2 DEF Skip
    <3>2. FoundSteady'
      BY <2>1, <3>1 DEF FoundSteady, SteadyInv
    <3>. QED
      BY <2>1, <3>1, <3>2, RowSteady
  <2>. QED
    BY <1>5, <2>2, UnreachableSteady DEF Refused
<1>6. CASE Complete
  <2>1. PICK s : /\ s = Reachable(clock)
                 /\ End("returned") /\ sample' = s
    BY <1>6 DEF Complete, Return
  <2>2. pc = "get" /\ rows = <<>> /\ UNCHANGED <<ports, steady, lost>>
    BY <1>6 DEF Complete, device, history
  <2>3. \A i \in steady \ lost : i \in DOMAIN found
    BY <2>2 DEF SteadyInv, GetsReach, Covered
  <2>4. ReturnedSteady'
    BY <2>1, <2>2, <2>3 DEF Reachable, ReturnedSteady, SteadyInv, FoundSteady
  <2>5. pc' = "idle" /\ rows' = <<>> /\ found' = <<>> /\ values' = <<>>
    BY <2>1 DEF End
  <2>. QED
    BY <2>4, <2>5 DEF SteadyInv, RowsNamed, WalkReaches, GetsReach, FoundSteady, ColumnsSteady
<1>7. CASE World
  BY <1>7, WorldSteady
<1>8. CASE UNCHANGED svars
  <2>1. UNCHANGED <<ports, steady, pc, rows, values, found, sample, result, lost>>
    BY <1>8 DEF svars, device, samples, history
  <2>2. RowsNamed' /\ FoundSteady' /\ ColumnsSteady'
    BY <2>1 DEF SteadyInv, RowsNamed, FoundSteady, ColumnsSteady
  <2>3. WalkReaches' /\ GetsReach' /\ ReturnedSteady'
    BY <2>1 DEF SteadyInv, WalkReaches, GetsReach, ReturnedSteady, Covered
  <2>. QED
    BY <2>2, <2>3 DEF SteadyInv
<1>. QED
  BY <1>1, <1>2, <1>3, <1>4, <1>5, <1>6, <1>7, <1>8 DEF SNext, Request

\* However the table changes around it in the middle of the walk and of the reads, an
\* interface that stays in place and answers is in the sample, under its own name and
\* with its own counters (snmp_source.py:114-153).
THEOREM SnmpSamplesSteady == SSpec => []SteadyIsSampled
<1>1. SteadyInv => SteadyIsSampled
  BY DEF SteadyInv, ReturnedSteady, SampledAs, SteadyIsSampled
<1>. QED
  BY <1>1, TableInit, TableStep, SteadyInit, SteadyStep, PTL DEF SSpec

-----------------------------------------------------------------------------
\* What is known of a counter from one read of it.
Seen(life, count, passed) == [life |-> life, count |-> count, passed |-> passed]

PortSeen(p, x) == Seen(p.life, p.count[x], p.passed[x])

SampleSeen(s, x) == Seen(s.life[x], s.count[x], s.passed[x])

ColumnSeen(v) == Seen(v.life, v.count, v.passed)

\* A counter shows no more than passed in a life that has begun.
Sound(r) == /\ r.life \in Nat /\ r.life <= lives
            /\ r.count \in 0..Width - 1 /\ r.passed \in Nat /\ r.count <= r.passed

\* In one life, what was read later is what was read before and what passed between.
Later(r, s) == r.life = s.life => Trails(Width, r.passed, r.count, s.passed, s.count)

SoundTable == \A i \in DOMAIN ports, x \in Direction : Sound(PortSeen(ports[i], x))

SoundIfs(ifs) == \A i \in DOMAIN ifs, x \in Direction : Sound(SampleSeen(ifs[i], x))

BeforeNow(ifs) ==
  \A i \in DOMAIN ifs \cap DOMAIN ports, x \in Direction :
    Later(SampleSeen(ifs[i], x), PortSeen(ports[i], x))

InOrder(ifs, jfs) ==
  \A i \in DOMAIN ifs \cap DOMAIN jfs, x \in Direction :
    Later(SampleSeen(ifs[i], x), SampleSeen(jfs[i], x))

\* v was read of column c of the interface at index i.
ColumnInOrder(v, i, c) ==
  /\ Sound(ColumnSeen(v))
  /\ i \in DOMAIN ports => Later(ColumnSeen(v), PortSeen(ports[i], c))
  /\ i \in DOMAIN sample.ifs => Later(SampleSeen(sample.ifs[i], c), ColumnSeen(v))

ColumnsInOrder ==
  rows # <<>> =>
    \A c \in DOMAIN values \cap Direction :
      values[c].absent \/ ColumnInOrder(values[c], Head(rows).index, c)

ChainInv ==
  /\ SoundTable /\ SoundIfs(previous.ifs) /\ SoundIfs(sample.ifs) /\ SoundIfs(found)
  /\ BeforeNow(sample.ifs) /\ BeforeNow(found)
  /\ InOrder(previous.ifs, sample.ifs) /\ InOrder(sample.ifs, found)
  /\ ColumnsInOrder

LEMMA PortSound ==
  ASSUME SoundTable, NEW i \in DOMAIN ports, NEW x \in Direction
  PROVE  /\ ports[i].life \in Nat /\ ports[i].life <= lives
         /\ ports[i].count[x] \in 0..Width - 1 /\ ports[i].passed[x] \in Nat
         /\ ports[i].count[x] <= ports[i].passed[x]
<1>1. Sound(PortSeen(ports[i], x))
  BY DEF SoundTable
<1>. QED
  BY <1>1 DEF Sound, PortSeen, Seen

\* Trails, of a counter that goes on counting.
LEMMA LaterOn ==
  ASSUME NEW r, Sound(r), NEW p, NEW q, NEW x \in Direction,
         Sound(PortSeen(p, x)), Sound(PortSeen(q, x)), Continues(p, q),
         Later(r, PortSeen(p, x))
  PROVE  Later(r, PortSeen(q, x))
<1>1. PICK w \in Nat \ {0} : w = Width
  BY WidthType
<1>2. PICK rc \in 0..w - 1, rp \in Nat : rc = r.count /\ rp = r.passed
  BY <1>1 DEF Sound
<1>3. PICK pc0 \in 0..w - 1, pp \in Nat : pc0 = p.count[x] /\ pp = p.passed[x]
  BY <1>1 DEF Sound, PortSeen, Seen
<1>4. PICK qc \in 0..w - 1, qp \in Nat : qc = q.count[x] /\ qp = q.passed[x]
  BY <1>1 DEF Sound, PortSeen, Seen
<1>5. p.life = q.life
  BY DEF Continues
<1>6. SUFFICES ASSUME r.life = q.life PROVE Trails(w, rp, rc, qp, qc)
  BY <1>1, <1>2, <1>4 DEF Later, PortSeen, Seen
<1>7. Trails(w, rp, rc, pp, pc0)
  BY <1>1, <1>2, <1>3, <1>5, <1>6 DEF Later, PortSeen, Seen
<1>8. CASE qp = pp /\ qc = pc0
  BY <1>7, <1>8
<1>9. CASE \E n \in 1..w - 1 : qp = pp + n /\ (qc = pc0 + n \/ qc = pc0 + n - w)
  <2>1. PICK n \in 1..w - 1 : qp = pp + n /\ (qc = pc0 + n \/ qc = pc0 + n - w)
    BY <1>9
  <2>. QED
    BY <1>7, <2>1, TrailsOn
<1>. QED
  BY <1>1, <1>3, <1>4, <1>8, <1>9 DEF Continues

\* A counter of a new life is later than what was read before only if that was, too,
\* of that life: it was not.
LEMMA LaterAnew ==
  ASSUME NEW r, Sound(r), lives \in Nat, NEW q, NEW x \in Direction,
         q.life \in Nat, q.life > lives
  PROVE  Later(r, PortSeen(q, x))
<1>1. r.life # q.life
  BY DEF Sound
<1>. QED
  BY <1>1 DEF Later, PortSeen, Seen

LEMMA LaterSame ==
  ASSUME NEW r, Sound(r)
  PROVE  Later(r, r)
BY WidthType DEF Later, Trails, Sound

-----------------------------------------------------------------------------
\* The device moves on: what it shows stays sound, and later than what was read.
LEMMA MovesSound ==
  ASSUME DeviceInv, SoundTable, DeviceMoves
  PROVE  SoundTable' /\ \A r : Sound(r) => Sound(r)'
<1>1. lives \in Nat /\ lives' \in Nat /\ lives <= lives'
  BY DEF DeviceInv, DeviceMoves
<1>2. ASSUME NEW r, Sound(r) PROVE Sound(r)'
  BY <1>1, <1>2 DEF Sound
<1>3. ASSUME NEW i \in DOMAIN ports', NEW x \in Direction
      PROVE  /\ ports'[i].life \in Nat /\ ports'[i].life <= lives'
             /\ ports'[i].count[x] \in 0..Width - 1 /\ ports'[i].passed[x] \in Nat
             /\ ports'[i].count[x] <= ports'[i].passed[x]
  <2>1. ports'[i] \in Port /\ ports'[i].life <= lives'
    BY DEF DeviceMoves
  <2>2. PICK w \in Nat \ {0} : w = Width
    BY WidthType
  <2>3. PICK k \in 0..w - 1, n \in Nat : k = ports'[i].count[x] /\ n = ports'[i].passed[x]
    BY <2>1, <2>2 DEF Port
  <2>4. CASE i \in DOMAIN ports /\ Continues(ports[i], ports'[i])
    <3>1. PICK c \in 0..w - 1, p \in Nat : c = ports[i].count[x] /\ p = ports[i].passed[x] /\ c <= p
      BY <2>2, <2>4, PortSound
    <3>2. \/ n = p /\ k = c
          \/ \E m \in 1..w - 1 : n = p + m /\ (k = c + m \/ k = c + m - w)
      BY <2>2, <2>3, <2>4, <3>1 DEF Continues
    <3>3. k <= n
      BY <3>1, <3>2
    <3>. QED
      BY <2>1, <2>2, <2>3, <3>3 DEF Port
  <2>5. CASE ports'[i].count[x] = 0 /\ ports'[i].passed[x] = 0
    BY <2>1, <2>2, <2>3, <2>5 DEF Port
  <2>. QED
    BY <2>4, <2>5 DEF DeviceMoves
<1>4. SoundTable'
  <2>1. ASSUME NEW i \in DOMAIN ports', NEW x \in Direction PROVE Sound(PortSeen(ports[i], x))'
    BY <1>3 DEF Sound, PortSeen, Seen
  <2>. QED
    BY <2>1 DEF SoundTable
<1>. QED
  BY <1>2, <1>4

LEMMA MovesLater ==
  ASSUME DeviceInv, SoundTable, DeviceMoves, NEW i \in DOMAIN ports', NEW x \in Direction,
         NEW r, Sound(r), i \in DOMAIN ports => Later(r, PortSeen(ports[i], x))
  PROVE  Later(r, PortSeen(ports'[i], x))
<1>1. CASE i \in DOMAIN ports /\ Continues(ports[i], ports'[i])
  <2>1. Sound(PortSeen(ports[i], x))
    BY <1>1 DEF SoundTable
  <2>2. PICK q : q = ports'[i]
    OBVIOUS
  <2>3. /\ q.life = ports[i].life /\ q.count[x] \in 0..Width - 1 /\ q.passed[x] \in Nat
    BY <1>1, <2>2 DEF DeviceMoves, Continues, Port
  <2>4. q.count[x] <= q.passed[x]
    <3>1. SoundTable'
      BY MovesSound
    <3>2. Sound(PortSeen(ports[i], x))'
      BY <3>1 DEF SoundTable
    <3>. QED
      BY <2>2, <3>2 DEF Sound, PortSeen, Seen
  <2>5. Sound(PortSeen(q, x))
    BY <2>1, <2>3, <2>4 DEF Sound, PortSeen, Seen
  <2>. QED
    BY <1>1, <2>1, <2>2, <2>5, LaterOn
<1>2. CASE ports'[i].life > lives
  <2>1. PICK q : q = ports'[i]
    OBVIOUS
  <2>2. q.life \in Nat /\ q.life > lives /\ lives \in Nat
    BY <1>2, <2>1 DEF DeviceMoves, DeviceInv, Port
  <2>. QED
    BY <2>1, <2>2, LaterAnew
<1>. QED
  BY <1>1, <1>2 DEF DeviceMoves

LEMMA MovesBefore ==
  ASSUME DeviceInv, SoundTable, DeviceMoves, NEW ifs, SoundIfs(ifs), BeforeNow(ifs)
  PROVE  SoundIfs(ifs)' /\ BeforeNow(ifs)'
<1>1. SoundIfs(ifs)'
  <2>1. ASSUME NEW i \in DOMAIN ifs, NEW x \in Direction PROVE Sound(SampleSeen(ifs[i], x))'
    BY MovesSound DEF SoundIfs
  <2>. QED
    BY <2>1 DEF SoundIfs
<1>2. BeforeNow(ifs)'
  <2>. SUFFICES ASSUME NEW i \in DOMAIN ifs \cap DOMAIN ports', NEW x \in Direction
                PROVE  Later(SampleSeen(ifs[i], x), PortSeen(ports'[i], x))
    BY DEF BeforeNow
  <2>1. PICK r : r = SampleSeen(ifs[i], x)
    OBVIOUS
  <2>2. Sound(r) /\ (i \in DOMAIN ports => Later(r, PortSeen(ports[i], x)))
    BY <2>1 DEF SoundIfs, BeforeNow
  <2>. QED
    BY <2>1, <2>2, MovesLater
<1>. QED
  BY <1>1, <1>2

LEMMA WorldChain ==
  ASSUME TableInv, ChainInv, DeviceMoves, UNCHANGED <<rows, values, found, previous, sample>>
  PROVE  ChainInv'
<1>0. DeviceInv /\ SoundTable
  BY DEF TableInv, ChainInv
<1>1. SoundTable' /\ \A r : Sound(r) => Sound(r)'
  BY <1>0, MovesSound
<1>2. PICK f, s, p : f = found /\ s = sample.ifs /\ p = previous.ifs
  OBVIOUS
<1>3. /\ SoundIfs(p) /\ SoundIfs(s) /\ SoundIfs(f) /\ BeforeNow(s) /\ BeforeNow(f)
      /\ InOrder(p, s) /\ InOrder(s, f)
  BY <1>2 DEF ChainInv
<1>4. SoundIfs(s)' /\ BeforeNow(s)'
  BY <1>0, <1>3, MovesBefore
<1>5. SoundIfs(f)' /\ BeforeNow(f)'
  BY <1>0, <1>3, MovesBefore
<1>6. SoundIfs(p)'
  BY <1>1, <1>3 DEF SoundIfs
<1>7. ColumnsInOrder'
  <2>. SUFFICES ASSUME rows # <<>>, NEW c \in DOMAIN values \cap Direction, ~values[c].absent
                PROVE  ColumnInOrder(values[c], Head(rows).index, c)'
    BY DEF ColumnsInOrder
  <2>1. PICK i, r : i = Head(rows).index /\ r = ColumnSeen(values[c])
    OBVIOUS
  <2>2. /\ Sound(r) /\ (i \in DOMAIN ports => Later(r, PortSeen(ports[i], c)))
        /\ i \in DOMAIN s => Later(SampleSeen(s[i], c), r)
    BY <1>2, <2>1 DEF ChainInv, ColumnsInOrder, ColumnInOrder
  <2>3. Sound(r)'
    BY <1>1, <2>2
  <2>4. i \in DOMAIN ports' => Later(r, PortSeen(ports'[i], c))
    BY <1>0, <2>2, MovesLater
  <2>. QED
    BY <1>2, <2>1, <2>2, <2>3, <2>4 DEF ColumnInOrder
<1>. QED
  BY <1>1, <1>2, <1>3, <1>4, <1>5, <1>6, <1>7 DEF ChainInv

\* A step that reads nothing of an interface.
LEMMA QuietChain ==
  ASSUME ChainInv, UNCHANGED <<ports, lives, found, previous, sample>>,
         values' = <<>> \/ UNCHANGED <<rows, values>>
  PROVE  ChainInv'
<1>1. ColumnsInOrder'
  BY DEF ChainInv, ColumnsInOrder, ColumnInOrder, Sound
<1>. QED
  BY <1>1 DEF ChainInv, SoundTable, SoundIfs, BeforeNow, InOrder, Sound

\* A poll ends: its sample, if there is one, takes the place of the last one.
LEMMA EndChain ==
  ASSUME ChainInv, NEW how, End(how), UNCHANGED <<ports, lives>>,
         \/ UNCHANGED <<previous, sample>>
         \/ previous' = sample /\ sample'.ifs \in {<<>>, found}
  PROVE  ChainInv'
<1>1. rows' = <<>> /\ values' = <<>> /\ found' = <<>>
  BY DEF End
<1>2. ColumnsInOrder' /\ SoundIfs(found)' /\ BeforeNow(found)' /\ InOrder(sample.ifs, found)'
  BY <1>1 DEF ColumnsInOrder, SoundIfs, BeforeNow, InOrder
<1>3. SoundTable'
  BY DEF ChainInv, SoundTable, Sound
<1>4. /\ SoundIfs(previous.ifs)' /\ SoundIfs(sample.ifs)' /\ BeforeNow(sample.ifs)'
      /\ InOrder(previous.ifs, sample.ifs)'
  <2>1. CASE UNCHANGED <<previous, sample>>
    BY <2>1 DEF ChainInv, SoundIfs, BeforeNow, InOrder, Sound
  <2>2. CASE previous' = sample /\ sample'.ifs = found
    BY <2>2 DEF ChainInv, SoundIfs, BeforeNow, InOrder, Sound
  <2>3. CASE previous' = sample /\ sample'.ifs = <<>>
    BY <2>3 DEF ChainInv, SoundIfs, BeforeNow, InOrder, Sound
  <2>. QED
    BY <2>1, <2>2, <2>3
<1>. QED
  BY <1>2, <1>3, <1>4 DEF ChainInv

LEMMA UnreachableChain ==
  ASSUME ChainInv, Unreachable, UNCHANGED device
  PROVE  ChainInv'
<1>1. End("returned") /\ previous' = sample /\ sample' = NotReachable(clock)
  BY DEF Unreachable, Return
<1>2. sample'.ifs = <<>>
  BY <1>1 DEF NotReachable
<1>. QED
  BY <1>1, <1>2, EndChain DEF device

LEMMA RaiseChain ==
  ASSUME ChainInv, Raise, UNCHANGED device
  PROVE  ChainInv'
BY EndChain DEF Raise, samples, device

\* What is answered is what the device shows now.
LEMMA AnswerInOrder ==
  ASSUME ChainInv, rows # <<>>, NEW i, i = Head(rows).index, NEW c, NEW read,
         read = With(values, c, Answer(i, c)), NEW k \in DOMAIN read \cap Direction
  PROVE  read[k].absent \/ ColumnInOrder(read[k], i, k)
<1>1. CASE k # c
  BY <1>1 DEF With, ChainInv, ColumnsInOrder
<1>2. CASE k = c /\ i \in DOMAIN ports
  <2>1. read[k] = Answer(i, k)
    BY <1>2 DEF With
  <2>2. ColumnSeen(read[k]) = PortSeen(ports[i], k)
    BY <1>2, <2>1 DEF Answer, ColumnSeen, PortSeen
  <2>3. Sound(PortSeen(ports[i], k))
    BY <1>2 DEF ChainInv, SoundTable
  <2>4. Later(PortSeen(ports[i], k), PortSeen(ports[i], k))
    BY <2>3, LaterSame
  <2>5. i \in DOMAIN sample.ifs => Later(SampleSeen(sample.ifs[i], k), PortSeen(ports[i], k))
    BY <1>2 DEF ChainInv, BeforeNow
  <2>. QED
    BY <2>2, <2>3, <2>4, <2>5 DEF ColumnInOrder
<1>3. CASE k = c /\ i \notin DOMAIN ports
  BY <1>3 DEF With, Answer
<1>. QED
  BY <1>1, <1>2, <1>3

LEMMA ReceiveChain ==
  ASSUME TableInv, ChainInv, Receive
  PROVE  ChainInv'
<1>1. PICK i, c, read :
        /\ i \in Index /\ c \in ToSet(Columns)
        /\ pc = "get" /\ rows # <<>> /\ i = Head(rows).index
        /\ read = With(values, c, Answer(i, c)) /\ DOMAIN read \subseteq ToSet(Columns)
        /\ ColumnRead(read) \/ InterfaceRead(i, read) \/ Raise
        /\ UNCHANGED <<device, began>>
  BY ReceiveCases
<1>2. UNCHANGED <<ports, lives>>
  BY <1>1 DEF device
<1>3. \A k \in DOMAIN read \cap Direction : read[k].absent \/ ColumnInOrder(read[k], i, k)
  BY <1>1, AnswerInOrder
<1>4. CASE ColumnRead(read)
  <2>1. values' = read /\ UNCHANGED <<rows, found, previous, sample>>
    BY <1>4 DEF ColumnRead, samples
  <2>2. ColumnsInOrder'
    BY <1>1, <1>2, <1>3, <2>1 DEF ColumnsInOrder, ColumnInOrder, Sound
  <2>. QED
    BY <1>2, <2>1, <2>2
    DEF ChainInv, SoundTable, SoundIfs, BeforeNow, InOrder, Sound
<1>5. CASE InterfaceRead(i, read)
  <2>1. /\ found' = With(found, i, SampleOf(read)) /\ values' = <<>>
        /\ DOMAIN read = ToSet(Columns) /\ \A k \in DOMAIN read : ~read[k].absent
        /\ UNCHANGED <<previous, sample>>
    BY <1>5 DEF InterfaceRead, samples
  <2>2. PICK new, f, s : new = SampleOf(read) /\ f = With(found, i, new) /\ s = sample.ifs
    OBVIOUS
  <2>3. ASSUME NEW x \in Direction
        PROVE  /\ Sound(SampleSeen(new, x))
               /\ i \in DOMAIN ports => Later(SampleSeen(new, x), PortSeen(ports[i], x))
               /\ i \in DOMAIN s => Later(SampleSeen(s[i], x), SampleSeen(new, x))
    <3>1. x \in DOMAIN read \cap Direction
      BY <2>1, ColumnsAssumption
    <3>2. ColumnInOrder(read[x], i, x)
      BY <1>3, <2>1, <3>1
    <3>3. SampleSeen(new, x) = ColumnSeen(read[x])
      BY <2>2 DEF SampleOf, SampleSeen, ColumnSeen
    <3>. QED
      BY <2>2, <3>2, <3>3 DEF ColumnInOrder
  <2>4. /\ DOMAIN f = DOMAIN found \cup {i}
        /\ \A j \in DOMAIN f : f[j] = IF j = i THEN new ELSE found[j]
    BY <2>2 DEF With
  <2>5. SoundIfs(f)
    BY <2>3, <2>4 DEF SoundIfs, ChainInv
  <2>6. BeforeNow(f)
    BY <2>3, <2>4 DEF BeforeNow, ChainInv
  <2>7. InOrder(s, f)
    BY <2>2, <2>3, <2>4 DEF InOrder, ChainInv
  <2>8. found' = f /\ sample'.ifs = s
    BY <2>1, <2>2
  <2>9. SoundIfs(found)' /\ BeforeNow(found)' /\ InOrder(sample.ifs, found)'
    BY <1>2, <2>5, <2>6, <2>7, <2>8 DEF SoundIfs, BeforeNow, InOrder, Sound
  <2>10. ColumnsInOrder'
    BY <2>1 DEF ColumnsInOrder
  <2>. QED
    BY <1>2, <2>1, <2>9, <2>10 DEF ChainInv, SoundTable, SoundIfs, BeforeNow, InOrder, Sound
<1>6. CASE Raise
  BY <1>1, <1>6, RaiseChain
<1>. QED
  BY <1>1, <1>4, <1>5, <1>6

LEMMA ChainInit == SInit => ChainInv
<1>. SUFFICES ASSUME SInit PROVE ChainInv
  OBVIOUS
<1>1. PICK table \in Tables : ports = Rebooted(table, 0)
  BY DEF SInit
<1>2. ASSUME NEW i \in DOMAIN ports, NEW x \in Direction
      PROVE  Sound(PortSeen(ports[i], x))
  <2>1. ports[i] = Fresh(table[i], 0) /\ table[i] \in Name
    BY <1>1 DEF Rebooted, Tables
  <2>2. ports[i].life = 0 /\ ports[i].count[x] = 0 /\ ports[i].passed[x] = 0
    BY <2>1, FreshType
  <2>. QED
    BY <2>2, WidthType DEF SInit, Sound, PortSeen, Seen
<1>3. /\ rows = <<>> /\ values = <<>> /\ found = <<>>
      /\ previous.ifs = <<>> /\ sample.ifs = <<>>
  BY DEF SInit, NotReachable
<1>. QED
  BY <1>2, <1>3 DEF ChainInv, SoundTable, SoundIfs, BeforeNow, InOrder, ColumnsInOrder

LEMMA ChainStep == TableInv /\ ChainInv /\ [SNext]_svars => ChainInv'
<1>. SUFFICES ASSUME TableInv, ChainInv, [SNext]_svars PROVE ChainInv'
  OBVIOUS
<1>1. CASE Start
  BY <1>1, QuietChain DEF Start, samples
<1>2. CASE GetUptime
  <2>1. CASE pc' = "walk" /\ UNCHANGED <<open, rows, values, found, samples, result, trouble>>
    BY <1>2, <2>1, QuietChain DEF GetUptime, device, samples
  <2>. QED
    BY <1>2, <2>1, UnreachableChain, RaiseChain DEF GetUptime
<1>3. CASE Walk
  <2>1. values = <<>> /\ UNCHANGED device
    BY <1>3 DEF Walk, TableInv, RowsInv
  <2>2. CASE UNCHANGED <<values, found, samples>>
    BY <2>1, <2>2, QuietChain DEF device, samples
  <2>. QED
    BY <1>3, <2>1, <2>2, UnreachableChain DEF Walk
<1>4. CASE Receive
  BY <1>4, ReceiveChain
<1>5. CASE Refused
  <2>1. UNCHANGED device /\ (Skip \/ Unreachable)
    BY <1>5 DEF Refused
  <2>2. CASE Skip
    BY <2>1, <2>2, QuietChain DEF Skip, device, samples
  <2>. QED
    BY <2>1, <2>2, UnreachableChain
<1>6. CASE Complete
  <2>1. PICK s : /\ s = Reachable(clock)
                 /\ End("returned") /\ sample' = s /\ previous' = sample /\ UNCHANGED device
    BY <1>6 DEF Complete, Return
  <2>2. sample'.ifs = found
    BY <2>1 DEF Reachable
  <2>. QED
    BY <2>1, <2>2, EndChain DEF device
<1>7. CASE World
  <2>1. DeviceMoves /\ UNCHANGED <<rows, values, found, previous, sample>>
    BY <1>7, WorldMoves DEF TableInv, source, samples
  <2>. QED
    BY <2>1, WorldChain
<1>8. CASE UNCHANGED svars
  BY <1>8, QuietChain DEF svars, device, samples
<1>. QED
  BY <1>1, <1>2, <1>3, <1>4, <1>5, <1>6, <1>7, <1>8 DEF SNext, Request

\* What is measured from two polls is what passed between the two reads of the counter,
\* though other counters are read at other times; over a reset it is no more than
\* passed since, or went through as a wraparound within the ceiling
\* (snmp_source.py:121-152, bandwidth.py:87-104).
THEOREM SnmpMeasuresBetweenReads == SSpec => []MeasuredBetweenReads
<1>1. TimesInv /\ ChainInv => MeasuredBetweenReads
  <2>. SUFFICES ASSUME TimesInv, ChainInv,
                       NEW i \in Matched(previous, sample), NEW x \in Direction,
                       Measure(previous, sample, i, x).valid
                PROVE  LET m == Measure(previous, sample, i, x)
                           p == previous.ifs[i]
                           s == sample.ifs[i]
                           d == s.passed[x] - p.passed[x]
                       IN  IF p.life[x] = s.life[x]
                             THEN d < Width => m.octets = d
                             ELSE \/ m.octets <= s.passed[x]
                                  \/ m.wrapped /\ Plausible(m.octets, Elapsed(previous, sample))
    BY DEF MeasuredBetweenReads
  <2>1. i \in DOMAIN previous.ifs /\ i \in DOMAIN sample.ifs
    BY DEF Matched
  <2>2. PICK t \in Int : t = Elapsed(previous, sample)
    BY DEF Elapsed, TimesInv, Timed
  <2>3. PICK w \in Nat \ {0} : w = Width
    BY WidthType
  <2>4. Sound(SampleSeen(previous.ifs[i], x)) /\ Sound(SampleSeen(sample.ifs[i], x))
    BY <2>1 DEF ChainInv, SoundIfs
  <2>5. PICK c \in 0..w - 1, pp \in Nat :
          c = previous.ifs[i].count[x] /\ pp = previous.ifs[i].passed[x]
    BY <2>3, <2>4 DEF Sound, SampleSeen, Seen
  <2>6. PICK k \in 0..w - 1, sp \in Nat :
          k = sample.ifs[i].count[x] /\ sp = sample.ifs[i].passed[x] /\ k <= sp
    BY <2>3, <2>4 DEF Sound, SampleSeen, Seen
  <2>7. PICK m : m = CalculateBandwidth(c, k, t, CounterBits)
    OBVIOUS
  <2>8. Measure(previous, sample, i, x) = m
    BY <2>2, <2>5, <2>6, <2>7 DEF Measure
  <2>9. \/ k >= c /\ m.octets = k - c
        \/ k < c /\ m.octets = k - c + w /\ m.wrapped /\ Plausible(k - c + w, t)
    BY <2>3, <2>7, <2>8, BandwidthCases
  <2>10. CASE previous.ifs[i].life[x] = sample.ifs[i].life[x]
    <3>1. Trails(w, pp, c, sp, k)
      <4>1. Later(SampleSeen(previous.ifs[i], x), SampleSeen(sample.ifs[i], x))
        BY <2>1 DEF ChainInv, InOrder
      <4>. QED
        BY <2>3, <2>5, <2>6, <2>10, <4>1 DEF Later, SampleSeen, Seen
    <3>2. sp - pp < w => m.octets = sp - pp
      BY <2>9, <3>1 DEF Trails
    <3>. QED
      BY <2>3, <2>5, <2>6, <2>8, <2>10, <3>2
  <2>11. CASE previous.ifs[i].life[x] # sample.ifs[i].life[x]
    <3>1. m.octets <= sp \/ (m.wrapped /\ Plausible(m.octets, t))
      <4>1. CASE k >= c /\ m.octets = k - c
        BY <2>6, <4>1
      <4>2. CASE k < c /\ m.octets = k - c + w /\ m.wrapped /\ Plausible(k - c + w, t)
        <5>1. PICK o : o = k - c + w
          OBVIOUS
        <5>2. m.octets = o /\ Plausible(o, t)
          BY <4>2, <5>1
        <5>. QED
          BY <4>2, <5>2
      <4>. QED
        BY <2>9, <4>1, <4>2
    <3>. QED
      BY <2>2, <2>6, <2>8, <2>11, <3>1
  <2>. QED
    BY <2>10, <2>11
<1>. QED
  BY <1>1, InitInv, StepInv, TimesInit, TimesStep, TableInit, TableStep, ChainInit, ChainStep, PTL
  DEF SSpec
=============================================================================
