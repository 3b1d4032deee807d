--------------------------- MODULE CollectorProofs ---------------------------
(***************************************************************************)
(* Proofs about the poll loop, for any devices, interfaces, counter width  *)
(* and plausibility ceiling, and about ping in it, for any probes and      *)
(* timeouts.  The idea of the first part: whatever happens to a device,    *)
(* the counters it shows now follow from those of any sample of it that is *)
(* still remembered.  Of the second: what measure awaits tells the state   *)
(* of its process, and all that measure does is one step to the loop.      *)
(***************************************************************************)
EXTENDS IcmpSource, PortsProofs

\* s is a later state of the same interface slot as p: a counter never says more
\* than what passed and, in the same life, is off from it by whole laps only.
Follows(p, s) ==
  /\ p.life <= s.life
  /\ \A x \in Direction :
       /\ s.count[x] <= s.passed[x]
       /\ p.life = s.life =>
            /\ p.passed[x] <= s.passed[x]
            /\ s.count[x] - p.count[x] <= s.passed[x] - p.passed[x]
            /\ s.passed[x] - p.passed[x] < Width =>
                 \/ s.count[x] - p.count[x] = s.passed[x] - p.passed[x]
                 \/ s.count[x] - p.count[x] = s.passed[x] - p.passed[x] - Width

AllFollow(old, new) == \A i \in DOMAIN old \cap DOMAIN new : Follows(old[i], new[i])

\* The lives of a table were all begun by now.
Begun(ifs) == \A i \in DOMAIN ifs : ifs[i].life <= lives

CInv == /\ CTypeOK
        /\ \A d \in Device : /\ Begun(net[d]) /\ Begun(previous[d].ifs)
                             /\ AllFollow(net[d], net[d])
                             /\ AllFollow(previous[d].ifs, net[d])
        /\ AllFollow(job.previous.ifs, job.sample.ifs)

-----------------------------------------------------------------------------
\* Traffic takes a slot to a later state of it.
LEMMA PassFollows ==
  ASSUME NEW p \in Port, NEW s \in Port, Follows(p, s),
         NEW x \in Direction, NEW n \in 1..Width - 1
  PROVE  Follows(p, Pass(s, x, n))
<1> DEFINE t == Pass(s, x, n)
<1>0. p.life <= t.life
  BY PassType DEF Follows
<1>1. SUFFICES ASSUME NEW y \in Direction
      PROVE  /\ t.count[y] <= t.passed[y]
             /\ p.life = t.life =>
                  /\ p.passed[y] <= t.passed[y]
                  /\ t.count[y] - p.count[y] <= t.passed[y] - p.passed[y]
                  /\ t.passed[y] - p.passed[y] < Width =>
                       \/ t.count[y] - p.count[y] = t.passed[y] - p.passed[y]
                       \/ t.count[y] - p.count[y] = t.passed[y] - p.passed[y] - Width
  BY <1>0 DEF Follows
<1>2. /\ t.life = s.life
      /\ y # x => t.count[y] = s.count[y] /\ t.passed[y] = s.passed[y]
      /\ y = x => t.count[y] = (s.count[y] + n) % Width /\ t.passed[y] = s.passed[y] + n
  BY PassType
<1> HIDE DEF t
<1>3. CASE y # x
  BY <1>2, <1>3 DEF Follows
<1>4. CASE y = x
  <2>1. /\ s.count[y] \in 0..Width - 1 /\ p.count[y] \in 0..Width - 1
        /\ s.passed[y] \in Nat /\ p.passed[y] \in Nat
    BY DEF Port
  <2>2. PICK j \in 0..Width - 1 :
          /\ j = t.count[y]
          /\ j = s.count[y] + n \/ j = s.count[y] + n - Width
    BY <1>2, <1>4, <2>1, Around
  <2>3. t.passed[y] = s.passed[y] + n
    BY <1>2, <1>4
  <2>4. t.count[y] <= t.passed[y]
    <3>1. s.count[y] <= s.passed[y]
      BY DEF Follows
    <3>2. j <= s.count[y] + n
      BY <2>1, <2>2, WidthType
    <3>. QED
      BY <2>1, <2>2, <2>3, <3>1, <3>2, WidthType
  <2>5. ASSUME p.life = t.life
        PROVE  Trails(Width, p.passed[y], p.count[y], t.passed[y], t.count[y])
    <3>1. Trails(Width, p.passed[y], p.count[y], s.passed[y], s.count[y])
      BY <1>2, <2>5 DEF Follows, Trails
    <3>2. Trails(Width, p.passed[y], p.count[y], s.passed[y] + n, j)
      BY <2>1, <2>2, <3>1, TrailsOn, WidthType
    <3>. QED
      BY <2>2, <2>3, <3>2
  <2>. QED
    BY <2>4, <2>5 DEF Trails
<1>. QED
  BY <1>3, <1>4

\* A life that has just begun follows anything of an earlier life, and itself.
LEMMA FreshFollows ==
  ASSUME NEW name \in Name, NEW l \in Nat
  PROVE  /\ Fresh(name, l) \in Port /\ Fresh(name, l).life = l
         /\ Follows(Fresh(name, l), Fresh(name, l))
         /\ \A p \in Port : p.life < l => Follows(p, Fresh(name, l))
<1>1. Fresh(name, l) \in Port /\ Fresh(name, l).life = l
  BY WidthType DEF Fresh, Port
<1>2. \A x \in Direction : Fresh(name, l).count[x] = 0 /\ Fresh(name, l).passed[x] = 0
  BY DEF Fresh
<1>3. Follows(Fresh(name, l), Fresh(name, l))
  BY <1>1, <1>2, WidthType DEF Follows
<1>4. ASSUME NEW p \in Port, p.life < l PROVE Follows(p, Fresh(name, l))
  <2>1. p.life # l /\ p.life <= l
    BY <1>4 DEF Port
  <2>. QED
    BY <1>1, <1>2, <2>1 DEF Follows
<1>. QED
  BY <1>1, <1>3, <1>4

-----------------------------------------------------------------------------
\* What the steps of the world do to a device whose table was `old` and is `new`:
\* the table keeps its type, and follows itself and all that `old` followed.
Moves(old, new) ==
  /\ IsTable(new)
  /\ AllFollow(new, new)
  /\ \A t : (IsTable(t) /\ Begun(t) /\ AllFollow(t, old)) => AllFollow(t, new)

LEMMA CarryMoves ==
  ASSUME NEW old, IsTable(old), AllFollow(old, old), Begun(old),
         NEW i \in DOMAIN old, NEW x \in Direction, NEW n \in 1..Width - 1
  PROVE  Moves(old, [old EXCEPT ![i] = Pass(old[i], x, n)])
         /\ Begun([old EXCEPT ![i] = Pass(old[i], x, n)])
<1> DEFINE new == [old EXCEPT ![i] = Pass(old[i], x, n)]
<1>1. /\ DOMAIN new = DOMAIN old /\ new = [j \in DOMAIN old |-> new[j]]
      /\ \A j \in DOMAIN old : new[j] = IF j = i THEN Pass(old[i], x, n) ELSE old[j]
      /\ DOMAIN old \subseteq Index /\ \A j \in DOMAIN old : old[j] \in Port
  BY DEF IsTable
<1> HIDE DEF new
<1>2. Pass(old[i], x, n) \in Port /\ Pass(old[i], x, n).life = old[i].life
  BY <1>1, PassType
<1>3. IsTable(new) /\ Begun(new)
  BY <1>1, <1>2 DEF IsTable, Begun
<1>4. ASSUME NEW t, IsTable(t), AllFollow(t, old) PROVE AllFollow(t, new)
  <2>1. SUFFICES ASSUME NEW j \in DOMAIN t \cap DOMAIN old PROVE Follows(t[j], new[j])
    BY <1>1 DEF AllFollow
  <2>2. t[j] \in Port /\ Follows(t[j], old[j])
    BY <1>4 DEF IsTable, AllFollow
  <2>. QED
    BY <1>1, <2>1, <2>2, PassFollows
<1>5. AllFollow(new, new)
  <2>1. SUFFICES ASSUME NEW j \in DOMAIN old PROVE Follows(new[j], new[j])
    BY <1>1 DEF AllFollow
  <2>2. Follows(old[j], old[j])
    BY DEF AllFollow
  <2>3. Follows(old[j], new[j])
    BY <1>1, <2>2, PassFollows
  <2>4. /\ \A y \in Direction : new[j].count[y] \in Int /\ new[j].passed[y] \in Nat
        /\ new[j].life \in Nat
    BY <1>3, <1>1, WidthType DEF IsTable, Port
  <2>. QED
    BY <2>3, <2>4, WidthType DEF Follows
<1>. QED
  BY <1>3, <1>4, <1>5 DEF Moves, new

\* A table in which each slot either starts a new life or is as it was.
LEMMA RenewMoves ==
  ASSUME NEW old, IsTable(old), AllFollow(old, old), Begun(old), lives \in Nat,
         NEW names \in Tables, NEW keep \in SUBSET (DOMAIN old \cap DOMAIN names),
         NEW new, new = [i \in DOMAIN names |-> IF i \in keep THEN old[i]
                                                ELSE Fresh(names[i], lives + 1)]
  PROVE  Moves(old, new) /\ \A i \in DOMAIN new : new[i].life <= lives + 1
<1>1. /\ DOMAIN names \subseteq Index /\ \A i \in DOMAIN names : names[i] \in Name
      /\ \A i \in DOMAIN old : old[i] \in Port /\ old[i].life <= lives
  BY DEF Tables, IsTable, Begun
<1>2. \A i \in DOMAIN names : IF i \in keep THEN new[i] = old[i]
                                ELSE new[i] = Fresh(names[i], lives + 1)
  OBVIOUS
<1>3. \A i \in DOMAIN new :
        /\ new[i] \in Port /\ new[i].life <= lives + 1 /\ Follows(new[i], new[i])
  <2>1. SUFFICES ASSUME NEW i \in DOMAIN names
        PROVE /\ new[i] \in Port /\ new[i].life <= lives + 1 /\ Follows(new[i], new[i])
    OBVIOUS
  <2>2. CASE i \in keep
    <3>1. new[i] = old[i] /\ Follows(old[i], old[i]) /\ old[i].life \in Nat
      BY <1>1, <2>2 DEF AllFollow, Port
    <3>. QED
      BY <1>1, <2>2, <3>1
  <2>3. CASE i \notin keep
    BY <1>1, <1>2, <2>3, FreshFollows
  <2>. QED
    BY <2>2, <2>3
<1>4. ASSUME NEW t, IsTable(t), Begun(t), AllFollow(t, old) PROVE AllFollow(t, new)
  <2>1. SUFFICES ASSUME NEW i \in DOMAIN t \cap DOMAIN names PROVE Follows(t[i], new[i])
    BY DEF AllFollow
  <2>2. CASE i \in keep
    BY <1>2, <1>4, <2>2 DEF AllFollow
  <2>3. CASE i \notin keep
    <3>1. t[i] \in Port /\ t[i].life < lives + 1
      BY <1>4 DEF IsTable, Begun, Port
    <3>. QED
      BY <1>1, <1>2, <2>3, <3>1, FreshFollows
  <2>. QED
    BY <2>2, <2>3
<1>. QED
  BY <1>1, <1>3, <1>4 DEF Moves, IsTable, AllFollow

-----------------------------------------------------------------------------
\* A step of the world: one device moves, in a life of the table begun by then.
LEMMA MovesKeepInv ==
  ASSUME CInv, NEW d \in Device, NEW new,
         Moves(net[d], new), net' = [net EXCEPT ![d] = new],
         lives' \in {lives, lives + 1}, \A i \in DOMAIN new : new[i].life <= lives',
         clock' \in Int, UNCHANGED <<previous, turn, pc, job>>
  PROVE  CInv'
<1>1. /\ \A e \in Device : /\ IsTable(net[e]) /\ Begun(net[e]) /\ AllFollow(net[e], net[e])
                            /\ IsTable(previous[e].ifs) /\ Begun(previous[e].ifs)
                            /\ AllFollow(previous[e].ifs, net[e])
      /\ lives \in Nat /\ lives' \in Nat /\ lives <= lives'
  BY DEF CInv, CTypeOK, IsSample
<1>2. /\ net'[d] = new /\ \A e \in Device \ {d} : net'[e] = net[e]
      /\ net' = [e \in Device |-> net'[e]]
  BY DEF CInv, CTypeOK
<1>3. \A t : (IsTable(t) /\ Begun(t)) => Begun(t)'
  BY <1>1 DEF Begun, IsTable, Port
<1>4. ASSUME NEW e \in Device
      PROVE  /\ IsTable(net'[e]) /\ Begun(net[e])' /\ Begun(previous[e].ifs)'
             /\ AllFollow(net'[e], net'[e]) /\ AllFollow(previous'[e].ifs, net'[e])
  <2>1. PICK t : t = previous[e].ifs
    OBVIOUS
  <2>2. PICK u : u = net'[e]
    OBVIOUS
  <2>3. IsTable(t) /\ Begun(t)' /\ Begun(t) /\ AllFollow(t, net[e])
    BY <1>1, <1>3, <2>1
  <2>4. IsTable(u) /\ AllFollow(u, u) /\ AllFollow(t, u) /\ Begun(u)'
    <3>1. CASE e = d
      BY <1>2, <2>2, <2>3, <3>1 DEF Moves, Begun
    <3>2. CASE e # d
      BY <1>1, <1>2, <1>3, <2>2, <2>3, <3>2
    <3>. QED
      BY <3>1, <3>2
  <2>. QED
    BY <2>1, <2>2, <2>3, <2>4
<1>5. CTypeOK'
  BY <1>1, <1>2, <1>4 DEF CInv, CTypeOK, IsSample, IsTable
<1>. QED
  BY <1>4, <1>5 DEF CInv

\* A reboot and a change of the configuration both keep some slots and renew others.
LEMMA RenewSteps ==
  ASSUME NEW d \in Device, NEW names \in Tables,
         Reboot(d, names) \/ Reconfigure(d, names)
  PROVE  /\ lives' = lives + 1 /\ UNCHANGED <<clock, loop, carried>>
         /\ \E keep \in SUBSET (DOMAIN net[d] \cap DOMAIN names) :
              net' = [net EXCEPT ![d] =
                        [i \in DOMAIN names |-> IF i \in keep THEN net[d][i]
                                                ELSE Fresh(names[i], lives + 1)]]
<1>1. CASE Reboot(d, names)
  <2>1. {} \in SUBSET (DOMAIN net[d] \cap DOMAIN names)
    OBVIOUS
  <2>2. [i \in DOMAIN names |-> Fresh(names[i], lives + 1)]
          = [i \in DOMAIN names |-> IF i \in {} THEN net[d][i]
                                    ELSE Fresh(names[i], lives + 1)]
    OBVIOUS
  <2>3. /\ lives' = lives + 1 /\ UNCHANGED <<clock, loop, carried>>
        /\ net' = [net EXCEPT ![d] = [i \in DOMAIN names |-> Fresh(names[i], lives + 1)]]
    BY <1>1 DEF Reboot, Rebooted
  <2>. QED
    BY <2>1, <2>2, <2>3
<1>2. CASE Reconfigure(d, names)
  <2>1. {i \in DOMAIN net[d] \cap DOMAIN names : net[d][i].name = names[i]}
          \in SUBSET (DOMAIN net[d] \cap DOMAIN names)
    OBVIOUS
  <2>. QED
    BY <1>2, <2>1 DEF Reconfigure, Reconfigured
<1>. QED
  BY <1>1, <1>2

LEMMA WorldKeepsInv ==
  ASSUME CInv, World
  PROVE  CInv'
<1>1. \A d \in Device : IsTable(net[d]) /\ AllFollow(net[d], net[d]) /\ Begun(net[d])
  BY DEF CInv, CTypeOK
<1>2. lives \in Nat /\ clock \in Int
  BY DEF CInv, CTypeOK
<1>3. CASE Tick
  BY <1>2, <1>3 DEF Tick, loop, CInv, CTypeOK, Begun
<1>4. ASSUME NEW d \in Device, NEW i \in Index, NEW x \in Direction,
             NEW n \in 1..Width - 1, Carry(d, i, x, n)
      PROVE  CInv'
  <2>1. PICK old : old = net[d]
    OBVIOUS
  <2>2. PICK new : new = [old EXCEPT ![i] = Pass(old[i], x, n)]
    OBVIOUS
  <2>3. /\ i \in DOMAIN old /\ net' = [net EXCEPT ![d] = new]
        /\ UNCHANGED <<clock, lives, previous, turn, pc, job>>
    BY <1>4, <2>1, <2>2 DEF Carry, loop, CInv, CTypeOK
  <2>4. Moves(old, new) /\ Begun(new)
    BY <1>1, <2>1, <2>2, <2>3, CarryMoves
  <2>. QED
    BY <1>2, <2>1, <2>3, <2>4, MovesKeepInv DEF Begun
<1>5. ASSUME NEW d \in Device, NEW names \in Tables,
             Reboot(d, names) \/ Reconfigure(d, names)
      PROVE  CInv'
  <2>1. PICK old : old = net[d]
    OBVIOUS
  <2>2. /\ lives' = lives + 1 /\ UNCHANGED <<clock, previous, turn, pc, job>>
        /\ \E keep \in SUBSET (DOMAIN old \cap DOMAIN names) :
             net' = [net EXCEPT ![d] =
                       [i \in DOMAIN names |-> IF i \in keep THEN old[i]
                                               ELSE Fresh(names[i], lives + 1)]]
    BY <1>5, <2>1, RenewSteps DEF loop
  <2>3. PICK keep \in SUBSET (DOMAIN old \cap DOMAIN names) :
          net' = [net EXCEPT ![d] =
                    [i \in DOMAIN names |-> IF i \in keep THEN old[i]
                                            ELSE Fresh(names[i], lives + 1)]]
    BY <2>2
  <2>4. PICK new : new = [i \in DOMAIN names |-> IF i \in keep THEN old[i]
                                                 ELSE Fresh(names[i], lives + 1)]
    OBVIOUS
  <2>5. Moves(old, new) /\ \A i \in DOMAIN new : new[i].life <= lives + 1
    BY <1>1, <1>2, <2>1, <2>4, RenewMoves
  <2>. QED
    BY <1>2, <2>1, <2>2, <2>3, <2>4, <2>5, MovesKeepInv
<1>. QED
  BY <1>3, <1>4, <1>5 DEF World

-----------------------------------------------------------------------------
\* A poll remembers what the device shows now, or that it did not answer.
LEMMA PollKeepsInv ==
  ASSUME CInv, NEW s, Poll(s), IsSample(s),
         s.ifs = net[DeviceList[turn]] \/ s.ifs = <<>>
  PROVE  CInv'
<1>1. PICK d \in Device : d = DeviceList[turn]
  BY DeviceListAssumption DEF CInv, CTypeOK
<1>2. /\ job' = [previous |-> previous[d], sample |-> s, latency |-> "none"]
      /\ previous' = [previous EXCEPT ![d] = s]
      /\ pc' = "measure" /\ UNCHANGED <<net, clock, lives, turn>>
  BY <1>1 DEF Poll, world
<1>3. /\ Begun(s.ifs) /\ AllFollow(s.ifs, net[d]) /\ AllFollow(previous[d].ifs, s.ifs)
  <2>1. CASE s.ifs = net[d]
    BY <2>1 DEF CInv
  <2>2. CASE s.ifs = <<>>
    BY <2>2 DEF AllFollow, Begun
  <2>. QED
    BY <1>1, <2>1, <2>2
<1>4. /\ previous'[d] = s /\ \A e \in Device \ {d} : previous'[e] = previous[e]
      /\ previous' = [e \in Device |-> previous'[e]]
  BY <1>2 DEF CInv, CTypeOK
<1>5. CTypeOK'
  BY <1>2, <1>4 DEF CInv, CTypeOK, IsSample, IsTable
<1>6. \A e \in Device : /\ Begun(net[e])' /\ Begun(previous[e].ifs)'
                         /\ AllFollow(net[e], net[e])' /\ AllFollow(previous[e].ifs, net[e])'
  BY <1>2, <1>3, <1>4 DEF CInv, Begun, AllFollow
<1>. QED
  BY <1>2, <1>3, <1>5, <1>6 DEF CInv

LEMMA LoopKeepsInv ==
  ASSUME CInv, Loop \/ RestartCollector
  PROVE  CInv'
<1>1. turn \in 1..Len(DeviceList) /\ DeviceList[turn] \in Device /\ Len(DeviceList) \in Nat
      /\ Len(DeviceList) > 0
  BY DeviceListAssumption DEF CInv, CTypeOK
<1>2. NextDevice => turn' \in 1..Len(DeviceList) /\ pc' \in {"poll", "sleep"}
  BY <1>1 DEF NextDevice
<1>3. CASE Answered
  <2>1. PICK s : s = [reachable |-> TRUE, time |-> clock, ifs |-> net[DeviceList[turn]]]
    OBVIOUS
  <2>2. IsSample(s)
    BY <1>1, <2>1 DEF CInv, CTypeOK, IsSample
  <2>. QED
    BY <1>3, <2>1, <2>2, PollKeepsInv DEF Answered
<1>4. CASE NotAnswered
  <2>1. PICK s : s = [reachable |-> FALSE, time |-> clock, ifs |-> <<>>]
    OBVIOUS
  <2>2. IsSample(s)
    BY <2>1 DEF CInv, CTypeOK, IsSample, IsTable
  <2>. QED
    BY <1>4, <2>1, <2>2, PollKeepsInv DEF NotAnswered
<1>5. CASE MeasureLatency
  BY <1>5 DEF MeasureLatency, world, CInv, CTypeOK, Begun
<1>6. CASE PollRaises \/ Wake
  BY <1>2, <1>6 DEF PollRaises, Wake, world, CInv, CTypeOK, Begun
<1>7. IsSample(NoSample) /\ Begun(NoSample.ifs) /\ \A t : AllFollow(NoSample.ifs, t)
  BY DEF IsSample, IsTable, NoSample, Begun, AllFollow
<1>8. CASE Send
  BY <1>2, <1>7, <1>8 DEF Send, world, CInv, CTypeOK, NoJob, Begun
<1>9. CASE RestartCollector
  BY <1>1, <1>7, <1>9 DEF RestartCollector, world, CInv, CTypeOK, NoJob, Begun
<1>. QED
  BY <1>3, <1>4, <1>5, <1>6, <1>8, <1>9 DEF Loop

LEMMA CInitInv == CInit => CInv
<1> SUFFICES ASSUME CInit PROVE CInv
  OBVIOUS
<1>1. IsSample(NoSample) /\ DOMAIN NoSample.ifs = {}
  BY DEF IsSample, IsTable, NoSample
<1>2. IsTable(<<>>)
  BY DEF IsTable
<1>3. 1 \in 1..Len(DeviceList)
  BY DeviceListAssumption
<1>. QED
  BY <1>1, <1>2, <1>3 DEF CInit, CInv, CTypeOK, NoJob, Begun, AllFollow

\* The counters a device shows follow from those of every sample remembered of it.
THEOREM CollectorInvariant == CInit /\ [][CNext]_cvars => []CInv
<1>1. CInv /\ [CNext]_cvars => CInv'
  <2> SUFFICES ASSUME CInv, [CNext]_cvars PROVE CInv'
    OBVIOUS
  <2>1. CASE UNCHANGED cvars
    BY <2>1 DEF cvars, CInv, CTypeOK, Begun
  <2>. QED
    BY <2>1, LoopKeepsInv, WorldKeepsInv DEF CNext
<1>. QED
  BY <1>1, CInitInv, PTL

-----------------------------------------------------------------------------
\* The two counters behind a measurement, and how they are related.
LEMMA MeasureFacts ==
  ASSUME CInv, NEW i \in Matched(job.previous, job.sample), NEW x \in Direction
  PROVE  LET p == job.previous.ifs[i]
             s == job.sample.ifs[i]
         IN  /\ p \in Port /\ s \in Port /\ Follows(p, s)
             /\ Elapsed(job.previous, job.sample) \in Int
BY DEF CInv, CTypeOK, IsSample, IsTable, Matched, AllFollow, Elapsed

LEMMA InvMeasures == CInv => MeasuredIsPassed
<1> SUFFICES ASSUME CInv,
                    NEW i \in Matched(job.previous, job.sample), NEW x \in Direction,
                    Measure(job.previous, job.sample, i, x).valid,
                    job.previous.ifs[i].life = job.sample.ifs[i].life,
                    Passed(i, x) < Width
             PROVE  Measure(job.previous, job.sample, i, x).octets = Passed(i, x)
  BY DEF MeasuredIsPassed
<1>1. PICK p \in Port, s \in Port :
        /\ p = job.previous.ifs[i] /\ s = job.sample.ifs[i] /\ Follows(p, s)
  BY MeasureFacts
<1>2. PICK t \in Int : t = Elapsed(job.previous, job.sample)
  BY MeasureFacts
<1>3. /\ p.count[x] \in 0..Width - 1 /\ s.count[x] \in 0..Width - 1
      /\ p.passed[x] \in Nat /\ s.passed[x] \in Nat
  BY DEF Port
<1>4. /\ Passed(i, x) = s.passed[x] - p.passed[x]
      /\ p.passed[x] <= s.passed[x]
      /\ \/ s.count[x] - p.count[x] = Passed(i, x)
         \/ s.count[x] - p.count[x] = Passed(i, x) - Width
  BY <1>1 DEF Passed, Follows
<1>5. \/ s.count[x] >= p.count[x]
          /\ Measure(job.previous, job.sample, i, x).octets = s.count[x] - p.count[x]
      \/ s.count[x] < p.count[x]
          /\ Measure(job.previous, job.sample, i, x).octets = s.count[x] - p.count[x] + Width
  BY <1>1, <1>2, <1>3, BandwidthCases DEF Measure
<1>. QED
  BY <1>3, <1>4, <1>5, WidthType

\* A reported bandwidth is what passed, if the counters lived on and did not lap.
THEOREM CollectorMeasures == CSpec => []MeasuredIsPassed
BY InvMeasures, CollectorInvariant, PTL DEF CSpec

LEMMA InvNoSpike == CInv => NoSpike
<1> SUFFICES ASSUME CInv,
                    NEW i \in Matched(job.previous, job.sample), NEW x \in Direction,
                    Measure(job.previous, job.sample, i, x).valid
             PROVE  LET m == Measure(job.previous, job.sample, i, x)
                        t == Elapsed(job.previous, job.sample)
                    IN  /\ t > 0
                        /\ \/ m.octets <= Passed(i, x)
                           \/ m.wrapped /\ Plausible(m.octets, t)
  BY DEF NoSpike
<1>1. PICK p \in Port, s \in Port :
        /\ p = job.previous.ifs[i] /\ s = job.sample.ifs[i] /\ Follows(p, s)
  BY MeasureFacts
<1>2. PICK t \in Int : t = Elapsed(job.previous, job.sample)
  BY MeasureFacts
<1>3. /\ p.count[x] \in 0..Width - 1 /\ s.count[x] \in 0..Width - 1
      /\ p.passed[x] \in Nat /\ s.passed[x] \in Nat
  BY DEF Port
<1>4. s.count[x] - p.count[x] <= Passed(i, x)
  BY <1>1, <1>3, WidthType DEF Passed, Follows
<1>5. PICK m : m = Measure(job.previous, job.sample, i, x)
  OBVIOUS
<1>6. /\ t > 0
      /\ \/ m.octets = s.count[x] - p.count[x]
         \/ m.octets = s.count[x] - p.count[x] + Width /\ m.wrapped
              /\ Plausible(s.count[x] - p.count[x] + Width, t)
  BY <1>1, <1>2, <1>3, <1>5, BandwidthCases DEF Measure
<1>. QED
  BY <1>2, <1>4, <1>5, <1>6

\* A reported bandwidth is above what passed only as a plausible wraparound.
THEOREM CollectorNoSpike == CSpec => []NoSpike
BY InvNoSpike, CollectorInvariant, PTL DEF CSpec

\* The state of the collector keeps its type.
THEOREM CollectorTypes == CSpec => []CTypeOK
<1>1. CInv => CTypeOK
  BY DEF CInv
<1>. QED
  BY <1>1, CollectorInvariant, PTL DEF CSpec
-----------------------------------------------------------------------------
\* No octet is reported twice.  An account is a bag of octets, by counter.
IsAccount(b) == /\ DOMAIN b \subseteq Index \X Nat \X Direction
                /\ b \in [DOMAIN b -> Nat]

Of(c, b) == IF c \in DOMAIN b THEN b[c] ELSE 0

\* All octets of the account on the slots of a table had passed when the table was
\* taken: none are of a later life, and none of the life at hand are missing in it.
Covers(ifs, b) ==
  \A c \in DOMAIN b :
    c[1] \in DOMAIN ifs => /\ c[2] <= ifs[c[1]].life
                           /\ c[2] = ifs[c[1]].life => b[c] <= ifs[c[1]].passed[c[3]]

\* All that passed by the table is in the account.
Booked(ifs, b) ==
  \A i \in DOMAIN ifs, x \in Direction :
    ifs[i].passed[x] <= Of(<<i, ifs[i].life, x>>, b)

\* What is carried is what the devices count, and what is reported of a device had
\* passed when its previous sample was taken.
AccountInv ==
  \A d \in Device :
    /\ IsAccount(carried[d]) /\ IsAccount(reported[d])
    /\ \A c \in DOMAIN carried[d] : c[2] <= lives
    /\ Covers(net[d], carried[d]) /\ Booked(net[d], carried[d])
    /\ Covers(previous[d].ifs, reported[d]) /\ Booked(previous[d].ifs, carried[d])
    /\ reported[d] \sqsubseteq carried[d]

\* While a batch is made, what was reported before had passed at its first sample.
JobInv ==
  pc \in {"measure", "send"} =>
    /\ job.sample = previous[DeviceList[turn]]
    /\ Covers(job.previous.ifs, reported[DeviceList[turn]])

HistoryInv == /\ carried = [d \in Device |-> carried[d]]
              /\ reported = [d \in Device |-> reported[d]]
              /\ AccountInv /\ JobInv

LEMMA OfNat == ASSUME NEW b, IsAccount(b), NEW c PROVE Of(c, b) \in Nat
BY DEF IsAccount, Of

LEMMA AddAccounts ==
  ASSUME NEW a, IsAccount(a), NEW b, IsAccount(b)
  PROVE  /\ IsAccount(a (+) b) /\ DOMAIN (a (+) b) = DOMAIN a \cup DOMAIN b
         /\ \A c : Of(c, a (+) b) = Of(c, a) + Of(c, b)
         /\ a \sqsubseteq (a (+) b)
<1>1. PICK s : s = a (+) b
  OBVIOUS
<1>2. s = [c \in DOMAIN a \cup DOMAIN b |-> Of(c, a) + Of(c, b)]
  BY <1>1 DEF (+), Of
<1>3. IsAccount(s) /\ DOMAIN s = DOMAIN a \cup DOMAIN b
  BY <1>2, OfNat DEF IsAccount
<1>4. ASSUME NEW c PROVE Of(c, s) = Of(c, a) + Of(c, b)
  <2>1. CASE c \in DOMAIN s
    BY <1>2, <2>1 DEF Of
  <2>2. CASE c \notin DOMAIN s
    BY <1>3, <2>2 DEF Of
  <2>. QED
    BY <2>1, <2>2
<1>5. a \sqsubseteq s
  <2>1. ASSUME NEW c \in DOMAIN a PROVE a[c] <= s[c]
    <3>1. s[c] = a[c] + Of(c, b)
      BY <1>2 DEF Of
    <3>. QED
      BY <3>1, OfNat DEF IsAccount
  <2>. QED
    BY <1>3, <2>1 DEF \sqsubseteq
<1>. QED
  BY <1>1, <1>3, <1>4, <1>5

LEMMA PartOf ==
  ASSUME NEW a, IsAccount(a), NEW b, IsAccount(b), a \sqsubseteq b
  PROVE  \A c : Of(c, a) <= Of(c, b)
<1>1. ASSUME NEW c PROVE Of(c, a) <= Of(c, b)
  <2>1. CASE c \in DOMAIN a
    BY <2>1 DEF Of, \sqsubseteq
  <2>2. CASE c \notin DOMAIN a
    BY <2>2, OfNat DEF Of
  <2>. QED
    BY <2>1, <2>2
<1>. QED
  BY <1>1

\* What is booked stays booked, and a part of an account is covered with it.
LEMMA StaysBooked ==
  ASSUME NEW a, IsAccount(a), NEW b, IsAccount(b), a \sqsubseteq b,
         NEW t, IsTable(t), Booked(t, a)
  PROVE  Booked(t, b)
<1>1. SUFFICES ASSUME NEW i \in DOMAIN t, NEW x \in Direction, NEW c,
                      c = <<i, t[i].life, x>>
      PROVE  t[i].passed[x] <= Of(c, b)
  BY DEF Booked
<1>2. t[i].passed[x] <= Of(c, a)
  BY <1>1 DEF Booked
<1>3. t[i].passed[x] \in Nat
  BY <1>1 DEF IsTable, Port
<1>4. Of(c, a) \in Nat /\ Of(c, b) \in Nat /\ Of(c, a) <= Of(c, b)
  BY OfNat, PartOf
<1>. QED
  BY <1>2, <1>3, <1>4

LEMMA PartCovered ==
  ASSUME NEW a, IsAccount(a), NEW b, IsAccount(b), a \sqsubseteq b,
         NEW t, IsTable(t), Covers(t, b)
  PROVE  Covers(t, a)
<1>1. SUFFICES ASSUME NEW c \in DOMAIN a, c[1] \in DOMAIN t
      PROVE  /\ c[2] <= t[c[1]].life
             /\ c[2] = t[c[1]].life => a[c] <= t[c[1]].passed[c[3]]
  BY DEF Covers
<1>2. /\ c \in DOMAIN b /\ a[c] <= b[c] /\ a[c] \in Nat /\ b[c] \in Nat
      /\ c[3] \in Direction
  BY <1>1 DEF \sqsubseteq, IsAccount
<1>3. t[c[1]].passed[c[3]] \in Nat
  BY <1>1, <1>2 DEF IsTable, Port
<1>. QED
  BY <1>1, <1>2, <1>3 DEF Covers

-----------------------------------------------------------------------------
\* The octets that pass are carried.
PassedOn(old, new, i, x, n) ==
  /\ DOMAIN new = DOMAIN old
  /\ \A j \in DOMAIN old, y \in Direction :
       /\ new[j].life = old[j].life
       /\ new[j].passed[y] = IF j = i /\ y = x THEN old[j].passed[y] + n
                                               ELSE old[j].passed[y]

Entry(e, k, n) == /\ IsAccount(e) /\ DOMAIN e = {k}
                  /\ \A c : Of(c, e) = IF c = k THEN n ELSE 0

LEMMA CarryBooks ==
  ASSUME NEW old, IsTable(old), NEW i \in DOMAIN old, NEW x \in Direction, NEW n \in Nat,
         NEW new, PassedOn(old, new, i, x, n),
         NEW a, IsAccount(a), Covers(old, a), Booked(old, a),
         NEW k, k = <<i, old[i].life, x>>, NEW e, Entry(e, k, n)
  PROVE  /\ Covers(new, a (+) e) /\ Booked(new, a (+) e)
         /\ \A c \in DOMAIN (a (+) e) : c \in DOMAIN a \/ c[2] = old[i].life
<1>. USE DEF PassedOn, Entry
<1>1. PICK b : b = a (+) e
  OBVIOUS
<1>2. k[1] = i /\ k[2] = old[i].life /\ k[3] = x
  OBVIOUS
<1>5. /\ IsAccount(b) /\ DOMAIN b = DOMAIN a \cup {k}
      /\ \A c : Of(c, b) = Of(c, a) + Of(c, e)
  BY <1>1, AddAccounts
<1>7. \A j \in DOMAIN old, y \in Direction : old[j].passed[y] \in Nat
  BY DEF IsTable, Port
<1>8. ASSUME NEW c \in DOMAIN b, c[1] \in DOMAIN new
      PROVE  /\ c[2] <= new[c[1]].life
             /\ c[2] = new[c[1]].life => b[c] <= new[c[1]].passed[c[3]]
  <2>1. c[1] \in DOMAIN old /\ c[3] \in Direction /\ c \in Index \X Nat \X Direction
    BY <1>5, <1>8 DEF IsAccount
  <2>2. c = <<c[1], c[2], c[3]>>
    BY <2>1
  <2>3. b[c] = Of(c, a) + Of(c, e)
    BY <1>5, <1>8 DEF Of
  <2>4. c[2] <= old[c[1]].life
    <3>1. CASE c = k
      BY <1>2, <3>1, <2>1
    <3>2. CASE c # k
      BY <1>5, <2>1, <3>2 DEF Covers
    <3>. QED
      BY <3>1, <3>2
  <2>5. ASSUME c[2] = old[c[1]].life PROVE Of(c, a) <= old[c[1]].passed[c[3]]
    <3>1. CASE c \in DOMAIN a
      BY <2>1, <2>5, <3>1 DEF Covers, Of
    <3>2. CASE c \notin DOMAIN a
      BY <1>7, <2>1, <3>2 DEF Of
    <3>. QED
      BY <3>1, <3>2
  <2>6. ASSUME c[2] = old[c[1]].life PROVE b[c] <= new[c[1]].passed[c[3]]
    <3>1. Of(c, a) \in Nat /\ old[c[1]].passed[c[3]] \in Nat
      BY <1>7, <2>1, OfNat
    <3>2. CASE c[1] = i /\ c[3] = x
      <4>1. c = k
        BY <2>2, <2>6, <3>2
      <4>2. b[c] = Of(c, a) + n /\ new[c[1]].passed[c[3]] = old[c[1]].passed[c[3]] + n
        BY <2>1, <2>3, <3>2, <4>1
      <4>. QED
        BY <2>5, <2>6, <3>1, <4>2
    <3>3. CASE ~(c[1] = i /\ c[3] = x)
      <4>1. c # k
        BY <1>2, <3>3
      <4>2. b[c] = Of(c, a) /\ new[c[1]].passed[c[3]] = old[c[1]].passed[c[3]]
        BY <2>1, <2>3, <3>1, <3>3, <4>1
      <4>. QED
        BY <2>5, <2>6, <4>2
    <3>. QED
      BY <3>2, <3>3
  <2>. QED
    BY <2>1, <2>4, <2>6
<1>9. ASSUME NEW j \in DOMAIN new, NEW y \in Direction, NEW c, c = <<j, new[j].life, y>>
      PROVE  new[j].passed[y] <= Of(c, b)
  <2>1. j \in DOMAIN old /\ c = <<j, old[j].life, y>>
    BY <1>9
  <2>2. old[j].passed[y] <= Of(c, a) /\ old[j].passed[y] \in Nat /\ Of(c, a) \in Nat
    BY <1>7, <2>1, OfNat DEF Booked
  <2>3. Of(c, b) = Of(c, a) + Of(c, e)
    BY <1>5
  <2>4. CASE j = i /\ y = x
    <3>1. Of(c, e) = n /\ new[j].passed[y] = old[j].passed[y] + n
      BY <2>1, <2>4
    <3>. QED
      BY <2>2, <2>3, <3>1
  <2>5. CASE ~(j = i /\ y = x)
    <3>1. new[j].passed[y] = old[j].passed[y] /\ Of(c, e) \in Nat
      BY <2>1, <2>5, OfNat
    <3>. QED
      BY <2>2, <2>3, <3>1
  <2>. QED
    BY <2>4, <2>5
<1>. QED
  BY <1>1, <1>2, <1>5, <1>8, <1>9 DEF Covers, Booked

\* A counter that starts anew is of a life no account knows yet.
LEMMA RenewBooks ==
  ASSUME NEW old, IsTable(old), lives \in Nat,
         NEW names \in Tables, NEW keep \in SUBSET (DOMAIN old \cap DOMAIN names),
         NEW new, new = [i \in DOMAIN names |-> IF i \in keep THEN old[i]
                                                ELSE Fresh(names[i], lives + 1)],
         NEW b, IsAccount(b), \A c \in DOMAIN b : c[2] <= lives,
         Covers(old, b), Booked(old, b)
  PROVE  Covers(new, b) /\ Booked(new, b)
<1>1. \A i \in DOMAIN names : i \notin keep =>
        new[i].life = lives + 1 /\ \A x \in Direction : new[i].passed[x] = 0
  BY DEF Fresh
<1>2. \A c \in DOMAIN b : c[2] \in Nat /\ c[3] \in Direction /\ b[c] \in Nat
  BY DEF IsAccount
<1>3. ASSUME NEW c \in DOMAIN b, c[1] \in DOMAIN names
      PROVE  /\ c[2] <= new[c[1]].life
             /\ c[2] = new[c[1]].life => b[c] <= new[c[1]].passed[c[3]]
  <2>1. CASE c[1] \in keep
    <3>1. new[c[1]] = old[c[1]] /\ c[1] \in DOMAIN old
      BY <1>3, <2>1
    <3>. QED
      BY <3>1 DEF Covers
  <2>2. CASE c[1] \notin keep
    BY <1>1, <1>2, <1>3, <2>2
  <2>. QED
    BY <2>1, <2>2
<1>4. ASSUME NEW i \in DOMAIN names, NEW x \in Direction
      PROVE  new[i].passed[x] <= Of(<<i, new[i].life, x>>, b)
  <2>1. CASE i \in keep
    BY <2>1 DEF Booked
  <2>2. CASE i \notin keep
    BY <1>1, <2>2, OfNat
  <2>. QED
    BY <2>1, <2>2
<1>. QED
  BY <1>3, <1>4 DEF Covers, Booked

\* A step of the world keeps the accounts, if it does for the table and the account
\* of the device it is about.
LEMMA MovesKeepAccounts ==
  ASSUME CInv, HistoryInv, NEW d \in Device, NEW new, NEW b,
         net' = [net EXCEPT ![d] = new], carried' = [carried EXCEPT ![d] = b],
         lives' \in {lives, lives + 1},
         IsAccount(b), carried[d] \sqsubseteq b, \A c \in DOMAIN b : c[2] <= lives',
         Covers(new, b), Booked(new, b),
         UNCHANGED <<previous, turn, pc, job, reported>>
  PROVE  HistoryInv'
<1>1. /\ net'[d] = new /\ \A e \in Device \ {d} : net'[e] = net[e]
      /\ carried'[d] = b /\ \A e \in Device \ {d} : carried'[e] = carried[e]
      /\ carried' = [e \in Device |-> carried'[e]]
  BY DEF CInv, CTypeOK, HistoryInv
<1>2. lives \in Nat
  BY DEF CInv, CTypeOK
<1>3. ASSUME NEW e \in Device
      PROVE  /\ IsAccount(carried'[e]) /\ IsAccount(reported'[e])
             /\ \A c \in DOMAIN carried'[e] : c[2] <= lives'
             /\ Covers(net'[e], carried'[e]) /\ Booked(net'[e], carried'[e])
             /\ Covers(previous'[e].ifs, reported'[e])
             /\ Booked(previous'[e].ifs, carried'[e])
             /\ reported'[e] \sqsubseteq carried'[e]
  <2>1. PICK a, r, t : a = carried[e] /\ r = reported[e] /\ t = previous[e].ifs
    OBVIOUS
  <2>2. /\ IsAccount(a) /\ IsAccount(r) /\ \A c \in DOMAIN a : c[2] <= lives
        /\ Covers(net[e], a) /\ Booked(net[e], a)
        /\ Covers(t, r) /\ Booked(t, a) /\ r \sqsubseteq a /\ IsTable(t)
    BY <2>1 DEF HistoryInv, AccountInv, CInv, CTypeOK, IsSample
  <2>3. reported'[e] = r /\ previous'[e].ifs = t
    BY <2>1
  <2>4. CASE e = d
    <3>1. carried'[e] = b /\ net'[e] = new /\ a = carried[d]
      BY <1>1, <2>1, <2>4
    <3>2. Booked(t, b)
      BY <2>2, <3>1, StaysBooked
    <3>3. r \sqsubseteq b
      <4>1. \A c \in DOMAIN r : r[c] <= a[c] /\ a[c] <= b[c] /\ c \in DOMAIN b
                                /\ r[c] \in Nat /\ a[c] \in Nat /\ b[c] \in Nat
        BY <2>2, <3>1 DEF IsAccount, \sqsubseteq
      <4>2. \A c \in DOMAIN r : r[c] <= b[c]
        BY <4>1
      <4>. QED
        BY <4>1, <4>2 DEF \sqsubseteq
    <3>. QED
      BY <2>2, <2>3, <3>1, <3>2, <3>3
  <2>5. CASE e # d
    <3>1. carried'[e] = a /\ net'[e] = net[e]
      BY <1>1, <2>1, <2>5
    <3>2. \A c \in DOMAIN a : c[2] <= lives'
      <4>1. PICK l \in Nat : l = lives /\ lives' \in {l, l + 1}
        BY <1>2
      <4>2. \A c \in DOMAIN a : c[2] \in Nat /\ c[2] <= l
        BY <2>2, <4>1 DEF IsAccount
      <4>3. \A n \in Nat : n <= l => n <= lives'
        BY <4>1
      <4>. QED
        BY <4>2, <4>3
    <3>. QED
      BY <2>2, <2>3, <3>1, <3>2
  <2>. QED
    BY <2>4, <2>5
<1>4. JobInv'
  BY DEF HistoryInv, JobInv
<1>5. AccountInv'
  BY <1>3 DEF AccountInv
<1>. QED
  BY <1>1, <1>4, <1>5 DEF HistoryInv

LEMMA SamePart == ASSUME NEW a, IsAccount(a) PROVE a \sqsubseteq a
BY DEF IsAccount, \sqsubseteq

LEMMA WorldKeepsAccounts ==
  ASSUME CInv, HistoryInv, World
  PROVE  HistoryInv'
<1>1. /\ lives \in Nat
      /\ \A d \in Device :
           /\ IsTable(net[d]) /\ Begun(net[d])
           /\ IsAccount(carried[d]) /\ \A c \in DOMAIN carried[d] : c[2] <= lives
           /\ Covers(net[d], carried[d]) /\ Booked(net[d], carried[d])
  BY DEF CInv, CTypeOK, HistoryInv, AccountInv
<1>2. CASE Tick
  BY <1>2 DEF Tick, loop, HistoryInv, AccountInv, JobInv
<1>3. ASSUME NEW d \in Device, NEW i \in Index, NEW x \in Direction,
             NEW n \in 1..Width - 1, Carry(d, i, x, n)
      PROVE  HistoryInv'
  <2>1. PICK old, a : old = net[d] /\ a = carried[d]
    OBVIOUS
  <2>2. PICK new : new = [old EXCEPT ![i] = Pass(old[i], x, n)]
    OBVIOUS
  <2>3. PICK b, k, e : /\ k = <<i, old[i].life, x>> /\ e = [c \in {k} |-> n]
                       /\ b = a (+) e
    OBVIOUS
  <2>4. /\ i \in DOMAIN old /\ net' = [net EXCEPT ![d] = new]
        /\ carried' = [carried EXCEPT ![d] = b]
        /\ UNCHANGED <<lives, previous, turn, pc, job, reported>>
    BY <1>3, <2>1, <2>2, <2>3 DEF Carry, loop, CInv, CTypeOK, HistoryInv
  <2>5. /\ IsAccount(b) /\ a \sqsubseteq b /\ Covers(new, b) /\ Booked(new, b)
        /\ \A c \in DOMAIN b : c \in DOMAIN a \/ c[2] = old[i].life
    <3>1. IsTable(old) /\ i \in DOMAIN old /\ IsAccount(a) /\ Covers(old, a) /\ Booked(old, a)
      BY <1>1, <2>1, <2>4
    <3>2. n \in Nat /\ k \in Index \X Nat \X Direction
      BY <2>3, <3>1, WidthType DEF IsTable, Port
    <3>3. Entry(e, k, n)
      BY <2>3, <3>2 DEF IsAccount, Of, Entry
    <3>4. PassedOn(old, new, i, x, n)
      BY <2>2, <3>1, PassType DEF IsTable, PassedOn
    <3>5. IsAccount(b) /\ a \sqsubseteq b
      BY <2>3, <3>1, <3>3, AddAccounts DEF Entry
    <3>6. /\ Covers(new, a (+) e) /\ Booked(new, a (+) e)
          /\ \A c \in DOMAIN (a (+) e) : c \in DOMAIN a \/ c[2] = old[i].life
      BY <2>3, <3>1, <3>2, <3>3, <3>4, CarryBooks
    <3>. QED
      BY <2>3, <3>5, <3>6
  <2>6. \A c \in DOMAIN b : c[2] <= lives'
    BY <1>1, <2>1, <2>4, <2>5 DEF Begun
  <2>. QED
    BY <1>1, <2>1, <2>4, <2>5, <2>6, MovesKeepAccounts
<1>4. ASSUME NEW d \in Device, NEW names \in Tables,
             Reboot(d, names) \/ Reconfigure(d, names)
      PROVE  HistoryInv'
  <2>1. PICK old, a : old = net[d] /\ a = carried[d]
    OBVIOUS
  <2>2. /\ lives' = lives + 1 /\ UNCHANGED <<previous, turn, pc, job, reported, carried>>
        /\ \E keep \in SUBSET (DOMAIN old \cap DOMAIN names) :
             net' = [net EXCEPT ![d] =
                       [i \in DOMAIN names |-> IF i \in keep THEN old[i]
                                               ELSE Fresh(names[i], lives + 1)]]
    BY <1>4, <2>1, RenewSteps DEF loop
  <2>3. PICK keep \in SUBSET (DOMAIN old \cap DOMAIN names) :
          net' = [net EXCEPT ![d] =
                    [i \in DOMAIN names |-> IF i \in keep THEN old[i]
                                            ELSE Fresh(names[i], lives + 1)]]
    BY <2>2
  <2>4. PICK new : new = [i \in DOMAIN names |-> IF i \in keep THEN old[i]
                                                 ELSE Fresh(names[i], lives + 1)]
    OBVIOUS
  <2>5. Covers(new, a) /\ Booked(new, a)
    <3>1. /\ lives \in Nat /\ IsTable(old) /\ IsAccount(a) /\ Covers(old, a) /\ Booked(old, a)
          /\ \A c \in DOMAIN a : c[2] <= lives
      BY <1>1, <2>1
    <3>. QED
      BY <2>4, <3>1, RenewBooks
  <2>6. carried' = [carried EXCEPT ![d] = a] /\ a \sqsubseteq a
    BY <1>1, <2>1, <2>2, SamePart DEF HistoryInv
  <2>7. \A c \in DOMAIN a : c[2] <= lives'
    <3>1. \A c \in DOMAIN a : c[2] \in Nat /\ c[2] <= lives
      BY <1>1, <2>1 DEF IsAccount
    <3>2. \A n \in Nat : n <= lives => n <= lives'
      BY <1>1, <2>2
    <3>. QED
      BY <3>1, <3>2
  <2>. QED
    BY <1>1, <2>1, <2>2, <2>3, <2>4, <2>5, <2>6, <2>7, MovesKeepAccounts
<1>. QED
  BY <1>2, <1>3, <1>4 DEF World

-----------------------------------------------------------------------------
\* A measurement that is not misread is at most what passed.
LEMMA MeasuredAtMost ==
  ASSUME CInv, NEW i \in Matched(job.previous, job.sample), NEW x \in Direction,
         NEW m, m = Measure(job.previous, job.sample, i, x), m.valid,
         ~(m.wrapped /\ job.previous.ifs[i].life # job.sample.ifs[i].life)
  PROVE  m.octets \in Nat /\ Passed(i, x) \in Nat /\ m.octets <= Passed(i, x)
<1>1. PICK p \in Port, s \in Port :
        /\ p = job.previous.ifs[i] /\ s = job.sample.ifs[i] /\ Follows(p, s)
  BY MeasureFacts
<1>2. PICK t \in Int : t = Elapsed(job.previous, job.sample)
  BY MeasureFacts
<1>3. /\ p.count[x] \in 0..Width - 1 /\ s.count[x] \in 0..Width - 1
      /\ p.passed[x] \in Nat /\ s.passed[x] \in Nat
  BY DEF Port
<1>4. \/ m.octets = s.count[x] - p.count[x] /\ s.count[x] >= p.count[x]
      \/ m.octets = s.count[x] - p.count[x] + Width /\ s.count[x] < p.count[x] /\ m.wrapped
  BY <1>1, <1>2, <1>3, BandwidthCases DEF Measure
<1>5. m.octets \in Nat
  BY <1>3, <1>4, WidthType
<1>6. CASE p.life = s.life
  <2>1. /\ Passed(i, x) = s.passed[x] - p.passed[x] /\ p.passed[x] <= s.passed[x]
        /\ s.count[x] - p.count[x] <= s.passed[x] - p.passed[x]
        /\ s.passed[x] - p.passed[x] < Width =>
             \/ s.count[x] - p.count[x] = s.passed[x] - p.passed[x]
             \/ s.count[x] - p.count[x] = s.passed[x] - p.passed[x] - Width
    BY <1>1, <1>6 DEF Passed, Follows
  <2>. QED
    BY <1>3, <1>4, <1>5, <2>1, WidthType
<1>7. CASE p.life # s.life
  <2>1. Passed(i, x) = s.passed[x] /\ s.count[x] <= s.passed[x]
    BY <1>1, <1>7 DEF Passed, Follows
  <2>2. m.octets = s.count[x] - p.count[x]
    BY <1>1, <1>4, <1>7
  <2>. QED
    BY <1>3, <1>5, <2>1, <2>2, WidthType
<1>. QED
  BY <1>6, <1>7

LEMMA OctetsFunction ==
  ASSUME NEW j, NEW R
  PROVE  Octets(j, R) = [c \in DOMAIN Octets(j, R) |-> Octets(j, R)[c]]
BY DEF Octets

\* The octets in a batch, counter by counter, are at most what passed between the
\* samples.
LEMMA OctetsPassed ==
  ASSUME CInv, NEW o, o = Octets(job, BuildBatch(job).bandwidth)
  PROVE  /\ IsAccount(o)
         /\ \A c \in DOMAIN o :
              /\ c[1] \in Matched(job.previous, job.sample) /\ c[3] \in Direction
              /\ c = <<c[1], job.sample.ifs[c[1]].life, c[3]>>
              /\ o[c] > 0 /\ o[c] <= Passed(c[1], c[3])
<1> DEFINE counter(r) == <<r.index, job.sample.ifs[r.index].life, r.direction>>
           counted == {r \in BuildBatch(job).bandwidth :
                         ~Misread(job, r) /\ r.measured.octets > 0}
<1>1. ASSUME NEW r \in counted
      PROVE  /\ r.index \in Matched(job.previous, job.sample) /\ r.direction \in Direction
             /\ r.measured = Measure(job.previous, job.sample, r.index, r.direction)
             /\ r.measured.valid /\ r.measured.octets > 0
             /\ ~(r.measured.wrapped /\ job.previous.ifs[r.index].life
                                          # job.sample.ifs[r.index].life)
  <2>1. PICK ix \in Matched(job.previous, job.sample) \X Direction :
          /\ Measure(job.previous, job.sample, ix[1], ix[2]).valid
          /\ r = [index |-> ix[1], direction |-> ix[2],
                  interface |-> job.sample.ifs[ix[1]].name,
                  measured |-> Measure(job.previous, job.sample, ix[1], ix[2])]
    BY <1>1 DEF BuildBatch
  <2>. QED
    BY <1>1, <2>1 DEF Misread
<1>2. ASSUME NEW r \in counted
      PROVE  /\ r.measured.octets \in Nat
             /\ r.measured.octets <= Passed(r.index, r.direction)
             /\ counter(r) \in Index \X Nat \X Direction
  <2>1. r.measured.octets \in Nat /\ r.measured.octets <= Passed(r.index, r.direction)
    BY <1>1, MeasuredAtMost
  <2>2. job.sample.ifs[r.index].life \in Nat /\ r.index \in Index
    BY <1>1 DEF CInv, CTypeOK, IsSample, IsTable, Matched, Port
  <2>. QED
    BY <1>1, <2>1, <2>2
<1>3. /\ DOMAIN o = {counter(r) : r \in counted}
      /\ \A c \in DOMAIN o : o[c] = (CHOOSE r \in counted : counter(r) = c).measured.octets
  BY DEF Octets
<1>4. ASSUME NEW c \in DOMAIN o
      PROVE  \E r \in counted : c = counter(r) /\ o[c] = r.measured.octets
  BY <1>3
<1> HIDE DEF counted
<1>5. ASSUME NEW c \in DOMAIN o
      PROVE  /\ c \in Index \X Nat \X Direction /\ o[c] \in Nat
             /\ c[1] \in Matched(job.previous, job.sample) /\ c[3] \in Direction
             /\ c = <<c[1], job.sample.ifs[c[1]].life, c[3]>>
             /\ o[c] > 0 /\ o[c] <= Passed(c[1], c[3])
  <2>1. PICK r \in counted : c = counter(r) /\ o[c] = r.measured.octets
    BY <1>4
  <2>2. c[1] = r.index /\ c[3] = r.direction
    BY <2>1
  <2>. QED
    BY <1>1, <1>2, <2>1, <2>2
<1>6. o \in [DOMAIN o -> Nat] /\ DOMAIN o \subseteq Index \X Nat \X Direction
  <2>1. o = [c \in DOMAIN o |-> o[c]]
    BY OctetsFunction, Zenon
  <2>. QED
    BY <1>5, <2>1
<1>7. IsAccount(o)
  BY <1>6 DEF IsAccount
<1>. QED
  BY <1>5, <1>7

\* What is reported now and before had passed at the sample reported of.
LEMMA ReportCovered ==
  ASSUME CInv, NEW o, o = Octets(job, BuildBatch(job).bandwidth),
         NEW a, IsAccount(a), Booked(job.sample.ifs, a),
         NEW b, IsAccount(b), b \sqsubseteq a,
         Covers(job.previous.ifs, b), Covers(job.sample.ifs, b)
  PROVE  /\ IsAccount(b (+) o) /\ (b (+) o) \sqsubseteq a
         /\ Covers(job.sample.ifs, b (+) o)
<1>1. PICK u : u = b (+) o
  OBVIOUS
<1>2. PICK p, s : p = job.previous.ifs /\ s = job.sample.ifs
  OBVIOUS
<1>3. /\ IsAccount(o)
      /\ \A c \in DOMAIN o :
           /\ c[1] \in Matched(job.previous, job.sample) /\ c[3] \in Direction
           /\ c = <<c[1], s[c[1]].life, c[3]>>
           /\ o[c] > 0 /\ o[c] <= Passed(c[1], c[3])
  BY <1>2, OctetsPassed
<1>4. /\ IsAccount(u) /\ DOMAIN u = DOMAIN b \cup DOMAIN o
      /\ \A c : Of(c, u) = Of(c, b) + Of(c, o)
  BY <1>1, <1>3, AddAccounts
<1>5. ASSUME NEW c \in DOMAIN o
      PROVE  /\ c[1] \in DOMAIN s /\ c[2] = s[c[1]].life
             /\ u[c] <= s[c[1]].passed[c[3]] /\ c \in DOMAIN a /\ u[c] <= a[c]
  <2>1. PICK i, x : i = c[1] /\ x = c[3]
    OBVIOUS
  <2>2. /\ i \in DOMAIN p \cap DOMAIN s /\ x \in Direction /\ c = <<i, s[i].life, x>>
        /\ p[i] \in Port /\ s[i] \in Port /\ Follows(p[i], s[i])
        /\ o[c] > 0 /\ o[c] <= Passed(i, x) /\ o[c] \in Nat
    <3>1. i \in Matched(job.previous, job.sample) /\ x \in Direction
          /\ c = <<i, s[i].life, x>> /\ o[c] > 0 /\ o[c] <= Passed(i, x)
      BY <1>3, <2>1
    <3>2. p[i] \in Port /\ s[i] \in Port /\ Follows(p[i], s[i])
      BY <1>2, <3>1, MeasureFacts
    <3>. QED
      BY <1>2, <1>3, <3>1, <3>2 DEF Matched, IsAccount
  <2>3. /\ p[i].life \in Nat /\ s[i].life \in Nat /\ p[i].life <= s[i].life
        /\ p[i].passed[x] \in Nat /\ s[i].passed[x] \in Nat
    BY <2>2 DEF Port, Follows
  <2>4. c[1] = i /\ c[2] = s[i].life /\ c[3] = x
    BY <2>2
  <2>5. u[c] = Of(c, b) + o[c] /\ Of(c, b) \in Nat
    BY <1>4, OfNat DEF Of
  <2>6. u[c] <= s[i].passed[x]
    <3>1. CASE p[i].life = s[i].life
      <4>1. Passed(i, x) = s[i].passed[x] - p[i].passed[x]
        BY <1>2, <3>1 DEF Passed
      <4>2. Of(c, b) <= p[i].passed[x]
        <5>1. CASE c \in DOMAIN b
          BY <1>2, <2>2, <2>4, <3>1, <5>1 DEF Covers, Of
        <5>2. CASE c \notin DOMAIN b
          BY <2>3, <5>2 DEF Of
        <5>. QED
          BY <5>1, <5>2
      <4>. QED
        BY <2>2, <2>3, <2>5, <4>1, <4>2
    <3>2. CASE p[i].life # s[i].life
      <4>1. Passed(i, x) = s[i].passed[x]
        BY <1>2, <3>2 DEF Passed
      <4>2. c \notin DOMAIN b
        <5>1. c \in DOMAIN b => c[2] <= p[i].life
          BY <1>2, <2>2, <2>4 DEF Covers
        <5>. QED
          BY <2>3, <2>4, <3>2, <5>1
      <4>3. Of(c, b) = 0
        BY <4>2 DEF Of
      <4>. QED
        BY <2>2, <2>3, <2>5, <4>1, <4>3
    <3>. QED
      BY <3>1, <3>2
  <2>7. s[i].passed[x] <= Of(c, a) /\ Of(c, a) \in Nat
    BY <1>2, <2>2, OfNat DEF Booked
  <2>8. c \in DOMAIN a /\ a[c] = Of(c, a)
    BY <2>2, <2>3, <2>5, <2>6, <2>7 DEF Of
  <2>. QED
    BY <2>2, <2>3, <2>4, <2>5, <2>6, <2>7, <2>8
<1>6. ASSUME NEW c \in DOMAIN b, c \notin DOMAIN o PROVE u[c] = b[c]
  <2>1. u[c] = Of(c, b) + Of(c, o) /\ Of(c, o) = 0 /\ Of(c, b) = b[c]
    BY <1>4, <1>6 DEF Of
  <2>. QED
    BY <2>1, OfNat
<1>7. u \sqsubseteq a
  BY <1>4, <1>5, <1>6 DEF \sqsubseteq
<1>8. Covers(s, u)
  <2>1. SUFFICES ASSUME NEW c \in DOMAIN u, c[1] \in DOMAIN s
        PROVE  /\ c[2] <= s[c[1]].life
               /\ c[2] = s[c[1]].life => u[c] <= s[c[1]].passed[c[3]]
    BY DEF Covers
  <2>2. CASE c \in DOMAIN o
    <3>1. c[2] \in Nat
      BY <1>3, <2>2 DEF IsAccount
    <3>. QED
      BY <1>5, <2>2, <3>1
  <2>3. CASE c \notin DOMAIN o
    BY <1>2, <1>4, <1>6, <2>1, <2>3 DEF Covers
  <2>. QED
    BY <2>2, <2>3
<1>. QED
  BY <1>1, <1>2, <1>4, <1>7, <1>8

LEMMA LoopKeepsAccounts ==
  ASSUME CInv, CInv', HistoryInv, Loop \/ RestartCollector
  PROVE  HistoryInv'
<1>1. PICK d \in Device : d = DeviceList[turn]
  BY DeviceListAssumption DEF CInv, CTypeOK
<1>2. \A e \in Device :
        /\ IsAccount(carried[e]) /\ IsAccount(reported[e])
        /\ \A c \in DOMAIN carried[e] : c[2] <= lives
        /\ Covers(net[e], carried[e]) /\ Booked(net[e], carried[e])
        /\ Covers(previous[e].ifs, reported[e]) /\ Booked(previous[e].ifs, carried[e])
        /\ reported[e] \sqsubseteq carried[e]
        /\ IsTable(net[e]) /\ IsTable(previous[e].ifs)
  BY DEF HistoryInv, AccountInv, CInv, CTypeOK, IsSample
<1>3. \A b : Covers(<<>>, b) /\ Booked(<<>>, b)
  BY DEF Covers, Booked
<1>4. ASSUME NEW s, Poll(s), s.ifs = net[d] \/ s.ifs = <<>> PROVE HistoryInv'
  <2>1. /\ job' = [previous |-> previous[d], sample |-> s, latency |-> "none"]
        /\ previous' = [previous EXCEPT ![d] = s]
        /\ UNCHANGED <<net, lives, turn, carried, reported>>
    BY <1>1, <1>4 DEF Poll, world
  <2>2. previous'[d] = s /\ \A e \in Device \ {d} : previous'[e] = previous[e]
    BY <2>1 DEF CInv, CTypeOK
  <2>3. Covers(s.ifs, reported[d]) /\ Booked(s.ifs, carried[d])
    BY <1>2, <1>3, <1>4, PartCovered
  <2>4. AccountInv'
    BY <1>2, <2>1, <2>2, <2>3 DEF AccountInv
  <2>5. JobInv'
    BY <1>1, <1>2, <2>1, <2>2 DEF JobInv
  <2>. QED
    BY <2>1, <2>4, <2>5 DEF HistoryInv
<1>5. CASE Answered
  <2>1. PICK s : s = [reachable |-> TRUE, time |-> clock, ifs |-> net[DeviceList[turn]]]
    OBVIOUS
  <2>. QED
    BY <1>1, <1>4, <1>5, <2>1 DEF Answered
<1>6. CASE NotAnswered
  <2>1. PICK s : s = [reachable |-> FALSE, time |-> clock, ifs |-> <<>>]
    OBVIOUS
  <2>. QED
    BY <1>4, <1>6, <2>1 DEF NotAnswered
<1>7. CASE PollRaises \/ Wake
  <2>1. /\ UNCHANGED <<net, lives, previous, carried, reported>>
        /\ pc' \notin {"measure", "send"}
    BY <1>7 DEF PollRaises, NextDevice, Wake, world
  <2>. QED
    BY <2>1 DEF HistoryInv, AccountInv, JobInv
<1>8. CASE MeasureLatency
  <2>1. /\ UNCHANGED <<net, lives, previous, turn, carried, reported>>
        /\ job'.previous = job.previous /\ job'.sample = job.sample
        /\ pc = "measure"
    BY <1>8 DEF MeasureLatency, world, CInv, CTypeOK
  <2>. QED
    BY <2>1 DEF HistoryInv, AccountInv, JobInv
<1>9. CASE Send
  <2>1. PICK o : o = Octets(job, BuildBatch(job).bandwidth)
    OBVIOUS
  <2>2. PICK u : u = reported[d] (+) o
    OBVIOUS
  <2>3. /\ pc = "send" /\ pc' \notin {"measure", "send"}
        /\ reported' = [reported EXCEPT ![d] = u]
        /\ UNCHANGED <<net, lives, previous, carried>>
    BY <1>1, <1>9, <2>1, <2>2 DEF Send, NextDevice, world, HistoryInv
  <2>4. /\ reported'[d] = u /\ \A e \in Device \ {d} : reported'[e] = reported[e]
        /\ reported' = [e \in Device |-> reported'[e]]
    BY <2>3 DEF HistoryInv
  <2>5. job.sample = previous[d] /\ Covers(job.previous.ifs, reported[d])
    BY <1>1, <2>3 DEF HistoryInv, JobInv
  <2>6. IsAccount(u) /\ u \sqsubseteq carried[d] /\ Covers(job.sample.ifs, u)
    BY <1>2, <2>1, <2>2, <2>5, ReportCovered
  <2>7. AccountInv'
    BY <1>2, <2>3, <2>4, <2>5, <2>6 DEF AccountInv
  <2>8. JobInv'
    BY <2>3 DEF JobInv
  <2>. QED
    BY <2>3, <2>4, <2>7, <2>8 DEF HistoryInv
<1>10. CASE RestartCollector
  <2>1. /\ UNCHANGED <<net, lives, carried, reported>> /\ pc' = "poll"
        /\ previous' = [e \in Device |-> NoSample]
    BY <1>10 DEF RestartCollector, world
  <2>2. \A e \in Device : previous'[e].ifs = <<>>
    BY <2>1 DEF NoSample
  <2>3. AccountInv'
    BY <1>2, <1>3, <2>1, <2>2 DEF AccountInv
  <2>4. JobInv'
    BY <2>1 DEF JobInv
  <2>. QED
    BY <2>1, <2>3, <2>4 DEF HistoryInv
<1>. QED
  BY <1>5, <1>6, <1>7, <1>8, <1>9, <1>10 DEF Loop

LEMMA CInitHistory == CInit => HistoryInv
<1> SUFFICES ASSUME CInit PROVE HistoryInv
  OBVIOUS
<1>1. DOMAIN EmptyBag = {} /\ IsAccount(EmptyBag) /\ EmptyBag \sqsubseteq EmptyBag
  BY DEF EmptyBag, SetToBag, IsAccount, \sqsubseteq
<1>2. \A b : Covers(<<>>, b) /\ Booked(<<>>, b)
  BY DEF Covers, Booked
<1>. QED
  BY <1>1, <1>2 DEF CInit, HistoryInv, AccountInv, JobInv, NoSample

\* The accounts of what the devices carried and what was reported of them agree with
\* the counters, over failed polls, reboots, renumbered interfaces and restarts.
THEOREM CollectorAccounts == CInit /\ [][CNext]_cvars => []HistoryInv
<1>1. CInv /\ CInv' /\ HistoryInv /\ [CNext]_cvars => HistoryInv'
  <2> SUFFICES ASSUME CInv, CInv', HistoryInv, [CNext]_cvars PROVE HistoryInv'
    OBVIOUS
  <2>1. CASE UNCHANGED cvars
    BY <2>1 DEF cvars, HistoryInv, AccountInv, JobInv
  <2>. QED
    BY <2>1, LoopKeepsAccounts, WorldKeepsAccounts DEF CNext
<1>. QED
  BY <1>1, CInitHistory, CollectorInvariant, PTL

\* No octet of any counter is reported twice, and none that did not pass.
THEOREM CollectorReportsOnce == CSpec => []ReportedOnce
<1>1. HistoryInv => ReportedOnce
  BY DEF HistoryInv, AccountInv, ReportedOnce
<1>. QED
  BY <1>1, CollectorAccounts, PTL DEF CSpec

-----------------------------------------------------------------------------
(***************************************************************************)
(* The loop with the awaits of ping in it: what a measurement says is      *)
(* true, no ping stays behind, and the loop is still the one above, for    *)
(* any number of probes and any timeout that satisfy the assumptions.      *)
(***************************************************************************)
PingType ==
  ping \in [state : {"none", "running", "killed", "exited"}, time : Nat,
            sent : 0..Count, answered : Nat, refused : Nat,
            stalled : BOOLEAN, failed : BOOLEAN]

\* Where measure is tells the state of the process.
Phases ==
  /\ step \in {"idle", "communicate", "reap"}
  /\ step # "idle" => pc = "measure"
  /\ step = "idle" => ping.state \in {"none", "exited"}
  /\ (step = "idle" /\ pc # "send") => ping.state = "none"
  /\ step = "communicate" => ping.state \in {"running", "exited"}
  /\ step = "reap" => ping.state \in {"killed", "exited"} /\ ping.stalled = TRUE

\* A ping that has not stalled is within the time its probes take; one that ended
\* without giving up has sent them all.
Punctual ==
  /\ ping.stalled = FALSE => ping.time \leq ping.sent * ProbeTime
  /\ (ping.state = "exited" /\ ping.stalled = FALSE /\ ping.failed = FALSE)
       => ping.sent = Count

IInv == PingType /\ Phases /\ Punctual /\ LossIsHonest

-----------------------------------------------------------------------------
LEMMA ProbeTimeType == ProbeTime \in Nat /\ Count \in Nat /\ Budget \in Int
BY CountAssumption, SMT DEF ProbeTime, Budget

\* Products over one factor are ordered like the other.
LEMMA FewerProbes ==
  ASSUME NEW a \in Nat, NEW b \in Nat, NEW p \in Nat, a \leq b
  PROVE  a * p \leq b * p
<1>1. PICK c \in Nat : b = a + c
  BY SMT
<1>2. b * p = a * p + c * p /\ c * p \in Nat
  BY <1>1, SMT
<1>. QED
  BY <1>2, SMT

LEMMA OneMoreProbe ==
  ASSUME NEW a \in Nat, NEW p \in Nat, NEW s \in Nat, NEW t \in Nat,
         s \leq a * p, t \leq p
  PROVE  s + t \leq (a + 1) * p
<1>1. (a + 1) * p = a * p + p
  BY SMT
<1>. QED
  BY <1>1, SMT

\* The overall timeout cuts off only what has stalled.
LEMMA OnlyStalledTimesOut ==
  ASSUME PingType, Punctual, ping.time \geq Budget
  PROVE  ping.stalled = TRUE
<1>1. ping.sent \in 0..Count /\ ping.time \in Nat /\ ping.stalled \in BOOLEAN
  BY DEF PingType
<1>2. ping.sent * ProbeTime \leq Count * ProbeTime
  BY <1>1, ProbeTimeType, FewerProbes
<1>3. ping.sent * ProbeTime \in Nat /\ Count * ProbeTime \in Nat
  BY <1>1, ProbeTimeType
<1>4. ~(ping.time \leq ping.sent * ProbeTime)
  BY <1>1, <1>2, <1>3, ProbeTimeType, PatienceAssumption
<1>. QED
  BY <1>1, <1>4 DEF Punctual

-----------------------------------------------------------------------------
\* A ping of which nothing has run yet, in whatever state st.
LEMMA FreshPing ==
  ASSUME NEW st \in {"none", "running"}, ping' = [NoPing EXCEPT !.state = st]
  PROVE  PingType' /\ Punctual' /\ ping'.state = st
<1>1. ping' = [state |-> st, time |-> 0, sent |-> 0, answered |-> 0, refused |-> 0,
               stalled |-> FALSE, failed |-> FALSE]
  BY DEF NoPing
<1>2. ping'.state = st /\ ping'.time = 0 /\ ping'.sent = 0
  BY <1>1
<1>3. 0 \in 0..Count /\ 0 \leq 0 * ProbeTime
  BY ProbeTimeType
<1>4. [state |-> st, time |-> 0, sent |-> 0, answered |-> 0, refused |-> 0,
       stalled |-> FALSE, failed |-> FALSE]
        \in [state : {"none", "running", "killed", "exited"}, time : Nat,
             sent : 0..Count, answered : Nat, refused : Nat,
             stalled : BOOLEAN, failed : BOOLEAN]
  <2>. st \in {"none", "running", "killed", "exited"} /\ 0 \in Nat
    OBVIOUS
  <2>. QED
    BY <1>3
<1>5. PingType'
  BY <1>1, <1>4, Zenon DEF PingType
<1>. QED
  BY <1>2, <1>3, <1>5 DEF Punctual

LEMMA InitIInv == IInit => IInv
<1>. SUFFICES ASSUME IInit PROVE IInv
  OBVIOUS
<1>1. ping = [state |-> "none", time |-> 0, sent |-> 0, answered |-> 0, refused |-> 0,
              stalled |-> FALSE, failed |-> FALSE]
  BY DEF IInit, NoPing
<1>2. ping.state = "none" /\ ping.time = 0 /\ ping.sent = 0 /\ step = "idle" /\ pc = "poll"
  BY <1>1 DEF IInit, CInit
<1>3. 0 \in 0..Count /\ 0 \leq 0 * ProbeTime
  BY ProbeTimeType
<1>4. PingType
  BY <1>1, <1>3 DEF PingType
<1>. QED
  BY <1>2, <1>3, <1>4 DEF IInv, Phases, Punctual, LossIsHonest

\* The steps of ping while measure waits.
LEMMA ProbeIInv ==
  ASSUME IInv, NEW t \in 0..ProbeTime, NEW o, Probe(t, o), UNCHANGED <<cvars, step, result>>
  PROVE  IInv'
<1>. USE DEF IInv
<1>1. /\ ping.state = "running" /\ ping.sent < Count
      /\ ping.sent \in 0..Count /\ ping.time \in Nat /\ ping.stalled \in BOOLEAN
  BY DEF Probe, PingType
<1>2. /\ ping'.state = "running" /\ ping'.time = ping.time + t /\ ping'.sent = ping.sent + 1
      /\ ping'.stalled = ping.stalled
  BY DEF Probe, PingType
<1>3. PingType'
  <2>1. t \in Nat /\ ping.time + t \in Nat /\ ping.sent + 1 \in 0..Count
    BY <1>1, ProbeTimeType
  <2>2. \A n \in Nat : n + 1 \in Nat
    OBVIOUS
  <2>. QED
    BY <2>1, <2>2 DEF Probe, PingType
<1>4. Phases'
  BY <1>1, <1>2 DEF Phases, cvars
<1>5. Punctual'
  BY <1>1, <1>2, ProbeTimeType, OneMoreProbe DEF Punctual
<1>6. LossIsHonest'
  BY <1>1, <1>2 DEF LossIsHonest, Phases, cvars
<1>. QED
  BY <1>3, <1>4, <1>5, <1>6

LEMMA StallIInv ==
  ASSUME IInv, NEW t \in 1..Budget, Stall(t), UNCHANGED <<cvars, step, result>>
  PROVE  IInv'
<1>. USE DEF IInv
<1>0. ping.time + t \in Nat
  BY ProbeTimeType DEF PingType
<1>1. /\ ping.state = "running" /\ ping'.state = "running" /\ ping'.stalled = TRUE
      /\ PingType'
  BY <1>0 DEF Stall, PingType
<1>2. Phases' /\ Punctual' /\ LossIsHonest'
  BY <1>1 DEF Phases, Punctual, LossIsHonest, cvars
<1>. QED
  BY <1>1, <1>2

LEMMA EndOfPingIInv ==
  ASSUME IInv, Exit \/ Fail \/ Die \/ LateExit, UNCHANGED <<cvars, step, result>>
  PROVE  IInv'
<1>. USE DEF IInv
<1>1. /\ ping.state \in {"running", "killed"} /\ ping'.state = "exited"
      /\ ping'.time = ping.time /\ ping'.sent = ping.sent /\ ping'.stalled = ping.stalled
      /\ PingType'
  BY DEF Exit, Fail, Die, LateExit, PingType
<1>2. pc = "measure" /\ step # "idle"
  BY <1>1 DEF Phases
<1>3. Phases'
  BY <1>1, <1>2 DEF Phases, cvars
<1>4. ping'.stalled = FALSE /\ ping'.failed = FALSE => ping'.sent = Count
  <2>1. CASE Exit
    BY <2>1 DEF Exit, PingType
  <2>2. CASE Fail
    BY <2>2 DEF Fail, PingType
  <2>3. CASE Die
    BY <2>3, <1>1 DEF Die, Phases
  <2>4. CASE LateExit
    BY <2>4, <1>1 DEF LateExit, PingType
  <2>. QED
    BY <2>1, <2>2, <2>3, <2>4
<1>5. Punctual'
  BY <1>1, <1>4 DEF Punctual, PingType
<1>6. LossIsHonest'
  BY <1>2 DEF LossIsHonest, cvars
<1>. QED
  BY <1>1, <1>3, <1>5, <1>6

-----------------------------------------------------------------------------
\* What measure returns.
LEMMA ReturnPhases ==
  ASSUME IInv, NEW r, Return(r) \/ Raise, UNCHANGED ping,
         ping.state \in {"none", "exited"}
  PROVE  PingType' /\ Phases' /\ Punctual' /\ pc' = "send"
BY DEF IInv, Return, Raise, PingType, Phases, Punctual

\* Nothing is claimed of a ping that was not started, that stalled or gave up.
LEMMA NothingToTell ==
  ASSUME IInv, UNCHANGED ping,
         ping.state = "none" \/ ping.stalled = TRUE \/ ping.failed = TRUE
  PROVE  LossIsHonest'
BY DEF LossIsHonest

LEMMA CommunicatedIInv ==
  ASSUME IInv, Communicated
  PROVE  IInv'
<1>1. PingType' /\ Phases' /\ Punctual'
  BY ReturnPhases DEF Communicated
<1>2. CASE ping.stalled = TRUE \/ ping.failed = TRUE
  BY <1>1, <1>2, NothingToTell DEF IInv, Communicated
<1>3. CASE ping.stalled = FALSE /\ ping.failed = FALSE
  <2>1. ping.sent = Count
    BY <1>3 DEF IInv, Punctual, Communicated
  <2>2. /\ result' = ParseOutput(ping) /\ ping' = ping
        /\ job'.latency = IF ParseOutput(ping).reachable THEN "answered" ELSE "lost"
    BY DEF Communicated, Return
  <2>3. /\ ParseOutput(ping).loss = (100 * (Count - Received(ping))) \div Count
        /\ ParseOutput(ping).reachable = (ping.answered > 0)
    BY <1>3, <2>1 DEF ParseOutput
  <2>. QED
    BY <1>1, <2>2, <2>3 DEF IInv, LossIsHonest, Received
<1>. QED
  BY <1>2, <1>3 DEF IInv, PingType

LEMMA TimesOutIInv ==
  ASSUME IInv, TimesOut
  PROVE  IInv'
<1>1. ping.stalled = TRUE
  BY OnlyStalledTimesOut DEF IInv, TimesOut
<1>2. CASE ping.state = "running"
  <2>1. /\ ping' = [ping EXCEPT !.state = "killed"] /\ step' = "reap"
        /\ UNCHANGED <<cvars, result>>
    BY <1>2 DEF TimesOut
  <2>2. ping'.state = "killed" /\ ping'.stalled = TRUE /\ PingType'
    BY <1>1, <2>1 DEF IInv, PingType
  <2>3. pc' = "measure"
    BY <2>1 DEF IInv, Phases, TimesOut, cvars
  <2>. QED
    BY <2>1, <2>2, <2>3 DEF IInv, Phases, Punctual, LossIsHonest
<1>3. CASE ping.state = "exited" /\ step' = "reap"
  <2>1. UNCHANGED <<cvars, ping, result>>
    BY <1>3 DEF TimesOut, Raise
  <2>2. pc' = "measure"
    BY <2>1 DEF IInv, Phases, TimesOut, cvars
  <2>. QED
    BY <1>1, <1>3, <2>1, <2>2 DEF IInv, PingType, Phases, Punctual, LossIsHonest
<1>4. CASE ping.state = "exited" /\ Raise /\ UNCHANGED ping
  BY <1>1, <1>4, ReturnPhases, NothingToTell DEF IInv
<1>. QED
  BY <1>2, <1>3, <1>4 DEF TimesOut

LEMMA MeasureIInv ==
  ASSUME IInv, MeasureStep
  PROVE  IInv'
<1>1. CASE Spawn
  <2>1. ping' = [NoPing EXCEPT !.state = "running"] /\ step' = "communicate" /\ pc' = "measure"
    BY <1>1 DEF Spawn, cvars
  <2>2. PingType' /\ Punctual' /\ ping'.state = "running"
    BY <2>1, FreshPing
  <2>. QED
    BY <2>1, <2>2 DEF IInv, Phases, LossIsHonest
<1>2. CASE SpawnFails
  <2>1. ping.state = "none" /\ UNCHANGED ping
    BY <1>2 DEF SpawnFails, IInv, Phases
  <2>. QED
    BY <1>2, <2>1, ReturnPhases, NothingToTell DEF SpawnFails, IInv
<1>3. CASE Communicated
  BY <1>3, CommunicatedIInv
<1>4. CASE TimesOut
  BY <1>4, TimesOutIInv
<1>5. CASE Reaped
  BY <1>5, ReturnPhases, NothingToTell DEF Reaped, IInv, Phases
<1>. QED
  BY <1>1, <1>2, <1>3, <1>4, <1>5 DEF MeasureStep

\* The loop around it, a restart and the devices.
LEMMA AroundIInv ==
  ASSUME IInv, AroundMeasure \/ RestartMeasuring
  PROVE  IInv'
<1>. USE DEF IInv
<1>1. CASE Send /\ ping' = NoPing /\ step' = step
  <2>1. pc' \in {"poll", "sleep"} /\ step = "idle"
    BY <1>1 DEF Send, NextDevice, Phases
  <2>. QED
    BY <1>1, <2>1, CountAssumption, ProbeTimeType
    DEF PingType, Phases, Punctual, LossIsHonest, NoPing
<1>2. CASE RestartMeasuring
  <2>1. pc' = "poll" /\ step' = "idle" /\ ping' = NoPing
    BY <1>2 DEF RestartMeasuring, RestartCollector
  <2>. QED
    BY <2>1, CountAssumption, ProbeTimeType
    DEF PingType, Phases, Punctual, LossIsHonest, NoPing
<1>3. CASE (Answered \/ NotAnswered \/ PollRaises \/ Wake) /\ UNCHANGED ivars
  <2>1. /\ pc \in {"poll", "sleep"} /\ pc' # "send"
        /\ ping' = ping /\ step' = step
    BY <1>3 DEF Answered, NotAnswered, Poll, PollRaises, NextDevice, Wake, ivars
  <2>. QED
    BY <2>1 DEF PingType, Phases, Punctual, LossIsHonest
<1>. QED
  BY <1>1, <1>2, <1>3 DEF AroundMeasure

LEMMA WorldIInv ==
  ASSUME IInv, World \/ UNCHANGED cvars, UNCHANGED ivars
  PROVE  IInv'
<1>1. UNCHANGED <<pc, job>>
  BY DEF World, Tick, Carry, Reboot, Reconfigure, loop, cvars
<1>. QED
  BY <1>1 DEF IInv, PingType, Phases, Punctual, LossIsHonest, Received, ivars

LEMMA NextIInv ==
  ASSUME IInv, [INext]_<<cvars, ivars>>
  PROVE  IInv'
<1>1. CASE AroundMeasure \/ RestartMeasuring
  BY <1>1, AroundIInv
<1>2. CASE MeasureStep
  BY <1>2, MeasureIInv
<1>3. CASE PingRuns \/ PingIsLate
  BY <1>3, ProbeIInv, StallIInv, EndOfPingIInv DEF PingRuns, PingIsLate
<1>4. CASE (World \/ UNCHANGED cvars) /\ UNCHANGED ivars
  BY <1>4, WorldIInv
<1>. QED
  BY <1>1, <1>2, <1>3, <1>4 DEF INext, ILoop

LEMMA SpecIInv == ISpec => []IInv
<1>1. IInit => IInv
  BY InitIInv
<1>2. IInv /\ [INext]_<<cvars, ivars>> => IInv'
  BY NextIInv
<1>. QED
  BY <1>1, <1>2, PTL DEF ISpec

-----------------------------------------------------------------------------
\* A ping that neither stalls nor gives up is not cut off by the overall timeout
\* (icmp_source.py:55-67), and what is reported is what it saw.
THEOREM IcmpLossIsHonest == ISpec => []LossIsHonest
<1>1. IInv => LossIsHonest
  BY DEF IInv
<1>. QED
  BY <1>1, SpecIInv, PTL

\* When the loop goes on, no ping is left running (icmp_source.py:60-62).
THEOREM IcmpReapsPing == ISpec => []NoPingLeftRunning
<1>1. IInv => NoPingLeftRunning
  BY DEF IInv, Phases, NoPingLeftRunning
<1>. QED
  BY <1>1, SpecIInv, PTL

-----------------------------------------------------------------------------
\* The state of the measurement keeps its type: what ping says adds up.
Counts ==
  /\ ITypeOK
  /\ ping.answered + ping.refused \leq ping.sent
  /\ (step = "communicate" /\ ping.state = "exited" /\ ping.failed = FALSE)
       => ping.sent = Count

PingRecord == [state : {"none", "running", "killed", "exited"}, time : 0..Budget,
               sent : 0..Count, answered : 0..Count, refused : 0..Count,
               stalled : BOOLEAN, failed : BOOLEAN]

ResultRecord == [reachable : BOOLEAN, loss : 0..100, sent : 0..Count, received : 0..Count]

\* A share of the probes in whole per cent.
LEMMA LossRange ==
  ASSUME NEW n \in Nat \ {0}, NEW r \in 0..n
  PROVE  (100 * (n - r)) \div n \in 0..100
<1>1. PICK a \in Nat : a = 100 * (n - r) /\ a \leq 100 * n
  BY SMT
<1>2. PICK q \in Int, m \in 0..n - 1 : q = a \div n /\ a = n * q + m
  BY SMT
<1>3. q \geq 0
  <2>1. SUFFICES ASSUME q < 0 PROVE FALSE
    BY SMT
  <2>2. PICK k \in Nat : q = -1 - k
    BY <2>1, SMT
  <2>3. n * q = -n - n * k /\ n * k \in Nat
    BY <2>2, SMT
  <2>. QED
    BY <1>1, <1>2, <2>3, SMT
<1>4. q \leq 100
  <2>1. SUFFICES ASSUME q > 100 PROVE FALSE
    BY SMT
  <2>2. PICK k \in Nat : q = 101 + k
    BY <2>1, SMT
  <2>3. n * q = 101 * n + n * k /\ n * k \in Nat
    BY <2>2, SMT
  <2>. QED
    BY <1>1, <1>2, <2>3, SMT
<1>. QED
  BY <1>1, <1>2, <1>3, <1>4, SMT

LEMMA FreshCounts ==
  ASSUME NEW p, p = NoPing \/ p = [NoPing EXCEPT !.state = "running"]
  PROVE  p \in PingRecord /\ p.answered = 0 /\ p.refused = 0 /\ p.sent = 0
<1>1. PICK st \in {"none", "running"} :
        p = [state |-> st, time |-> 0, sent |-> 0, answered |-> 0, refused |-> 0,
             stalled |-> FALSE, failed |-> FALSE]
  BY DEF NoPing
<1>2. 0 \in 0..Budget /\ 0 \in 0..Count
  BY CountAssumption DEF Budget
<1>3. st \in {"none", "running", "killed", "exited"}
  OBVIOUS
<1>. QED
  BY <1>1, <1>2, <1>3 DEF PingRecord

\* Steps that leave the counts of ping alone.
LEMMA CountsKept ==
  ASSUME Counts, NEW st \in {"running", "killed", "exited"}, NEW t \in 0..Budget,
         NEW sd \in BOOLEAN, NEW fd \in BOOLEAN,
         ping' = [ping EXCEPT !.state = st, !.time = t, !.stalled = sd, !.failed = fd],
         step' \in {"idle", "communicate", "reap"}, result' \in ResultRecord,
         (step' = "communicate" /\ st = "exited" /\ fd = FALSE) => ping.sent = Count
  PROVE  Counts'
<1>1. ping \in PingRecord /\ ping.answered + ping.refused \leq ping.sent
  BY DEF Counts, ITypeOK, PingRecord
<1>2. /\ ping' \in PingRecord /\ ping'.answered = ping.answered
      /\ ping'.refused = ping.refused /\ ping'.sent = ping.sent
      /\ ping'.state = st /\ ping'.failed = fd
  BY <1>1 DEF PingRecord
<1>. QED
  BY <1>1, <1>2 DEF Counts, ITypeOK, PingRecord, ResultRecord

LEMMA SameCounts ==
  ASSUME Counts, UNCHANGED ping, step' \in {"idle", "communicate", "reap"},
         result' \in ResultRecord, step' = "communicate" => step = "communicate"
  PROVE  Counts'
BY DEF Counts, ITypeOK, PingRecord, ResultRecord

LEMMA ProbeCounts ==
  ASSUME Counts, NEW t \in 0..ProbeTime,
         NEW o \in {"reply", "unreachable", "silence"}, Probe(t, o),
         UNCHANGED <<cvars, step, result>>
  PROVE  Counts'
<1>1. /\ ping \in PingRecord /\ ping.answered + ping.refused \leq ping.sent
      /\ ping.state = "running" /\ ping.sent < Count /\ ping.time + t \leq Budget
  BY DEF Counts, ITypeOK, PingRecord, Probe
<1>2. PICK a, r : /\ a = IF o = "reply" THEN ping.answered + 1 ELSE ping.answered
                  /\ r = IF o = "unreachable" THEN ping.refused + 1 ELSE ping.refused
  OBVIOUS
<1>3. /\ ping.answered \in 0..Count /\ ping.refused \in 0..Count
      /\ ping.sent \in 0..Count /\ ping.time \in 0..Budget /\ Count \in Nat
      /\ t \in Nat /\ Budget \in Int
  BY <1>1, ProbeTimeType DEF PingRecord
<1>4. /\ a + r \leq ping.sent + 1 /\ a \in 0..Count /\ r \in 0..Count
      /\ ping.sent + 1 \in 0..Count /\ ping.time + t \in 0..Budget
  BY <1>1, <1>2, <1>3
<1>5. ping' = [ping EXCEPT !.time = ping.time + t, !.sent = ping.sent + 1,
                           !.answered = a, !.refused = r]
  BY <1>2 DEF Probe
<1>6. /\ ping' \in PingRecord /\ ping'.answered = a /\ ping'.refused = r
      /\ ping'.sent = ping.sent + 1 /\ ping'.state = "running"
  BY <1>1, <1>4, <1>5 DEF PingRecord
<1>. QED
  BY <1>4, <1>6 DEF Counts, ITypeOK, PingRecord

LEMMA PingCounts ==
  ASSUME Counts, IInv, PingRuns \/ PingIsLate
  PROVE  Counts'
<1>1. /\ ping \in PingRecord /\ UNCHANGED <<cvars, step, result>>
      /\ step \in {"idle", "communicate", "reap"} /\ result \in ResultRecord
  BY DEF Counts, ITypeOK, PingRecord, ResultRecord, PingRuns, PingIsLate
<1>2. /\ ping.time \in 0..Budget /\ ping.state \in {"none", "running", "killed", "exited"}
      /\ ping.stalled \in BOOLEAN /\ ping.failed \in BOOLEAN /\ Budget \in Int
  BY <1>1, ProbeTimeType DEF PingRecord
<1>3. CASE \E t \in 0..ProbeTime, o \in {"reply", "unreachable", "silence"} : Probe(t, o)
  BY <1>1, <1>3, ProbeCounts
<1>4. CASE \E t \in 1..Budget : Stall(t)
  <2>1. PICK t \in 1..Budget : Stall(t)
    BY <1>4
  <2>2. ping.time + t \in 0..Budget /\ ping.state = "running"
    BY <1>2, <2>1 DEF Stall
  <2>3. ping' = [ping EXCEPT !.state = "running", !.time = ping.time + t,
                             !.stalled = TRUE, !.failed = ping.failed]
    BY <1>1, <2>1, <2>2 DEF Stall, PingRecord
  <2>. QED
    BY <1>1, <1>2, <2>2, <2>3, CountsKept
<1>5. CASE Exit \/ Fail \/ Die \/ LateExit
  <2>1. PICK f \in BOOLEAN :
          /\ ping' = [ping EXCEPT !.state = "exited", !.time = ping.time,
                                  !.stalled = ping.stalled, !.failed = f]
          /\ (step = "communicate" /\ f = FALSE) => ping.sent = Count
    <3>1. CASE Exit
      BY <1>1, <1>2, <3>1 DEF Exit, PingRecord
    <3>2. CASE Fail
      BY <1>1, <1>2, <3>2 DEF Fail, PingRecord
    <3>3. CASE Die
      <4>1. step # "communicate"
        BY <3>3 DEF Die, IInv, Phases
      <4>. QED
        BY <1>1, <1>2, <3>3, <4>1 DEF Die, PingRecord
    <3>4. CASE LateExit
      <4>1. PICK f \in BOOLEAN :
              /\ f \/ ping.sent = Count
              /\ ping' = [ping EXCEPT !.state = "exited", !.failed = f]
        BY <3>4 DEF LateExit
      <4>2. ping' = [ping EXCEPT !.state = "exited", !.time = ping.time,
                                 !.stalled = ping.stalled, !.failed = f]
        BY <1>1, <4>1 DEF PingRecord
      <4>. QED
        BY <4>1, <4>2
    <3>. QED
      BY <1>5, <3>1, <3>2, <3>3, <3>4
  <2>. QED
    BY <1>1, <1>2, <2>1, CountsKept
<1>. QED
  BY <1>3, <1>4, <1>5 DEF PingRuns, PingIsLate

\* What measure returns is of its type.
LEMMA ResultType ==
  ASSUME Counts, step = "communicate", ping.state = "exited"
  PROVE  ParseOutput(ping) \in ResultRecord
<1>1. /\ ping \in PingRecord /\ ping.answered + ping.refused \leq ping.sent
      /\ ping.failed = FALSE => ping.sent = Count
  BY DEF Counts, ITypeOK, PingRecord
<1>2. CASE ping.failed = TRUE
  BY <1>2, CountAssumption DEF ParseOutput, Unreachable, ResultRecord
<1>3. CASE ping.failed = FALSE
  <2>0. PICK n \in Nat \ {0} : n = Count /\ n = ping.sent
    BY <1>1, <1>3, CountAssumption
  <2>1. PICK r \in 0..n : r = Received(ping)
    BY <1>1, <2>0 DEF Received, PingRecord
  <2>2. PICK l \in 0..100 : l = (100 * (n - r)) \div n
    BY LossRange
  <2>3. ParseOutput(ping) = [reachable |-> ping.answered > 0, loss |-> l,
                             sent |-> n, received |-> r]
    BY <1>3, <2>0, <2>1, <2>2 DEF ParseOutput
  <2>4. n \in 0..Count /\ r \in 0..Count /\ (ping.answered > 0) \in BOOLEAN
    BY <2>0
  <2>. QED
    BY <2>3, <2>4 DEF ResultRecord
<1>. QED
  BY <1>1, <1>2, <1>3 DEF PingRecord

LEMMA MeasureCounts ==
  ASSUME Counts, IInv, MeasureStep
  PROVE  Counts'
<1>1. /\ ping \in PingRecord /\ result \in ResultRecord /\ NoResult \in ResultRecord
      /\ Unreachable(Count) \in ResultRecord /\ Unreachable(0) \in ResultRecord
  BY CountAssumption
  DEF Counts, ITypeOK, PingRecord, ResultRecord, NoResult, Unreachable
<1>2. ASSUME NEW r \in ResultRecord, Return(r) \/ Raise, UNCHANGED ping PROVE Counts'
  BY <1>1, <1>2, SameCounts DEF Return, Raise
<1>3. CASE Spawn
  BY <1>1, <1>3, FreshCounts DEF Spawn, Counts, ITypeOK, PingRecord, ResultRecord
<1>4. CASE SpawnFails
  BY <1>1, <1>2, <1>4 DEF SpawnFails
<1>5. CASE Communicated
  BY <1>2, <1>5, ResultType DEF Communicated
<1>6. CASE TimesOut
  <2>1. CASE ping.state = "running" /\ ping' = [ping EXCEPT !.state = "killed"]
               /\ step' = "reap" /\ UNCHANGED result
    <3>1. /\ ping.time \in 0..Budget /\ ping.stalled \in BOOLEAN /\ ping.failed \in BOOLEAN
          /\ ping' = [ping EXCEPT !.state = "killed", !.time = ping.time,
                                  !.stalled = ping.stalled, !.failed = ping.failed]
      BY <1>1, <2>1 DEF PingRecord
    <3>. QED
      BY <1>1, <2>1, <3>1, CountsKept
  <2>2. CASE step' = "reap" /\ UNCHANGED <<ping, result>>
    BY <1>1, <2>2, SameCounts
  <2>3. CASE Raise /\ UNCHANGED ping
    BY <1>1, <1>2, <2>3
  <2>. QED
    BY <1>6, <2>1, <2>2, <2>3 DEF TimesOut
<1>7. CASE Reaped
  BY <1>1, <1>2, <1>7 DEF Reaped
<1>. QED
  BY <1>3, <1>4, <1>5, <1>6, <1>7 DEF MeasureStep

LEMMA NextCounts ==
  ASSUME Counts, IInv, [INext]_<<cvars, ivars>>
  PROVE  Counts'
<1>1. /\ result \in ResultRecord /\ NoResult \in ResultRecord
      /\ step \in {"idle", "communicate", "reap"}
  BY CountAssumption DEF Counts, ITypeOK, ResultRecord, NoResult
<1>2. CASE UNCHANGED ivars
  BY <1>1, <1>2, SameCounts DEF ivars
<1>3. CASE ping' = NoPing /\ result' = NoResult /\ step' \in {"idle", step}
  <2>1. ping' \in PingRecord /\ ping'.answered = 0 /\ ping'.refused = 0 /\ ping'.sent = 0
    BY <1>3, FreshCounts
  <2>2. ping'.state = "none"
    BY <1>3 DEF NoPing
  <2>. QED
    BY <1>1, <1>3, <2>1, <2>2 DEF Counts, ITypeOK, PingRecord, ResultRecord
<1>4. CASE MeasureStep
  BY <1>4, MeasureCounts
<1>5. CASE PingRuns \/ PingIsLate
  BY <1>5, PingCounts
<1>. QED
  BY <1>2, <1>3, <1>4, <1>5
  DEF INext, ILoop, AroundMeasure, RestartMeasuring

\* What ping counts and what is made of it stay in range: a loss is from 0 to
\* 100 per cent, however ping ends (icmp_source.py:86-161).
THEOREM IcmpTypes == ISpec => []ITypeOK
<1>1. IInit => Counts
  <2> SUFFICES ASSUME IInit PROVE Counts
    OBVIOUS
  <2>1. ping \in PingRecord /\ ping.answered = 0 /\ ping.refused = 0 /\ ping.sent = 0
    BY FreshCounts DEF IInit
  <2>2. NoResult \in ResultRecord
    BY CountAssumption DEF ResultRecord, NoResult
  <2>. QED
    BY <2>1, <2>2 DEF IInit, Counts, ITypeOK, PingRecord, ResultRecord
<1>2. Counts => ITypeOK
  BY DEF Counts
<1>. QED
  BY <1>1, <1>2, NextCounts, SpecIInv, PTL DEF ISpec

-----------------------------------------------------------------------------
\* To the loop a measurement is one step: all steps of measure but the last leave
\* the state of the loop alone, and the last sets the latency of the job only.
LEMMA ReturnIsMeasured ==
  ASSUME pc = "measure", NEW r, r.reachable \in BOOLEAN, Return(r) \/ Raise
  PROVE  MeasureLatency
BY DEF Return, Raise, MeasureLatency

LEMMA StepImplements ==
  ASSUME IInv, [INext]_<<cvars, ivars>>
  PROVE  [CNext]_cvars
<1>1. CASE AroundMeasure
  BY <1>1 DEF AroundMeasure, CNext, Loop
<1>2. CASE MeasureStep
  <2>1. CASE Spawn
    BY <2>1 DEF Spawn
  <2>2. CASE SpawnFails
    <3>1. Unreachable(0).reachable \in BOOLEAN
      BY DEF Unreachable
    <3>2. MeasureLatency
      BY <2>2, <3>1, ReturnIsMeasured DEF SpawnFails
    <3>. QED
      BY <3>2 DEF CNext, Loop
  <2>3. CASE Communicated
    <3>1. pc = "measure"
      BY <2>3 DEF Communicated, IInv, Phases
    <3>2. ParseOutput(ping).reachable \in BOOLEAN
      <4>1. CASE ping.failed
        BY <4>1 DEF ParseOutput, Unreachable
      <4>2. CASE ~ping.failed
        BY <4>2 DEF ParseOutput
      <4>. QED
        BY <4>1, <4>2
    <3>3. MeasureLatency
      BY <2>3, <3>1, <3>2, ReturnIsMeasured DEF Communicated
    <3>. QED
      BY <3>3 DEF CNext, Loop
  <2>4. CASE TimesOut
    <3>1. pc = "measure"
      BY <2>4 DEF TimesOut, IInv, Phases
    <3>2. CASE UNCHANGED cvars
      BY <3>2
    <3>3. CASE Raise
      BY <3>1, <3>3 DEF Raise, MeasureLatency, CNext, Loop
    <3>. QED
      BY <2>4, <3>2, <3>3 DEF TimesOut
  <2>5. CASE Reaped
    <3>1. pc = "measure"
      BY <2>5 DEF Reaped, IInv, Phases
    <3>2. Unreachable(Count).reachable \in BOOLEAN
      BY DEF Unreachable
    <3>3. MeasureLatency
      BY <2>5, <3>1, <3>2, ReturnIsMeasured DEF Reaped
    <3>. QED
      BY <3>3 DEF CNext, Loop
  <2>. QED
    BY <1>2, <2>1, <2>2, <2>3, <2>4, <2>5 DEF MeasureStep
<1>3. CASE PingRuns \/ PingIsLate
  BY <1>3 DEF PingRuns, PingIsLate
<1>4. CASE RestartMeasuring \/ World
  BY <1>4 DEF RestartMeasuring, CNext
<1>5. CASE UNCHANGED <<cvars, ivars>>
  BY <1>5
<1>. QED
  BY <1>1, <1>2, <1>3, <1>4, <1>5 DEF INext, ILoop

\* The loop with all the awaits of ping in it does what the loop of Collector does,
\* where a measurement is a result or, if it raises, none (collector/main.py:110-114):
\* the initial states and every step of it are of Collector.
THEOREM IcmpImplementsLoop == ISpec => CInit /\ [][CNext]_cvars
<1>1. IInit => CInit
  BY DEF IInit
<1>. QED
  BY <1>1, StepImplements, SpecIInv, PTL DEF ISpec

\* So what is proved of the loop holds with ping in it as well: a bandwidth is what
\* passed, never a spike, and no octet is reported twice.
THEOREM IcmpKeepsMeasures == ISpec => [](MeasuredIsPassed /\ NoSpike /\ ReportedOnce)
<1>1. HistoryInv => ReportedOnce
  BY DEF HistoryInv, AccountInv, ReportedOnce
<1>. QED
  BY <1>1, IcmpImplementsLoop, CollectorInvariant, CollectorAccounts,
     InvMeasures, InvNoSpike, PTL
=============================================================================
