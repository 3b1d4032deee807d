---------------------------- MODULE DeliveryProofs ----------------------------
(***************************************************************************)
(* Proofs about Delivery, for any collectors, retries, batches and         *)
(* backlogs.  The invariant of the backend is lifted to the system, and    *)
(* the order in which batches are sent is carried from the client over the *)
(* wire and the queue to the rows of the tables.                           *)
(***************************************************************************)
EXTENDS Delivery, BackendProofs

-----------------------------------------------------------------------------
\* What the theorems that follow one collector suppose: no device is in the files of two,
\* as config/devices.yaml and config/devices-gns3.yaml have none in common.
OwnDevices == \A x, y \in Collector : x # y => Polled[x] \cap Polled[y] = {}

\* And what those about alerts suppose besides: no batch contradicts itself.
\* (telemetry_builder.py makes one record per interface and metric; two interfaces of
\* a device with one name share their conditions and could contradict one another.)
BatchesAgree ==
  \A b \in Batch : \A i, j \in Valid(b) :
    (/\ Relevant(b[i].metric) /\ Relevant(b[j].metric)
     /\ KeyOf(b[i]) = KeyOf(b[j])) => (Breaching(b[i]) <=> Breaching(b[j]))

\* What send_batch knows of its batch and of the call it made last.
ClientInv ==
  \A x \in Collector :
    /\ client[x].pc # "idle" => Len(sent[x]) > 0 /\ client[x].attempt \geq 1
    /\ client[x].pc = "backoff" => client[x].attempt \leq MaxRetries
    /\ (Idle(x) /\ client[x].outcome = "accepted")
          => client[x].attempt \geq 1 /\ status[CurrentCall(x)] = "accepted"
    /\ \A n \in 1..Len(sent[x]) : sent[x][n] \in BatchOf(x, n)

\* A call carries the batch it is an attempt of.
WireInv ==
  /\ \A c \in inFlight : c[2] \leq Len(sent[c[1]])
  /\ \A c \in Call : status[c] # "new" => /\ c[2] \leq Len(sent[c[1]])
                                          /\ request[c] = sent[c[1]][c[2]]

\* Call d is not for an earlier batch than call c, if one collector made them both.
InOrder(c, d) == c[1] = d[1] => c[2] \leq d[2]

\* Nothing of one collector overtakes: rows, then the calls that wait, then the calls
\* on the wire are in the order of their batches.
OrderInv ==
  /\ \A c, d \in Call : \A m \in stored[c], n \in stored[d] : m \leq n => InOrder(c, d)
  /\ \A c \in Call, i \in DOMAIN queue : stored[c] # {} => InOrder(c, queue[i])
  /\ \A c \in Call, d \in inFlight : stored[c] # {} => InOrder(c, d)
  /\ \A i, j \in DOMAIN queue : i \leq j => InOrder(queue[i], queue[j])
  /\ \A i \in DOMAIN queue, d \in inFlight : InOrder(queue[i], d)

\* The rows of a device are in the order of their times.
RowsOrdered ==
  \A m, n \in DOMAIN metrics :
    (m \leq n /\ metrics[m].device = metrics[n].device)
      => metrics[m].time \leq metrics[n].time

\* last_seen of a device is the time of one of its rows.
LastSeenInv ==
  \A d \in DOMAIN devices :
    \E n \in DOMAIN metrics : metrics[n].device = d /\ metrics[n].time = devices[d].lastSeen

\* Two episodes of a condition do not overlap.
EpisodeInv ==
  \A a, b \in DOMAIN alerts :
    (a < b /\ alerts[a].key = alerts[b].key)
      => alerts[a].status = "RESOLVED" /\ alerts[a].resolvedAt \leq alerts[b].startedAt

DInv == DTypeOK /\ IndInv /\ CallInv /\ RowsInv /\ ClientInv /\ WireInv

-----------------------------------------------------------------------------
\* The parts of a call.
LEMMA CallParts ==
  ASSUME NEW c \in Call
  PROVE  /\ c[1] \in Collector /\ c[2] \in 1..MaxBatches /\ c[3] \in 1..(MaxRetries + 1)
         /\ c[2] \in Nat /\ c[3] \in Nat
BY CallAssumption, RetriesAssumption

LEMMA CallOf ==
  ASSUME NEW x \in Collector, NEW n \in 1..MaxBatches, NEW a \in 1..(MaxRetries + 1)
  PROVE  <<x, n, a>> \in Call
BY CallAssumption

\* A call on the wire carries a batch.
LEMMA SentBatch ==
  ASSUME DTypeOK, NEW c \in Call, c[2] \leq Len(sent[c[1]])
  PROVE  c[2] \in DOMAIN sent[c[1]] /\ sent[c[1]][c[2]] \in Batch
<1>1. c[1] \in Collector /\ c[2] \in Nat /\ c[2] \geq 1
  BY CallParts
<1>2. PICK s \in Seq(Batch) : s = sent[c[1]]
  BY <1>1 DEF DTypeOK
<1>. QED
  BY <1>1, <1>2

\* Every step of the system is a step of the backend or leaves it alone.
LEMMA StepsOfBackend ==
  ASSUME DTypeOK, WireInv, [DNext]_dvars
  PROVE  [Next]_vars
<1>1. ASSUME NEW c \in Call, Deliver(c) PROVE Next
  <2>1. Arrive(c, sent[c[1]][c[2]]) /\ c \in inFlight
    BY <1>1 DEF Deliver
  <2>2. sent[c[1]][c[2]] \in Batch
    BY <2>1, SentBatch DEF WireInv
  <2>. QED
    BY <2>1, <2>2 DEF Next
<1>2. CASE BackendStep
  BY <1>2 DEF BackendStep, Next
<1>3. CASE UNCHANGED dvars
  BY <1>3 DEF dvars
<1>4. ASSUME NEW x \in Collector, ClientStep(x) PROVE UNCHANGED vars
  BY <1>4 DEF ClientStep, Receive, Fail, Retry
<1>5. ASSUME NEW x \in Collector, NEW b \in Batch, Send(x, b) PROVE UNCHANGED vars
  BY <1>5 DEF Send
<1>6. ASSUME NEW c \in Call, Lose(c) PROVE UNCHANGED vars
  BY <1>6 DEF Lose
<1>. QED
  BY <1>1, <1>2, <1>3, <1>4, <1>5, <1>6 DEF DNext

-----------------------------------------------------------------------------
\* The types, one step of a collector or of the network at a time.
LEMMA SendTypes ==
  ASSUME DTypeOK, NEW x \in Collector, NEW b \in Batch, Send(x, b)
  PROVE  /\ DTypeOK' /\ Len(sent'[x]) = Len(sent[x]) + 1
         /\ sent'[x][Len(sent[x]) + 1] = b
         /\ \A n \in 1..Len(sent[x]) : sent'[x][n] = sent[x][n]
         /\ \A y \in Collector \ {x} : sent'[y] = sent[y] /\ client'[y] = client[y]
         /\ client'[x] = [pc |-> "waiting", attempt |-> 1, outcome |-> "none"]
<1>1. PICK s \in Seq(Batch) : s = sent[x]
  BY DEF DTypeOK
<1>2. Len(s) \in Nat /\ Len(s) < MaxBatches /\ MaxBatches \in Nat /\ MaxRetries \in Nat
  BY <1>1, RetriesAssumption DEF Send
<1>3. /\ sent' = [sent EXCEPT ![x] = Append(s, b)] /\ sent \in [Collector -> Seq(Batch)]
      /\ client' = [client EXCEPT ![x] = [pc |-> "waiting", attempt |-> 1,
                                          outcome |-> "none"]]
      /\ client \in [Collector -> ClientState]
      /\ inFlight' = inFlight \cup {<<x, Len(s) + 1, 1>>}
  BY <1>1 DEF Send, DTypeOK
<1>4. /\ Append(s, b) \in Seq(Batch) /\ Len(Append(s, b)) = Len(s) + 1
      /\ Append(s, b)[Len(s) + 1] = b /\ \A n \in 1..Len(s) : Append(s, b)[n] = s[n]
  OBVIOUS
<1>5. sent'[x] = Append(s, b) /\ sent' \in [Collector -> Seq(Batch)]
      /\ \A y \in Collector \ {x} : sent'[y] = sent[y] /\ client'[y] = client[y]
  BY <1>3, <1>4
<1>6. [pc |-> "waiting", attempt |-> 1, outcome |-> "none"] \in ClientState
  BY <1>2 DEF ClientState
<1>7. client' \in [Collector -> ClientState]
      /\ client'[x] = [pc |-> "waiting", attempt |-> 1, outcome |-> "none"]
  BY <1>3, <1>6
<1>8. inFlight' \subseteq Call
  <2>1. Len(s) + 1 \in 1..MaxBatches /\ 1 \in 1..(MaxRetries + 1)
    BY <1>2
  <2>2. <<x, Len(s) + 1, 1>> \in Call
    BY <2>1, CallOf
  <2>. QED
    BY <1>3, <2>2 DEF DTypeOK
<1>9. \A y \in Collector : Len(sent'[y]) \leq MaxBatches
  BY <1>2, <1>4, <1>5 DEF DTypeOK
<1>. QED
  BY <1>1, <1>4, <1>5, <1>7, <1>8, <1>9 DEF DTypeOK

\* A step of send_batch after the first attempt.
LEMMA ClientTypes ==
  ASSUME DTypeOK, ClientInv, TypeOK, NEW x \in Collector, ClientStep(x)
  PROVE  /\ DTypeOK' /\ UNCHANGED <<vars, sent>>
         /\ client[x].pc # "idle"
         /\ \A y \in Collector \ {x} : client'[y] = client[y]
         /\ \A c \in inFlight' \ inFlight : c[1] = x /\ c[2] = Len(sent[x])
         /\ client'[x].attempt \geq 1
         /\ client'[x].pc = "backoff" => client'[x].attempt \leq MaxRetries
         /\ (client'[x].pc = "idle" /\ client'[x].outcome = "accepted")
              => client'[x].attempt = client[x].attempt /\ status[CurrentCall(x)] = "accepted"
<1>1. /\ client \in [Collector -> ClientState]
      /\ client[x].attempt \in 0..(MaxRetries + 1) /\ MaxRetries \in Nat
      /\ Len(sent[x]) \in Nat /\ Len(sent[x]) \leq MaxBatches
      /\ client[x].outcome \in {"none", "accepted", "rejected", "dropped"}
  BY RetriesAssumption DEF DTypeOK, ClientState
<1>2. client[x].pc # "idle" => Len(sent[x]) > 0 /\ client[x].attempt \geq 1
  BY DEF ClientInv
<1>3. CASE Receive(x)
  <2>1. /\ client[x].pc = "waiting" /\ status[CurrentCall(x)] \in {"accepted", "rejected"}
        /\ client' = [client EXCEPT ![x].pc = "idle", ![x].outcome = status[CurrentCall(x)]]
        /\ UNCHANGED <<vars, sent, inFlight>>
    BY <1>3 DEF Receive
  <2>2. /\ client'[x].pc = "idle" /\ client'[x].outcome = status[CurrentCall(x)]
        /\ client'[x].attempt = client[x].attempt
        /\ client' \in [Collector -> ClientState]
        /\ \A y \in Collector \ {x} : client'[y] = client[y]
    BY <1>1, <2>1 DEF ClientState
  <2>. QED
    BY <1>1, <1>2, <2>1, <2>2 DEF DTypeOK
<1>4. CASE Fail(x)
  <2>1. client[x].pc = "waiting" /\ UNCHANGED <<vars, sent, inFlight>>
    BY <1>4 DEF Fail
  <2>2. CASE client[x].attempt > MaxRetries
    <3>1. /\ client' = [client EXCEPT ![x].pc = "idle", ![x].outcome = "dropped"]
      BY <1>4, <2>2 DEF Fail
    <3>2. /\ client'[x].pc = "idle" /\ client'[x].outcome = "dropped"
          /\ client'[x].attempt = client[x].attempt
          /\ client' \in [Collector -> ClientState]
          /\ \A y \in Collector \ {x} : client'[y] = client[y]
      BY <1>1, <3>1 DEF ClientState
    <3>. QED
      BY <1>1, <1>2, <2>1, <3>2 DEF DTypeOK
  <2>3. CASE ~(client[x].attempt > MaxRetries)
    <3>1. client' = [client EXCEPT ![x].pc = "backoff"]
      BY <1>4, <2>3 DEF Fail
    <3>2. /\ client'[x].pc = "backoff" /\ client'[x].attempt = client[x].attempt
          /\ client' \in [Collector -> ClientState]
          /\ \A y \in Collector \ {x} : client'[y] = client[y]
      BY <1>1, <3>1 DEF ClientState
    <3>. QED
      BY <1>1, <1>2, <2>1, <2>3, <3>2 DEF DTypeOK
  <2>. QED
    BY <2>2, <2>3
<1>5. CASE Retry(x)
  <2>1. /\ client[x].pc = "backoff" /\ UNCHANGED <<vars, sent>>
        /\ client' = [client EXCEPT ![x].pc = "waiting", ![x].attempt = @ + 1]
        /\ inFlight' = inFlight \cup {<<x, Len(sent[x]), client[x].attempt + 1>>}
    BY <1>5 DEF Retry
  <2>2. client[x].attempt + 1 \in 1..(MaxRetries + 1) /\ client[x].attempt + 1 \geq 1
    BY <1>1, <1>2, <2>1 DEF ClientInv
  <2>3. /\ client'[x].pc = "waiting" /\ client'[x].attempt = client[x].attempt + 1
        /\ client' \in [Collector -> ClientState]
        /\ \A y \in Collector \ {x} : client'[y] = client[y]
    BY <1>1, <2>1, <2>2 DEF ClientState
  <2>4. <<x, Len(sent[x]), client[x].attempt + 1>> \in Call
    BY <1>1, <1>2, <2>1, <2>2, CallOf
  <2>5. DTypeOK'
    BY <1>1, <2>1, <2>3, <2>4 DEF DTypeOK
  <2>6. \A c \in inFlight' \ inFlight : c = <<x, Len(sent[x]), client[x].attempt + 1>>
    BY <2>1
  <2>7. \A c \in inFlight' \ inFlight : c[1] = x /\ c[2] = Len(sent[x])
    BY <2>6
  <2>. QED
    BY <1>1, <2>1, <2>2, <2>3, <2>5, <2>7
<1>. QED
  BY <1>3, <1>4, <1>5 DEF ClientStep

-----------------------------------------------------------------------------
\* What a step of the backend does to the calls and the rows, as far as the
\* collectors can tell.
LEMMA AcceptedStays ==
  ASSUME TypeOK, CallInv, [Next]_vars, NEW c \in Call, status[c] = "accepted"
  PROVE  status'[c] = "accepted"
<1>0. status \in [Call -> Status] /\ (running = c => c # NoCall)
  BY NoCallAssumption DEF TypeOK
<1>1. ASSUME NEW d \in Call, NEW b \in Batch, Arrive(d, b) PROVE status'[c] = "accepted"
  BY <1>0, <1>1 DEF Arrive
<1>2. ASSUME NEW d \in Call, Cancel(d) PROVE status'[c] = "accepted"
  BY <1>0, <1>2 DEF Cancel, CallInv, QueueInv
<1>3. ASSUME queue # <<>>, NEW s,
             status' = [status EXCEPT ![Head(queue)] = s]
      PROVE  status'[c] = "accepted"
  <2>1. Head(queue) = queue[1] /\ 1 \in DOMAIN queue
    BY <1>3 DEF TypeOK
  <2>. QED
    BY <1>0, <1>3, <2>1 DEF CallInv, QueueInv
<1>4. CASE Ingest \/ \E applied \in BOOLEAN : IngestFails(applied)
  BY <1>3, <1>4 DEF Ingest, IngestFails
<1>5. CASE Evaluate \/ Restart \/ UNCHANGED vars
  BY <1>5 DEF Evaluate, Restart, vars, calls
<1>6. CASE Reply \/ \E applied \in BOOLEAN : EvaluateFails(applied)
  BY <1>0, <1>6 DEF Reply, EvaluateFails, CallInv, QueueInv
<1>7. CASE Crash
  BY <1>7 DEF Crash
<1>. QED
  BY <1>1, <1>2, <1>4, <1>5, <1>6, <1>7 DEF Next, Handle

\* No step of the backend makes a call, or changes what a call carries.
LEMMA BackendKeepsRequests ==
  ASSUME TypeOK, CallInv, BackendStep
  PROVE  /\ UNCHANGED request
         /\ \A c \in Call : status[c] = "new" => status'[c] = "new"
<1>0. status \in [Call -> Status]
  BY DEF TypeOK
<1>1. ASSUME NEW d \in Call, Cancel(d)
      PROVE  UNCHANGED request /\ \A c \in Call : status[c] = "new" => status'[c] = "new"
  BY <1>0, <1>1 DEF Cancel, CallInv, QueueInv
<1>2. ASSUME queue # <<>>, NEW s, status' = [status EXCEPT ![Head(queue)] = s]
      PROVE  \A c \in Call : status[c] = "new" => status'[c] = "new"
  <2>1. Head(queue) = queue[1] /\ 1 \in DOMAIN queue
    BY <1>2 DEF TypeOK
  <2>. QED
    BY <1>0, <1>2, <2>1 DEF CallInv, QueueInv
<1>3. CASE Ingest \/ \E applied \in BOOLEAN : IngestFails(applied)
  BY <1>2, <1>3 DEF Ingest, IngestFails
<1>4. CASE Evaluate \/ Restart
  BY <1>4 DEF Evaluate, Restart
<1>5. CASE Reply \/ \E applied \in BOOLEAN : EvaluateFails(applied)
  BY <1>0, <1>5, NoCallAssumption DEF Reply, EvaluateFails, CallInv, QueueInv
<1>6. CASE Crash
  BY <1>6 DEF Crash
<1>. QED
  BY <1>1, <1>3, <1>4, <1>5, <1>6 DEF BackendStep, Handle

\* The queue only loses calls: those that stay keep their order.
LEMMA BackendKeepsOrder ==
  ASSUME TypeOK, BackendStep,
         NEW i \in DOMAIN queue', NEW j \in DOMAIN queue', i \leq j
  PROVE  \E k, l \in DOMAIN queue :
            k \leq l /\ queue'[i] = queue[k] /\ queue'[j] = queue[l]
<1>0. queue \in Seq(Call)
  BY DEF TypeOK
<1>1. CASE UNCHANGED queue
  BY <1>1
<1>2. CASE queue' = <<>>
  BY <1>2
<1>3. CASE queue # <<>> /\ queue' = Tail(queue)
  <2>1. /\ queue'[i] = queue[i + 1] /\ i + 1 \in DOMAIN queue
        /\ queue'[j] = queue[j + 1] /\ j + 1 \in DOMAIN queue
        /\ i + 1 \leq j + 1
    BY <1>0, <1>3
  <2>. QED
    BY <2>1
<1>4. ASSUME NEW k \in DOMAIN queue, queue' = RemoveAt(queue, k)
      PROVE  \E m, l \in DOMAIN queue :
                m \leq l /\ queue'[i] = queue[m] /\ queue'[j] = queue[l]
  <2>1. /\ Len(queue') = Len(queue) - 1 /\ queue' \in Seq(Call)
        /\ queue'[i] = queue[IF i < k THEN i ELSE i + 1]
        /\ queue'[j] = queue[IF j < k THEN j ELSE j + 1]
    BY <1>0, <1>4, RemoveAtIndex
  <2>2. /\ (IF i < k THEN i ELSE i + 1) \in DOMAIN queue
        /\ (IF j < k THEN j ELSE j + 1) \in DOMAIN queue
        /\ (IF i < k THEN i ELSE i + 1) \leq (IF j < k THEN j ELSE j + 1)
    BY <1>0, <2>1
  <2>. QED
    BY <2>1, <2>2
<1>5. CASE \E c \in Call : Cancel(c)
  BY <1>4, <1>5 DEF Cancel
<1>6. CASE Ingest \/ \E applied \in BOOLEAN : IngestFails(applied)
  BY <1>3, <1>6 DEF Ingest, IngestFails
<1>7. CASE Evaluate \/ \E applied \in BOOLEAN : EvaluateFails(applied)
  BY <1>1, <1>7 DEF Evaluate, EvaluateFails
<1>8. CASE Reply \/ Crash \/ Restart
  BY <1>1, <1>2, <1>8 DEF Reply, Crash, Restart
<1>. QED
  BY <1>5, <1>6, <1>7, <1>8 DEF BackendStep, Handle

-----------------------------------------------------------------------------
\* The invariant, one kind of step at a time.
LEMMA SendKeepsDInv ==
  ASSUME DTypeOK, TypeOK, ClientInv, WireInv, NEW x \in Collector, NEW b \in Batch, Send(x, b)
  PROVE  DTypeOK' /\ ClientInv' /\ WireInv'
<1>1. /\ DTypeOK' /\ Len(sent'[x]) = Len(sent[x]) + 1
      /\ sent'[x][Len(sent[x]) + 1] = b
      /\ \A n \in 1..Len(sent[x]) : sent'[x][n] = sent[x][n]
      /\ \A y \in Collector \ {x} : sent'[y] = sent[y] /\ client'[y] = client[y]
      /\ client'[x] = [pc |-> "waiting", attempt |-> 1, outcome |-> "none"]
  BY SendTypes
<1>2. /\ b \in BatchOf(x, Len(sent[x]) + 1) /\ UNCHANGED vars
      /\ inFlight' = inFlight \cup {<<x, Len(sent[x]) + 1, 1>>}
  BY DEF Send
<1>3. \A y \in Collector : Len(sent[y]) \in Nat
  BY DEF DTypeOK
<1>4. ClientInv'
  <2>1. ASSUME NEW y \in Collector \ {x}
        PROVE  /\ client'[y] = client[y] /\ sent'[y] = sent[y]
               /\ CurrentCall(y)' = CurrentCall(y) /\ Idle(y)' = Idle(y)
    BY <1>1, <2>1 DEF CurrentCall, Idle
  <2>2. UNCHANGED status
    BY <1>2 DEF vars, calls
  <2>3. client'[x].pc = "waiting" /\ client'[x].attempt = 1 /\ Len(sent'[x]) > 0
    BY <1>1, <1>3
  <2>4. \A n \in 1..Len(sent'[x]) : sent'[x][n] \in BatchOf(x, n)
    BY <1>1, <1>2, <1>3 DEF ClientInv
  <2>5. \A y, n : BatchOf(y, n)' = BatchOf(y, n)
    BY DEF BatchOf
  <2>6. ~Idle(x)'
    BY <2>3 DEF Idle
  <2>. QED
    BY <2>1, <2>2, <2>3, <2>4, <2>5, <2>6 DEF ClientInv
<1>5. WireInv'
  <2>0. UNCHANGED <<status, request>>
    BY <1>2 DEF vars, calls
  <2>1. \A c \in Call : c[1] \in Collector /\ c[2] \in Nat /\ c[2] \geq 1
    BY CallParts
  <2>2. \A y \in Collector : /\ Len(sent'[y]) \in Nat /\ Len(sent[y]) \leq Len(sent'[y])
                             /\ \A n \in 1..Len(sent[y]) : sent'[y][n] = sent[y][n]
    BY <1>1, <1>3
  <2>3. \A c \in Call : c[2] \leq Len(sent[c[1]])
                          => c[2] \leq Len(sent'[c[1]]) /\ sent'[c[1]][c[2]] = sent[c[1]][c[2]]
    <3>1. SUFFICES ASSUME NEW c \in Call, c[2] \leq Len(sent[c[1]])
                   PROVE  c[2] \leq Len(sent'[c[1]]) /\ sent'[c[1]][c[2]] = sent[c[1]][c[2]]
      OBVIOUS
    <3>2. PICK y \in Collector, k \in Nat : y = c[1] /\ k = c[2] /\ k \geq 1
      BY <2>1
    <3>. QED
      BY <1>3, <2>2, <3>1, <3>2
  <2>4. \A c \in inFlight' : c[2] \leq Len(sent'[c[1]])
    <3>1. SUFFICES ASSUME NEW c \in inFlight' PROVE c[2] \leq Len(sent'[c[1]])
      OBVIOUS
    <3>2. CASE c \in inFlight
      BY <2>3, <3>2 DEF DTypeOK, WireInv
    <3>3. CASE c = <<x, Len(sent[x]) + 1, 1>>
      <4>1. c[1] = x /\ c[2] = Len(sent[x]) + 1
        BY <3>3
      <4>. QED
        BY <1>1, <1>3, <4>1
    <3>. QED
      BY <1>2, <3>2, <3>3
  <2>5. \A c \in Call : status'[c] # "new" => /\ c[2] \leq Len(sent'[c[1]])
                                              /\ request'[c] = sent'[c[1]][c[2]]
    BY <2>0, <2>3 DEF WireInv
  <2>. QED
    BY <2>4, <2>5 DEF WireInv
<1>. QED
  BY <1>1, <1>4, <1>5

LEMMA ClientKeepsDInv ==
  ASSUME DTypeOK, TypeOK, ClientInv, WireInv, NEW x \in Collector, ClientStep(x)
  PROVE  DTypeOK' /\ ClientInv' /\ WireInv'
<1>1. /\ DTypeOK' /\ UNCHANGED <<vars, sent>>
      /\ client[x].pc # "idle"
      /\ \A y \in Collector \ {x} : client'[y] = client[y]
      /\ \A c \in inFlight' \ inFlight : c[1] = x /\ c[2] = Len(sent[x])
      /\ client'[x].attempt \geq 1
      /\ client'[x].pc = "backoff" => client'[x].attempt \leq MaxRetries
      /\ (client'[x].pc = "idle" /\ client'[x].outcome = "accepted")
           => client'[x].attempt = client[x].attempt /\ status[CurrentCall(x)] = "accepted"
  BY ClientTypes
<1>2. UNCHANGED <<status, request>>
  BY <1>1 DEF vars, calls
<1>3. ClientInv'
  <2>1. ASSUME NEW y \in Collector \ {x}
        PROVE  CurrentCall(y)' = CurrentCall(y) /\ Idle(y)' = Idle(y)
    BY <1>1, <2>1 DEF CurrentCall, Idle
  <2>2. Len(sent[x]) > 0
    BY <1>1 DEF ClientInv
  <2>3. \A y, n : BatchOf(y, n)' = BatchOf(y, n)
    BY DEF BatchOf
  <2>4. (Idle(x)' /\ client'[x].outcome = "accepted")
           => status'[CurrentCall(x)'] = "accepted"
    BY <1>1, <1>2 DEF Idle, CurrentCall
  <2>. QED
    BY <1>1, <1>2, <2>1, <2>2, <2>3, <2>4 DEF ClientInv
<1>4. WireInv'
  <2>1. Len(sent[x]) \in Nat
    BY DEF DTypeOK
  <2>2. \A c \in inFlight' : c[2] \leq Len(sent[c[1]])
    BY <1>1, <2>1 DEF WireInv
  <2>. QED
    BY <1>1, <1>2, <2>2 DEF WireInv
<1>. QED
  BY <1>1, <1>3, <1>4

\* The call that was accepted stays so, whatever happens to the others.
LEMMA ClientInvStays ==
  ASSUME ClientInv, TypeOK, DTypeOK, CallInv, [Next]_vars, UNCHANGED <<client, sent>>
  PROVE  ClientInv'
<1>1. \A x \in Collector : CurrentCall(x)' = CurrentCall(x) /\ Idle(x)' = Idle(x)
  BY DEF CurrentCall, Idle
<1>2. ASSUME NEW x \in Collector, Idle(x), client[x].outcome = "accepted"
      PROVE  status'[CurrentCall(x)] = "accepted"
  <2>1. client[x].attempt \geq 1 /\ status[CurrentCall(x)] = "accepted"
    BY <1>2 DEF ClientInv
  <2>2. CurrentCall(x) \in Call
    <3>1. /\ client[x].attempt \in 1..(MaxRetries + 1)
          /\ Len(sent[x]) \in 1..MaxBatches
      BY <1>2, <2>1, RetriesAssumption DEF DTypeOK, ClientState, Idle
    <3>. QED
      BY <3>1, CallOf DEF CurrentCall
  <2>. QED
    BY <2>1, <2>2, AcceptedStays
<1>3. \A y, n : BatchOf(y, n)' = BatchOf(y, n)
  BY DEF BatchOf
<1>. QED
  BY <1>1, <1>2, <1>3 DEF ClientInv

LEMMA DeliverKeepsDInv ==
  ASSUME DTypeOK, TypeOK, CallInv, ClientInv, WireInv, NEW c \in Call, Deliver(c)
  PROVE  DTypeOK' /\ ClientInv' /\ WireInv'
<1>1. /\ c \in inFlight /\ Arrive(c, sent[c[1]][c[2]]) /\ inFlight' = inFlight \ {c}
      /\ UNCHANGED <<client, sent>>
  BY DEF Deliver
<1>2. [Next]_vars
  <2>1. [DNext]_dvars
    BY DEF DNext
  <2>. QED
    BY <2>1, StepsOfBackend
<1>3. ClientInv' /\ DTypeOK'
  BY <1>1, <1>2, ClientInvStays DEF DTypeOK
<1>4. WireInv'
  <2>1. /\ request' = [request EXCEPT ![c] = sent[c[1]][c[2]]]
        /\ status' = [status EXCEPT ![c] = "queued"]
        /\ DOMAIN request = Call /\ DOMAIN status = Call
    BY <1>1 DEF Arrive, TypeOK
  <2>2. c[2] \leq Len(sent[c[1]])
    BY <1>1 DEF WireInv
  <2>. QED
    BY <1>1, <2>1, <2>2 DEF WireInv
<1>. QED
  BY <1>3, <1>4

LEMMA BackendKeepsDInv ==
  ASSUME DInv, BackendStep
  PROVE  DTypeOK' /\ ClientInv' /\ WireInv'
<1>0. TypeOK /\ DTypeOK /\ CallInv /\ WireInv /\ ClientInv
  BY DEF DInv, IndInv
<1>1. UNCHANGED <<client, sent, inFlight>>
  BY DEF BackendStep
<1>2. [Next]_vars
  BY DEF BackendStep, Next
<1>3. ClientInv' /\ DTypeOK'
  BY <1>0, <1>1, <1>2, ClientInvStays DEF DTypeOK
<1>4. UNCHANGED request /\ \A c \in Call : status[c] = "new" => status'[c] = "new"
  BY <1>0, BackendKeepsRequests
<1>5. WireInv'
  BY <1>0, <1>1, <1>4 DEF WireInv
<1>. QED
  BY <1>3, <1>5

LEMMA DInvNext == DInv /\ [DNext]_dvars => DInv'
<1> SUFFICES ASSUME DInv, [DNext]_dvars PROVE DInv'
  OBVIOUS
<1>0. DTypeOK /\ TypeOK /\ IndInv /\ CallInv /\ RowsInv /\ ClientInv /\ WireInv
  BY DEF DInv, IndInv
<1>1. IndInv' /\ CallInv' /\ RowsInv'
  BY <1>0, StepsOfBackend, NextInv, CallInvNext, RowsInvNext
<1>2. DTypeOK' /\ ClientInv' /\ WireInv'
  <2>1. ASSUME NEW x \in Collector, NEW b \in Batch, Send(x, b) PROVE <1>2
    BY <1>0, <2>1, SendKeepsDInv
  <2>2. ASSUME NEW x \in Collector, ClientStep(x) PROVE <1>2
    BY <1>0, <2>2, ClientKeepsDInv
  <2>3. ASSUME NEW c \in Call, Deliver(c) PROVE <1>2
    BY <1>0, <2>3, DeliverKeepsDInv
  <2>4. ASSUME NEW c \in Call, Lose(c) PROVE <1>2
    <3>1. inFlight' \subseteq inFlight /\ UNCHANGED <<vars, client, sent>>
      BY <2>4 DEF Lose
    <3>. QED
      BY <1>0, <3>1 DEF DTypeOK, ClientInv, WireInv, Idle, CurrentCall,
                        BatchOf, vars, calls
  <2>5. CASE BackendStep
    BY <2>5, BackendKeepsDInv
  <2>6. CASE UNCHANGED dvars
    BY <1>0, <2>6 DEF DTypeOK, ClientInv, WireInv, Idle, CurrentCall,
                      BatchOf, dvars, vars, calls
  <2>. QED
    BY <2>1, <2>2, <2>3, <2>4, <2>5, <2>6 DEF DNext
<1>. QED
  BY <1>1, <1>2 DEF DInv

LEMMA DInvInit == DInit => DInv
<1> SUFFICES ASSUME DInit PROVE DInv
  OBVIOUS
<1>1. IndInv /\ CallInv /\ RowsInv
  BY InitInv, CallInvInit, RowsInvInit DEF DInit
<1>2. /\ sent = [x \in Collector |-> <<>>] /\ inFlight = {}
      /\ client = [x \in Collector |-> [pc |-> "idle", attempt |-> 0, outcome |-> "none"]]
      /\ status = [c \in Call |-> "new"]
  BY DEF DInit, Init
<1>3. [pc |-> "idle", attempt |-> 0, outcome |-> "none"] \in ClientState
  BY RetriesAssumption DEF ClientState
<1>4. DTypeOK
  <2>1. <<>> \in Seq(Batch) /\ Len(<<>>) = 0 /\ MaxBatches \in Nat
    BY RetriesAssumption
  <2>. QED
    BY <1>2, <1>3, <2>1 DEF DTypeOK
<1>5. ClientInv /\ WireInv
  BY <1>2 DEF ClientInv, WireInv, Idle
<1>. QED
  BY <1>1, <1>4, <1>5 DEF DInv

\* The inductive invariant of the system: the backend's own, with what a client
\* knows of its last call and what a call carries (client.py:42-73).
THEOREM DeliveryInvariant == DSpec => []DInv
<1>. QED
  BY DInvInit, DInvNext, PTL DEF DSpec

\* The clients, the batches they sent and the calls on the wire keep their types.
THEOREM DeliveryTypes == DSpec => []DTypeOK
<1>1. DInv => DTypeOK
  BY DEF DInv
<1>. QED
  BY <1>1, DeliveryInvariant, PTL

LEMMA AcceptedStored == DInv => AcceptedIsStored
<1> SUFFICES ASSUME DInv, NEW x \in Collector, Idle(x), client[x].outcome = "accepted"
             PROVE  \E c \in Attempts(x) :
                      /\ stored[c] \subseteq evaluated
                      /\ \A i \in Valid(LastBatch(x)) :
                           \E n \in stored[c] : metrics[n] = LastBatch(x)[i]
  BY DEF AcceptedIsStored
<1>1. client[x].attempt \in 1..(MaxRetries + 1) /\ Len(sent[x]) \in 1..MaxBatches
      /\ status[CurrentCall(x)] = "accepted"
  BY RetriesAssumption DEF DInv, ClientInv, DTypeOK, ClientState, Idle
<1>2. PICK c \in Call : c = CurrentCall(x) /\ c \in Attempts(x)
  BY <1>1, CallOf DEF CurrentCall, Attempts
<1>3. request[c] = LastBatch(x)
  <2>1. c[1] = x /\ c[2] = Len(sent[x])
    BY <1>2 DEF CurrentCall
  <2>. QED
    BY <1>1, <1>2, <2>1 DEF DInv, WireInv, LastBatch
<1>4. stored[c] \subseteq evaluated /\ HoldsBatch(c)
  BY <1>1, <1>2 DEF DInv, CallInv, CallRowsInv
<1>. QED
  BY <1>2, <1>3, <1>4 DEF HoldsBatch

\* A collector that was told "accepted" can forget its batch: every valid record
\* of it is stored and evaluated, however many attempts and crashes it took.
THEOREM DeliveryAcceptedStored == DSpec => []AcceptedIsStored
<1>. QED
  BY AcceptedStored, DeliveryInvariant, PTL

-----------------------------------------------------------------------------
\* The backend under the calls of the collectors is the backend under any calls: what
\* the network loses, delays and repeats is nothing that BackendProofs leaves out.
THEOREM DeliveryImplementsBackend == DSpec => Spec
<1>1. DInit => Init
  BY DEF DInit
<1>2. DInv /\ [DNext]_dvars => [Next]_vars
  BY StepsOfBackend DEF DInv
<1>. QED
  BY <1>1, <1>2, DeliveryInvariant, PTL DEF DSpec, Spec

\* So the system keeps every promise of the backend: one alert of a condition, alerts
\* and reachability that match the stored readings, a reading behind every alert, and
\* answers that mean the whole batch.
THEOREM DeliveryKeepsPromises ==
  DSpec => [](/\ OneActivePerKey /\ AlertsMatchReadings /\ AlertsAreJustified
              /\ ReachableMatchesAlert /\ AcceptedIsComplete)
BY DeliveryImplementsBackend, BackendDeduplicates, BackendAlertsMatch,
   BackendAlertsJustified, BackendReachable, BackendAcceptedComplete, PTL

\* Nor does a repeated or late call rewrite the alert history.
THEOREM DeliveryHistory == DSpec => HistoryIsKept
BY DeliveryImplementsBackend, BackendHistory, PTL

\* A lost, repeated or late call makes the table no other than the contract allows.
THEOREM DeliveryImplementsContract == DSpec => ImplementsContract
BY DeliveryImplementsBackend, BackendImplementsContract, PTL

-----------------------------------------------------------------------------
\* What a row says of its call: it is a record of the batch, about a device of the
\* collector, at the time the batch was made.
LEMMA RowOfCall ==
  ASSUME DInv, NEW c \in Call, NEW n \in stored[c]
  PROVE  /\ c[1] \in Collector /\ c[2] \in Nat /\ Len(sent[c[1]]) \in Nat
         /\ c[2] \in 1..Len(sent[c[1]]) /\ sent[c[1]][c[2]] \in Batch
         /\ n \in DOMAIN metrics /\ metrics[n].time = c[2]
         /\ metrics[n].device \in Polled[c[1]]
         /\ \E i \in Valid(sent[c[1]][c[2]]) : metrics[n] = sent[c[1]][c[2]][i]
<1>1. status[c] # "new" /\ n \in DOMAIN metrics
  BY DEF DInv, CallInv, CallRowsInv, IndInv, TypeOK
<1>2. c[2] \leq Len(sent[c[1]]) /\ request[c] = sent[c[1]][c[2]]
  BY <1>1 DEF DInv, WireInv
<1>3. c[1] \in Collector /\ c[2] \in Nat /\ c[2] \geq 1
  BY CallParts
<1>4. Len(sent[c[1]]) \in Nat
  BY <1>3 DEF DInv, DTypeOK
<1>5. PICK b : b = sent[c[1]][c[2]]
  OBVIOUS
<1>6. b \in Batch /\ \A i \in DOMAIN b : b[i].time = c[2] /\ b[i].device \in Polled[c[1]]
  BY <1>2, <1>3, <1>4, <1>5 DEF DInv, ClientInv, BatchOf
<1>7. PICK i \in Valid(b) : metrics[n] = b[i]
  BY <1>2, <1>5 DEF DInv, RowsInv
<1>8. i \in DOMAIN b
  BY <1>7 DEF Valid
<1>. QED
  BY <1>1, <1>2, <1>3, <1>4, <1>5, <1>6, <1>7, <1>8

\* Every row is the row of a call.
LEMMA RowHasCall ==
  ASSUME DInv, NEW n \in DOMAIN metrics
  PROVE  \E c \in Call : n \in stored[c]
BY DEF DInv, RowsInv

\* No call that reached the backend, or may still reach it, is for a batch after the
\* last one its collector sent.
LEMMA UnderWay ==
  ASSUME DInv, NEW x \in Collector
  PROVE  /\ Len(sent[x]) \in Nat
         /\ \A c \in Call : stored[c] # {} => (c[1] = x => c[2] \leq Len(sent[x]))
         /\ \A i \in DOMAIN queue :
              queue[i] \in Call /\ (queue[i][1] = x => queue[i][2] \leq Len(sent[x]))
         /\ \A c \in inFlight : c \in Call /\ (c[1] = x => c[2] \leq Len(sent[x]))
<1>1. Len(sent[x]) \in Nat
  BY DEF DInv, DTypeOK
<1>2. \A c \in Call : stored[c] # {} => status[c] # "new"
  BY DEF DInv, CallInv, CallRowsInv
<1>3. \A i \in DOMAIN queue : queue[i] \in Call /\ status[queue[i]] # "new"
  BY DEF DInv, IndInv, TypeOK, CallInv, QueueInv
<1>4. \A c \in Call : status[c] # "new" => c[2] \leq Len(sent[c[1]])
  BY DEF DInv, WireInv
<1>5. \A c \in inFlight : c \in Call /\ (c[1] = x => c[2] \leq Len(sent[x]))
  BY DEF DInv, DTypeOK, WireInv
<1>. QED
  BY <1>1, <1>2, <1>3, <1>4, <1>5

\* A new call on the wire is for the last batch of its collector, or a later one.
LEMMA LastInOrder ==
  ASSUME NEW x \in Collector, Len(sent[x]) \in Nat, NEW c \in Call, NEW d \in Call,
         c[1] = x => c[2] \leq Len(sent[x]), d[1] = x, d[2] \geq Len(sent[x])
  PROVE  InOrder(c, d)
<1>1. c[2] \in Nat /\ d[2] \in Nat
  BY CallParts
<1>. QED
  BY <1>1 DEF InOrder

LEMMA CallsOnWireKeepOrder ==
  ASSUME DInv, OrderInv, UNCHANGED <<stored, queue>>, NEW x \in Collector,
         \A c \in inFlight' \ inFlight :
           c \in Call /\ c[1] = x /\ c[2] \geq Len(sent[x])
  PROVE  OrderInv'
<1>1. \A c \in Call, d \in inFlight' \ inFlight : stored[c] # {} => InOrder(c, d)
  BY UnderWay, LastInOrder
<1>2. \A i \in DOMAIN queue, d \in inFlight' \ inFlight : InOrder(queue[i], d)
  BY UnderWay, LastInOrder
<1>3. /\ \A c \in Call, d \in inFlight' : stored[c] # {} => InOrder(c, d)
      /\ \A i \in DOMAIN queue, d \in inFlight' : InOrder(queue[i], d)
  BY <1>1, <1>2 DEF OrderInv
<1>. QED
  BY <1>3 DEF OrderInv, InOrder

LEMMA DeliverKeepsOrder ==
  ASSUME DInv, OrderInv, NEW c \in Call, Deliver(c)
  PROVE  OrderInv'
<1>1. /\ c \in inFlight /\ inFlight' = inFlight \ {c} /\ queue' = Append(queue, c)
      /\ ~\E e \in inFlight : Before(c, e)
      /\ UNCHANGED stored /\ queue \in Seq(Call) /\ inFlight \subseteq Call
  BY DEF Deliver, Arrive, ghosts, DInv, IndInv, TypeOK, DTypeOK
<1>2. \A d \in inFlight' : InOrder(c, d)
  <2>1. SUFFICES ASSUME NEW d \in inFlight, c[1] = d[1] PROVE c[2] \leq d[2]
    BY <1>1 DEF InOrder
  <2>2. ~(d[2] < c[2])
    BY <1>1, <2>1 DEF Before
  <2>3. c[2] \in Nat /\ d[2] \in Nat
    BY <1>1, CallParts
  <2>. QED
    BY <2>2, <2>3
<1>3. /\ DOMAIN queue' = DOMAIN queue \cup {Len(queue) + 1}
      /\ queue'[Len(queue) + 1] = c /\ Len(queue) \in Nat
      /\ \A i \in DOMAIN queue : queue'[i] = queue[i] /\ i \in Nat /\ i < Len(queue) + 1
  BY <1>1
<1>4. \A d \in Call, i \in DOMAIN queue' : stored[d] # {} => InOrder(d, queue'[i])
  BY <1>1, <1>3 DEF OrderInv
<1>5. \A i \in DOMAIN queue', d \in inFlight' : InOrder(queue'[i], d)
  BY <1>1, <1>2, <1>3 DEF OrderInv
<1>6. \A i, j \in DOMAIN queue' : i \leq j => InOrder(queue'[i], queue'[j])
  <2>1. InOrder(c, c)
    BY CallParts DEF InOrder
  <2>2. ASSUME NEW i \in DOMAIN queue', NEW j \in DOMAIN queue, i \leq j
        PROVE  i \in DOMAIN queue
    BY <1>3, <2>2
  <2>3. \A i \in DOMAIN queue : InOrder(queue[i], c)
    BY <1>1 DEF OrderInv
  <2>. QED
    BY <1>3, <2>1, <2>2, <2>3 DEF OrderInv
<1>. QED
  BY <1>1, <1>4, <1>5, <1>6 DEF OrderInv, InOrder

LEMMA BackendKeepsOrderInv ==
  ASSUME DInv, OrderInv, BackendStep
  PROVE  OrderInv'
<1>0. TypeOK /\ inFlight' = inFlight /\ [Next]_vars
  BY DEF DInv, IndInv, BackendStep, Next
<1>1. \A i, j \in DOMAIN queue' : i \leq j => InOrder(queue'[i], queue'[j])
  <2>1. SUFFICES ASSUME NEW i \in DOMAIN queue', NEW j \in DOMAIN queue', i \leq j
                 PROVE  InOrder(queue'[i], queue'[j])
    OBVIOUS
  <2>2. PICK k, l \in DOMAIN queue : k \leq l /\ queue'[i] = queue[k] /\ queue'[j] = queue[l]
    BY <1>0, <2>1, BackendKeepsOrder
  <2>. QED
    BY <2>2 DEF OrderInv
<1>2. \A i \in DOMAIN queue' : \E k \in DOMAIN queue : queue'[i] = queue[k]
  <2>1. SUFFICES ASSUME NEW i \in DOMAIN queue'
                 PROVE  \E k \in DOMAIN queue : queue'[i] = queue[k]
    OBVIOUS
  <2>2. i \leq i
    <3>1. IndInv'
      BY <1>0, NextInv DEF DInv
    <3>. QED
      BY <3>1 DEF IndInv, TypeOK
  <2>. QED
    BY <1>0, <2>2, BackendKeepsOrder
<1>3. \A i \in DOMAIN queue', d \in inFlight' : InOrder(queue'[i], d)
  BY <1>0, <1>2 DEF OrderInv
<1>4. CASE UNCHANGED <<metrics, stored, devices>>
  <2>1. \A c \in Call, i \in DOMAIN queue' : stored'[c] # {} => InOrder(c, queue'[i])
    BY <1>2, <1>4 DEF OrderInv
  <2>. QED
    BY <1>0, <1>1, <1>3, <1>4, <2>1 DEF OrderInv, InOrder
<1>5. CASE queue # <<>> /\ Store(Head(queue)) /\ queue' = Tail(queue)
  <2>1. PICK c \in Call : c = Head(queue) /\ Store(c)
    BY <1>0, <1>5, QueueHead
  <2>2. queue \in Seq(Call) /\ 1 \in DOMAIN queue /\ queue[1] = c
        /\ \A i \in DOMAIN queue : 1 \leq i
    BY <1>0, <1>5, <2>1 DEF TypeOK
  <2>3. /\ \A d \in Call : stored[d] # {} => InOrder(d, c)
        /\ \A i \in DOMAIN queue : InOrder(c, queue[i])
        /\ \A d \in inFlight : InOrder(c, d)
        /\ InOrder(c, c)
    BY <2>2 DEF OrderInv
  <2>4. /\ \A d \in Call \ {c} : stored'[d] = stored[d]
        /\ \A d \in Call : stored[d] \subseteq DOMAIN metrics
        /\ \A n \in stored'[c] : \A m \in DOMAIN metrics : m < n
        /\ DOMAIN metrics' \subseteq Nat /\ stored'[c] \subseteq DOMAIN metrics'
        /\ DOMAIN metrics \subseteq Nat
    <3>1. IndInv'
      BY <1>0, NextInv DEF DInv
    <3>2. DOMAIN metrics' \subseteq Nat
      BY <3>1 DEF IndInv, TypeOK
    <3>. QED
      BY <1>0, <2>1, <3>2, StoreRows DEF TypeOK
  <2>5. \A d, e \in Call : \A m \in stored'[d], n \in stored'[e] :
           m \leq n => InOrder(d, e)
    <3>1. SUFFICES ASSUME NEW d \in Call, NEW e \in Call,
                          NEW m \in stored'[d], NEW n \in stored'[e], m \leq n
                   PROVE  InOrder(d, e)
      OBVIOUS
    <3>2. CASE d # c /\ e # c
      BY <2>4, <3>1, <3>2 DEF OrderInv
    <3>3. CASE d # c /\ e = c
      BY <2>3, <2>4, <3>1, <3>3
    <3>4. CASE d = c /\ e # c
      <4>1. n \in DOMAIN metrics /\ n < m /\ m \in Nat /\ n \in Nat
        BY <2>4, <3>1, <3>4
      <4>. QED
        BY <3>1, <4>1
    <3>5. CASE d = c /\ e = c
      BY <2>3, <3>5
    <3>. QED
      BY <3>2, <3>3, <3>4, <3>5
  <2>6. \A d \in Call, i \in DOMAIN queue' : stored'[d] # {} => InOrder(d, queue'[i])
    BY <1>2, <2>3, <2>4 DEF OrderInv
  <2>7. \A d \in Call, e \in inFlight' : stored'[d] # {} => InOrder(d, e)
    BY <1>0, <2>3, <2>4 DEF OrderInv
  <2>. QED
    BY <1>1, <1>3, <2>5, <2>6, <2>7 DEF OrderInv, InOrder
<1>. QED
  BY <1>0, <1>4, <1>5, StoringSteps

LEMMA OrderInvNext == DInv /\ OrderInv /\ [DNext]_dvars => OrderInv'
<1> SUFFICES ASSUME DInv, OrderInv, [DNext]_dvars PROVE OrderInv'
  OBVIOUS
<1>0. DTypeOK /\ TypeOK /\ ClientInv
  BY DEF DInv, IndInv
<1>1. ASSUME NEW x \in Collector, NEW b \in Batch, Send(x, b) PROVE OrderInv'
  <2>1. UNCHANGED <<stored, queue>> /\ inFlight' = inFlight \cup {<<x, Len(sent[x]) + 1, 1>>}
    BY <1>1 DEF Send, vars, ghosts, calls
  <2>2. \A c \in inFlight' \ inFlight : c[1] = x /\ c[2] = Len(sent[x]) + 1
    BY <2>1
  <2>3. Len(sent[x]) \in Nat /\ inFlight' \subseteq Call
    BY <1>0, <1>1, SendTypes DEF DTypeOK
  <2>. QED
    BY <2>1, <2>2, <2>3, CallsOnWireKeepOrder
<1>2. ASSUME NEW x \in Collector, ClientStep(x) PROVE OrderInv'
  <2>1. UNCHANGED <<stored, queue>>
    BY <1>2 DEF ClientStep, Receive, Fail, Retry, vars, ghosts, calls
  <2>2. /\ \A c \in inFlight' \ inFlight : c[1] = x /\ c[2] = Len(sent[x])
        /\ inFlight' \subseteq Call
    BY <1>0, <1>2, ClientTypes DEF DTypeOK
  <2>3. Len(sent[x]) \in Nat
    BY <1>0 DEF DTypeOK
  <2>. QED
    BY <2>1, <2>2, <2>3, CallsOnWireKeepOrder
<1>3. ASSUME NEW c \in Call, Deliver(c) PROVE OrderInv'
  BY <1>3, DeliverKeepsOrder
<1>4. CASE (\E c \in Call : Lose(c)) \/ UNCHANGED dvars
  <2>1. UNCHANGED <<stored, queue>> /\ inFlight' \subseteq inFlight
    BY <1>4 DEF Lose, dvars, vars, ghosts, calls
  <2>. QED
    BY <2>1 DEF OrderInv, InOrder
<1>5. CASE BackendStep
  BY <1>5, BackendKeepsOrderInv
<1>. QED
  BY <1>1, <1>2, <1>3, <1>4, <1>5 DEF DNext

LEMMA OrderInvInit == DInit => OrderInv
BY DEF DInit, Init, OrderInv

\* The rows that the calls of a collector stored, its calls that wait and its calls on
\* the wire are in the order of their batches, retries, losses and restarts included.
THEOREM DeliveryOrder == DSpec => []OrderInv
BY OrderInvInit, OrderInvNext, DeliveryInvariant, PTL DEF DSpec

-----------------------------------------------------------------------------
\* A device of one collector has its rows from the calls of that collector.
LEMMA SameCollector ==
  ASSUME OwnDevices, DInv, NEW c \in Call, NEW d \in Call,
         NEW m \in stored[c], NEW n \in stored[d], metrics[m].device = metrics[n].device
  PROVE  c[1] = d[1]
<1>1. /\ c[1] \in Collector /\ metrics[m].device \in Polled[c[1]]
      /\ d[1] \in Collector /\ metrics[n].device \in Polled[d[1]]
  BY RowOfCall
<1>. QED
  BY <1>1 DEF OwnDevices

LEMMA RowsInOrder == OwnDevices /\ DInv /\ OrderInv => RowsOrdered
<1> SUFFICES ASSUME OwnDevices, DInv, OrderInv,
                    NEW m \in DOMAIN metrics, NEW n \in DOMAIN metrics, m \leq n,
                    metrics[m].device = metrics[n].device
             PROVE  metrics[m].time \leq metrics[n].time
  BY DEF RowsOrdered
<1>1. PICK c \in Call : m \in stored[c]
  BY RowHasCall
<1>2. PICK d \in Call : n \in stored[d]
  BY RowHasCall
<1>3. c[1] = d[1] /\ metrics[m].time = c[2] /\ metrics[n].time = d[2]
  BY <1>1, <1>2, SameCollector, RowOfCall
<1>. QED
  BY <1>1, <1>2, <1>3 DEF OrderInv, InOrder

\* Where no two collectors poll one device, the table has the readings of a device in
\* the order of their times (ingestion_service.py:52-61 appends, whatever the time).
THEOREM DeliveryRowsOrdered == OwnDevices => (DSpec => []RowsOrdered)
<1>1. ASSUME OwnDevices PROVE DSpec => []RowsOrdered
  BY <1>1, RowsInOrder, DeliveryInvariant, DeliveryOrder, PTL
<1>. QED
  BY <1>1

\* Two readings of a condition are about one device.
LEMMA SameDevice ==
  ASSUME NEW m, NEW n, SameKey(m, n)
  PROVE  metrics[m].device = metrics[n].device
<1>1. KeyOf(metrics[m]).device = metrics[m].device /\ KeyOf(metrics[n]).device = metrics[n].device
  BY DEF KeyOf, AlertKey
<1>. QED
  BY <1>1 DEF SameKey

\* Attempts repeat a record, but no record of its condition and time contradicts it.
LEMMA SameReading ==
  ASSUME OwnDevices, BatchesAgree, DInv,
         NEW m \in DOMAIN metrics, NEW n \in DOMAIN metrics, SameKey(m, n),
         metrics[m].time = metrics[n].time
  PROVE  Breaching(metrics[m]) <=> Breaching(metrics[n])
<1>1. PICK c \in Call : m \in stored[c]
  BY RowHasCall
<1>2. PICK d \in Call : n \in stored[d]
  BY RowHasCall
<1>3. c[1] = d[1] /\ c[2] = d[2]
  BY <1>1, <1>2, SameDevice, SameCollector, RowOfCall
<1>4. PICK b \in Batch : b = sent[c[1]][c[2]]
  BY <1>1, RowOfCall
<1>5. PICK i \in Valid(b) : metrics[m] = b[i]
  BY <1>1, <1>4, RowOfCall
<1>6. PICK j \in Valid(b) : metrics[n] = b[j]
  BY <1>2, <1>3, <1>4, RowOfCall
<1>. QED
  BY <1>5, <1>6 DEF BatchesAgree, SameKey

\* An alert is resolved by a batch later than the one that started it.
THEOREM DeliveryResolvedAfterStarted ==
  (OwnDevices /\ BatchesAgree) => (DSpec => []ResolvedAfterStarted)
<1>0. SUFFICES ASSUME OwnDevices, BatchesAgree PROVE DSpec => []ResolvedAfterStarted
  OBVIOUS
<1>1. DInv /\ RowsOrdered => ResolvedAfterStarted
  <2>1. SUFFICES ASSUME DInv, RowsOrdered, NEW a \in DOMAIN alerts,
                        alerts[a].status = "RESOLVED"
                 PROVE  alerts[a].resolvedAt > alerts[a].startedAt
    BY DEF ResolvedAfterStarted
  <2>2. PICK n \in evaluated : StartedBy(a, n) /\ \E m \in evaluated : EndedBy(a, n, m)
    BY <2>1 DEF DInv, IndInv, AlertsAreJustified
  <2>3. PICK m \in evaluated : EndedBy(a, n, m)
    BY <2>2
  <2>4. m \in DOMAIN metrics /\ n \in DOMAIN metrics /\ m \in Nat /\ n \in Nat
    BY <2>1 DEF DInv, IndInv, TypeOK
  <2>5. m > n /\ SameKey(m, n) /\ ~Breaching(metrics[m]) /\ Breaching(metrics[n])
        /\ metrics[m].time = alerts[a].resolvedAt /\ metrics[n].time = alerts[a].startedAt
    BY <2>2, <2>3 DEF StartedBy, EndedBy
  <2>6. metrics[n].time \leq metrics[m].time
    BY <2>1, <2>4, <2>5, SameDevice DEF RowsOrdered
  <2>7. metrics[n].time # metrics[m].time
    BY <1>0, <2>1, <2>4, <2>5, SameReading
  <2>8. metrics[n].time \in Nat /\ metrics[m].time \in Nat
    BY <2>1, <2>4, RowHasCall, RowOfCall
  <2>. QED
    BY <2>5, <2>6, <2>7, <2>8
<1>2. DSpec => []RowsOrdered
  BY <1>0, DeliveryRowsOrdered
<1>. QED
  BY <1>1, <1>2, DeliveryInvariant, PTL

\* What a collector was told "accepted" is in the table, under one of its last calls,
\* and has been evaluated.
LEMMA AcceptedRow ==
  ASSUME DInv, NEW x \in Collector, Idle(x), client[x].outcome = "accepted",
         NEW i \in Valid(LastBatch(x))
  PROVE  \E c \in Call : \E n \in stored[c] :
           /\ c[1] = x /\ c[2] = Len(sent[x])
           /\ n \in evaluated /\ metrics[n] = LastBatch(x)[i]
<1>1. PICK c \in Attempts(x) :
        /\ stored[c] \subseteq evaluated
        /\ \A j \in Valid(LastBatch(x)) : \E n \in stored[c] : metrics[n] = LastBatch(x)[j]
  BY AcceptedStored DEF AcceptedIsStored
<1>2. c \in Call /\ c[1] = x /\ c[2] = Len(sent[x])
  BY CallOf DEF Attempts, DInv, DTypeOK, Idle
<1>3. PICK n \in stored[c] : metrics[n] = LastBatch(x)[i]
  BY <1>1
<1>. QED
  BY <1>1, <1>2, <1>3

\* An evaluated reading has a last one of its condition, and the alert says what it says.
LEMMA LastReading ==
  ASSUME DInv, NEW n \in evaluated, Relevant(metrics[n].metric)
  PROVE  \E p \in evaluated :
           /\ SameKey(p, n) /\ \A m \in evaluated : SameKey(m, n) => m \leq p
           /\ Open(KeyOf(metrics[n])) <=> Breaching(metrics[p])
<1>1. evaluated \subseteq Nat /\ lastRow \in Nat /\ \A m \in evaluated : m \leq lastRow
  BY DEF DInv, IndInv, TypeOK
<1>2. PICK p \in {m \in evaluated : SameKey(m, n)} :
        \A m \in {m \in evaluated : SameKey(m, n)} : m \leq p
  <2>1. SameKey(n, n)
    BY DEF SameKey
  <2>. QED
    BY <1>1, <2>1, MaxOfNat
<1>3. /\ SameKey(p, n) /\ LastEvaluated(p)
      /\ \A m \in evaluated : SameKey(m, n) => m \leq p
  BY <1>2 DEF SameKey, LastEvaluated
<1>4. Open(KeyOf(metrics[p])) <=> Breaching(metrics[p])
  BY <1>2, <1>3 DEF DInv, IndInv, AgreeInv, SameKey
<1>5. KeyOf(metrics[p]) = KeyOf(metrics[n])
  BY <1>3 DEF SameKey
<1>. QED
  BY <1>2, <1>3, <1>4, <1>5

\* Rows evaluated after a row of the last batch of a collector, by its own calls, are
\* rows of that batch too.
LEMMA AfterLastBatch ==
  ASSUME DInv, OrderInv, NEW c \in Call, NEW d \in Call, NEW n \in stored[c],
         NEW p \in stored[d], n \leq p, c[1] = d[1], c[2] = Len(sent[c[1]])
  PROVE  d[2] = c[2]
<1>1. c[2] \leq d[2]
  BY DEF OrderInv, InOrder
<1>2. d[2] \in 1..Len(sent[d[1]]) /\ Len(sent[d[1]]) \in Nat
  BY RowOfCall
<1>. QED
  BY <1>1, <1>2

\* A late copy of an earlier batch cannot overturn what the accepted one says.
THEOREM DeliveryAlertsMatch ==
  (OwnDevices /\ BatchesAgree) => (DSpec => []AlertsMatchLastAccepted)
<1>0. SUFFICES ASSUME OwnDevices, BatchesAgree PROVE DSpec => []AlertsMatchLastAccepted
  OBVIOUS
<1>1. DInv /\ OrderInv => AlertsMatchLastAccepted
  <2>1. SUFFICES ASSUME DInv, OrderInv, NEW x \in Collector, Idle(x),
                        client[x].outcome = "accepted", NEW i \in Valid(LastBatch(x)),
                        Relevant(LastBatch(x)[i].metric)
                 PROVE  Open(KeyOf(LastBatch(x)[i])) <=> Breaching(LastBatch(x)[i])
    BY DEF AlertsMatchLastAccepted
  <2>2. PICK c \in Call : c[1] = x /\ c[2] = Len(sent[x]) /\ \E n \in stored[c] :
               n \in evaluated /\ metrics[n] = LastBatch(x)[i]
    BY <2>1, AcceptedRow
  <2>3. PICK n \in stored[c] : n \in evaluated /\ metrics[n] = LastBatch(x)[i]
    BY <2>2
  <2>4. PICK p \in evaluated : /\ SameKey(p, n)
                               /\ \A m \in evaluated : SameKey(m, n) => m \leq p
                               /\ Open(KeyOf(metrics[n])) <=> Breaching(metrics[p])
    BY <2>1, <2>3, LastReading
  <2>5. evaluated \subseteq DOMAIN metrics /\ n \leq p
    BY <2>1, <2>3, <2>4 DEF DInv, IndInv, TypeOK, SameKey
  <2>6. PICK d \in Call : p \in stored[d]
    BY <2>1, <2>5, RowHasCall
  <2>7. c[1] = d[1]
    BY <1>0, <2>1, <2>4, <2>6, SameDevice, SameCollector
  <2>8. d[2] = c[2]
    BY <2>1, <2>2, <2>5, <2>6, <2>7, AfterLastBatch
  <2>9. metrics[p].time = metrics[n].time
    BY <2>1, <2>6, <2>8, RowOfCall
  <2>10. Breaching(metrics[p]) <=> Breaching(metrics[n])
    BY <1>0, <2>1, <2>3, <2>4, <2>5, <2>9, SameReading
  <2>. QED
    BY <2>3, <2>4, <2>10
<1>. QED
  BY <1>1, DeliveryInvariant, DeliveryOrder, PTL

-----------------------------------------------------------------------------
\* The readings of condition k in the n-th batch of x, and the collectors that ever
\* sent one.
Readings(x, n, k) ==
  {i \in Valid(sent[x][n]) :
     Relevant(sent[x][n][i].metric) /\ KeyOf(sent[x][n][i]) = k}

Reporters(k) == {x \in Collector : \E n \in 1..Len(sent[x]) : Readings(x, n, k) # {}}

\* What is left of it where collectors share a device: once each collector that ever
\* reported a condition has its last batch accepted, with a reading of the condition in
\* it, the alert is open as one of these last readings says, and never as an older one.
LastHeard ==
  \A r \in Record :
    (/\ Reporters(KeyOf(r)) # {}
     /\ \A x \in Reporters(KeyOf(r)) :
          /\ Idle(x) /\ client[x].outcome = "accepted"
          /\ Readings(x, Len(sent[x]), KeyOf(r)) # {})
      => \E x \in Reporters(KeyOf(r)) : \E i \in Readings(x, Len(sent[x]), KeyOf(r)) :
           Open(KeyOf(r)) <=> Breaching(LastBatch(x)[i])

\* Where collectors share a device, and whatever their batches say, the alert of a
\* condition follows the last batch of one of them.
THEOREM DeliveryLastHeard == DSpec => []LastHeard
<1>1. DInv /\ OrderInv => LastHeard
  <2> SUFFICES ASSUME DInv, OrderInv, NEW k, Reporters(k) # {},
                      \A x \in Reporters(k) :
                        /\ Idle(x) /\ client[x].outcome = "accepted"
                        /\ Readings(x, Len(sent[x]), k) # {}
               PROVE  \E x \in Reporters(k) : \E i \in Readings(x, Len(sent[x]), k) :
                        Open(k) <=> Breaching(LastBatch(x)[i])
    BY DEF LastHeard
  <2>1. ASSUME NEW x \in Reporters(k)
        PROVE  \E c \in Call : \E n \in stored[c] :
                 /\ c[1] = x /\ c[2] = Len(sent[x]) /\ n \in evaluated
                 /\ Relevant(metrics[n].metric) /\ KeyOf(metrics[n]) = k
    <3>1. PICK i \in Readings(x, Len(sent[x]), k) : TRUE
      OBVIOUS
    <3>2. /\ i \in Valid(LastBatch(x)) /\ x \in Collector
          /\ Relevant(LastBatch(x)[i].metric) /\ KeyOf(LastBatch(x)[i]) = k
      BY <3>1 DEF Readings, LastBatch, Reporters
    <3>. QED
      BY <3>2, AcceptedRow
  <2>2. PICK n \in evaluated : Relevant(metrics[n].metric) /\ KeyOf(metrics[n]) = k
    BY <2>1
  <2>3. PICK p \in evaluated : SameKey(p, n) /\ (Open(k) <=> Breaching(metrics[p]))
                               /\ \A m \in evaluated : SameKey(m, n) => m \leq p
    BY <2>2, LastReading
  <2>4. PICK d \in Call : p \in stored[d]
    BY RowHasCall DEF DInv, IndInv, TypeOK
  <2>5. PICK y \in Collector : y = d[1]
    BY CallParts
  <2>6. Relevant(metrics[p].metric) /\ KeyOf(metrics[p]) = k
    BY <2>2, <2>3 DEF SameKey
  <2>7. PICK j \in Valid(sent[y][d[2]]) : metrics[p] = sent[y][d[2]][j]
    BY <2>4, <2>5, RowOfCall
  <2>8. d[2] \in 1..Len(sent[y]) /\ j \in Readings(y, d[2], k)
    BY <2>4, <2>5, <2>6, <2>7, RowOfCall DEF Readings
  <2>9. y \in Reporters(k)
    BY <2>8 DEF Reporters
  <2>10. PICK c \in Call : c[1] = y /\ c[2] = Len(sent[y]) /\ \E q \in stored[c] :
            q \in evaluated /\ Relevant(metrics[q].metric) /\ KeyOf(metrics[q]) = k
    BY <2>1, <2>9
  <2>11. PICK q \in stored[c] :
            q \in evaluated /\ Relevant(metrics[q].metric) /\ KeyOf(metrics[q]) = k
    BY <2>10
  <2>12. q \leq p
    BY <2>2, <2>3, <2>11 DEF SameKey
  <2>13. d[2] = Len(sent[y])
    BY <2>4, <2>5, <2>10, <2>12, AfterLastBatch
  <2>. QED
    BY <2>3, <2>7, <2>8, <2>9, <2>13 DEF LastBatch
<1>. QED
  BY <1>1, DeliveryInvariant, DeliveryOrder, PTL

-----------------------------------------------------------------------------
\* One evaluation keeps the episodes of a condition apart.
LEMMA EvaluateKeepsEpisodes ==
  ASSUME TypeOK, AlertsAreJustified, RowsOrdered, EpisodeInv,
         NEW n \in DOMAIN metrics, \A m \in evaluated : m < n, EvaluateRecord(metrics[n])
  PROVE  EpisodeInv'
<1>1. metrics[n] \in Record /\ AlertsTypeOK /\ n \in Nat /\ evaluated \subseteq Nat
      /\ evaluated \subseteq DOMAIN metrics
  BY DEF TypeOK
<1>2. CASE UNCHANGED alerts
  BY <1>2 DEF EpisodeInv
<1>3. CASE Relevant(metrics[n].metric) /\ Raise(metrics[n])
  <2>1. /\ Len(alerts') = Len(alerts) + 1 /\ alerts' \in Seq(AlertRow)
        /\ \A a \in DOMAIN alerts : a \in DOMAIN alerts' /\ alerts'[a] = alerts[a]
        /\ alerts'[Len(alerts) + 1] = NewAlert(metrics[n])
    BY <1>1, <1>3, RaiseRows, RecordAssumption
  <2>2. PICK last \in Nat : last = Len(alerts) + 1
    BY <1>1 DEF AlertsTypeOK
  <2>3. DOMAIN alerts' = DOMAIN alerts \cup {last} /\ \A a \in DOMAIN alerts : a < last
        /\ DOMAIN alerts \subseteq Nat
    BY <2>1, <2>2, <1>1 DEF AlertsTypeOK
  <2>4. alerts'[last].key = KeyOf(metrics[n]) /\ alerts'[last].startedAt = metrics[n].time
    BY <2>1, <2>2 DEF NewAlert
  <2>5. ASSUME NEW a \in DOMAIN alerts, alerts[a].key = KeyOf(metrics[n])
        PROVE  alerts[a].status = "RESOLVED" /\ alerts[a].resolvedAt \leq metrics[n].time
    <3>0. alerts[a] \in AlertRow
      BY <1>1 DEF AlertsTypeOK
    <3>1. a \notin FindActive(KeyOf(metrics[n])) /\ alerts[a].status \in {"ACTIVE", "RESOLVED"}
      BY <1>3, <3>0 DEF Raise, AlertRow
    <3>2. alerts[a].status = "RESOLVED"
      BY <2>5, <3>1 DEF FindActive
    <3>3. PICK p \in evaluated : StartedBy(a, p) /\ \E q \in evaluated : EndedBy(a, p, q)
      BY <3>2 DEF AlertsAreJustified
    <3>4. PICK q \in evaluated : metrics[q].time = alerts[a].resolvedAt /\ SameKey(q, n)
      BY <1>3, <2>5, <3>3 DEF EndedBy, StartedBy, SameKey
    <3>5. q \leq n
      <4>1. q < n /\ q \in Nat /\ n \in Nat
        BY <1>1
      <4>. QED
        BY <4>1
    <3>. QED
      BY <1>1, <3>2, <3>4, <3>5, SameDevice DEF RowsOrdered
  <2>. QED
    BY <2>1, <2>3, <2>4, <2>5 DEF EpisodeInv
<1>4. CASE Relevant(metrics[n].metric) /\ Resolve(metrics[n])
  <2>1. PICK a \in FindActive(KeyOf(metrics[n])) :
          /\ alerts' \in Seq(AlertRow) /\ Len(alerts') = Len(alerts)
          /\ \A i \in DOMAIN alerts \ {a} : alerts'[i] = alerts[i]
          /\ alerts'[a].key = alerts[a].key
          /\ alerts'[a].startedAt = alerts[a].startedAt
    BY <1>1, <1>4, ResolveRows, RecordAssumption
  <2>2. a \in DOMAIN alerts /\ alerts[a].status = "ACTIVE" /\ DOMAIN alerts' = DOMAIN alerts
    BY <1>1, <2>1 DEF FindActive, AlertsTypeOK
  <2>3. \A b \in DOMAIN alerts : ~(a < b /\ alerts[a].key = alerts[b].key)
    BY <2>2 DEF EpisodeInv
  <2>4. \A i \in DOMAIN alerts : /\ alerts'[i].key = alerts[i].key
                                 /\ alerts'[i].startedAt = alerts[i].startedAt
    BY <2>1
  <2>. QED
    BY <2>1, <2>2, <2>3, <2>4 DEF EpisodeInv
<1>. QED
  BY <1>1, <1>2, <1>3, <1>4, EvaluateCases, RecordAssumption

LEMMA EpisodeInvNext == DInv /\ RowsOrdered /\ EpisodeInv /\ [DNext]_dvars => EpisodeInv'
<1> SUFFICES ASSUME DInv, RowsOrdered, EpisodeInv, [DNext]_dvars PROVE EpisodeInv'
  OBVIOUS
<1>0. TypeOK /\ IndInv /\ AlertsAreJustified
  BY DEF DInv, IndInv
<1>1. CASE UNCHANGED alerts
  BY <1>1 DEF EpisodeInv
<1>2. CASE todo # {} /\ EvaluateRecord(metrics[Min(todo)])
  <2>1. todo \in SUBSET Nat /\ todo \subseteq DOMAIN metrics
    BY <1>0 DEF TypeOK
  <2>2. PICK n \in todo : n = Min(todo)
    BY <1>2, <2>1, MinOfNat
  <2>3. \A m \in evaluated : m < n
    BY <1>0 DEF IndInv, LoopInv
  <2>. QED
    BY <1>0, <1>2, <2>1, <2>2, <2>3, EvaluateKeepsEpisodes
<1>3. [Next]_vars
  BY StepsOfBackend DEF DInv
<1>4. [Next]_vars => \/ UNCHANGED alerts
                     \/ todo # {} /\ EvaluateRecord(metrics[Min(todo)])
  BY DEF Next, Handle, Arrive, Cancel, Ingest, IngestFails, Evaluate, EvaluateFails,
         Reply, Crash, Restart, tables, vars
<1>. QED
  BY <1>1, <1>2, <1>3, <1>4

\* An episode of a condition ends before the next one starts
\* (engine.py:104-157).
THEOREM DeliveryEpisodes == OwnDevices => (DSpec => []EpisodeInv)
<1>1. DInit => EpisodeInv
  BY DEF DInit, Init, EngineInit, EpisodeInv
<1>2. ASSUME OwnDevices PROVE DSpec => []EpisodeInv
  BY <1>1, <1>2, EpisodeInvNext, DeliveryInvariant, DeliveryRowsOrdered, PTL DEF DSpec
<1>. QED
  BY <1>2

\* A batch whose answer was lost is stored again by the next
\* attempt but opens no second episode of the same breach.
THEOREM DeliveryNoDuplicateEpisode ==
  (OwnDevices /\ BatchesAgree) => (DSpec => []NoDuplicateEpisode)
<1>1. DInv /\ ResolvedAfterStarted /\ EpisodeInv => NoDuplicateEpisode
  <2>1. SUFFICES ASSUME DInv, ResolvedAfterStarted, EpisodeInv,
                        NEW a \in DOMAIN alerts, NEW b \in DOMAIN alerts, a < b,
                        alerts[a].key = alerts[b].key,
                        alerts[a].startedAt = alerts[b].startedAt
                 PROVE  FALSE
    <3>1. DInv => \A a, b \in DOMAIN alerts : a = b \/ a < b \/ b < a
      BY DEF DInv, IndInv, TypeOK, AlertsTypeOK
    <3>. QED
      BY <3>1 DEF NoDuplicateEpisode
  <2>2. alerts[a].resolvedAt \leq alerts[b].startedAt
        /\ alerts[a].resolvedAt > alerts[a].startedAt
    BY <2>1 DEF EpisodeInv, ResolvedAfterStarted
  <2>3. alerts[a] \in AlertRow /\ alerts[b] \in AlertRow
    BY <2>1 DEF DInv, IndInv, TypeOK, AlertsTypeOK
  <2>4. alerts[a].resolvedAt \in Int /\ alerts[a].startedAt \in Int
    BY <2>3 DEF AlertRow
  <2>. QED
    BY <2>1, <2>2, <2>4
<1>. QED
  BY <1>1, DeliveryInvariant, DeliveryResolvedAfterStarted, DeliveryEpisodes, PTL

-----------------------------------------------------------------------------
\* A transaction leaves the row of a device alone or stamps it with the time of
\* a record it stores.
LEMMA StoreStamps ==
  ASSUME TypeOK, NEW c \in Call, Store(c)
  PROVE  /\ DOMAIN devices \subseteq DOMAIN devices'
         /\ \A n \in DOMAIN metrics : n \in DOMAIN metrics' /\ metrics'[n] = metrics[n]
         /\ \A d \in DOMAIN devices' :
              \/ d \in DOMAIN devices /\ devices'[d] = devices[d]
              \/ \E n \in DOMAIN metrics' \ DOMAIN metrics :
                   /\ \A m \in DOMAIN metrics : m \leq n
                   /\ devices'[d].lastSeen = metrics'[n].time /\ metrics'[n].device = d
<1>1. PICK b : b = request[c]
  OBVIOUS
<1>2. b \in Batch \cup {<<>>} /\ StoreMetrics(b) /\ StoreDevices(b)
  BY <1>1 DEF TypeOK, Store
<1>3. /\ DOMAIN metrics' = DOMAIN metrics \cup RowsOf(b)
      /\ \A n \in DOMAIN metrics : metrics'[n] = metrics[n]
      /\ \A n \in RowsOf(b) : metrics'[n] = b[n - lastRow]
  BY <1>2, StoreMetricsType
<1>4. /\ lastRow \in Nat /\ DOMAIN metrics \subseteq 1..lastRow
      /\ Valid(b) \subseteq 1..Len(b) /\ Len(b) \in Nat
      /\ RowsOf(b) \cap DOMAIN metrics = {}
  BY <1>2, ValidType, RowsType DEF TypeOK
<1>5. ASSUME NEW i \in Valid(b)
      PROVE  /\ lastRow + i \in DOMAIN metrics' \ DOMAIN metrics
             /\ metrics'[lastRow + i] = b[i]
             /\ \A m \in DOMAIN metrics : m \leq lastRow + i
  <2>1. lastRow + i \in RowsOf(b) /\ (lastRow + i) - lastRow = i
    BY <1>4 DEF RowsOf
  <2>2. metrics'[lastRow + i] = b[i]
    BY <1>3, <2>1
  <2>3. \A m \in DOMAIN metrics : m \leq lastRow + i
    BY <1>4
  <2>. QED
    BY <1>3, <1>4, <2>1, <2>2, <2>3
<1> DEFINE Of(d) == {i \in Valid(b) : b[i].device = d}
<1>6. /\ DOMAIN devices' = DOMAIN devices \cup {b[i].device : i \in Valid(b)}
      /\ \A d \in DOMAIN devices' :
           IF Of(d) = {} THEN devices'[d] = devices[d]
                         ELSE devices'[d].lastSeen = b[Max(Of(d))].time
  BY <1>2 DEF StoreDevices
<1>7. ASSUME NEW d \in DOMAIN devices', Of(d) # {}
      PROVE  \E n \in DOMAIN metrics' \ DOMAIN metrics :
               /\ \A m \in DOMAIN metrics : m \leq n
               /\ devices'[d].lastSeen = metrics'[n].time /\ metrics'[n].device = d
  <2>1. PICK i : i = Max(Of(d))
    OBVIOUS
  <2>2. i \in Of(d)
    BY <1>2, <1>7, <2>1, LastPosition
  <2>3. i \in Valid(b) /\ b[i].device = d
    BY <2>2
  <2>4. devices'[d].lastSeen = b[i].time
    BY <1>6, <1>7, <2>1
  <2>5. lastRow + i \in DOMAIN metrics' \ DOMAIN metrics /\ metrics'[lastRow + i] = b[i]
    BY <1>5, <2>3
  <2>. QED
    BY <1>5, <2>3, <2>4, <2>5
<1>8. \A d \in DOMAIN devices' : Of(d) = {} => d \in DOMAIN devices
  BY <1>6
<1>. QED
  BY <1>3, <1>6, <1>7, <1>8

\* The rows of the devices change with the transaction of a batch only.
LEMMA StampingSteps ==
  ASSUME DTypeOK, TypeOK, [DNext]_dvars
  PROVE  UNCHANGED <<metrics, devices>> \/ \E c \in Call : Store(c)
<1>1. CASE BackendStep
  <2>1. [Next]_vars
    BY <1>1 DEF BackendStep, Next
  <2>. QED
    BY <2>1, StoringSteps, QueueHead
<1>2. CASE UNCHANGED dvars
  BY <1>2 DEF dvars, vars, tables
<1>3. ASSUME NEW x \in Collector, ClientStep(x) PROVE UNCHANGED <<metrics, devices>>
  BY <1>3 DEF ClientStep, Receive, Fail, Retry, vars, tables
<1>4. ASSUME NEW x \in Collector, NEW b \in Batch, Send(x, b)
      PROVE  UNCHANGED <<metrics, devices>>
  BY <1>4 DEF Send, vars, tables
<1>5. ASSUME NEW c \in Call, Deliver(c) \/ Lose(c) PROVE UNCHANGED <<metrics, devices>>
  BY <1>5 DEF Deliver, Arrive, Lose, vars, tables
<1>. QED
  BY <1>1, <1>2, <1>3, <1>4, <1>5 DEF DNext

LEMMA LastSeenInvNext == DInv /\ LastSeenInv /\ [DNext]_dvars => LastSeenInv'
<1> SUFFICES ASSUME DInv, LastSeenInv, [DNext]_dvars PROVE LastSeenInv'
  OBVIOUS
<1>0. DTypeOK /\ TypeOK
  BY DEF DInv, IndInv
<1>1. CASE UNCHANGED <<metrics, devices>>
  BY <1>1 DEF LastSeenInv
<1>2. ASSUME NEW c \in Call, Store(c) PROVE LastSeenInv'
  BY <1>0, <1>2, StoreStamps DEF LastSeenInv
<1>. QED
  BY <1>0, <1>1, <1>2, StampingSteps

\* last_seen is always the time of a stored row of the device (ingestion_service.py:44).
THEOREM DeliveryLastSeen == DSpec => []LastSeenInv
<1>1. DInit => LastSeenInv
  BY DEF DInit, Init, LastSeenInv
<1>. QED
  BY <1>1, LastSeenInvNext, DeliveryInvariant, PTL DEF DSpec

\* last_seen never goes back, although the transaction does
\* not look at the value it overwrites.
THEOREM DeliveryLastSeenAdvances == OwnDevices => (DSpec => LastSeenAdvances)
<1>0. SUFFICES ASSUME OwnDevices PROVE DSpec => LastSeenAdvances
  OBVIOUS
<1> DEFINE Advance == \A d \in DOMAIN devices :
             d \in DOMAIN devices' /\ devices'[d].lastSeen \geq devices[d].lastSeen
<1>1. DInv /\ DInv' /\ RowsOrdered' /\ LastSeenInv /\ [DNext]_dvars => [Advance]_dvars
  <2> SUFFICES ASSUME DInv, DInv', RowsOrdered', LastSeenInv, [DNext]_dvars PROVE Advance
    OBVIOUS
  <2>0. DTypeOK /\ TypeOK /\ DInv'
    BY DEF DInv, IndInv
  <2>1. ASSUME NEW d \in DOMAIN devices, devices'[d] = devices[d]
        PROVE  devices'[d].lastSeen \geq devices[d].lastSeen
    <3>1. devices[d].lastSeen \in Int
      BY <2>0 DEF TypeOK
    <3>. QED
      BY <2>1, <3>1
  <2>2. CASE UNCHANGED <<metrics, devices>>
    BY <2>1, <2>2
  <2>3. ASSUME NEW c \in Call, Store(c) PROVE Advance
    <3>1. SUFFICES ASSUME NEW d \in DOMAIN devices
                   PROVE  d \in DOMAIN devices' /\ devices'[d].lastSeen \geq devices[d].lastSeen
      OBVIOUS
    <3>2. d \in DOMAIN devices'
      BY <2>0, <2>3, StoreStamps
    <3>3. ASSUME NEW n \in DOMAIN metrics', \A m \in DOMAIN metrics : m \leq n,
                 devices'[d].lastSeen = metrics'[n].time, metrics'[n].device = d
          PROVE  devices'[d].lastSeen \geq devices[d].lastSeen
      <4>1. PICK m \in DOMAIN metrics :
               metrics[m].device = d /\ metrics[m].time = devices[d].lastSeen
        BY DEF LastSeenInv
      <4>2. m \in DOMAIN metrics' /\ metrics'[m] = metrics[m] /\ m \leq n
        BY <2>0, <2>3, <3>3, StoreStamps
      <4>3. metrics'[m].time \leq metrics'[n].time
        BY <3>3, <4>1, <4>2 DEF RowsOrdered
      <4>4. metrics'[m].time \in Int /\ metrics'[n].time \in Int
        BY <2>0, <4>2, RecordAssumption DEF TelemetryRecord, DInv, IndInv, TypeOK
      <4>. QED
        BY <3>3, <4>1, <4>2, <4>3, <4>4
    <3>. QED
      BY <2>0, <2>1, <2>3, <3>2, <3>3, StoreStamps
  <2>. QED
    BY <2>0, <2>2, <2>3, StampingSteps
<1>2. DSpec => []RowsOrdered
  BY <1>0, DeliveryRowsOrdered
<1>. QED
  BY <1>1, <1>2, DeliveryInvariant, DeliveryLastSeen, PTL DEF DSpec, LastSeenAdvances
=============================================================================
