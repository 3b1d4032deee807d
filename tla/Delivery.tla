------------------------------ MODULE Delivery ------------------------------
(***************************************************************************)
(* Collectors sending their batches to the backend: the gRPC client        *)
(* (src/Code/collector/grpc_client/client.py) as the poll loop drives it   *)
(* (src/Code/collector/main.py), a network that loses calls and answers,   *)
(* and the backend.  A collector sends one batch at a time; every attempt  *)
(* of a send is a call of its own.                                         *)
(*                                                                         *)
(* A channel is one HTTP/2 connection, so the calls of a collector reach   *)
(* the backend in the order they were made, if they do.                    *)
(***************************************************************************)
EXTENDS Backend

CONSTANTS Collector,
          Polled,      \* Polled[x]: the devices in the device file of collector x
          MaxRetries,  \* max_retries: attempts after the first one
          MaxBatches   \* bound on the batches one collector sends

ASSUME RetriesAssumption == MaxRetries \in Nat /\ MaxBatches \in Nat

ASSUME CallAssumption ==
  Call = Collector \X (1..MaxBatches) \X (1..MaxRetries + 1)

VARIABLES client,    \* client[x]: the local state of send_batch in collector x
          sent,      \* sent[x]: the batches x has built so far
          inFlight   \* the calls made that have not reached the backend

dvars == <<vars, client, sent, inFlight>>

\* "waiting" awaits the stub, "backoff" sleeps before the next attempt; outcome
\* is what the last send_batch returned: a response or None ("dropped").
ClientState == [pc : {"idle", "waiting", "backoff"},
                attempt : 0..MaxRetries + 1,
                outcome : {"none", "accepted", "rejected", "dropped"}]

DInit == /\ Init
         /\ client = [x \in Collector |-> [pc |-> "idle", attempt |-> 0,
                                           outcome |-> "none"]]
         /\ sent = [x \in Collector |-> <<>>]
         /\ inFlight = {}

CurrentCall(x) == <<x, Len(sent[x]), client[x].attempt>>

\* The n-th batch of x: it is about devices of x, and the clock of a collector moves
\* on between two polls, so it carries the time n.
BatchOf(x, n) ==
  {b \in Batch : \A i \in DOMAIN b : b[i].time = n /\ b[i].device \in Polled[x]}

-----------------------------------------------------------------------------
\* send_batch is called with a new batch and makes its first attempt.
Send(x, b) ==
  /\ client[x].pc = "idle"
  /\ Len(sent[x]) < MaxBatches
  /\ b \in BatchOf(x, Len(sent[x]) + 1)
  /\ sent' = [sent EXCEPT ![x] = Append(@, b)]
  /\ client' = [client EXCEPT ![x] = [pc |-> "waiting", attempt |-> 1,
                                      outcome |-> "none"]]
  /\ inFlight' = inFlight \cup {<<x, Len(sent[x]) + 1, 1>>}
  /\ UNCHANGED vars

\* Slip: any answer counts as a success.
ReceiveAny(x) ==
  /\ client[x].pc = "waiting"
  /\ status[CurrentCall(x)] \in {"accepted", "rejected"}
  /\ client' = [client EXCEPT ![x].pc = "idle", ![x].outcome = "accepted"]
  /\ UNCHANGED <<vars, sent, inFlight>>

\* The answer comes back in time; it is returned whatever it says.
Receive(x) ==
  /\ client[x].pc = "waiting"
  /\ status[CurrentCall(x)] \in {"accepted", "rejected"}
  /\ client' = [client EXCEPT ![x].pc = "idle",
                              ![x].outcome = status[CurrentCall(x)]]
  /\ UNCHANGED <<vars, sent, inFlight>>

\* Slip: one attempt too many.
FailOnceMore(x) ==
  /\ client[x].pc = "waiting"
  /\ client' = IF client[x].attempt > MaxRetries + 1
                 THEN [client EXCEPT ![x].pc = "idle", ![x].outcome = "dropped"]
                 ELSE [client EXCEPT ![x].pc = "backoff"]
  /\ UNCHANGED <<vars, sent, inFlight>>

\* AioRpcError: the deadline has passed, or the connection is gone.  Neither
\* says what the backend has done, or will still do, with the call.
Fail(x) ==
  /\ client[x].pc = "waiting"
  /\ client' = IF client[x].attempt > MaxRetries
                 THEN [client EXCEPT ![x].pc = "idle", ![x].outcome = "dropped"]
                 ELSE [client EXCEPT ![x].pc = "backoff"]
  /\ UNCHANGED <<vars, sent, inFlight>>

\* Slip: the attempts are not counted.
RetryUncounted(x) ==
  /\ client[x].pc = "backoff"
  /\ client' = [client EXCEPT ![x].pc = "waiting"]
  /\ inFlight' = inFlight \cup {<<x, Len(sent[x]), client[x].attempt + 1>>}
  /\ UNCHANGED <<vars, sent>>

\* The backoff sleep is over: the same batch once more.
Retry(x) ==
  /\ client[x].pc = "backoff"
  /\ client' = [client EXCEPT ![x].pc = "waiting", ![x].attempt = @ + 1]
  /\ inFlight' = inFlight \cup {<<x, Len(sent[x]), client[x].attempt + 1>>}
  /\ UNCHANGED <<vars, sent>>

\* The calls of x made before c.
Before(c, e) == /\ e[1] = c[1]
                /\ e[2] < c[2] \/ (e[2] = c[2] /\ e[3] < c[3])

Deliver(c) ==
  /\ c \in inFlight
  /\ ~\E e \in inFlight : Before(c, e)
  /\ Arrive(c, sent[c[1]][c[2]])
  /\ inFlight' = inFlight \ {c}
  /\ UNCHANGED <<client, sent>>

Lose(c) ==
  /\ c \in inFlight
  /\ inFlight' = inFlight \ {c}
  /\ UNCHANGED <<vars, client, sent>>

ClientStep(x) == Receive(x) \/ Fail(x) \/ Retry(x)

BackendStep == /\ \/ \E c \in Call : Cancel(c)
                  \/ Handle \/ Crash \/ Restart
               /\ UNCHANGED <<client, sent, inFlight>>

DNext == \/ \E x \in Collector, b \in Batch : Send(x, b)
         \/ \E x \in Collector : ClientStep(x)
         \/ \E c \in Call : Deliver(c) \/ Lose(c)
         \/ BackendStep

\* The deadline of a call and the backoff sleep are timers of the collector's
\* own event loop: they fire whatever the network and the backend do.
DSpec == /\ DInit /\ [][DNext]_dvars
         /\ \A x \in Collector : WF_dvars(ClientStep(x))

-----------------------------------------------------------------------------
DTypeOK == /\ client \in [Collector -> ClientState]
           /\ sent \in [Collector -> Seq(Batch)]
           /\ \A x \in Collector : Len(sent[x]) \leq MaxBatches
           /\ inFlight \subseteq Call

Idle(x) == client[x].pc = "idle" /\ Len(sent[x]) > 0

LastBatch(x) == sent[x][Len(sent[x])]

Attempts(x) == {<<x, Len(sent[x]), a>> : a \in 1..MaxRetries + 1}

\* A collector told "accepted" can forget the batch: the backend has stored and
\* evaluated every valid record of it (client.py:56-59, main.py:117).
AcceptedIsStored ==
  \A x \in Collector :
    (Idle(x) /\ client[x].outcome = "accepted") =>
      \E c \in Attempts(x) :
        /\ stored[c] \subseteq evaluated
        /\ \A i \in Valid(LastBatch(x)) :
             \E n \in stored[c] : metrics[n] = LastBatch(x)[i]

\* Where no two collectors poll one device the alerts follow a collector: once its
\* last batch is accepted, the alert of each condition in it is open exactly when the
\* batch says so; a late copy of an earlier batch cannot overturn it.
AlertsMatchLastAccepted ==
  \A x \in Collector :
    (Idle(x) /\ client[x].outcome = "accepted") =>
      \A i \in Valid(LastBatch(x)) :
        Relevant(LastBatch(x)[i].metric) =>
          (Open(KeyOf(LastBatch(x)[i])) <=> Breaching(LastBatch(x)[i]))

\* Attempts repeated after a lost answer write their rows again but never open
\* a second episode of the same breach (client.py:54-72, engine.py:105-106).
NoDuplicateEpisode ==
  \A m, n \in DOMAIN alerts :
    (alerts[m].key = alerts[n].key /\ alerts[m].startedAt = alerts[n].startedAt)
      => m = n

\* Where no two collectors poll one device an alert is not resolved before it started:
\* no reading is evaluated after a later one (engine.py:119-122 compares no timestamps).
ResolvedAfterStarted ==
  \A n \in DOMAIN alerts :
    alerts[n].status = "RESOLVED" => alerts[n].resolvedAt > alerts[n].startedAt

\* Where no two collectors poll one device last_seen never goes back
\* (ingestion_service.py:44 writes the record's timestamp without looking at the row's).
LastSeenAdvances ==
  [][\A d \in DOMAIN devices :
        d \in DOMAIN devices' /\ devices'[d].lastSeen \geq devices[d].lastSeen]_dvars

\* send_batch returns, so one dead backend or lost call never stops the loop
\* over the devices (client.py:3-5, 42-73).
SendReturns ==
  \A x \in Collector : client[x].pc # "idle" ~> client[x].pc = "idle"

\* README.md:455-456: "current retry/backoff drops a batch only after exhausting
\* configured retries": a batch of which nothing was stored has had every attempt.
DroppedOnlyAfterRetries ==
  \A x \in Collector :
    (/\ Idle(x) /\ client[x].outcome # "accepted"
     /\ \A c \in Attempts(x) : stored[c] = {})
      => client[x].attempt = MaxRetries + 1
=============================================================================
