------------------------------- MODULE Backend -------------------------------
(***************************************************************************)
(* The ingestion path of the backend: the gRPC servicer                    *)
(* (src/Code/backend/grpc_server/servicer.py), the ingestion service       *)
(* (src/Code/backend/services/ingestion_service.py) and the alert engine,  *)
(* over the four tables of src/Code/backend/models/orm.py.                 *)
(*                                                                         *)
(* The handler is a coroutine that never awaits, so the event loop runs    *)
(* one call at a time and in the order the calls came in.  It is not       *)
(* atomic, though: it commits one transaction for the whole batch, then    *)
(* one per evaluated record.  REST readers, a failing database and a crash *)
(* of the process see, or leave behind, the states between the commits.    *)
(***************************************************************************)
EXTENDS AlertEngine, SequencesExt

CONSTANTS Call,     \* the calls of SendTelemetryBatch
          NoCall,   \* no call is being handled
          Batch,    \* the batches a call may carry
          NoDevice  \* an empty device_id

\* A batch may hold malformed records too; the well-formed ones are Records.
IsValid(r) == r.device # NoDevice /\ r.metric # ""

ASSUME BatchAssumption ==
  \A b \in Batch : /\ b \in Seq([device : Device \cup {NoDevice},
                                 interface : Interface \cup {NoInterface},
                                 index : Int, metric : STRING,
                                 value : Int, time : Int])
                   /\ \A i \in DOMAIN b : IsValid(b[i]) => b[i] \in Record

ASSUME NoCallAssumption == NoCall \notin Call

VARIABLES metrics,     \* telemetry_metrics: the rows in it, by primary key
          lastRow,     \* the last primary key given out
          devices,     \* devices: reachable and last_seen of the known ones
          interfaces,  \* interfaces: the name of each known <<device, index>>
          status,      \* status[c]: how far call c got
          request,     \* request[c]: the batch c carries
          queue,       \* the calls the event loop has not started
          running,     \* the call being handled
          todo,        \* the rows of its batch not evaluated yet
          up           \* the backend process runs

\* History variables: the program keeps neither.
VARIABLES evaluated,   \* the rows the alert engine has evaluated
          stored       \* stored[c]: the rows written for call c

tables == <<metrics, lastRow, devices, interfaces, alerts>>
calls  == <<status, request, queue, running, todo, up>>
ghosts == <<evaluated, stored>>
vars   == <<tables, calls, ghosts>>

Status == {"new", "queued", "running", "accepted", "rejected", "cancelled", "broken"}

Init == /\ EngineInit
        /\ metrics = <<>> /\ lastRow = 0
        /\ devices = <<>> /\ interfaces = <<>>
        /\ status = [c \in Call |-> "new"]
        /\ request = [c \in Call |-> <<>>]
        /\ queue = <<>> /\ running = NoCall /\ todo = {} /\ up = TRUE
        /\ evaluated = {} /\ stored = [c \in Call |-> {}]

-----------------------------------------------------------------------------
\* The transaction of ingest_records.

\* Slip: a record without a device_id passes.
ValidAnyDevice(b) == {i \in DOMAIN b : b[i].metric # ""}

Valid(b) == {i \in DOMAIN b : IsValid(b[i])}

\* Primary keys go up with the position in the batch; the gaps that skipped
\* records leave do not matter, only the order does.
RowsOf(b) == {lastRow + i : i \in Valid(b)}

StoreMetrics(b) ==
  /\ metrics' = [n \in DOMAIN metrics \cup RowsOf(b) |->
                   IF n \in DOMAIN metrics THEN metrics[n] ELSE b[n - lastRow]]
  /\ lastRow' = lastRow + Len(b)

\* Slip: every record sets the reachability flag, whatever its metric.
StoreDevicesAnyMetric(b) ==
  LET Of(d) == {i \in Valid(b) : b[i].device = d}
  IN  devices' =
        [d \in DOMAIN devices \cup {b[i].device : i \in Valid(b)} |->
           IF Of(d) = {} THEN devices[d]
           ELSE [reachable |-> b[Max(Of(d))].value # 0,
                 lastSeen  |-> b[Max(Of(d))].time]]

\* A device is created reachable; every record of it moves last_seen, only a
\* reachability record moves the flag.
StoreDevices(b) ==
  LET Of(d)       == {i \in Valid(b) : b[i].device = d}
      ReachOf(d)  == {i \in Of(d) : b[i].metric = "device_reachable"}
      Was(d)      == IF d \in DOMAIN devices THEN devices[d].reachable ELSE TRUE
  IN  devices' =
        [d \in DOMAIN devices \cup {b[i].device : i \in Valid(b)} |->
           IF Of(d) = {} THEN devices[d]
           ELSE [reachable |-> IF ReachOf(d) = {} THEN Was(d)
                               ELSE b[Max(ReachOf(d))].value # 0,
                 lastSeen  |-> b[Max(Of(d))].time]]

StoreInterfaces(b) ==
  LET Named      == {i \in Valid(b) : b[i].interface # NoInterface}
      Slot(i)    == <<b[i].device, b[i].index>>
      Of(s)      == {i \in Named : Slot(i) = s}
  IN  interfaces' = [s \in DOMAIN interfaces \cup {Slot(i) : i \in Named} |->
                       IF Of(s) = {} THEN interfaces[s] ELSE b[Max(Of(s))].interface]

Store(c) ==
  LET b == request[c]
  IN  /\ StoreMetrics(b) /\ StoreDevices(b) /\ StoreInterfaces(b)
      /\ stored' = [stored EXCEPT ![c] = RowsOf(b)]

-----------------------------------------------------------------------------
\* Slip: the newest call is put before those that wait.
ArriveFirst(c, b) ==
  /\ up /\ status[c] = "new"
  /\ status' = [status EXCEPT ![c] = "queued"]
  /\ request' = [request EXCEPT ![c] = b]
  /\ queue' = <<c>> \o queue
  /\ UNCHANGED <<tables, ghosts, running, todo, up>>

\* A call comes in; the server accepts it only while the process runs.
Arrive(c, b) ==
  /\ up /\ status[c] = "new"
  /\ status' = [status EXCEPT ![c] = "queued"]
  /\ request' = [request EXCEPT ![c] = b]
  /\ queue' = Append(queue, c)
  /\ UNCHANGED <<tables, ghosts, running, todo, up>>

\* The caller's deadline passes, or its connection goes, before the handler
\* starts: the handler never runs.
Cancel(c) ==
  /\ \E i \in DOMAIN queue : queue[i] = c /\ queue' = RemoveAt(queue, i)
  /\ status' = [status EXCEPT ![c] = "cancelled"]
  /\ UNCHANGED <<tables, ghosts, request, running, todo, up>>

\* Slip: the handlers start in any order.
IngestAny ==
  /\ up /\ running = NoCall /\ queue # <<>>
  /\ \E i \in DOMAIN queue :
        /\ Store(queue[i])
        /\ running' = queue[i]
        /\ todo' = RowsOf(request[queue[i]])
        /\ status' = [status EXCEPT ![queue[i]] = "running"]
        /\ queue' = RemoveAt(queue, i)
  /\ UNCHANGED <<alerts, request, up, evaluated>>

\* SendTelemetryBatch starts: it converts the records and ingest_records commits
\* the valid ones with their devices and interfaces in one transaction.
Ingest ==
  /\ up /\ running = NoCall /\ queue # <<>>
  /\ LET c == Head(queue)
     IN  /\ Store(c)
         /\ running' = c
         /\ todo' = RowsOf(request[c])
         /\ status' = [status EXCEPT ![c] = "running"]
  /\ queue' = Tail(queue)
  /\ UNCHANGED <<alerts, request, up, evaluated>>

\* The transaction raises; if it was the commit that failed, its effect may be
\* there or not.  The servicer answers accepted=False.
IngestFails(applied) ==
  /\ up /\ running = NoCall /\ queue # <<>>
  /\ LET c == Head(queue)
     IN  /\ status' = [status EXCEPT ![c] = "rejected"]
         /\ \/ applied /\ Store(c)
            \/ ~applied /\ UNCHANGED <<metrics, lastRow, devices, interfaces, stored>>
  /\ queue' = Tail(queue)
  /\ UNCHANGED <<alerts, request, running, todo, up, evaluated>>

\* Slip: the rows are evaluated newest first.
EvaluateNewest ==
  /\ todo # {}
  /\ LET n == Max(todo)
     IN  /\ EvaluateRecord(metrics[n])
         /\ todo' = todo \ {n}
         /\ evaluated' = evaluated \cup {n}
  /\ UNCHANGED <<metrics, lastRow, devices, interfaces, stored,
                 status, request, queue, running, up>>

\* The loop over valid_records: one record, one transaction of the engine.
Evaluate ==
  /\ todo # {}
  /\ LET n == Min(todo)
     IN  /\ EvaluateRecord(metrics[n])
         /\ todo' = todo \ {n}
         /\ evaluated' = evaluated \cup {n}
  /\ UNCHANGED <<metrics, lastRow, devices, interfaces, stored,
                 status, request, queue, running, up>>

\* Slip: the exception is swallowed and the loop goes on.
EvaluateFailsSilently(applied) ==
  /\ todo # {}
  /\ LET n == Min(todo)
     IN  /\ todo' = todo \ {n}
         /\ \/ applied /\ EvaluateRecord(metrics[n]) /\ evaluated' = evaluated \cup {n}
            \/ ~applied /\ UNCHANGED <<alerts, evaluated>>
  /\ UNCHANGED <<metrics, lastRow, devices, interfaces, stored,
                 status, request, queue, running, up>>

\* The evaluation raises, before or after its commit took effect: the exception
\* leaves the loop and the rest of the batch is never evaluated.
EvaluateFails(applied) ==
  /\ todo # {}
  /\ LET n == Min(todo)
     IN  \/ applied /\ EvaluateRecord(metrics[n]) /\ evaluated' = evaluated \cup {n}
         \/ ~applied /\ UNCHANGED <<alerts, evaluated>>
  /\ status' = [status EXCEPT ![running] = "rejected"]
  /\ running' = NoCall
  /\ todo' = {}
  /\ UNCHANGED <<metrics, lastRow, devices, interfaces, stored, request, queue, up>>

\* Slip: the loop is not handed back after the answer.
ReplyHolding ==
  /\ running # NoCall /\ todo = {}
  /\ status' = [status EXCEPT ![running] = "accepted"]
  /\ UNCHANGED <<tables, ghosts, request, queue, running, todo, up>>

Reply ==
  /\ running # NoCall /\ todo = {}
  /\ status' = [status EXCEPT ![running] = "accepted"]
  /\ running' = NoCall
  /\ UNCHANGED <<tables, ghosts, request, queue, todo, up>>

\* The process dies: the tables stay, the calls in it are lost.
Crash ==
  /\ up
  /\ up' = FALSE
  /\ status' = [c \in Call |-> IF status[c] \in {"queued", "running"}
                                 THEN "broken" ELSE status[c]]
  /\ queue' = <<>> /\ running' = NoCall /\ todo' = {}
  /\ UNCHANGED <<tables, ghosts, request>>

\* docker-compose starts it again; it only creates the tables that are missing.
Restart == /\ ~up
           /\ up' = TRUE
           /\ UNCHANGED <<tables, ghosts, status, request, queue, running, todo>>

Handle == \/ Ingest \/ Evaluate \/ Reply
          \/ \E applied \in BOOLEAN : IngestFails(applied) \/ EvaluateFails(applied)

Next == \/ \E c \in Call, b \in Batch : Arrive(c, b)
        \/ \E c \in Call : Cancel(c)
        \/ Handle \/ Crash \/ Restart

Spec == Init /\ [][Next]_vars

\* The event loop runs whatever is ready, docker restarts the container
\* (restart: unless-stopped); nothing makes a call arrive.
FairSpec == Spec /\ WF_vars(Handle) /\ WF_vars(Restart)

-----------------------------------------------------------------------------
TypeOK ==
  /\ AlertsTypeOK
  /\ lastRow \in Nat
  /\ metrics \in [DOMAIN metrics -> Record] /\ DOMAIN metrics \subseteq 1..lastRow
  /\ devices \in [DOMAIN devices -> [reachable : BOOLEAN, lastSeen : Int]]
  /\ DOMAIN devices \subseteq Device
  /\ interfaces \in [DOMAIN interfaces -> Interface]
  /\ DOMAIN interfaces \subseteq Device \X Int
  /\ status \in [Call -> Status]
  /\ request \in [Call -> Batch \cup {<<>>}]
  /\ queue \in Seq(Call)
  /\ running \in Call \cup {NoCall}
  /\ todo \in SUBSET DOMAIN metrics
  /\ up \in BOOLEAN
  /\ evaluated \in SUBSET DOMAIN metrics
  /\ stored \in [Call -> SUBSET DOMAIN metrics]

\* n is the last reading of its condition in the table.
SameKey(m, n) == /\ Relevant(metrics[m].metric) /\ Relevant(metrics[n].metric)
                 /\ KeyOf(metrics[m]) = KeyOf(metrics[n])

IsLatest(n) == \A m \in DOMAIN metrics : SameKey(m, n) => m \leq n

\* The tables agree: once the last stored reading of a condition has been
\* evaluated, its alert is open exactly when that reading breaches, whatever
\* crashes and failures came before (ingestion_service.py:64-73).
AlertsMatchReadings ==
  \A n \in evaluated :
    (Relevant(metrics[n].metric) /\ IsLatest(n))
      => (Open(KeyOf(metrics[n])) <=> Breaching(metrics[n]))

\* GET /devices and GET /alerts agree: unless the last reachability record of a
\* device was never evaluated, the device is marked unreachable exactly when it
\* has an ACTIVE DEVICE_DOWN alert (ingestion_service.py:45-46, engine.py:129-157).
ReachableMatchesAlert ==
  \A d \in Device :
    LET k == AlertKey(d, NoInterface, "device_reachable")
    IN  (\A n \in DOMAIN metrics :
           (/\ metrics[n].device = d /\ metrics[n].metric = "device_reachable"
            /\ IsLatest(n)) => n \in evaluated)
          => (Open(k) <=> (d \in DOMAIN devices /\ ~devices[d].reachable))

\* Row a of the alerts table was started by reading n, and ended by reading m.
StartedBy(a, n) ==
  /\ Relevant(metrics[n].metric) /\ KeyOf(metrics[n]) = alerts[a].key
  /\ Breaching(metrics[n])
  /\ metrics[n].value = alerts[a].value /\ metrics[n].time = alerts[a].startedAt

EndedBy(a, n, m) ==
  /\ m > n /\ SameKey(m, n) /\ ~Breaching(metrics[m])
  /\ metrics[m].time = alerts[a].resolvedAt

\* Every row of the alert history is backed by stored readings: the breach that
\* started it and, if it is RESOLVED, a later reading back in range of the same
\* condition (the batch is committed before it is evaluated,
\* ingestion_service.py:64-73).
AlertsAreJustified ==
  \A a \in DOMAIN alerts :
    \E n \in evaluated :
      /\ StartedBy(a, n)
      /\ alerts[a].status = "RESOLVED" => \E m \in evaluated : EndedBy(a, n, m)

\* accepted=True means the whole batch: every valid record is stored, once, and
\* evaluated; a call whose handler did not start has left nothing behind.
AcceptedIsComplete ==
  \A c \in Call :
    /\ status[c] = "accepted" =>
         /\ stored[c] \subseteq evaluated
         /\ \E first \in 0..lastRow :
              /\ stored[c] = {first + i : i \in Valid(request[c])}
              /\ \A i \in Valid(request[c]) : metrics[first + i] = request[c][i]
    /\ status[c] \in {"new", "queued", "cancelled"} => stored[c] = {}
    /\ \A d \in Call \ {c} : stored[c] \cap stored[d] = {}

\* What the reply counts: records_stored is "the number of records actually
\* stored" (ingestion_service.py:33), and a rejected call reports 0 of them
\* (servicer.py:49), so none of its records was stored and evaluated.
RejectedStoredNothing ==
  \A c \in Call : status[c] = "rejected" => stored[c] \cap evaluated = {}

\* Every call that reached the backend gets an end: an answer, or the failure
\* the caller sees when it gives up or the process dies.
EveryCallEnds ==
  \A c \in Call : status[c] = "queued" ~>
                    status[c] \in {"accepted", "rejected", "cancelled", "broken"}
=============================================================================
