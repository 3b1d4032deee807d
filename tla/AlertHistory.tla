---------------------------- MODULE AlertHistory ----------------------------
(***************************************************************************)
(* The alert engine with a history variable that remembers of each         *)
(* condition whether its last two readings breached, to relate the table   *)
(* to them.  history changes nothing of the engine.                        *)
(***************************************************************************)
EXTENDS AlertEngine

VARIABLE history   \* history[k]: whether the last readings of k breached, the
                   \* latest first, two at most

hvars == <<alerts, history>>

Latest(s) == IF Len(s) > 2 THEN SubSeq(s, 1, 2) ELSE s

HInit == EngineInit /\ history = [k \in Key |-> <<>>]

Remember(r) ==
  history' = IF Relevant(r.metric)
               THEN [history EXCEPT ![KeyOf(r)] = Latest(<<Breaching(r)>> \o @)]
               ELSE history

HNext == \E r \in Record : EvaluateRecord(r) /\ Remember(r)

HSpec == HInit /\ [][HNext]_hvars

-----------------------------------------------------------------------------
\* An alert is open exactly when the last reading of its condition breaches;
\* no other reading opens or closes it (evaluate_record, engine.py:55-157).
OpenIffLastBreaches ==
  \A k \in Key :
    Open(k) <=> (history[k] # <<>> /\ history[k][1])

\* What thresholds.yaml:11-13 says of a new alert: "Consecutive breaching polls
\* required before an alert fires, to avoid single-sample noise triggering false
\* alerts", two of them.  An open threshold alert has two breaching readings.
ConsecutiveBreachesRequired ==
  \A k \in Key :
    (k.alertType # "DEVICE_DOWN" /\ Open(k) /\ history[k][1])
      => (Len(history[k]) = 2 /\ history[k][2])
=============================================================================
