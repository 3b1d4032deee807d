-------------------------------- MODULE Export --------------------------------
(***************************************************************************)
(* The reads of the REST API beside the writes of the ingestion service:   *)
(* the CSV export, which reads page by page                                *)
(* (src/Code/backend/services/query_service.py), and the bandwidth and     *)
(* latency queries, which filter what a larger query returned.             *)
(*                                                                         *)
(* Every query sees the rows committed by then, newest first; how rows of  *)
(* one timestamp are ordered is left to the database and may differ from   *)
(* query to query.  The metric type stands for all that a query may filter *)
(* by; the columns of the CSV are left out.                                *)
(***************************************************************************)
EXTENDS Integers, Sequences, FiniteSets

CONSTANTS Kind,       \* metric types
          Time,       \* timestamps
          Polls,      \* the metric types of the rows one poll may leave
          Filters,    \* the metric types an export may ask for
          BatchSize,  \* _EXPORT_BATCH_SIZE
          MaxRows,    \* max_rows
          Limits      \* limits asked for

ASSUME SizeAssumption ==
  /\ BatchSize \in Nat \ {0} /\ Limits \subseteq Nat
  /\ MaxRows \in Nat /\ MaxRows % BatchSize = 0

ASSUME KindAssumption == Polls \subseteq Seq(Kind) /\ Filters \subseteq SUBSET Kind

ASSUME TimeAssumption == Time \subseteq Nat

VARIABLES table,    \* telemetry_metrics
          pc,       \* the export: "idle", "paging" or "done"
          filter,   \* the metric types asked for
          offset,   \* offset
          emitted,  \* rows_emitted: those written twice count twice
          output    \* the rows written

\* History: the rows there when the export began.
VARIABLE before

xvars == <<table, pc, filter, offset, emitted, output, before>>

Row == [id : Nat, time : Time, kind : Kind]

XInit == /\ table = {} /\ before = {}
         /\ pc = "idle" /\ filter = Kind
         /\ offset = 0 /\ emitted = 0 /\ output = {}

\* ingest_records commits the readings of one poll, which share its timestamp; a
\* late batch has an old one.
Insert(time, kinds) ==
  /\ LET id == Cardinality(table)
     IN  table' = table \cup {[id |-> id + k, time |-> time, kind |-> kinds[k]] :
                                k \in DOMAIN kinds}
  /\ UNCHANGED <<pc, filter, offset, emitted, output, before>>

-----------------------------------------------------------------------------
\* Slip: oldest first.
NewestAscending(rows, k) ==
  {top \in SUBSET rows : /\ Cardinality(top) <= k
                         /\ Cardinality(top) < k => top = rows
                         /\ \A r \in top, q \in rows \ top : r.time <= q.time}

\* ORDER BY timestamp DESC: what the first k rows may be, or all if there are fewer.
Newest(rows, k) ==
  {top \in SUBSET rows : /\ Cardinality(top) <= k
                         /\ Cardinality(top) < k => top = rows
                         /\ \A r \in top, q \in rows \ top : r.time >= q.time}

\* OFFSET and LIMIT: the pages that orders of the rows may give.
PagesOf(rows, from, n) ==
  UNION {{last \ first : last \in {l \in Newest(rows, from + n) : first \subseteq l}} :
           first \in Newest(rows, from)}

\* MetricRepository.query
Query(kinds, from, limit) == PagesOf({r \in table : r.kind \in kinds}, from, limit)

-----------------------------------------------------------------------------
\* stream_metrics_csv

Start(kinds) == /\ pc # "paging"
                /\ pc' = "paging" /\ filter' = kinds
                /\ offset' = 0 /\ emitted' = 0 /\ output' = {}
                /\ before' = {r \in table : r.kind \in kinds}
                /\ UNCHANGED table

\* Slips: the loop over the pages has no bound; the offset runs one too far, or
\* stays where it is.
MoreUnbounded == TRUE

TurnTooFar == offset' = offset + BatchSize + 1

TurnForgotten == offset' = offset

More == emitted < MaxRows

Turn == offset' = offset + BatchSize

Write(batch) == /\ output' = output \cup batch
                /\ emitted' = emitted + Cardinality(batch)

\* One turn of the loop; a page that is not full is the last.
Page ==
  /\ pc = "paging" /\ More
  /\ \E batch \in Query(filter, offset, BatchSize) :
       IF batch = {}
         THEN pc' = "done" /\ UNCHANGED <<offset, emitted, output>>
         ELSE /\ Write(batch) /\ Turn
              /\ pc' = IF Cardinality(batch) < BatchSize THEN "done" ELSE "paging"
  /\ UNCHANGED <<table, filter, before>>

\* max_rows are written.
CutOff == /\ pc = "paging" /\ ~More
          /\ pc' = "done"
          /\ UNCHANGED <<table, filter, offset, emitted, output, before>>

\* The client goes away; the generator and its session are closed.
Abandon == /\ pc = "paging"
           /\ pc' = "idle" /\ filter' = Kind
           /\ offset' = 0 /\ emitted' = 0 /\ output' = {} /\ before' = {}
           /\ UNCHANGED table

-----------------------------------------------------------------------------
\* get_bandwidth_metrics and get_latency_metrics: four times the limit is read of
\* all metric types, then those wanted are picked.
Answers(wanted, limit) ==
  UNION {PagesOf({r \in rows : r.kind \in wanted}, 0, limit) :
           rows \in Query(Kind, 0, limit * 4)}

XNext == \/ \E time \in Time, kinds \in Polls : Insert(time, kinds)
         \/ \E kinds \in Filters : Start(kinds)
         \/ Page \/ CutOff \/ Abandon

XSpec == XInit /\ [][XNext]_xvars

-----------------------------------------------------------------------------
\* The rows with a timestamp of their own among those exported.
Untied == {r \in table : \A q \in table \ {r} : q.kind \in filter => q.time # r.time}

\* Types; and no more than max_rows are written (query_service.py:75-105).
XTypeOK ==
  /\ table \subseteq Row /\ before \subseteq table
  /\ pc \in {"idle", "paging", "done"} /\ filter \subseteq Kind
  /\ offset \in Nat /\ emitted \in 0..MaxRows /\ output \subseteq table

\* A row that was there when the export began and has a timestamp of its own is
\* exported, whatever is inserted, newer or older, between two pages, or it is
\* older than all that is: max_rows cut it off (query_service.py:75-105,
\* repository.py:65).
NothingSkipped ==
  pc = "done" =>
    \A r \in (before \cap Untied) \ output :
      emitted = MaxRows /\ \A q \in output : q.time > r.time

\* Rows are written again only for rows inserted meanwhile, at most as many; so an
\* export that nothing is inserted into has no row twice (query_service.py:76-103).
RepeatsAreBounded ==
  {r \in table : r.kind \in filter} \subseteq Untied =>
    emitted - Cardinality(output)
      <= Cardinality({r \in table \ before : r.kind \in filter})

\* What a bandwidth or latency query returns has no gap: no reading it leaves out
\* is newer than one it returns, though the limit is applied before the filter and
\* after it (query_service.py:35-51).
NewestAreReturned ==
  \A k \in Kind, limit \in Limits : \A rows \in Answers({k}, limit) :
    \A r \in {q \in table : q.kind = k} \ rows, q \in rows : q.time >= r.time
=============================================================================
