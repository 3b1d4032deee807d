------------------------------- MODULE MCExport -------------------------------
(***************************************************************************)
(* The export on a small instance for TLC: pages of two rows, and a bound  *)
(* on the table.                                                           *)
(***************************************************************************)
EXTENDS Export

CONSTANTS bandwidth, latency,  \* model values
          MaxTable             \* bound on the rows of the table

MCPolls == {<<bandwidth>>, <<bandwidth, latency>>}

MCFilters == {Kind, {bandwidth}}

\* Rows are inserted before the first page or between pages; those before it in the
\* order of their time, as only ids would tell another order apart.
MCInsert ==
  /\ pc # "done"
  /\ \E time \in Time, kinds \in Polls :
       /\ Cardinality(table) + Len(kinds) <= MaxTable
       /\ pc = "idle" => \A r \in table : r.time <= time
       /\ Insert(time, kinds)

MCNext == MCInsert \/ (\E kinds \in Filters : Start(kinds)) \/ Page \/ CutOff \/ Abandon

MCSpec == XInit /\ [][MCNext]_xvars
=============================================================================
