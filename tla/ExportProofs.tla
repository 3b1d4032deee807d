----------------------------- MODULE ExportProofs -----------------------------
(***************************************************************************)
(* Proofs about the queries beside a writer: that the filtered queries     *)
(* return the newest, and that the export, page by page, skips no row that *)
(* was there and repeats none but for rows inserted meanwhile.             *)
(***************************************************************************)
EXTENDS Export, TLAPS, FiniteSetTheorems, FunctionTheorems

\* The rows certainly ahead of r, and how many there are.
RowsAhead(rows, r) == {q \in rows : q.time > r.time}

Ahead(rows, r) == Cardinality(RowsAhead(rows, r))

\* Only r has its timestamp.
Alone(rows, r) == \A q \in rows \ {r} : q.time # r.time

Timed(rows) == IsFiniteSet(rows) /\ \A r \in rows : r.time \in Nat

\* Pages begin and end at places of the order.
PageAt(rows, from, n, page, first, last) ==
  /\ first \in Newest(rows, from) /\ last \in Newest(rows, from + n)
  /\ first \subseteq last /\ page = last \ first

-----------------------------------------------------------------------------
LEMMA PageHasPlaces ==
  ASSUME NEW rows, NEW from, NEW n, NEW page \in PagesOf(rows, from, n)
  PROVE  \E first, last : PageAt(rows, from, n, page, first, last)
BY DEF PagesOf, PageAt

\* The first k rows hold all of those ahead of one of them.
LEMMA TopOf ==
  ASSUME NEW rows, Timed(rows), NEW k \in Nat, NEW top \in Newest(rows, k)
  PROVE  /\ top \subseteq rows /\ IsFiniteSet(top) /\ Cardinality(top) \in Nat
         /\ Cardinality(top) <= k /\ (Cardinality(top) < k => top = rows)
         /\ Cardinality(top) <= Cardinality(rows) /\ Cardinality(rows) \in Nat
<1>1. /\ top \in SUBSET rows /\ Cardinality(top) <= k
      /\ (Cardinality(top) < k => top = rows)
  BY DEF Newest
<1>2. IsFiniteSet(rows)
  BY DEF Timed
<1>. QED
  BY <1>1, <1>2, FS_Subset, FS_CardinalityType

LEMMA AheadType ==
  ASSUME NEW rows, Timed(rows), NEW r
  PROVE  /\ IsFiniteSet(RowsAhead(rows, r)) /\ Ahead(rows, r) \in Nat
         /\ RowsAhead(rows, r) \in SUBSET rows
<1>1. RowsAhead(rows, r) \in SUBSET rows /\ IsFiniteSet(rows)
  BY DEF RowsAhead, Timed
<1>. QED
  BY <1>1, FS_Subset, FS_CardinalityType DEF Ahead

\* Whatever the order of the rows of one time, one that has a time of its own is among
\* the first k when fewer than k are ahead of it.
LEMMA AlonePlace ==
  ASSUME NEW rows, Timed(rows), NEW r \in rows, Alone(rows, r),
         NEW k \in Nat, NEW top \in Newest(rows, k)
  PROVE  r \in top <=> Ahead(rows, r) < k
<1>1. /\ top \subseteq rows /\ IsFiniteSet(top) /\ Cardinality(top) \in Nat
      /\ Cardinality(top) <= k /\ (Cardinality(top) < k => top = rows)
  BY TopOf
<1>2. /\ IsFiniteSet(RowsAhead(rows, r)) /\ Ahead(rows, r) \in Nat
      /\ RowsAhead(rows, r) \in SUBSET rows
  BY AheadType
<1>3. \A p \in top, q \in rows \ top : p.time >= q.time
  BY DEF Newest
<1>4. \A q \in rows : q.time \in Nat
  BY DEF Timed
<1>5. CASE r \in top
  <2>1. RowsAhead(rows, r) \cup {r} \in SUBSET top
    <3>1. ASSUME NEW q \in RowsAhead(rows, r) PROVE q \in top
      BY <1>3, <1>4, <1>5, <3>1 DEF RowsAhead
    <3>. QED
      BY <1>5, <3>1
  <2>2. r \notin RowsAhead(rows, r)
    BY <1>4 DEF RowsAhead
  <2>3. Cardinality(RowsAhead(rows, r) \cup {r}) = Ahead(rows, r) + 1
    BY <1>2, <2>2, FS_AddElement DEF Ahead
  <2>4. Cardinality(RowsAhead(rows, r) \cup {r}) <= Cardinality(top)
    BY <1>1, <2>1, FS_Subset
  <2>. QED
    BY <1>1, <1>2, <1>5, <2>3, <2>4
<1>6. CASE r \notin top
  <2>1. top \in SUBSET RowsAhead(rows, r)
    <3>1. ASSUME NEW q \in top PROVE q \in RowsAhead(rows, r)
      <4>1. q.time >= r.time /\ q \in rows /\ q # r
        BY <1>1, <1>3, <1>6
      <4>2. q.time # r.time
        BY <4>1 DEF Alone
      <4>. QED
        BY <1>4, <4>1, <4>2 DEF RowsAhead
    <3>. QED
      BY <3>1
  <2>2. Cardinality(top) <= Ahead(rows, r)
    BY <1>2, <2>1, FS_Subset DEF Ahead
  <2>3. Cardinality(top) = k
    BY <1>1, <1>6
  <2>. QED
    BY <1>2, <1>6, <2>2, <2>3
<1>. QED
  BY <1>5, <1>6

\* A page is no longer than asked for, and only the last is shorter.
LEMMA PageSize ==
  ASSUME NEW rows, Timed(rows), NEW from \in Nat, NEW n \in Nat, NEW page, NEW first, NEW last,
         PageAt(rows, from, n, page, first, last)
  PROVE  /\ IsFiniteSet(page) /\ Cardinality(page) \in Nat /\ Cardinality(page) <= n
         /\ Cardinality(page) < n => last = rows
<1>0. from + n \in Nat /\ page = last \ first /\ first \subseteq last
  BY DEF PageAt
<1>1. /\ IsFiniteSet(first) /\ Cardinality(first) \in Nat /\ Cardinality(first) <= from
      /\ (Cardinality(first) < from => first = rows)
  BY TopOf DEF PageAt
<1>2. /\ last \subseteq rows /\ IsFiniteSet(last) /\ Cardinality(last) \in Nat
      /\ Cardinality(last) <= from + n /\ (Cardinality(last) < from + n => last = rows)
  BY <1>0, TopOf DEF PageAt
<1>3. IsFiniteSet(page) /\ Cardinality(page) = Cardinality(last) - Cardinality(last \cap first)
  BY <1>0, <1>2, FS_Difference
<1>4. last \cap first = first
  BY <1>0
<1>5. Cardinality(page) \in Nat
  BY <1>3, FS_CardinalityType
<1>6. Cardinality(first) < from => last = first
  BY <1>0, <1>1, <1>2
<1>7. PICK f \in Nat, l \in Nat : f = Cardinality(first) /\ l = Cardinality(last)
  BY <1>1, <1>2
<1>8. Cardinality(page) = l - f /\ l <= from + n /\ f <= from
  BY <1>1, <1>2, <1>3, <1>4, <1>7
<1>9. CASE f < from
  <2>1. last = first /\ l = f /\ last = rows
    BY <1>1, <1>6, <1>7, <1>9
  <2>. QED
    BY <1>3, <1>5, <1>8, <2>1
<1>10. CASE f = from
  BY <1>2, <1>3, <1>5, <1>7, <1>8, <1>10
<1>. QED
  BY <1>8, <1>9, <1>10

LEMMA EmptyTop ==
  ASSUME NEW rows, Timed(rows), NEW top \in Newest(rows, 0)
  PROVE  top = {}
<1>1. IsFiniteSet(top) /\ Cardinality(top) \in Nat /\ Cardinality(top) <= 0
  BY TopOf
<1>. QED
  BY <1>1, FS_EmptySet

-----------------------------------------------------------------------------
\* What is read of the table, and what an export is asked for.
Wanted(kinds) == {r \in table : r.kind \in kinds}

Asked == Wanted(filter)

RowsInv == table \subseteq Row /\ IsFiniteSet(table)

LEMMA WantedTimed ==
  ASSUME RowsInv, NEW kinds
  PROVE  Timed(Wanted(kinds)) /\ Wanted(kinds) \in SUBSET table
<1>1. Wanted(kinds) \in SUBSET table
  BY DEF Wanted
<1>2. IsFiniteSet(Wanted(kinds))
  BY <1>1, FS_Subset DEF RowsInv
<1>. QED
  BY <1>1, <1>2, TimeAssumption DEF Timed, RowsInv, Row

\* The queries return the newest readings although the limit is applied before and
\* after the filter (query_service.py:35-51).
LEMMA AnswersAreNewest ==
  ASSUME RowsInv, NEW k \in Kind, NEW limit \in Limits, NEW rows \in Answers({k}, limit)
  PROVE  \A r \in {q \in table : q.kind = k} \ rows, q \in rows : q.time >= r.time
<1>0. limit \in Nat /\ limit * 4 \in Nat /\ 0 + limit = limit /\ 0 + limit * 4 = limit * 4
  BY SizeAssumption
<1>1. PICK read \in PagesOf(Wanted(Kind), 0, limit * 4) :
        rows \in PagesOf({r \in read : r.kind \in {k}}, 0, limit)
  BY DEF Answers, Query, Wanted
<1>2. PICK picked : picked = {r \in read : r.kind \in {k}}
  OBVIOUS
<1>3. Wanted(Kind) = table /\ Timed(table)
  <2>1. Wanted(Kind) = table
    BY DEF Wanted, RowsInv, Row
  <2>. QED
    BY <2>1, WantedTimed
<1>4. read \in Newest(table, limit * 4)
  <2>1. PICK first, last : PageAt(table, 0, limit * 4, read, first, last)
    BY <1>0, <1>1, <1>3, PageHasPlaces
  <2>2. first = {}
    BY <1>3, <2>1, EmptyTop DEF PageAt
  <2>. QED
    BY <1>0, <2>1, <2>2 DEF PageAt
<1>5. read \subseteq table /\ IsFiniteSet(read)
  BY <1>0, <1>3, <1>4, TopOf
<1>6. Timed(picked) /\ picked \subseteq read
  <2>1. picked \in SUBSET read
    BY <1>2
  <2>2. IsFiniteSet(picked)
    BY <1>5, <2>1, FS_Subset
  <2>. QED
    BY <1>3, <1>5, <2>1, <2>2 DEF Timed
<1>7. rows \in Newest(picked, limit)
  <2>1. PICK first, last : PageAt(picked, 0, limit, rows, first, last)
    BY <1>0, <1>1, <1>2, PageHasPlaces
  <2>2. first = {}
    BY <1>6, <2>1, EmptyTop DEF PageAt
  <2>. QED
    BY <1>0, <2>1, <2>2 DEF PageAt
<1>8. SUFFICES ASSUME NEW r \in {q \in table : q.kind = k} \ rows, NEW q \in rows
               PROVE  q.time >= r.time
  OBVIOUS
<1>9. q \in picked /\ q \in read
  BY <1>6, <1>7 DEF Newest
<1>10. CASE r \in read
  <2>1. r \in picked \ rows
    BY <1>2, <1>8, <1>10
  <2>. QED
    BY <1>7, <2>1 DEF Newest
<1>11. CASE r \notin read
  BY <1>4, <1>9, <1>11 DEF Newest
<1>. QED
  BY <1>10, <1>11

\* What a bandwidth or latency query leaves out is no newer than what it returns
\* (query_service.py:35-51).
LEMMA InvNewest == RowsInv => NewestAreReturned
BY AnswersAreNewest DEF NewestAreReturned

-----------------------------------------------------------------------------
\* How far the export is: by whole pages, each of them full but the last.
PagingInv ==
  /\ pc \in {"idle", "paging", "done"} /\ filter \subseteq Kind
  /\ offset \in Nat /\ emitted \in 0..MaxRows
  /\ before \subseteq Asked /\ output \subseteq Asked
  /\ pc = "paging" => emitted = offset /\ \E m \in Nat : offset = m * BatchSize

\* A row that was there and is not written is older than all that is, and still ahead
\* of the export, or max_rows cut it off.
SkipInv ==
  \A r \in before \ output :
    Alone(Asked, r) => /\ \A q \in output : q.time > r.time
                       /\ pc = "paging" => Ahead(Asked, r) >= offset
                       /\ pc = "done" => emitted = MaxRows

\* The rows ahead of the export.
Passed == {r \in Asked : Ahead(Asked, r) < offset}

\* Each row written again, or that will be, stands for one inserted meanwhile: the rows
\* written that are ahead of the export no more were pushed there.
RepeatInv ==
  (\A r \in Asked : Alone(Asked, r)) =>
    emitted - Cardinality(output) + Cardinality(output \ Passed)
      <= Cardinality(Asked \ before)

XInv == RowsInv /\ PagingInv /\ SkipInv /\ RepeatInv

-----------------------------------------------------------------------------
\* Rows are inserted: they are finitely many, and push others back only.
LEMMA InsertGrows ==
  ASSUME RowsInv, NEW time \in Time, NEW kinds \in Polls, Insert(time, kinds)
  PROVE  RowsInv' /\ table \subseteq table'
<1>1. kinds \in Seq(Kind) /\ Cardinality(table) \in Nat
  BY KindAssumption, FS_CardinalityType DEF RowsInv
<1>2. PICK n \in Nat, id \in Nat : n = Len(kinds) /\ id = Cardinality(table)
  BY <1>1
<1>3. PICK new : new = {[id |-> id + k, time |-> time, kind |-> kinds[k]] : k \in 1..n}
  OBVIOUS
<1>4. table' = table \cup new
  <2>1. DOMAIN kinds = 1..n
    BY <1>1, <1>2
  <2>. QED
    BY <1>2, <1>3, <2>1 DEF Insert
<1>5. new \subseteq Row
  <2>1. ASSUME NEW k \in 1..n
        PROVE  [id |-> id + k, time |-> time, kind |-> kinds[k]] \in Row
    <3>1. kinds[k] \in Kind /\ id + k \in Nat
      BY <1>1, <1>2
    <3>. QED
      BY <3>1 DEF Row
  <2>. QED
    BY <1>3, <2>1
<1>6. IsFiniteSet(new)
  <2>1. PICK f : f = [k \in 1..n |-> [id |-> id + k, time |-> time, kind |-> kinds[k]]]
    OBVIOUS
  <2>2. f \in Surjection(1..n, new)
    BY <1>3, <2>1 DEF Surjection
  <2>. QED
    BY <2>2, FS_Interval, FS_Surjection
<1>7. IsFiniteSet(table')
  BY <1>4, <1>6, FS_Union DEF RowsInv
<1>. QED
  BY <1>4, <1>5, <1>7 DEF RowsInv

LEMMA MoreAhead ==
  ASSUME NEW rows, Timed(rows), NEW more, Timed(more), rows \subseteq more, NEW r
  PROVE  /\ Ahead(rows, r) <= Ahead(more, r)
         /\ Ahead(rows, r) \in Nat /\ Ahead(more, r) \in Nat
         /\ Ahead(more, r) <= Ahead(rows, r) + Cardinality(more \ rows)
         /\ Cardinality(more \ rows) \in Nat /\ IsFiniteSet(more \ rows)
<1>1. /\ IsFiniteSet(RowsAhead(rows, r)) /\ Ahead(rows, r) \in Nat
      /\ IsFiniteSet(RowsAhead(more, r)) /\ Ahead(more, r) \in Nat
  BY AheadType
<1>2. RowsAhead(rows, r) \in SUBSET RowsAhead(more, r)
  BY DEF RowsAhead
<1>3. IsFiniteSet(more \ rows) /\ Cardinality(more \ rows) \in Nat
  BY FS_Difference, FS_CardinalityType DEF Timed
<1>4. PICK some, new, both :
        some = RowsAhead(rows, r) /\ new = more \ rows /\ both = some \cup new
  OBVIOUS
<1>5. /\ IsFiniteSet(both)
      /\ Cardinality(both) <= Ahead(rows, r) + Cardinality(more \ rows)
  <2>1. /\ IsFiniteSet(some) /\ Cardinality(some) \in Nat
        /\ IsFiniteSet(new) /\ Cardinality(new) \in Nat
    BY <1>1, <1>3, <1>4 DEF Ahead
  <2>2. Cardinality(some \cap new) \in Nat
    BY <2>1, FS_Intersection, FS_CardinalityType
  <2>3. /\ IsFiniteSet(some \cup new)
        /\ Cardinality(some \cup new)
             = Cardinality(some) + Cardinality(new) - Cardinality(some \cap new)
    BY <2>1, FS_Union
  <2>. QED
    BY <1>4, <2>1, <2>2, <2>3 DEF Ahead
<1>6. RowsAhead(more, r) \in SUBSET both
  BY <1>4 DEF RowsAhead
<1>7. Ahead(more, r) <= Cardinality(both) /\ Cardinality(both) \in Nat
  BY <1>5, <1>6, FS_Subset, FS_CardinalityType DEF Ahead
<1>. QED
  BY <1>1, <1>2, <1>3, <1>5, <1>7, FS_Subset DEF Ahead

\* Rows that all have a time of their own have a place of their own.
LEMMA AheadApart ==
  ASSUME NEW rows, Timed(rows), NEW r \in rows, NEW q \in rows, Alone(rows, r), r # q
  PROVE  Ahead(rows, r) # Ahead(rows, q)
<1>1. /\ IsFiniteSet(RowsAhead(rows, r)) /\ Ahead(rows, r) \in Nat
      /\ IsFiniteSet(RowsAhead(rows, q)) /\ Ahead(rows, q) \in Nat
  BY AheadType
<1>2. r.time \in Nat /\ q.time \in Nat /\ r.time # q.time
  BY DEF Timed, Alone
<1>3. ASSUME NEW a \in rows, NEW b \in rows, a.time > b.time,
             IsFiniteSet(RowsAhead(rows, a)), Ahead(rows, a) \in Nat,
             IsFiniteSet(RowsAhead(rows, b)), Ahead(rows, b) \in Nat
      PROVE  Ahead(rows, a) < Ahead(rows, b)
  <2>1. \A x \in rows : x.time \in Nat
    BY DEF Timed
  <2>2. RowsAhead(rows, a) \cup {a} \in SUBSET RowsAhead(rows, b) /\ a \notin RowsAhead(rows, a)
    BY <1>3, <2>1 DEF RowsAhead
  <2>3. Cardinality(RowsAhead(rows, a) \cup {a}) = Ahead(rows, a) + 1
    BY <1>3, <2>2, FS_AddElement DEF Ahead
  <2>4. Cardinality(RowsAhead(rows, a) \cup {a}) <= Ahead(rows, b)
    BY <1>3, <2>2, FS_Subset DEF Ahead
  <2>. QED
    BY <1>3, <2>3, <2>4
<1>4. CASE r.time > q.time
  BY <1>1, <1>3, <1>4
<1>5. CASE q.time > r.time
  BY <1>1, <1>3, <1>5
<1>. QED
  BY <1>2, <1>4, <1>5

\* At most as many rows are pushed back over a place as are inserted.
LEMMA PushedBack ==
  ASSUME NEW rows, Timed(rows), NEW more, Timed(more), rows \subseteq more,
         \A r \in rows : Alone(rows, r), NEW k \in Nat
  PROVE  LET over == {r \in rows : Ahead(rows, r) < k /\ ~(Ahead(more, r) < k)}
         IN  IsFiniteSet(over) /\ Cardinality(over) <= Cardinality(more \ rows)
<1>1. PICK over : over = {r \in rows : Ahead(rows, r) < k /\ ~(Ahead(more, r) < k)}
  OBVIOUS
<1>2. PICK d \in Nat : d = Cardinality(more \ rows)
  BY MoreAhead
<1>3. ASSUME NEW r \in over
      PROVE  Ahead(rows, r) \in k - d..k - 1
  <2>1. Ahead(rows, r) < k /\ ~(Ahead(more, r) < k) /\ r \in rows
    BY <1>1
  <2>2. /\ Ahead(rows, r) \in Nat /\ Ahead(more, r) \in Nat
        /\ Ahead(more, r) <= Ahead(rows, r) + d
    BY <1>2, MoreAhead
  <2>. QED
    BY <2>1, <2>2
<1>4. PICK f : f = [r \in over |-> Ahead(rows, r)]
  OBVIOUS
<1>5. f \in Injection(over, k - d..k - 1)
  <2>1. f \in [over -> k - d..k - 1]
    BY <1>3, <1>4
  <2>2. ASSUME NEW a \in over, NEW b \in over, f[a] = f[b] PROVE a = b
    BY <1>1, <1>4, <2>2, AheadApart
  <2>. QED
    BY <2>1, <2>2, Fun_IsInj
<1>6. IsFiniteSet(k - d..k - 1) /\ Cardinality(k - d..k - 1) = d
  <2>1. k - d \in Int /\ k - 1 \in Int
    OBVIOUS
  <2>. QED
    BY <2>1, FS_Interval
<1>7. IsFiniteSet(over) /\ Cardinality(over) <= d
  BY <1>5, <1>6, FS_Injection
<1>. QED
  BY <1>1, <1>2, <1>7

-----------------------------------------------------------------------------
LEMMA InvFinite ==
  ASSUME RowsInv, PagingInv
  PROVE  /\ Timed(Asked) /\ offset \in Nat /\ BatchSize \in Nat \ {0} /\ MaxRows \in Nat
         /\ output \subseteq Asked /\ before \subseteq Asked
         /\ IsFiniteSet(output) /\ Cardinality(output) \in Nat
         /\ \A s : IsFiniteSet(Asked \ s) /\ Cardinality(Asked \ s) \in Nat
         /\ \A s : IsFiniteSet(output \ s) /\ Cardinality(output \ s) \in Nat
<1>1. Timed(Asked)
  BY WantedTimed DEF Asked
<1>2. /\ offset \in Nat /\ output \subseteq Asked /\ before \subseteq Asked
      /\ BatchSize \in Nat \ {0} /\ MaxRows \in Nat
  BY SizeAssumption DEF PagingInv
<1>3. IsFiniteSet(Asked) /\ IsFiniteSet(output)
  BY <1>1, <1>2, FS_Subset DEF Timed
<1>4. ASSUME NEW s PROVE IsFiniteSet(Asked \ s) /\ IsFiniteSet(output \ s)
  BY <1>3, FS_Difference
<1>. QED
  BY <1>1, <1>2, <1>3, <1>4, FS_CardinalityType

LEMMA StillAlone ==
  ASSUME NEW rows, NEW more, rows \subseteq more, NEW r, Alone(more, r)
  PROVE  Alone(rows, r)
BY DEF Alone

LEMMA InsertKeepsInv ==
  ASSUME XInv, NEW time \in Time, NEW kinds \in Polls, Insert(time, kinds)
  PROVE  XInv'
<1>1. RowsInv' /\ table \subseteq table' /\ UNCHANGED <<pc, filter, offset, emitted, output, before>>
  BY InsertGrows DEF XInv, Insert
<1>2. PICK rows, more : rows = Asked /\ more = Asked'
  OBVIOUS
<1>3. rows \subseteq more
  BY <1>1, <1>2 DEF Asked, Wanted
<1>4. PagingInv'
  BY <1>1, <1>2, <1>3 DEF XInv, PagingInv
<1>5. Timed(rows) /\ Timed(more)
  <2>1. Timed(Asked)
    BY InvFinite DEF XInv
  <2>2. IsFiniteSet(more)
    <3>1. more \in SUBSET table'
      BY <1>2 DEF Asked, Wanted
    <3>. QED
      BY <1>1, <3>1, FS_Subset DEF RowsInv
  <2>3. \A r \in more : r.time \in Nat
    BY <1>1, <1>2, TimeAssumption DEF Asked, Wanted, RowsInv, Row
  <2>. QED
    BY <1>2, <2>1, <2>2, <2>3 DEF Timed
<1>6. SkipInv'
  <2>. SUFFICES ASSUME NEW r \in before \ output, Alone(more, r)
                PROVE  /\ \A q \in output : q.time > r.time
                       /\ pc = "paging" => Ahead(more, r) >= offset
                       /\ pc = "done" => emitted = MaxRows
    BY <1>1, <1>2 DEF SkipInv
  <2>1. Alone(rows, r)
    BY <1>3, StillAlone
  <2>2. Ahead(rows, r) <= Ahead(more, r) /\ Ahead(rows, r) \in Nat /\ Ahead(more, r) \in Nat
    BY <1>3, <1>5, MoreAhead
  <2>. QED
    BY <1>2, <2>1, <2>2 DEF XInv, SkipInv, PagingInv
<1>7. RepeatInv'
  <2>1. SUFFICES ASSUME \A r \in more : Alone(more, r)
                 PROVE  emitted - Cardinality(output) + Cardinality(output \ Passed')
                          <= Cardinality(more \ before)
    BY <1>1, <1>2 DEF RepeatInv
  <2>2. \A r \in rows : Alone(rows, r)
    BY <1>3, <2>1, StillAlone
  <2>3. PICK passed, after : /\ passed = {r \in rows : Ahead(rows, r) < offset}
                             /\ after = {r \in more : Ahead(more, r) < offset}
    OBVIOUS
  <2>4. Passed = passed /\ Passed' = after
    BY <1>1, <1>2, <2>3 DEF Passed
  <2>5. emitted - Cardinality(output) + Cardinality(output \ passed)
          <= Cardinality(rows \ before)
    BY <1>2, <2>2, <2>4 DEF XInv, RepeatInv
  <2>6. PICK k \in Nat : k = offset
    BY DEF XInv, PagingInv
  <2>7. PICK over : over = {r \in rows : Ahead(rows, r) < k /\ ~(Ahead(more, r) < k)}
    OBVIOUS
  <2>8. IsFiniteSet(over) /\ Cardinality(over) <= Cardinality(more \ rows)
    BY <1>3, <1>5, <2>2, <2>7, PushedBack
  <2>9. /\ IsFiniteSet(output \ passed) /\ Cardinality(output \ passed) \in Nat
        /\ Cardinality(output) \in Nat /\ output \subseteq rows /\ before \subseteq rows
    BY <1>2, InvFinite DEF XInv
  <2>10. Cardinality(output \ after) <= Cardinality(output \ passed) + Cardinality(over)
    <3>1. output \ after \in SUBSET ((output \ passed) \cup over)
      BY <1>3, <2>3, <2>6, <2>7, <2>9
    <3>2. PICK a, b : a = output \ passed /\ b = over
      OBVIOUS
    <3>3. /\ IsFiniteSet(a \cup b) /\ Cardinality(a \cap b) \in Nat
          /\ Cardinality(a \cup b) = Cardinality(a) + Cardinality(b) - Cardinality(a \cap b)
      BY <2>8, <2>9, <3>2, FS_Union, FS_Intersection, FS_CardinalityType
    <3>4. Cardinality(output \ after) <= Cardinality(a \cup b)
      BY <3>1, <3>2, <3>3, FS_Subset
    <3>5. Cardinality(output \ after) \in Nat /\ Cardinality(a \cup b) \in Nat
      BY <3>1, <3>2, <3>3, FS_Subset, FS_CardinalityType
    <3>6. Cardinality(a) \in Nat /\ Cardinality(b) \in Nat
      BY <2>8, <2>9, <3>2, FS_CardinalityType
    <3>. QED
      BY <3>2, <3>3, <3>4, <3>5, <3>6
  <2>11. Cardinality(more \ before) = Cardinality(rows \ before) + Cardinality(more \ rows)
    <3>1. more \ before = (rows \ before) \cup (more \ rows)
      BY <1>3, <2>9
    <3>2. PICK a, b : a = rows \ before /\ b = more \ rows
      OBVIOUS
    <3>3. a \cap b = {} /\ IsFiniteSet(a) /\ IsFiniteSet(b)
      BY <1>5, <3>2, FS_Difference DEF Timed
    <3>4. Cardinality(a \cup b) = Cardinality(a) + Cardinality(b) - Cardinality({})
      BY <3>3, FS_Union
    <3>5. Cardinality(a) \in Nat /\ Cardinality(b) \in Nat /\ Cardinality({}) = 0
      BY <3>3, FS_EmptySet, FS_CardinalityType
    <3>6. Cardinality(more \ before) = Cardinality(a \cup b)
      BY <3>1, <3>2, Zenon
    <3>. QED
      BY <3>2, <3>4, <3>5, <3>6
  <2>12. /\ Cardinality(over) \in Nat /\ Cardinality(more \ rows) \in Nat
         /\ Cardinality(rows \ before) \in Nat /\ Cardinality(output \ after) \in Nat
    BY <1>5, <2>8, <2>9, FS_Difference, FS_CardinalityType, InvFinite DEF Timed, XInv
  <2>. QED
    BY <2>4, <2>5, <2>8, <2>9, <2>10, <2>11, <2>12 DEF XInv, PagingInv
<1>. QED
  BY <1>1, <1>4, <1>6, <1>7 DEF XInv

-----------------------------------------------------------------------------
\* A place reached by whole pages before max_rows leaves room for another page.
LEMMA RoomForPage ==
  ASSUME NEW m \in Nat, NEW at \in Nat, at = m * BatchSize, at < MaxRows
  PROVE  at + BatchSize <= MaxRows /\ at + BatchSize = (m + 1) * BatchSize
<1>1. PICK b \in Nat \ {0}, max \in Nat : b = BatchSize /\ max = MaxRows /\ (max % b) = 0
  BY SizeAssumption
<1>2. PICK q \in Int, r \in Nat : q = max \div b /\ r = max % b
  BY <1>1
<1>3. max = b * q + r /\ r = 0
  BY <1>1, <1>2
<1>4. max = b * q
  BY <1>3
<1>5. b * m < b * q
  BY <1>1, <1>4
<1>6. m < q
  BY <1>5
<1>7. PICK d \in Nat : q = m + 1 + d
  <2>1. q - m - 1 \in Nat /\ q = m + 1 + (q - m - 1)
    BY <1>6
  <2>. QED
    BY <2>1
<1>8. b * q = b * m + b + b * d /\ b * d \in Nat
  BY <1>7
<1>. QED
  BY <1>1, <1>4, <1>8

\* One page: the rows from one place to another, and nothing when there are none.
LEMMA PageCases ==
  ASSUME XInv, Page
  PROVE  \E batch, first, last :
           /\ PageAt(Asked, offset, BatchSize, batch, first, last)
           /\ pc = "paging" /\ emitted < MaxRows /\ emitted = offset
           /\ UNCHANGED <<table, filter, before>>
           /\ \/ batch = {} /\ pc' = "done" /\ UNCHANGED <<offset, emitted, output>>
              \/ /\ output' = output \cup batch /\ emitted' = emitted + Cardinality(batch)
                 /\ offset' = offset + BatchSize
                 /\ \/ Cardinality(batch) < BatchSize /\ pc' = "done"
                    \/ ~(Cardinality(batch) < BatchSize) /\ pc' = "paging"
<1>1. PICK batch \in PagesOf(Asked, offset, BatchSize) :
        \/ batch = {} /\ pc' = "done" /\ UNCHANGED <<offset, emitted, output>>
        \/ /\ Write(batch) /\ Turn
           /\ pc' = IF Cardinality(batch) < BatchSize THEN "done" ELSE "paging"
  BY DEF Page, Query, Asked, Wanted
<1>2. PICK first, last : PageAt(Asked, offset, BatchSize, batch, first, last)
  BY PageHasPlaces
<1>3. /\ pc = "paging" /\ emitted < MaxRows /\ emitted = offset
      /\ UNCHANGED <<table, filter, before>>
  BY DEF Page, More, XInv, PagingInv
<1>. QED
  BY <1>1, <1>2, <1>3 DEF Write, Turn

LEMMA PageKeepsPaging ==
  ASSUME XInv, Page
  PROVE  PagingInv'
<1>1. PICK batch, first, last :
        /\ PageAt(Asked, offset, BatchSize, batch, first, last)
        /\ pc = "paging" /\ emitted < MaxRows /\ emitted = offset
        /\ UNCHANGED <<table, filter, before>>
        /\ \/ batch = {} /\ pc' = "done" /\ UNCHANGED <<offset, emitted, output>>
           \/ /\ output' = output \cup batch /\ emitted' = emitted + Cardinality(batch)
              /\ offset' = offset + BatchSize
              /\ \/ Cardinality(batch) < BatchSize /\ pc' = "done"
                 \/ ~(Cardinality(batch) < BatchSize) /\ pc' = "paging"
  BY PageCases
<1>2. Asked' = Asked /\ before \subseteq Asked /\ output \subseteq Asked /\ filter \subseteq Kind
  BY <1>1 DEF Asked, Wanted, XInv, PagingInv
<1>3. /\ Timed(Asked) /\ offset \in Nat /\ BatchSize \in Nat \ {0} /\ MaxRows \in Nat
      /\ emitted \in 0..MaxRows
  BY InvFinite DEF XInv, PagingInv
<1>4. CASE batch = {} /\ pc' = "done" /\ UNCHANGED <<offset, emitted, output>>
  BY <1>1, <1>2, <1>3, <1>4 DEF PagingInv
<1>5. CASE /\ output' = output \cup batch /\ emitted' = emitted + Cardinality(batch)
           /\ offset' = offset + BatchSize
           /\ \/ Cardinality(batch) < BatchSize /\ pc' = "done"
              \/ ~(Cardinality(batch) < BatchSize) /\ pc' = "paging"
  <2>1. Cardinality(batch) \in Nat /\ Cardinality(batch) <= BatchSize
    BY <1>1, <1>3, PageSize
  <2>2. batch \subseteq Asked
    BY <1>1 DEF PageAt, Newest
  <2>3. PICK m \in Nat : offset = m * BatchSize
    BY <1>1 DEF XInv, PagingInv
  <2>4. offset + BatchSize <= MaxRows /\ offset + BatchSize = (m + 1) * BatchSize
    BY <1>1, <1>3, <2>3, RoomForPage
  <2>5. emitted' \in 0..MaxRows /\ offset' \in Nat
    BY <1>1, <1>3, <1>5, <2>1, <2>4
  <2>6. pc' = "paging" => emitted' = offset'
    BY <1>1, <1>3, <1>5, <2>1
  <2>7. \E n \in Nat : offset' = n * BatchSize
    BY <1>5, <2>4
  <2>. QED
    BY <1>1, <1>2, <1>5, <2>2, <2>5, <2>6, <2>7 DEF PagingInv
<1>. QED
  BY <1>1, <1>4, <1>5

LEMMA PageKeepsSkip ==
  ASSUME XInv, Page
  PROVE  SkipInv'
<1>1. PICK batch, first, last :
        /\ PageAt(Asked, offset, BatchSize, batch, first, last)
        /\ pc = "paging" /\ emitted < MaxRows /\ emitted = offset
        /\ UNCHANGED <<table, filter, before>>
        /\ \/ batch = {} /\ pc' = "done" /\ UNCHANGED <<offset, emitted, output>>
           \/ /\ output' = output \cup batch /\ emitted' = emitted + Cardinality(batch)
              /\ offset' = offset + BatchSize
              /\ \/ Cardinality(batch) < BatchSize /\ pc' = "done"
                 \/ ~(Cardinality(batch) < BatchSize) /\ pc' = "paging"
  BY PageCases
<1>2. Asked' = Asked
  BY <1>1 DEF Asked, Wanted
<1>3. /\ Timed(Asked) /\ offset \in Nat /\ BatchSize \in Nat \ {0}
      /\ offset + BatchSize \in Nat
  BY InvFinite DEF XInv
<1>4. SUFFICES ASSUME NEW r \in before \ output', Alone(Asked, r)
               PROVE  /\ \A q \in output' : q.time > r.time
                      /\ pc' = "paging" => Ahead(Asked, r) >= offset'
                      /\ pc' = "done" => emitted' = MaxRows
  BY <1>1, <1>2 DEF SkipInv
<1>5. output' = output \cup batch
  BY <1>1
<1>6. /\ r \in before \ output /\ r \in Asked /\ Ahead(Asked, r) \in Nat
      /\ Ahead(Asked, r) >= offset /\ \A q \in output : q.time > r.time
  BY <1>1, <1>3, <1>4, <1>5, AheadType DEF XInv, SkipInv, PagingInv
<1>7. first \in Newest(Asked, offset) /\ last \in Newest(Asked, offset + BatchSize)
      /\ batch = last \ first /\ last \subseteq Asked
  BY <1>1 DEF PageAt, Newest
<1>8. r \notin first
  BY <1>3, <1>4, <1>6, <1>7, AlonePlace
<1>9. r \notin last
  BY <1>4, <1>5, <1>7, <1>8
<1>10. Ahead(Asked, r) >= offset + BatchSize
  <2>1. ~(Ahead(Asked, r) < offset + BatchSize)
    BY <1>3, <1>4, <1>6, <1>7, <1>9, AlonePlace
  <2>. QED
    BY <1>3, <1>6, <2>1
<1>11. \A q \in output' : q.time > r.time
  <2>1. ASSUME NEW q \in batch PROVE q.time > r.time
    <3>1. q \in last /\ q \in Asked /\ q # r
      BY <1>7, <1>9, <2>1
    <3>2. q.time >= r.time
      BY <1>6, <1>7, <1>9, <3>1 DEF Newest
    <3>3. q.time # r.time /\ q.time \in Nat /\ r.time \in Nat
      BY <1>3, <1>4, <1>6, <3>1 DEF Alone, Timed
    <3>. QED
      BY <3>2, <3>3
  <2>. QED
    BY <1>5, <1>6, <2>1
<1>12. ~(Cardinality(batch) < BatchSize)
  BY <1>1, <1>3, <1>6, <1>9, PageSize
<1>13. batch # {}
  BY <1>3, <1>12, FS_EmptySet
<1>. QED
  BY <1>1, <1>10, <1>11, <1>12, <1>13

LEMMA PageKeepsRepeats ==
  ASSUME XInv, Page
  PROVE  RepeatInv'
<1>1. PICK batch, first, last :
        /\ PageAt(Asked, offset, BatchSize, batch, first, last)
        /\ pc = "paging" /\ emitted < MaxRows /\ emitted = offset
        /\ UNCHANGED <<table, filter, before>>
        /\ \/ batch = {} /\ pc' = "done" /\ UNCHANGED <<offset, emitted, output>>
           \/ /\ output' = output \cup batch /\ emitted' = emitted + Cardinality(batch)
              /\ offset' = offset + BatchSize
              /\ \/ Cardinality(batch) < BatchSize /\ pc' = "done"
                 \/ ~(Cardinality(batch) < BatchSize) /\ pc' = "paging"
  BY PageCases
<1>2. PICK rows : rows = Asked /\ rows = Asked'
  BY <1>1 DEF Asked, Wanted
<1>3. /\ Timed(rows) /\ offset \in Nat /\ BatchSize \in Nat \ {0}
      /\ offset + BatchSize \in Nat /\ output \subseteq rows /\ IsFiniteSet(output)
  BY <1>2, InvFinite DEF XInv
<1>4. CASE UNCHANGED <<offset, emitted, output>>
  BY <1>1, <1>2, <1>4 DEF XInv, RepeatInv, Passed
<1>5. CASE /\ output' = output \cup batch /\ emitted' = emitted + Cardinality(batch)
           /\ offset' = offset + BatchSize
  <2>1. SUFFICES ASSUME \A r \in rows : Alone(rows, r)
                 PROVE  emitted' - Cardinality(output') + Cardinality(output' \ Passed')
                          <= Cardinality(rows \ before)
    BY <1>1, <1>2 DEF RepeatInv
  <2>2. /\ first \in Newest(rows, offset) /\ last \in Newest(rows, offset + BatchSize)
        /\ first \subseteq last /\ batch = last \ first
        /\ first \subseteq rows /\ last \subseteq rows
    BY <1>1, <1>2 DEF PageAt, Newest
  <2>3. \A r \in rows : r \in first <=> Ahead(rows, r) < offset
    BY <1>3, <2>1, <2>2, AlonePlace
  <2>4. \A r \in rows : r \in last <=> Ahead(rows, r) < offset + BatchSize
    BY <1>3, <2>1, <2>2, AlonePlace
  <2>5. Passed = first
    BY <1>2, <2>2, <2>3 DEF Passed
  <2>6. Passed' = last
    BY <1>2, <1>5, <2>2, <2>4 DEF Passed
  <2>7. PICK w : w = output
    OBVIOUS
  <2>8. emitted - Cardinality(w) + Cardinality(w \ first) <= Cardinality(rows \ before)
    BY <1>2, <2>1, <2>5, <2>7 DEF XInv, RepeatInv
  <2>9. IsFiniteSet(batch) /\ Cardinality(batch) \in Nat
    BY <1>1, <1>2, <1>3, PageSize
  <2>10. /\ Cardinality(w \cup batch)
              = Cardinality(w) + Cardinality(batch) - Cardinality(w \cap batch)
         /\ IsFiniteSet(w \cap batch) /\ IsFiniteSet(w \cup batch)
    BY <1>3, <2>7, <2>9, FS_Union, FS_Intersection
  <2>11. PICK back, again : back = w \ last /\ again = w \cap batch
    OBVIOUS
  <2>12. w \ first = back \cup again /\ back \cap again = {} /\ (w \cup batch) \ last = back
    BY <2>2, <2>11
  <2>13. IsFiniteSet(back) /\ IsFiniteSet(again)
    BY <1>3, <2>7, <2>10, <2>11, FS_Difference
  <2>14. Cardinality(back \cup again)
           = Cardinality(back) + Cardinality(again) - Cardinality({})
    BY <2>12, <2>13, FS_Union
  <2>15. /\ Cardinality(w) \in Nat /\ Cardinality(back) \in Nat /\ Cardinality(again) \in Nat
         /\ Cardinality({}) = 0 /\ Cardinality(w \cup batch) \in Nat
    BY <1>3, <2>7, <2>10, <2>13, FS_CardinalityType, FS_EmptySet
  <2>16. emitted \in Nat /\ Cardinality(rows \ before) \in Nat
    <3>1. Cardinality(Asked \ before) \in Nat /\ MaxRows \in Nat
      BY InvFinite DEF XInv
    <3>. QED
      BY <1>2, <3>1 DEF XInv, PagingInv
  <2>17. Cardinality(w \ first) = Cardinality(back) + Cardinality(again)
    <3>1. Cardinality(w \ first) = Cardinality(back \cup again)
      BY <2>12, Zenon
    <3>. QED
      BY <2>14, <2>15, <3>1
  <2>18. emitted + Cardinality(batch) - Cardinality(w \cup batch) + Cardinality(back)
           <= Cardinality(rows \ before)
    BY <2>8, <2>9, <2>10, <2>11, <2>15, <2>16, <2>17
  <2>19. /\ Cardinality(output' \ Passed') = Cardinality(back)
         /\ Cardinality(output') = Cardinality(w \cup batch)
    BY <1>5, <2>6, <2>7, <2>12, Zenon
  <2>20. PICK n \in Nat, e \in Nat, b \in Nat, u \in Nat, room \in Nat :
           /\ n = Cardinality(batch) /\ e = emitted /\ b = Cardinality(back)
           /\ u = Cardinality(w \cup batch) /\ room = Cardinality(rows \ before)
    BY <2>9, <2>15, <2>16
  <2>21. emitted' = e + n /\ e + n - u + b <= room
    BY <1>5, <2>18, <2>20
  <2>. QED
    BY <2>19, <2>20, <2>21
<1>. QED
  BY <1>1, <1>4, <1>5

LEMMA NothingWritten ==
  ASSUME RowsInv', output' = {}, emitted' = 0
  PROVE  RepeatInv'
<1>1. PICK rows : rows = Asked'
  OBVIOUS
<1>2. IsFiniteSet(rows)
  <2>1. rows \in SUBSET table'
    BY <1>1 DEF Asked, Wanted
  <2>. QED
    BY <2>1, FS_Subset DEF RowsInv
<1>3. Cardinality(rows \ before') \in Nat
  BY <1>2, FS_Difference, FS_CardinalityType
<1>4. Cardinality(output') = 0 /\ Cardinality(output' \ Passed') = 0
  <2>1. output' \ Passed' = {}
    OBVIOUS
  <2>. QED
    BY <2>1, FS_EmptySet
<1>. QED
  BY <1>1, <1>3, <1>4 DEF RepeatInv

LEMMA XInitInv == XInit => XInv
<1>. SUFFICES ASSUME XInit PROVE XInv
  OBVIOUS
<1>1. RowsInv
  BY FS_EmptySet DEF XInit, RowsInv
<1>2. PagingInv
  BY SizeAssumption DEF XInit, PagingInv
<1>3. SkipInv
  BY DEF XInit, SkipInv
<1>4. RepeatInv
  <2>1. Asked = {} /\ Asked \ before = {} /\ output \ Passed = {} /\ output = {} /\ emitted = 0
    BY DEF XInit, Asked, Wanted
  <2>. QED
    BY <2>1, FS_EmptySet DEF RepeatInv
<1>. QED
  BY <1>1, <1>2, <1>3, <1>4 DEF XInv

LEMMA XStepInv == XInv /\ [XNext]_xvars => XInv'
<1>. SUFFICES ASSUME XInv, [XNext]_xvars PROVE XInv'
  OBVIOUS
<1>1. CASE \E time \in Time, kinds \in Polls : Insert(time, kinds)
  BY <1>1, InsertKeepsInv
<1>2. CASE \E kinds \in Filters : Start(kinds)
  <2>1. PICK kinds \in Filters : Start(kinds)
    BY <1>2
  <2>2. /\ kinds \subseteq Kind /\ pc' = "paging" /\ filter' = kinds /\ table' = table
        /\ offset' = 0 /\ emitted' = 0 /\ output' = {}
        /\ before' = Asked'
    BY <2>1, KindAssumption DEF Start, Asked, Wanted
  <2>3. RowsInv'
    BY <2>2 DEF XInv, RowsInv
  <2>4. PagingInv'
    <3>1. 0 = 0 * BatchSize
      BY SizeAssumption
    <3>. QED
      BY <2>2, <3>1, SizeAssumption DEF PagingInv
  <2>5. SkipInv'
    <3>. SUFFICES ASSUME NEW r \in before'
                  PROVE  Ahead(Asked', r) >= 0
      BY <2>2 DEF SkipInv
    <3>1. PICK rows : rows = Asked'
      OBVIOUS
    <3>2. rows = Wanted(kinds)
      BY <2>2, <3>1 DEF Asked, Wanted
    <3>3. Timed(rows)
      BY <3>2, WantedTimed DEF XInv
    <3>. QED
      BY <3>1, <3>3, AheadType
  <2>. QED
    BY <2>2, <2>3, <2>4, <2>5, NothingWritten DEF XInv
<1>3. CASE Page
  <2>1. RowsInv'
    BY <1>3 DEF Page, XInv, RowsInv
  <2>. QED
    BY <1>3, <2>1, PageKeepsPaging, PageKeepsSkip, PageKeepsRepeats DEF XInv
<1>4. CASE CutOff
  <2>1. /\ pc' = "done" /\ UNCHANGED <<table, filter, offset, emitted, output, before>>
        /\ ~(emitted < MaxRows)
    BY <1>4 DEF CutOff, More
  <2>2. emitted = MaxRows /\ Asked' = Asked
    BY <2>1, SizeAssumption DEF XInv, PagingInv, Asked, Wanted
  <2>3. RowsInv' /\ PagingInv'
    BY <2>1, <2>2 DEF XInv, RowsInv, PagingInv
  <2>4. SkipInv'
    BY <2>1, <2>2 DEF XInv, SkipInv
  <2>5. RepeatInv'
    BY <2>1, <2>2 DEF XInv, RepeatInv, Passed
  <2>. QED
    BY <2>3, <2>4, <2>5 DEF XInv
<1>5. CASE Abandon
  <2>1. /\ pc' = "idle" /\ filter' = Kind /\ offset' = 0 /\ emitted' = 0
        /\ output' = {} /\ before' = {} /\ table' = table
    BY <1>5 DEF Abandon
  <2>2. RowsInv' /\ PagingInv' /\ SkipInv'
    BY <2>1, SizeAssumption DEF XInv, RowsInv, PagingInv, SkipInv
  <2>. QED
    BY <2>1, <2>2, NothingWritten DEF XInv
<1>6. CASE UNCHANGED xvars
  <2>1. UNCHANGED <<table, pc, filter, offset, emitted, output, before>>
    BY <1>6 DEF xvars
  <2>2. Asked' = Asked
    BY <2>1 DEF Asked, Wanted
  <2>3. RowsInv' /\ PagingInv'
    BY <2>1, <2>2 DEF XInv, RowsInv, PagingInv
  <2>4. SkipInv' /\ RepeatInv'
    BY <2>1, <2>2 DEF XInv, SkipInv, RepeatInv, Passed
  <2>. QED
    BY <2>3, <2>4 DEF XInv
<1>. QED
  BY <1>1, <1>2, <1>3, <1>4, <1>5, <1>6 DEF XNext

-----------------------------------------------------------------------------
\* How the export stands between two pages, whatever is inserted and by whomever: the
\* four facts below rest on it.
THEOREM ExportInvariant == XSpec => []XInv
BY XInitInv, XStepInv, PTL DEF XSpec

\* Every variable is of its type, and no more than max_rows are written
\* (query_service.py:75-105).
THEOREM ExportTypes == XSpec => []XTypeOK
<1>1. XInv => XTypeOK
  BY DEF XInv, RowsInv, PagingInv, Asked, Wanted, XTypeOK
<1>. QED
  BY <1>1, ExportInvariant, PTL

\* No row that was there when the export began and has a timestamp of its own is
\* skipped, but for the oldest when max_rows cut the export off
\* (query_service.py:75-105, repository.py:65).
THEOREM ExportSkipsNothing == XSpec => []NothingSkipped
<1>1. XInv => NothingSkipped
  <2>. SUFFICES ASSUME XInv, pc = "done", NEW r \in (before \cap Untied) \ output
                PROVE  emitted = MaxRows /\ \A q \in output : q.time > r.time
    BY DEF NothingSkipped
  <2>1. Alone(Asked, r)
    BY DEF Alone, Asked, Wanted, Untied
  <2>. QED
    BY <2>1 DEF XInv, SkipInv
<1>. QED
  BY <1>1, ExportInvariant, PTL

\* Each row written again stands for one inserted meanwhile (query_service.py:76-103).
THEOREM ExportRepeatsAreBounded == XSpec => []RepeatsAreBounded
<1>1. XInv => RepeatsAreBounded
  <2>. SUFFICES ASSUME XInv, {r \in table : r.kind \in filter} \subseteq Untied
                PROVE  emitted - Cardinality(output)
                         <= Cardinality({r \in table \ before : r.kind \in filter})
    BY DEF RepeatsAreBounded
  <2>1. \A r \in Asked : Alone(Asked, r)
    BY DEF Alone, Asked, Wanted, Untied
  <2>2. emitted - Cardinality(output) + Cardinality(output \ Passed)
          <= Cardinality(Asked \ before)
    BY <2>1 DEF XInv, RepeatInv
  <2>3. {r \in table \ before : r.kind \in filter} = Asked \ before
    BY DEF Asked, Wanted
  <2>4. /\ emitted \in Nat /\ Cardinality(output) \in Nat
        /\ Cardinality(output \ Passed) \in Nat /\ Cardinality(Asked \ before) \in Nat
    <3>1. /\ Cardinality(output) \in Nat /\ MaxRows \in Nat
          /\ Cardinality(output \ Passed) \in Nat /\ Cardinality(Asked \ before) \in Nat
      BY InvFinite DEF XInv
    <3>. QED
      BY <3>1 DEF XInv, PagingInv
  <2>5. emitted - Cardinality(output) <= Cardinality(Asked \ before)
    BY <2>2, <2>4
  <2>. QED
    BY <2>3, <2>5, Zenon
<1>. QED
  BY <1>1, ExportInvariant, PTL

\* What a bandwidth or latency query returns has no gap (query_service.py:35-51).
THEOREM ExportReturnsNewest == XSpec => []NewestAreReturned
<1>1. XInv => NewestAreReturned
  BY InvNewest DEF XInv
<1>. QED
  BY <1>1, ExportInvariant, PTL
=============================================================================
