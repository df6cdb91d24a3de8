------------------------- MODULE ProcessQueueProofs -------------------------
(***************************************************************************)
(* Proofs about ProcessQueue, for every number of batches, scriptlets and  *)
(* requests: the pages leave the record of the batches alone, and what     *)
(* they show, or are about to show, is never ahead of it.                  *)
(***************************************************************************)
EXTENDS ProcessQueue, BatchRecordProofs

USE MaxScriptletsIsNat, MaxRequestsIsNat

\* What a page does by itself.
PageStep ==
  \/ Becomes \/ OnChange \/ Poll
  \/ \E i \in Slots : AjaxList(i) \/ Done(i) \/ StopProcessQueue(i)

\* A stored batch has a state of its own, and scriptlets within the bound.
LEMMA RowsHaveStates ==
  ASSUME NEW r \in Rows
  PROVE  /\ r # NoRows /\ 0 \in DOMAIN r
         /\ Scripts(r) \subseteq 1 .. MaxScriptlets
         /\ \A u \in DOMAIN r : r[u] \in ProcessState
<1>1. PICK n \in 0 .. MaxScriptlets : r \in [0 .. n -> ProcessState]
  BY DEF Rows
<1> QED
  BY <1>1, RowsAreNotEmpty DEF Scripts

-----------------------------------------------------------------------------
(***************************************************************************)
(* The record is the same for the pages and without them.                  *)
(***************************************************************************)
\* A page reads the rows and never writes them.
LEMMA PagesOnlyRead == QueueNext => Next \/ (PageStep /\ UNCHANGED rows)
BY DEF QueueNext, Works, PageStep, Becomes, OnChange, Poll, AjaxList, Done,
       StopProcessQueue

\* Every behaviour of server and pages is one of the record alone.
THEOREM QueueImplementsRecord == QueueSpec => Spec
<1>1. QueueInit => Init
  BY DEF QueueInit
<1>2. [QueueNext]_vars => [Next]_rows
  BY PagesOnlyRead DEF vars
<1> QED
  BY <1>1, <1>2, PTL DEF QueueSpec, Spec

\* Hence what the pages read is coherent.
THEOREM QueueReadsCoherentRows == QueueSpec => []RecordsCoherent
BY QueueImplementsRecord, RecordCoherence, PTL

-----------------------------------------------------------------------------
(***************************************************************************)
(* Types.                                                                  *)
(***************************************************************************)
LEMMA ListedTyped ==
  ASSUME TypeOK
  PROVE  Listed(rows) \in SUBSET Entries
<1> SUFFICES ASSUME NEW b \in Batches, rows[b] # NoRows
             PROVE  [batch |-> b, state |-> rows[b][0], bar |-> Bar(rows[b])] \in Entries
  BY DEF Listed
<1>1. rows[b] \in Rows
  BY DEF TypeOK
<1>2. rows[b][0] \in ProcessState /\ Scripts(rows[b]) \subseteq 1 .. MaxScriptlets
  BY <1>1, RowsHaveStates
<1>3. Bar(rows[b]) \in SUBSET (1 .. MaxScriptlets)
  BY <1>2 DEF Bar
<1> QED
  BY <1>2, <1>3 DEF Entries

\* The requests of a page are idle, sent or answered with a list, and the queue
\* shows a list, through every visibility change, poll and answer.
THEOREM QueueTypeCorrect == QueueSpec => []QueueTypeOK
<1>1. QueueInit => QueueTypeOK
  <2> SUFFICES ASSUME QueueInit
               PROVE  QueueTypeOK
    OBVIOUS
  <2>1. TypeOK
    BY DEF QueueInit, Init, TypeOK
  <2> QED
    BY <2>1, ListedTyped DEF QueueInit, QueueTypeOK, Idle
<1>2. QueueTypeOK /\ [QueueNext]_vars => QueueTypeOK'
  <2> SUFFICES ASSUME QueueTypeOK, [QueueNext]_vars
               PROVE  QueueTypeOK'
    OBVIOUS
  <2> USE DEF QueueTypeOK
  <2>1. CASE Works
    BY <2>1 DEF Works, queue, Next, TypeOK
  <2>2. CASE Becomes \/ OnChange
    BY <2>2 DEF Becomes, OnChange, TypeOK
  <2>3. CASE Poll
    BY <2>3 DEF Poll, Sent, TypeOK
  <2>4. ASSUME NEW i \in Slots, AjaxList(i)
        PROVE  QueueTypeOK'
    BY <2>4, ListedTyped DEF AjaxList, Answered, TypeOK
  <2>5. ASSUME NEW i \in Slots, Done(i)
        PROVE  QueueTypeOK'
    BY <2>5 DEF Done, Idle, TypeOK
  <2>6. ASSUME NEW i \in Slots, StopProcessQueue(i)
        PROVE  QueueTypeOK'
    BY <2>6 DEF StopProcessQueue, Idle, TypeOK
  <2>7. CASE UNCHANGED vars
    BY <2>7 DEF vars, queue, TypeOK
  <2> QED
    BY <2>1, <2>2, <2>3, <2>4, <2>5, <2>6, <2>7 DEF QueueNext
<1> QED
  BY <1>1, <1>2, PTL DEF QueueSpec

-----------------------------------------------------------------------------
(***************************************************************************)
(* The queue is never ahead of the rows.                                   *)
(***************************************************************************)
\* Entry e fits rows r of its batch.
Behind(e, r) ==
  /\ r # NoRows
  /\ HasBecome(e.state, r[0])
  /\ e.bar \subseteq {u \in Scripts(r) : r[u] # "WAITING"}

ListBehind(list) == \A e \in list : Behind(e, rows[e.batch])

\* What is shown, and what is in the answers under way.
AllBehind == ListBehind(shown) /\ \A i \in Slots : ListBehind(requests[i].list)

LEMMA NeverAheadIsAllBehind == QueueIsNeverAhead <=> AllBehind
BY DEF QueueIsNeverAhead, AllBehind, ListBehind, Behind

\* A list that is put together now is up to date.
LEMMA ListedIsBehind == ListBehind(Listed(rows))
<1> SUFFICES ASSUME NEW b \in Batches, rows[b] # NoRows
             PROVE  Behind([batch |-> b, state |-> rows[b][0], bar |-> Bar(rows[b])], rows[b])
  BY DEF ListBehind, Listed
<1> QED
  BY DEF Behind, HasBecome, Bar

\* A write moves a batch on from wherever it was seen before, and no scriptlet
\* back to waiting.
LEMMA RewrittenStaysBehind ==
  ASSUME NEW e, NEW r \in Rows, NEW s \in Rows, Rewritten(r, s), Behind(e, r)
  PROVE  Behind(e, s)
<1>1. /\ s # NoRows /\ 0 \in DOMAIN r /\ DOMAIN s = DOMAIN r
      /\ \A u \in DOMAIN r : s[u] = r[u] \/ <<r[u], s[u]>> \in Moves
      /\ s[0] \in ProcessState
  BY RowsHaveStates DEF Rewritten
<1>2. HasBecome(e.state, s[0])
  BY <1>1 DEF Behind, HasBecome, Moves, ProcessState
<1>3. \A u \in Scripts(r) : r[u] # "WAITING" => s[u] # "WAITING"
  BY <1>1 DEF Scripts, Moves
<1> QED
  BY <1>1, <1>2, <1>3 DEF Behind, Scripts

\* Hence a list stays behind the rows, whatever the server writes.
LEMMA WritesKeepListsBehind ==
  ASSUME TypeOK, Next, NEW list \in SUBSET Entries, ListBehind(list)
  PROVE  ListBehind(list)'
<1> SUFFICES ASSUME NEW e \in list
             PROVE  Behind(e, rows'[e.batch])
  BY DEF ListBehind
<1>1. e.batch \in Batches /\ Behind(e, rows[e.batch]) /\ rows[e.batch] # NoRows
  BY DEF Entries, ListBehind, Behind
<1>2. /\ rows[e.batch] \in Rows
      /\ rows'[e.batch] \in {NoRows} \cup Rows
  BY <1>1 DEF TypeOK, Next
<1>3. PICK b \in Batches : Store(b) \/ Rewrite(b)
  BY DEF Next
<1>4. CASE e.batch # b
  BY <1>1, <1>3, <1>4 DEF Store, Rewrite, Others
<1>5. CASE e.batch = b
  <2>1. Rewritten(rows[b], rows'[b])
    BY <1>1, <1>3, <1>5 DEF Store, Rewrite
  <2>2. rows'[b] \in Rows
    <3>1. 0 \in DOMAIN rows[b]
      BY <1>2, <1>5, RowsHaveStates
    <3>2. DOMAIN rows'[b] = DOMAIN rows[b] /\ DOMAIN NoRows = {}
      BY <2>1 DEF Rewritten, NoRows
    <3> QED
      BY <1>2, <1>5, <3>1, <3>2
  <2> QED
    BY <1>1, <1>2, <1>5, <2>1, <2>2, RewrittenStaysBehind
<1> QED
  BY <1>4, <1>5

\* Whatever the order of the answers and however often the page was hidden,
\* the queue never shows a batch further on than it is.
THEOREM QueueStaysBehind == QueueSpec => []QueueIsNeverAhead
<1>1. QueueInit => AllBehind
  <2> SUFFICES ASSUME QueueInit
               PROVE  AllBehind
    OBVIOUS
  <2>1. ListBehind(shown)
    BY ListedIsBehind DEF QueueInit
  <2>2. \A i \in Slots : requests[i].list = {}
    BY DEF QueueInit, Idle
  <2>3. \A i \in Slots : ListBehind(requests[i].list)
    BY <2>2 DEF ListBehind
  <2> QED
    BY <2>1, <2>3 DEF AllBehind
<1>2. QueueTypeOK /\ AllBehind /\ [QueueNext]_vars => AllBehind'
  <2> SUFFICES ASSUME QueueTypeOK, AllBehind, [QueueNext]_vars
               PROVE  AllBehind'
    OBVIOUS
  <2>1. /\ ListBehind(shown) /\ shown \in SUBSET Entries
        /\ \A i \in Slots : ListBehind(requests[i].list) /\ requests[i].list \in SUBSET Entries
    BY DEF AllBehind, QueueTypeOK
  <2>2. CASE Works
    <3>1. Next /\ shown' = shown /\ requests' = requests /\ TypeOK
      BY <2>2 DEF Works, queue, QueueTypeOK
    <3>2. ListBehind(shown)'
      BY <2>1, <3>1, WritesKeepListsBehind
    <3>3. \A i \in Slots : ListBehind(requests[i].list)'
      BY <2>1, <3>1, WritesKeepListsBehind
    <3> QED
      BY <3>2, <3>3 DEF AllBehind
  <2>3. CASE Becomes \/ OnChange \/ UNCHANGED vars
    BY <2>3 DEF Becomes, OnChange, vars, queue, AllBehind, ListBehind
  <2>4. CASE Poll
    <3>1. PICK j \in Slots : requests' = [requests EXCEPT ![j] = Sent]
      BY <2>4 DEF Poll
    <3>2. \A i \in Slots : requests'[i].list \in {requests[i].list, {}}
      BY <3>1 DEF Sent, QueueTypeOK
    <3> QED
      BY <2>1, <2>4, <3>2 DEF Poll, AllBehind, ListBehind
  <2>5. ASSUME NEW j \in Slots, AjaxList(j)
        PROVE  AllBehind'
    <3>1. \A i \in Slots : requests'[i].list \in {requests[i].list, Listed(rows)}
      BY <2>5 DEF AjaxList, Answered, QueueTypeOK
    <3> QED
      BY <2>1, <2>5, <3>1, ListedIsBehind DEF AjaxList, AllBehind, ListBehind
  <2>6. ASSUME NEW j \in Slots, Done(j)
        PROVE  AllBehind'
    <3>1. \A i \in Slots : requests'[i].list \in {requests[i].list, {}}
      BY <2>6 DEF Done, Idle, QueueTypeOK
    <3> QED
      BY <2>1, <2>6, <3>1 DEF Done, AllBehind, ListBehind
  <2>7. ASSUME NEW j \in Slots, StopProcessQueue(j)
        PROVE  AllBehind'
    <3>1. \A i \in Slots : requests'[i].list \in {requests[i].list, {}}
      BY <2>7 DEF StopProcessQueue, Idle, QueueTypeOK
    <3> QED
      BY <2>1, <2>7, <3>1 DEF StopProcessQueue, AllBehind, ListBehind
  <2> QED
    BY <2>2, <2>3, <2>4, <2>5, <2>6, <2>7 DEF QueueNext
<1> QED
  BY <1>1, <1>2, NeverAheadIsAllBehind, QueueTypeCorrect, PTL DEF QueueSpec
=============================================================================
