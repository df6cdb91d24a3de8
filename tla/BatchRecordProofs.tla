-------------------------- MODULE BatchRecordProofs --------------------------
(***************************************************************************)
(* Every behaviour of BatchRecord keeps the rows of all batches coherent.  *)
(***************************************************************************)
EXTENDS BatchRecord, TLAPS

\* The two forms a value of rows[b] has are distinct.
LEMMA RowsAreNotEmpty ==
  ASSUME NEW r \in Rows
  PROVE  /\ r # NoRows
         /\ \E n \in 0 .. MaxScriptlets : r \in [0 .. n -> ProcessState]
<1>1. PICK n \in 0 .. MaxScriptlets : r \in [0 .. n -> ProcessState]
  BY DEF Rows
<1>2. 0 \in DOMAIN r
  BY <1>1, MaxScriptletsIsNat
<1>3. DOMAIN NoRows = {}
  BY DEF NoRows
<1> QED
  BY <1>1, <1>2, <1>3

\* A batch is stored coherent: everything waits, or there is only the batch.
LEMMA NewRowsCoherent ==
  ASSUME NEW r, NewRows(r)
  PROVE  Coherent(r)
<1>1. PICK n \in 0 .. MaxScriptlets : r \in [0 .. n -> ProcessState]
  BY RowsAreNotEmpty DEF NewRows
<1>2. 0 \in DOMAIN r
  BY <1>1, MaxScriptletsIsNat
<1> QED
  BY <1>1, <1>2 DEF NewRows, Coherent, Scripts, Begun

\* A write keeps coherent rows coherent.
LEMMA RewrittenCoherent ==
  ASSUME NEW r \in Rows, NEW s, Coherent(r), Rewritten(r, s)
  PROVE  Coherent(s)
<1>1. PICK n \in 0 .. MaxScriptlets : r \in [0 .. n -> ProcessState]
  BY RowsAreNotEmpty
<1>2. n \in Nat /\ s \in [0 .. n -> ProcessState]
  BY <1>1, MaxScriptletsIsNat DEF Rewritten
<1>3. 0 \in DOMAIN r /\ DOMAIN s = DOMAIN r /\ Scripts(s) = Scripts(r) /\ Scripts(r) = 1 .. n
  BY <1>1, <1>2 DEF Scripts
<1>4. ASSUME NEW j \in Scripts(s), s[j] \in Begun, NEW i \in 1 .. (j - 1)
      PROVE  s[i] = "SUCCESS"
  <2>1. i \in Scripts(r) /\ i < j /\ j \in Scripts(r) /\ i \in DOMAIN r /\ j \in DOMAIN r
    BY <1>2, <1>3
  <2>2. CASE r[j] = "WAITING"
    BY <1>4, <2>1, <2>2 DEF Rewritten, BeginsInTurn
  <2>3. CASE r[j] \in Begun
    <3>1. r[i] = "SUCCESS"
      BY <1>4, <2>1, <2>3 DEF Coherent
    <3>2. s[i] # "FAILURE"
      BY <1>3, <1>4, <2>1, <3>1 DEF Rewritten, RevokesAlone
    <3> QED
      BY <2>1, <3>1, <3>2 DEF Rewritten, Moves
  <2>4. CASE r[j] = "CANCELED"
    BY <1>4, <2>1, <2>4 DEF Rewritten, Moves, Begun
  <2> QED
    BY <1>1, <2>1, <2>2, <2>3, <2>4 DEF Begun, ProcessState
<1>5. ASSUME s[0] = "SUCCESS", NEW i \in Scripts(s)
      PROVE  s[i] = "SUCCESS"
  <2>1. CASE r[0] # "SUCCESS"
    BY <1>3, <1>5, <2>1 DEF Rewritten, SucceedsAsAWhole
  <2>2. CASE r[0] = "SUCCESS"
    <3>1. r[i] = "SUCCESS" /\ i \in Scripts(r) /\ i \in DOMAIN r
      BY <1>3, <1>5, <2>2 DEF Coherent, Scripts
    <3>2. s[i] # "FAILURE"
      BY <1>5, <3>1 DEF Rewritten, RevokesAlone
    <3> QED
      BY <3>1, <3>2 DEF Rewritten, Moves
  <2> QED
    BY <2>1, <2>2
<1>6. ASSUME s[0] = "WAITING", NEW i \in Scripts(s)
      PROVE  s[i] = "WAITING"
  <2>1. r[0] = "WAITING"
    BY <1>3, <1>6 DEF Rewritten, Moves
  <2>2. r[i] = "WAITING" /\ i \in Scripts(r) /\ i \in DOMAIN r
    BY <1>3, <1>6, <2>1 DEF Coherent, Scripts
  <2>3. s[i] \notin Begun
    BY <1>6, <2>2 DEF Rewritten, BeginsInTurn
  <2>4. s[i] # "CANCELED"
    BY <1>6, <2>2 DEF Rewritten, CancelsAfterTheBatch
  <2> QED
    BY <2>2, <2>3, <2>4 DEF Rewritten, Moves, Begun
<1> QED
  BY <1>4, <1>5, <1>6 DEF Coherent

\* The rows always have the shape TypeOK says.
THEOREM RecordTypeCorrect == Spec => []TypeOK
<1>1. Init => TypeOK
  BY DEF Init, TypeOK
<1>2. TypeOK /\ [Next]_rows => TypeOK'
  BY DEF TypeOK, Next
<1> QED
  BY <1>1, <1>2, PTL DEF Spec

\* Whoever reads the rows of a batch finds them coherent, at every moment and
\* for any number of batches and scriptlets.
THEOREM RecordCoherence == Spec => []RecordsCoherent
<1>1. Init => RecordsCoherent
  BY DEF Init, RecordsCoherent
<1>2. TypeOK /\ RecordsCoherent /\ [Next]_rows => RecordsCoherent'
  <2> SUFFICES ASSUME TypeOK, RecordsCoherent, [Next]_rows,
                      NEW c \in Batches, rows'[c] # NoRows
               PROVE  Coherent(rows'[c])
    BY DEF RecordsCoherent
  <2>1. CASE UNCHANGED rows
    BY <2>1 DEF RecordsCoherent
  <2>2. CASE Next
    <3>1. PICK b \in Batches : Store(b) \/ Rewrite(b)
      BY <2>2 DEF Next
    <3>2. CASE c # b
      BY <3>1, <3>2 DEF Store, Rewrite, Others, RecordsCoherent
    <3>3. CASE c = b /\ Store(b)
      BY <3>3, NewRowsCoherent DEF Store
    <3>4. CASE c = b /\ Rewrite(b)
      <4>1. rows[b] \in Rows /\ Coherent(rows[b])
        BY <3>4 DEF Rewrite, TypeOK, RecordsCoherent
      <4> QED
        BY <3>4, <4>1, RewrittenCoherent DEF Rewrite
    <3> QED
      BY <3>1, <3>2, <3>3, <3>4
  <2> QED
    BY <2>1, <2>2
<1> QED
  BY <1>1, <1>2, RecordTypeCorrect, PTL DEF Spec
=============================================================================
