------------------------ MODULE ZoneParametersProofs ------------------------
(***************************************************************************)
(* Proofs about ZoneParameters: a batch replaces only what it read and may *)
(* write, and an accepted form removes only what it showed.                *)
(***************************************************************************)
EXTENDS ZoneParameters, TLAPS

LEMMA ViewsAreParts ==
  ASSUME NEW R, NEW V \in Views(R)
  PROVE  V \subseteq R /\ NamesIn(V) = NamesIn(R)
BY DEF Views

LEMMA PartialType ==
  ASSUME NEW A, NEW B, NEW f \in Partial(A, B)
  PROVE  DOMAIN f \subseteq A /\ \A a \in DOMAIN f : f[a] \in B
BY DEF Partial

\* What Pending asks a session to flush is well-formed.
LEMMA PendingType ==
  ASSUME NEW R \in SUBSET Parameter, NEW wanted, NEW gone \in SUBSET Parameter,
         DOMAIN wanted \subseteq Names, \A n \in DOMAIN wanted : wanted[n] \in Field,
         NEW allow \in BOOLEAN, NEW touched \in BOOLEAN
  PROVE  Pending(R, wanted, gone, allow, touched) \in Work
<1>1. Changed(R, wanted) \in SUBSET (Parameter \X Field)
  BY DEF Changed
<1>2. Missing(R, wanted) \in SUBSET (Names \X Field)
  BY DEF Missing
<1>3. (touched \/ gone # {} \/ Missing(R, wanted) # {}) \in BOOLEAN
  OBVIOUS
<1> QED  BY <1>1, <1>2, <1>3 DEF Work, Pending

LEMMA GrantedType ==
  ASSUME NEW b, NEW found \in Partial(Names, Values)
  PROVE  /\ DOMAIN Granted(b, found) \subseteq Names
         /\ \A n \in DOMAIN Granted(b, found) : Granted(b, found)[n] \in Field
BY PartialType DEF Granted, Field

LEMMA PutType ==
  ASSUME NEW R, NEW given \in Partial(Names, Values)
  PROVE  /\ DOMAIN Put(R, given) \subseteq Names
         /\ \A n \in DOMAIN Put(R, given) : Put(R, given)[n] \in Field
BY PartialType DEF Put, Field, ExposedIn
-----------------------------------------------------------------------------
LEMMA TypeInit == Init => TypeOK
BY DEF Init, TypeOK, NewZone, NoForm, NoWork, Zone, Form, Work, Sessions

\* A session that leaves, whatever the reason.
LEMMA LeaveType ==
  ASSUME TypeOK, NEW s \in Sessions, NEW how \in {"done", "failed"}, Leave(s, how)
  PROVE  TypeOK'
BY DEF TypeOK, Leave, Goto, NewZone, NoWork, Zone, Work

\* Every session that computes its work does it from a part of the parameters.
LEMMA ComputeType ==
  ASSUME TypeOK, NEW s \in Sessions, NEW V \in Views(rows), NEW w \in Work,
         read' = [read EXCEPT ![s] = V], work' = [work EXCEPT ![s] = w],
         base' = [base EXCEPT ![s] = zone], Goto(s, "flush"),
         UNCHANGED <<zone, rows, lastId>>, form' \in [Editors -> Form]
  PROVE  TypeOK'
BY ViewsAreParts DEF TypeOK, Goto

LEMMA FlushType ==
  ASSUME TypeOK, NEW s \in Sessions, Flush(s)
  PROVE  TypeOK'
<1>1. CASE FlushZone(s)
  <2>1. work[s] \in Work /\ zone.version \in Nat
    BY DEF TypeOK, Zone
  <2>2. [work[s] EXCEPT !.touch = FALSE] \in Work
    BY <2>1 DEF Work
  <2>3. [version |-> zone.version + 1, allow |-> work[s].allow] \in Zone
    BY <2>1 DEF Work, Zone
  <2> QED  BY <1>1, <2>2, <2>3 DEF TypeOK, FlushZone
<1>2. CASE ZoneConflict(s)
  BY <1>2, LeaveType DEF ZoneConflict
<1>3. CASE Flushed(s)
  BY <1>3, LeaveType DEF Flushed
<1>4. ASSUME NEW u \in work[s].updates, FlushUpdate(s, u)
      PROVE  TypeOK'
  <2>1. work[s] \in Work /\ u[1] \in Parameter /\ u[2] \in Field
    BY <1>4 DEF TypeOK, Work
  <2>2. Updated(u[1], u[2]) \in Parameter
    BY <2>1 DEF Updated, Parameter, Field
  <2>3. rows' \subseteq Parameter
    BY <1>4, <2>2 DEF TypeOK, FlushUpdate
  <2>4. work'[s] \in Work
    BY <1>4, <2>1 DEF TypeOK, FlushUpdate, Work
  <2> QED  BY <1>4, <2>3, <2>4 DEF TypeOK, FlushUpdate
<1>5. ASSUME NEW u \in work[s].updates, UpdateConflict(s, u)
      PROVE  TypeOK'
  BY <1>5, LeaveType DEF UpdateConflict
<1>6. ASSUME NEW r \in work[s].deletes, FlushDelete(s, r)
      PROVE  TypeOK'
  BY <1>6 DEF TypeOK, FlushDelete, Work
<1>7. ASSUME NEW i \in work[s].inserts, FlushInsert(s, i)
      PROVE  TypeOK'
  <2>1. work[s] \in Work /\ i[1] \in Names /\ i[2] \in Field
    BY <1>7 DEF TypeOK, Work
  <2>2. [id |-> lastId + 1, name |-> i[1], value |-> i[2].value,
         exposed |-> i[2].exposed, version |-> 0] \in Parameter
    BY <2>1 DEF TypeOK, Parameter, Field
  <2>3. rows' \subseteq Parameter /\ lastId' \in Nat
    BY <1>7, <2>2 DEF TypeOK, FlushInsert
  <2>4. work'[s] \in Work
    BY <1>7, <2>1 DEF TypeOK, FlushInsert, Work
  <2> QED  BY <1>7, <2>3, <2>4 DEF TypeOK, FlushInsert
<1> QED  BY <1>1, <1>2, <1>3, <1>4, <1>5, <1>6, <1>7 DEF Flush

LEMMA TypeNext == TypeOK /\ [Next]_vars => TypeOK'
<1> SUFFICES ASSUME TypeOK, [Next]_vars PROVE TypeOK'
  OBVIOUS
<1>1. ASSUME NEW b \in Batches, BeginBatch(b) \/ LoadParameters(b)
      PROVE  TypeOK'
  BY <1>1, ViewsAreParts DEF TypeOK, BeginBatch, LoadParameters, Goto, Sessions
<1>2. ASSUME NEW b \in Batches, NEW found \in Partial(Names, Values), WriteBack(b, found)
      PROVE  TypeOK'
  <2>1. Pending(read[b], Granted(b, found), {}, base[b].allow, FALSE) \in Work
    BY GrantedType, PendingType DEF TypeOK, Sessions, Zone
  <2> QED  BY <1>2, <2>1 DEF TypeOK, WriteBack, Goto, Sessions
<1>3. ASSUME NEW e \in Editors, OpenForm(e) \/ RejectForm(e)
      PROVE  TypeOK'
  <2>1. CASE OpenForm(e)
    <3> DEFINE quiet == \A s \in Sessions : ~ Inserting(s)
    <3>1. PICK V \in Views(rows) :
            form' = [form EXCEPT ![e] =
                       [version |-> zone.version, rows |-> V, quiet |-> quiet]]
      BY <2>1 DEF OpenForm
    <3>2. quiet \in BOOLEAN /\ zone.version \in Nat /\ V \in SUBSET Parameter
      BY ViewsAreParts DEF TypeOK, Zone
    <3> HIDE DEF quiet
    <3>3. form' \in [Editors -> Form]
      BY <3>1, <3>2 DEF TypeOK, Form
    <3> QED  BY <2>1, <3>3 DEF TypeOK, OpenForm, Goto, Sessions
  <2>2. CASE RejectForm(e)
    BY <2>2 DEF TypeOK, RejectForm, Goto, Sessions, Form, NoForm
  <2> QED  BY <1>3, <2>1, <2>2
<1>4. ASSUME NEW e \in Editors, NEW posted \in Partial(Names, Field),
             NEW allow \in BOOLEAN, SubmitForm(e, posted, allow)
      PROVE  TypeOK'
  <2>1. PICK V \in Views(rows) :
          /\ read' = [read EXCEPT ![e] = V]
          /\ work' = [work EXCEPT ![e] =
               Pending(V, posted, Unwanted(V, posted), allow, allow # zone.allow)]
    BY <1>4 DEF SubmitForm
  <2>2. V \in SUBSET Parameter /\ Unwanted(V, posted) \in SUBSET Parameter
    BY ViewsAreParts DEF TypeOK, Unwanted
  <2>3. Pending(V, posted, Unwanted(V, posted), allow, allow # zone.allow) \in Work
    BY <2>2, PartialType, PendingType
  <2>4. form' \in [Editors -> Form]
    BY <1>4 DEF SubmitForm, TypeOK, Form, NoForm
  <2> QED  BY <1>4, <2>1, <2>3, <2>4, ComputeType DEF SubmitForm, Sessions
<1>5. ASSUME NEW c \in Clients, NEW given \in Partial(Names, Values), RestPut(c, given)
      PROVE  TypeOK'
  <2>1. PICK V \in Views(rows) :
          /\ read' = [read EXCEPT ![c] = V]
          /\ work' = [work EXCEPT ![c] = Pending(V, Put(V, given), {}, zone.allow, FALSE)]
    BY <1>5 DEF RestPut
  <2>2. V \in SUBSET Parameter /\ zone.allow \in BOOLEAN
    BY ViewsAreParts DEF TypeOK, Zone
  <2>3. Pending(V, Put(V, given), {}, zone.allow, FALSE) \in Work
    BY <2>2, PutType, PendingType
  <2> QED  BY <1>5, <2>1, <2>3, ComputeType DEF RestPut, Sessions, TypeOK
<1>6. ASSUME NEW c \in Clients, NEW given \in SUBSET Names, RestDelete(c, given)
      PROVE  TypeOK'
  <2>1. PICK V \in Views(rows) :
          /\ read' = [read EXCEPT ![c] = V]
          /\ work' = [work EXCEPT ![c] =
               Pending(V, << >>, {r \in V : r.name \in given}, zone.allow, FALSE)]
    BY <1>6 DEF RestDelete
  <2>2. V \in SUBSET Parameter /\ zone.allow \in BOOLEAN
    BY ViewsAreParts DEF TypeOK, Zone
  <2>3. DOMAIN << >> = {}
    OBVIOUS
  <2>4. Pending(V, << >>, {r \in V : r.name \in given}, zone.allow, FALSE) \in Work
    BY <2>2, <2>3, PendingType
  <2> QED  BY <1>6, <2>1, <2>4, ComputeType DEF RestDelete, Sessions, TypeOK
<1>7. ASSUME NEW s \in Sessions, Flush(s)
      PROVE  TypeOK'
  BY <1>7, FlushType
<1>8. CASE UNCHANGED vars
  BY <1>8 DEF TypeOK, vars
<1> QED  BY <1>1, <1>2, <1>3, <1>4, <1>5, <1>6, <1>7, <1>8 DEF Next

\* Every variable keeps its type.
THEOREM TypeCorrect == Spec => []TypeOK
BY TypeInit, TypeNext, PTL DEF Spec
-----------------------------------------------------------------------------
(***************************************************************************)
(* The invariant of the flush, one part after the other.                   *)
(***************************************************************************)
\* Steps that leave the parameters alone and in which at most one session
\* reads a part of them.
LEMMA ReadingKeepsReadInv ==
  ASSUME TypeOK, ReadInv, rows' = rows, lastId' = lastId,
         \A s \in Sessions : read'[s] = read[s] \/ read'[s] \subseteq rows
  PROVE  ReadInv'
<1>1. \A r \in rows : r.id \in Nat /\ r.version \in Nat
  BY DEF TypeOK, Parameter
<1>2. ASSUME NEW s \in Sessions, NEW r \in read'[s]
      PROVE  /\ r.id <= lastId
             /\ \A q \in rows : q.id = r.id =>
                  q.version >= r.version /\ (q.version = r.version => q = r)
  <2>1. CASE r \in read[s]
    BY <2>1 DEF ReadInv
  <2>2. CASE r \in rows
    BY <2>2, <1>1 DEF ReadInv
  <2> QED  BY <1>2, <2>1, <2>2
<1> QED  BY <1>2 DEF ReadInv

LEMMA FlushKeepsReadInv ==
  ASSUME TypeOK, ReadInv, WorkInv, NEW s \in Sessions, Flush(s)
  PROVE  ReadInv'
<1> USE DEF Parameter
<1>1. CASE FlushZone(s)
  BY <1>1 DEF FlushZone, ReadInv
<1>2. ASSUME NEW how, Leave(s, how)
      PROVE  ReadInv'
  BY <1>2 DEF Leave, ReadInv, TypeOK
<1>3. ASSUME NEW u \in work[s].updates, FlushUpdate(s, u)
      PROVE  ReadInv'
  <2> DEFINE r == u[1]
             n == Updated(u[1], u[2])
  <2>1. r \in read[s] /\ r \in Parameter
    BY DEF WorkInv, TypeOK
  <2>2. r \in rows /\ Current(r) = {r}
    BY <1>3, <2>1 DEF FlushUpdate, Current, ReadInv
  <2>3. rows' = (rows \ {r}) \cup {n} /\ lastId' = lastId /\ read' = read
    BY <1>3, <2>2 DEF FlushUpdate
  <2>4. n.id = r.id /\ n.version = r.version + 1 /\ r.version \in Nat
    BY <2>1 DEF Updated
  <2>5. \A q \in rows \ {r} : q.id # n.id
    BY <2>2, <2>4 DEF ReadInv
  <2>6. \A q \in rows' : q.id <= lastId'
    BY <2>2, <2>3, <2>4 DEF ReadInv
  <2>7. \A p, q \in rows' : p.id = q.id => p = q
    BY <2>3, <2>5 DEF ReadInv
  <2>8. ASSUME NEW t \in Sessions, NEW p \in read[t], NEW q \in rows', q.id = p.id
        PROVE  q.version >= p.version /\ (q.version = p.version => q = p)
    <3>1. p.version \in Nat
      BY DEF TypeOK
    <3>2. CASE q = n
      <4>1. r.version >= p.version
        BY <2>2, <2>4, <2>8, <3>2 DEF ReadInv
      <4> QED  BY <2>4, <3>1, <3>2, <4>1
    <3>3. CASE q \in rows
      BY <2>8, <3>3 DEF ReadInv
    <3> QED  BY <2>3, <3>2, <3>3
  <2>9. \A t \in Sessions : \A p \in read'[t] : p.id <= lastId'
    BY <2>3 DEF ReadInv
  <2> HIDE DEF n, r
  <2> QED  BY <2>3, <2>6, <2>7, <2>8, <2>9 DEF ReadInv
<1>4. ASSUME NEW r \in work[s].deletes, FlushDelete(s, r)
      PROVE  ReadInv'
  BY <1>4 DEF FlushDelete, ReadInv
<1>5. ASSUME NEW i \in work[s].inserts, FlushInsert(s, i)
      PROVE  ReadInv'
  <2> DEFINE n == [id |-> lastId', name |-> i[1], value |-> i[2].value,
                   exposed |-> i[2].exposed, version |-> 0]
  <2>1. rows' = rows \cup {n} /\ lastId' = lastId + 1 /\ lastId \in Nat /\ read' = read
    BY <1>5 DEF FlushInsert, TypeOK
  <2>2. n.id = lastId + 1
    BY <2>1
  <2>3. \A r \in rows : r.id \in Nat /\ r.id <= lastId
    BY DEF ReadInv, TypeOK
  <2>4. \A t \in Sessions : \A r \in read[t] : r.id \in Nat /\ r.id <= lastId
    BY DEF ReadInv, TypeOK
  <2> HIDE DEF n
  <2>5. \A r \in rows' : r.id <= lastId'
    BY <2>1, <2>2, <2>3
  <2>6. \A r, q \in rows' : r.id = q.id => r = q
    BY <2>1, <2>2, <2>3 DEF ReadInv
  <2>7. \A t \in Sessions : \A r \in read'[t] : r.id <= lastId' /\ r.id # n.id
    BY <2>1, <2>2, <2>4
  <2>8. \A t \in Sessions : \A r \in read'[t] : \A q \in rows' : q.id = r.id =>
          q.version >= r.version /\ (q.version = r.version => q = r)
    BY <2>1, <2>7 DEF ReadInv
  <2> QED  BY <2>5, <2>6, <2>7, <2>8 DEF ReadInv
<1> QED  BY <1>1, <1>2, <1>3, <1>4, <1>5
         DEF Flush, ZoneConflict, UpdateConflict, Flushed

LEMMA ReadInvNext == TypeOK /\ ReadInv /\ WorkInv /\ [Next]_vars => ReadInv'
<1> SUFFICES ASSUME TypeOK, ReadInv, WorkInv, [Next]_vars PROVE ReadInv'
  OBVIOUS
<1>1. ASSUME NEW s \in Sessions, NEW V \in Views(rows), read' = [read EXCEPT ![s] = V],
             UNCHANGED <<rows, lastId>>
      PROVE  ReadInv'
  BY <1>1, ViewsAreParts, ReadingKeepsReadInv DEF TypeOK
<1>2. ASSUME UNCHANGED <<rows, lastId, read>>
      PROVE  ReadInv'
  BY <1>2, ReadingKeepsReadInv
<1>3. ASSUME NEW b \in Batches, NEW found,
             BeginBatch(b) \/ LoadParameters(b) \/ WriteBack(b, found)
      PROVE  ReadInv'
  BY <1>1, <1>2, <1>3 DEF BeginBatch, LoadParameters, WriteBack, Sessions
<1>4. ASSUME NEW e \in Editors, NEW posted, NEW allow,
             OpenForm(e) \/ RejectForm(e) \/ SubmitForm(e, posted, allow)
      PROVE  ReadInv'
  BY <1>1, <1>2, <1>4 DEF OpenForm, RejectForm, SubmitForm, Sessions
<1>5. ASSUME NEW c \in Clients, NEW given, RestPut(c, given) \/ RestDelete(c, given)
      PROVE  ReadInv'
  BY <1>1, <1>5 DEF RestPut, RestDelete, Sessions
<1>6. CASE \E s \in Sessions : Flush(s)
  BY <1>6, FlushKeepsReadInv
<1>7. CASE UNCHANGED vars
  BY <1>2, <1>7 DEF vars
<1> QED  BY <1>3, <1>4, <1>5, <1>6, <1>7 DEF Next
-----------------------------------------------------------------------------
\* What is changed was read; what is new needs the row of the zone first.
LEMMA PendingFacts ==
  ASSUME NEW R, NEW wanted, NEW gone, NEW allow, NEW touched
  PROVE  LET w == Pending(R, wanted, gone, allow, touched)
         IN  /\ \A u \in w.updates : u[1] \in R /\ u[1].name \in DOMAIN wanted
             /\ w.deletes = gone
             /\ w.inserts # {} => w.touch
<1> DEFINE w == Pending(R, wanted, gone, allow, touched)
<1>1. w.updates = Changed(R, wanted) /\ w.deletes = gone
  BY DEF Pending
<1>2. w.inserts = Missing(R, wanted) /\ (w.inserts # {} => w.touch)
  BY DEF Pending
<1>3. \A u \in Changed(R, wanted) : u[1] \in R /\ u[1].name \in DOMAIN wanted
  BY DEF Changed
<1> QED  BY <1>1, <1>2, <1>3

LEMMA ComputeKeepsWorkInv ==
  ASSUME TypeOK, WorkInv, NEW s \in Sessions \ Batches, NEW V, NEW wanted, NEW gone,
         NEW allow, NEW touched,
         read' = [read EXCEPT ![s] = V], base' = [base EXCEPT ![s] = zone],
         work' = [work EXCEPT ![s] = Pending(V, wanted, gone, allow, touched)],
         Goto(s, "flush")
  PROVE  WorkInv'
<1>1. \A u \in work'[s].updates : u[1] \in read'[s]
  BY PendingFacts DEF TypeOK
<1>2. \A t \in Sessions \ {s} :
        pc'[t] = pc[t] /\ work'[t] = work[t] /\ read'[t] = read[t] /\ base'[t] = base[t]
  BY DEF TypeOK, Goto
<1>3. pc'[s] = "flush"
  BY DEF TypeOK, Goto
<1> QED  BY <1>1, <1>2, <1>3 DEF WorkInv, Sessions

LEMMA WriteBackKeepsWorkInv ==
  ASSUME TypeOK, WorkInv, NEW b \in Batches, NEW found, WriteBack(b, found)
  PROVE  WorkInv'
<1> DEFINE w == Pending(read[b], Granted(b, found), {}, base[b].allow, FALSE)
<1>1. work' = [work EXCEPT ![b] = w] /\ read' = read /\ base' = base /\ Goto(b, "flush")
  BY DEF WriteBack
<1>2. \A u \in w.updates : u[1] \in read[b] /\ u[1].name \in DOMAIN Granted(b, found)
  BY PendingFacts
<1>3. w.deletes = {}
  BY DEF Pending
<1> HIDE DEF w
<1>4. \A u \in w.updates : base[b].allow /\ u[1].exposed
  BY <1>2 DEF Granted, Writable
<1>5. \A t \in Sessions \ {b} : pc'[t] = pc[t] /\ work'[t] = work[t]
  BY <1>1 DEF TypeOK, Goto
<1>6. pc'[b] = "flush" /\ work'[b] = w
  BY <1>1 DEF TypeOK, Goto, Sessions
<1> QED  BY <1>1, <1>2, <1>3, <1>4, <1>5, <1>6 DEF WorkInv, Sessions

LEMMA FlushKeepsWorkInv ==
  ASSUME TypeOK, WorkInv, NEW s \in Sessions, Flush(s)
  PROVE  WorkInv'
<1>1. ASSUME NEW how, Leave(s, how)
      PROVE  WorkInv'
  <2>1. work'[s] = NoWork
    BY <1>1 DEF Leave, TypeOK
  <2>2. \A t \in Sessions \ {s} :
          pc'[t] = pc[t] /\ work'[t] = work[t] /\ read'[t] = read[t] /\ base'[t] = base[t]
    BY <1>1 DEF Leave, TypeOK, Goto
  <2> QED  BY <2>1, <2>2 DEF WorkInv, NoWork, Sessions
<1>2. ASSUME pc' = pc, pc[s] = "flush", read' = read, base' = base,
             \A t \in Sessions \ {s} : work'[t] = work[t],
             work'[s].updates \subseteq work[s].updates,
             work'[s].deletes \subseteq work[s].deletes
      PROVE  WorkInv'
  BY <1>2 DEF WorkInv, Sessions
<1>3. CASE FlushZone(s)
  BY <1>2, <1>3 DEF FlushZone, TypeOK, Work
<1>4. ASSUME NEW u \in work[s].updates, FlushUpdate(s, u)
      PROVE  WorkInv'
  BY <1>2, <1>4 DEF FlushUpdate, TypeOK, Work
<1>5. ASSUME NEW r \in work[s].deletes, FlushDelete(s, r)
      PROVE  WorkInv'
  BY <1>2, <1>5 DEF FlushDelete, TypeOK, Work
<1>6. ASSUME NEW i \in work[s].inserts, FlushInsert(s, i)
      PROVE  WorkInv'
  BY <1>2, <1>6 DEF FlushInsert, TypeOK, Work
<1> QED  BY <1>1, <1>3, <1>4, <1>5, <1>6
         DEF Flush, ZoneConflict, UpdateConflict, Flushed

LEMMA WorkInvNext == TypeOK /\ WorkInv /\ [Next]_vars => WorkInv'
<1> SUFFICES ASSUME TypeOK, WorkInv, [Next]_vars PROVE WorkInv'
  OBVIOUS
<1>1. ASSUME NEW s \in Sessions, pc[s] # "flush", work' = work,
             \A t \in Sessions \ {s} :
               pc'[t] = pc[t] /\ read'[t] = read[t] /\ base'[t] = base[t]
      PROVE  WorkInv'
  <2>1. work[s] = NoWork
    BY <1>1 DEF WorkInv
  <2> QED  BY <1>1, <2>1 DEF WorkInv, NoWork, Sessions
<1>2. ASSUME NEW b \in Batches, BeginBatch(b) \/ LoadParameters(b)
      PROVE  WorkInv'
  BY <1>1, <1>2 DEF BeginBatch, LoadParameters, Goto, TypeOK, Sessions
<1>3. ASSUME NEW e \in Editors, OpenForm(e) \/ RejectForm(e)
      PROVE  WorkInv'
  BY <1>1, <1>3 DEF OpenForm, RejectForm, Goto, TypeOK, Sessions
<1>4. ASSUME NEW e \in Editors, NEW posted, NEW allow, SubmitForm(e, posted, allow)
      PROVE  WorkInv'
  <2>1. PICK V \in Views(rows) :
          /\ read' = [read EXCEPT ![e] = V]
          /\ work' = [work EXCEPT ![e] =
               Pending(V, posted, Unwanted(V, posted), allow, allow # zone.allow)]
    BY <1>4 DEF SubmitForm
  <2>2. base' = [base EXCEPT ![e] = zone] /\ Goto(e, "flush") /\ e \in Sessions \ Batches
    BY <1>4, SessionsAreDistinct DEF SubmitForm, Sessions
  <2> QED  BY <2>1, <2>2, ComputeKeepsWorkInv
<1>5. ASSUME NEW c \in Clients, NEW given, RestPut(c, given)
      PROVE  WorkInv'
  BY <1>5, ComputeKeepsWorkInv, SessionsAreDistinct DEF RestPut, Sessions
<1>6. ASSUME NEW c \in Clients, NEW given, RestDelete(c, given)
      PROVE  WorkInv'
  BY <1>6, ComputeKeepsWorkInv, SessionsAreDistinct DEF RestDelete, Sessions
<1>7. CASE UNCHANGED vars
  BY <1>7 DEF WorkInv, vars
<1> QED  BY <1>2, <1>3, <1>4, <1>5, <1>6, <1>7, WriteBackKeepsWorkInv, FlushKeepsWorkInv
         DEF Next
-----------------------------------------------------------------------------
\* Steps that neither add a parameter nor begin to insert one.
LEMMA QuietStepKeepsFormInv ==
  ASSUME FormInv, zone' = zone, NamesIn(rows') \subseteq NamesIn(rows),
         \A e \in Editors : pc'[e] = "form" => pc[e] = "form" /\ form'[e] = form[e],
         \A s \in Sessions : Inserting(s)' => Inserting(s)
  PROVE  FormInv'
BY DEF FormInv

LEMMA ComputeKeepsFormInv ==
  ASSUME TypeOK, FormInv, NEW s \in Sessions, NEW R, NEW wanted, NEW gone, NEW allow,
         NEW touched, UNCHANGED <<zone, rows>>, Goto(s, "flush"),
         work' = [work EXCEPT ![s] = Pending(R, wanted, gone, allow, touched)],
         \A e \in Editors \ {s} : form'[e] = form[e]
  PROVE  FormInv'
<1>1. ~ Inserting(s)'
  BY PendingFacts DEF TypeOK, Inserting
<1>2. \A t \in Sessions \ {s} : pc'[t] = pc[t] /\ work'[t] = work[t]
  BY DEF TypeOK, Goto
<1>3. \A t \in Sessions : Inserting(t)' => Inserting(t)
  BY <1>1, <1>2 DEF Inserting
<1>4. pc'[s] = "flush"
  BY DEF TypeOK, Goto
<1>5. \A e \in Editors : pc'[e] = "form" => pc[e] = "form" /\ form'[e] = form[e]
  BY <1>2, <1>4 DEF Sessions
<1> QED  BY <1>3, <1>5, QuietStepKeepsFormInv

LEMMA FlushKeepsFormInv ==
  ASSUME TypeOK, ReadInv, WorkInv, FormInv, NEW s \in Sessions, Flush(s)
  PROVE  FormInv'
<1>1. ASSUME NEW how \in {"done", "failed"}, Leave(s, how)
      PROVE  FormInv'
  <2>1. \A t \in Sessions : Inserting(t)' => Inserting(t)
    BY <1>1 DEF Leave, TypeOK, Goto, Inserting
  <2>2. \A e \in Editors : pc'[e] = "form" => pc[e] = "form" /\ form'[e] = form[e]
    BY <1>1 DEF Leave, TypeOK, Goto, Sessions
  <2> QED  BY <1>1, <2>1, <2>2, QuietStepKeepsFormInv DEF Leave
<1>2. CASE FlushZone(s)
  <2>1. zone'.version = zone.version + 1 /\ zone.version \in Nat
    BY <1>2 DEF FlushZone, TypeOK, Zone
  <2>2. pc' = pc /\ form' = form
    BY <1>2 DEF FlushZone
  <2>3. \A e \in Editors : form[e].version \in Nat
    BY DEF TypeOK, Form
  <2> QED  BY <2>1, <2>2, <2>3 DEF FormInv
<1>3. ASSUME NEW u \in work[s].updates, FlushUpdate(s, u)
      PROVE  FormInv'
  <2>1. work'[s].touch = work[s].touch /\ work'[s].inserts = work[s].inserts
    BY <1>3 DEF FlushUpdate, TypeOK, Work
  <2>2. \A t \in Sessions : Inserting(t)' => Inserting(t)
    BY <1>3, <2>1 DEF FlushUpdate, TypeOK, Inserting
  <2>3. u[1] \in read[s]
    BY DEF WorkInv
  <2>4. u[1] \in rows
    BY <1>3, <2>3 DEF FlushUpdate, Current, ReadInv
  <2>5. Updated(u[1], u[2]).name = u[1].name
    BY DEF Updated
  <2>6. NamesIn(rows') \subseteq NamesIn(rows)
    BY <1>3, <2>4, <2>5 DEF FlushUpdate, NamesIn
  <2> QED  BY <1>3, <2>2, <2>6, QuietStepKeepsFormInv DEF FlushUpdate
<1>4. ASSUME NEW r \in work[s].deletes, FlushDelete(s, r)
      PROVE  FormInv'
  <2>1. work'[s].touch = work[s].touch /\ work'[s].inserts = work[s].inserts
    BY <1>4 DEF FlushDelete, TypeOK, Work
  <2>2. \A t \in Sessions : Inserting(t)' => Inserting(t)
    BY <1>4, <2>1 DEF FlushDelete, TypeOK, Inserting
  <2>3. NamesIn(rows') \subseteq NamesIn(rows)
    BY <1>4 DEF FlushDelete, NamesIn
  <2> QED  BY <1>4, <2>2, <2>3, QuietStepKeepsFormInv DEF FlushDelete
<1>5. ASSUME NEW i \in work[s].inserts, FlushInsert(s, i)
      PROVE  FormInv'
  <2>1. Inserting(s)
    BY <1>5 DEF FlushInsert, Inserting
  <2>2. \A e \in Editors : pc[e] = "form" /\ form[e].quiet =>
          form[e].version <= zone.version /\ form[e].version # zone.version
    BY <2>1 DEF FormInv
  <2> QED  BY <1>5, <2>2 DEF FlushInsert, FormInv
<1> QED  BY <1>1, <1>2, <1>3, <1>4, <1>5
         DEF Flush, ZoneConflict, UpdateConflict, Flushed

LEMMA FormInvNext == TypeOK /\ ZoneInv /\ [Next]_vars => FormInv'
<1> SUFFICES ASSUME TypeOK, ZoneInv, [Next]_vars PROVE FormInv'
  OBVIOUS
<1>0. ReadInv /\ WorkInv /\ FormInv
  BY DEF ZoneInv
<1>1. ASSUME NEW s \in Sessions, pc[s] # "flush", pc'[s] \notin {"form", "flush"},
             \A t \in Sessions \ {s} : pc'[t] = pc[t],
             \A e \in Editors \ {s} : form'[e] = form[e], UNCHANGED <<zone, rows, work>>
      PROVE  FormInv'
  <2>1. \A t \in Sessions : Inserting(t)' => Inserting(t)
    BY <1>1 DEF Inserting
  <2>2. \A e \in Editors : pc'[e] = "form" => pc[e] = "form" /\ form'[e] = form[e]
    BY <1>1 DEF Sessions
  <2> QED  BY <1>0, <1>1, <2>1, <2>2, QuietStepKeepsFormInv
<1>2. ASSUME NEW b \in Batches, BeginBatch(b) \/ LoadParameters(b)
      PROVE  FormInv'
  BY <1>1, <1>2 DEF BeginBatch, LoadParameters, Goto, TypeOK, Sessions
<1>3. ASSUME NEW b \in Batches, NEW found, WriteBack(b, found)
      PROVE  FormInv'
  BY <1>0, <1>3, ComputeKeepsFormInv DEF WriteBack, Sessions
<1>4. ASSUME NEW e \in Editors, OpenForm(e)
      PROVE  FormInv'
  <2> DEFINE quiet == \A s \in Sessions : ~ Inserting(s)
  <2>1. PICK V \in Views(rows) :
          form' = [form EXCEPT ![e] =
                     [version |-> zone.version, rows |-> V, quiet |-> quiet]]
    BY <1>4 DEF OpenForm
  <2>2. form'[e] = [version |-> zone.version, rows |-> V, quiet |-> quiet]
    BY <2>1 DEF TypeOK
  <2>3. NamesIn(V) = NamesIn(rows) /\ zone.version \in Nat
    BY ViewsAreParts DEF TypeOK, Zone
  <2>4. \A d \in Editors \ {e} : form'[d] = form[d] /\ pc'[d] = pc[d]
    BY <1>4, <2>1 DEF OpenForm, TypeOK, Goto, Sessions
  <2>5. \A s \in Sessions : Inserting(s)' => Inserting(s)
    BY <1>4 DEF OpenForm, TypeOK, Goto, Inserting, Sessions
  <2>6. rows' = rows /\ zone' = zone
    BY <1>4 DEF OpenForm
  <2>7. form'[e].quiet =>
          /\ form'[e].version <= zone'.version
          /\ NamesIn(rows') \subseteq NamesIn(form'[e].rows)
          /\ \A s \in Sessions : ~ Inserting(s)'
    BY <2>2, <2>3, <2>5, <2>6 DEF NamesIn
  <2>8. ASSUME NEW d \in Editors \ {e}, pc'[d] = "form", form'[d].quiet
        PROVE  /\ form'[d].version <= zone'.version
               /\ form'[d].version = zone'.version =>
                    /\ NamesIn(rows') \subseteq NamesIn(form'[d].rows)
                    /\ \A s \in Sessions : ~ Inserting(s)'
    BY <1>0, <2>4, <2>5, <2>6, <2>8 DEF FormInv
  <2> QED  BY <2>7, <2>8 DEF FormInv
<1>5. ASSUME NEW e \in Editors, RejectForm(e)
      PROVE  FormInv'
  BY <1>1, <1>5 DEF RejectForm, Goto, TypeOK, Sessions
<1>6. ASSUME NEW e \in Editors, NEW posted, NEW allow, SubmitForm(e, posted, allow)
      PROVE  FormInv'
  <2>1. PICK V \in Views(rows) :
          work' = [work EXCEPT ![e] =
            Pending(V, posted, Unwanted(V, posted), allow, allow # zone.allow)]
    BY <1>6 DEF SubmitForm
  <2>2. \A d \in Editors \ {e} : form'[d] = form[d]
    BY <1>6 DEF SubmitForm, TypeOK
  <2> QED  BY <1>0, <1>6, <2>1, <2>2, ComputeKeepsFormInv DEF SubmitForm, Sessions
<1>7. ASSUME NEW c \in Clients, NEW given, RestPut(c, given)
      PROVE  FormInv'
  BY <1>0, <1>7, ComputeKeepsFormInv DEF RestPut, Sessions
<1>8. ASSUME NEW c \in Clients, NEW given, RestDelete(c, given)
      PROVE  FormInv'
  BY <1>0, <1>8, ComputeKeepsFormInv DEF RestDelete, Sessions
<1>9. CASE UNCHANGED vars
  <2>1. \A s \in Sessions : Inserting(s)' <=> Inserting(s)
    BY <1>9 DEF vars, Inserting
  <2> QED  BY <1>0, <1>9, <2>1 DEF FormInv, vars
<1> QED  BY <1>0, <1>2, <1>3, <1>4, <1>5, <1>6, <1>7, <1>8, <1>9, FlushKeepsFormInv
         DEF Next
-----------------------------------------------------------------------------
(***************************************************************************)
(* The theorems.                                                           *)
(***************************************************************************)
LEMMA ZoneInit == Init => ZoneInv
BY DEF Init, ZoneInv, ReadInv, WorkInv, FormInv, NoWork, NoForm, Sessions

\* An id names one parameter, a session flushes what it computed from what it
\* read, and a form that is not out of date shows every name.
THEOREM ZoneInvariant == Spec => []ZoneInv
<1>1. TypeOK /\ ZoneInv /\ [Next]_vars => ZoneInv'
  BY ReadInvNext, WorkInvNext, FormInvNext DEF ZoneInv
<1> QED  BY <1>1, ZoneInit, TypeCorrect, PTL DEF Spec

LEMMA BatchStep ==
  ASSUME TypeOK, ZoneInv, [Next]_vars, NEW b \in Batches, work'[b] # work[b],
         NEW r \in rows \ rows'
  PROVE  base[b].allow /\ r.exposed /\ r \in read[b]
<1>0. ReadInv /\ WorkInv /\ b \in Sessions
  BY DEF ZoneInv, Sessions
<1>1. PICK s \in Sessions : Flush(s)
  BY DEF Next, vars, BeginBatch, LoadParameters, WriteBack, OpenForm, RejectForm,
         SubmitForm, RestPut, RestDelete
<1>2. s = b
  BY <1>1, <1>0 DEF Flush, FlushZone, ZoneConflict, Flushed, FlushUpdate, UpdateConflict,
         FlushDelete, FlushInsert, Leave, TypeOK
<1>3. PICK u \in work[b].updates : FlushUpdate(b, u)
  BY <1>1, <1>2, <1>0 DEF Flush, FlushZone, ZoneConflict, Flushed, UpdateConflict,
         FlushDelete, FlushInsert, Leave, WorkInv
<1>4. u[1] \in read[b] /\ base[b].allow /\ u[1].exposed
  BY <1>0 DEF WorkInv
<1>5. r \in Current(u[1])
  BY <1>3 DEF FlushUpdate
<1>6. r = u[1]
  BY <1>0, <1>4, <1>5 DEF Current, ReadInv
<1> QED  BY <1>4, <1>6

\* A batch replaces a parameter only if its zone and the parameter allow it and
\* nobody changed it since the batch read it.
THEOREM BatchesRespect == Spec => BatchesRespectTheRows
<1>1. TypeOK /\ ZoneInv /\ [Next]_vars =>
        [\A b \in Batches : work'[b] # work[b] =>
           \A r \in rows \ rows' : base[b].allow /\ r.exposed /\ r \in read[b]]_vars
  BY BatchStep
<1> QED  BY <1>1, TypeCorrect, ZoneInvariant, PTL DEF Spec, BatchesRespectTheRows

LEMMA FormStep ==
  ASSUME TypeOK, ZoneInv, [Next]_vars, NEW e \in Editors,
         pc[e] = "form", pc'[e] = "flush", form[e].quiet
  PROVE  NamesIn(work'[e].deletes) \subseteq NamesIn(form[e].rows)
<1>0. FormInv /\ e \in Sessions
  BY DEF ZoneInv, Sessions
<1>1. PICK posted, allow : SubmitForm(e, posted, allow)
  <2>1. ~ \E s \in Sessions : Flush(s)
    BY <1>0 DEF Flush, FlushZone, ZoneConflict, Flushed, FlushUpdate, UpdateConflict,
           FlushDelete, FlushInsert, Leave, Goto, TypeOK
  <2>2. ASSUME NEW s \in Sessions \ {e}, NEW label, Goto(s, label)
        PROVE  FALSE
    BY <1>0, <2>2 DEF Goto, TypeOK
  <2>3. ~ \E b \in Batches : \/ BeginBatch(b) \/ LoadParameters(b)
                             \/ \E found \in Partial(Names, Values) : WriteBack(b, found)
    BY <2>2, SessionsAreDistinct DEF BeginBatch, LoadParameters, WriteBack, Sessions
  <2>4. ~ \E c \in Clients : \/ \E given \in Partial(Names, Values) : RestPut(c, given)
                             \/ \E given \in SUBSET Names : RestDelete(c, given)
    BY <2>2, SessionsAreDistinct DEF RestPut, RestDelete, Sessions
  <2>5. \A d \in Editors : ~ OpenForm(d) /\ ~ RejectForm(d)
    BY <1>0, <2>2 DEF OpenForm, RejectForm, Goto, TypeOK, Sessions
  <2>6. \A d \in Editors \ {e} : \A posted, allow : ~ SubmitForm(d, posted, allow)
    BY <2>2 DEF SubmitForm, Sessions
  <2>7. ~ UNCHANGED vars
    BY DEF vars
  <2> QED  BY <2>1, <2>3, <2>4, <2>5, <2>6, <2>7 DEF Next
<1>2. PICK V \in Views(rows) :
        work' = [work EXCEPT ![e] =
          Pending(V, posted, Unwanted(V, posted), allow, allow # zone.allow)]
  BY <1>1 DEF SubmitForm
<1>3. work'[e].deletes = Unwanted(V, posted)
  BY <1>0, <1>2 DEF TypeOK, Pending
<1>4. NamesIn(work'[e].deletes) \subseteq NamesIn(rows)
  BY <1>3, ViewsAreParts DEF Unwanted, NamesIn
<1>5. form[e].version = zone.version
  <2>1. form[e].version \in Nat /\ zone.version \in Nat
    BY DEF TypeOK, Form, Zone
  <2>2. form[e].version <= zone.version
    BY <1>0 DEF FormInv
  <2> QED  BY <1>1, <2>1, <2>2 DEF SubmitForm
<1> QED  BY <1>0, <1>4, <1>5 DEF FormInv

\* A form that is accepted removes no parameter its user has never seen.
THEOREM FormsRemove == Spec => FormsRemoveOnlyWhatTheyShowed
<1>1. TypeOK /\ ZoneInv /\ [Next]_vars =>
        [\A e \in Editors : pc[e] = "form" /\ pc'[e] = "flush" /\ form[e].quiet =>
           NamesIn(work'[e].deletes) \subseteq NamesIn(form[e].rows)]_vars
  BY FormStep
<1> QED  BY <1>1, TypeCorrect, ZoneInvariant, PTL
         DEF Spec, FormsRemoveOnlyWhatTheyShowed
=============================================================================
