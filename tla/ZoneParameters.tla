--------------------------- MODULE ZoneParameters ---------------------------
(***************************************************************************)
(* The processing parameters of one execution zone and the sessions that   *)
(* change them at the same time: batches that write back what their        *)
(* scripts exposed (ScriptletBatchService.synchronizeExposedProcessing-    *)
(* Parameters), the form of the zone page (ExecutionZoneController.update) *)
(* and the REST interface (changeexecutionzoneparams).                     *)
(*                                                                         *)
(* A batch reads the zone and later its parameters; the submission of a    *)
(* form and a REST request read both in one step: what they would add or   *)
(* remove after a change in between is stopped by the version of the zone. *)
(* Every session keeps what it read and flushes its changes one statement  *)
(* at a time without a surrounding transaction.  Zone and parameters have  *)
(* a version each; the version of the zone grows with its own fields and   *)
(* with the set of its parameters, not with their values.                  *)
(***************************************************************************)
EXTENDS Integers

CONSTANTS
  Names,      \* names of parameters
  Values,     \* values of parameters
  Batches,    \* workers that end with a write-back
  Editors,    \* users with the zone page open
  Clients     \* REST requests

Sessions == Batches \cup Editors \cup Clients

ASSUME SessionsAreDistinct ==
  Batches \cap Editors = {} /\ Batches \cap Clients = {} /\ Editors \cap Clients = {}

VARIABLES
  zone,     \* the row of the zone: its version and enableExposedProcessingParameters
  rows,     \* the parameters of the zone, in the database
  lastId,   \* id of the parameter stored last
  pc,       \* where a session is
  base,     \* the zone as a session read it
  read,     \* the parameters as a session read them
  form,     \* what the page of an editor shows
  work      \* the statements a session still has to flush

vars == <<zone, rows, lastId, pc, base, read, form, work>>

Zone == [version : Nat, allow : BOOLEAN]
Parameter == [id : Nat, name : Names, value : Values, exposed : BOOLEAN, version : Nat]
Form == [version : Nat, rows : SUBSET Parameter, quiet : BOOLEAN]
Field == [value : Values, exposed : BOOLEAN]

\* touch: the row of the zone is dirty; allow: its new flag; updates, deletes,
\* inserts: the changed, removed and new parameters.
Work == [touch : BOOLEAN, allow : BOOLEAN, updates : SUBSET (Parameter \X Field),
         deletes : SUBSET Parameter, inserts : SUBSET (Names \X Field)]

NoWork == [touch |-> FALSE, allow |-> FALSE, updates |-> {}, deletes |-> {}, inserts |-> {}]

NamesIn(R) == {r.name : r \in R}
Partial(A, B) == UNION {[D -> B] : D \in SUBSET A}

TypeOK ==
  /\ zone \in Zone
  /\ rows \subseteq Parameter
  /\ lastId \in Nat
  /\ pc \in [Sessions -> {"idle", "run", "loaded", "form", "flush",
                         "done", "rejected", "failed"}]
  /\ base \in [Sessions -> Zone]
  /\ read \in [Sessions -> SUBSET Parameter]
  /\ form \in [Editors -> Form]
  /\ work \in [Sessions -> Work]

NewZone == [version |-> 0, allow |-> TRUE]
NoForm == [version |-> 0, rows |-> {}, quiet |-> TRUE]

Init ==
  /\ zone = NewZone
  /\ rows = {}
  /\ lastId = 0
  /\ pc = [s \in Sessions |-> "idle"]
  /\ base = [s \in Sessions |-> NewZone]
  /\ read = [s \in Sessions |-> {}]
  /\ form = [e \in Editors |-> NoForm]
  /\ work = [s \in Sessions |-> NoWork]

-----------------------------------------------------------------------------
\* The set of a session holds one parameter of each name.  It is sorted by the
\* name in capitals, which would merge names that differ in case only: the model
\* has no such names.
Views(R) ==
  {V \in SUBSET R : NamesIn(V) = NamesIn(R) /\ \A r, q \in V : r.name = q.name => r = q}

Goto(s, label) == pc' = [pc EXCEPT ![s] = label]

\* What a session that read R and wants the parameters of its zone to be wanted
\* (a partial function on names) has to flush: changed parameters, new ones,
\* and if remove is set those it does not want.
FieldOf(r) == [value |-> r.value, exposed |-> r.exposed]

Changed(R, wanted) ==
  {<<r, wanted[r.name]>> :
     r \in {q \in R : q.name \in DOMAIN wanted /\ wanted[q.name] # FieldOf(q)}}

Unwanted(R, wanted) == {r \in R : r.name \notin DOMAIN wanted}

Missing(R, wanted) == {<<n, wanted[n]>> : n \in DOMAIN wanted \ NamesIn(R)}

\* Mutant: adding a parameter leaves the row of the zone alone.
PendingUntouched(R, wanted, gone, allow, touched) ==
  [touch   |-> touched \/ gone # {},
   allow   |-> allow,
   updates |-> Changed(R, wanted),
   deletes |-> gone,
   inserts |-> Missing(R, wanted)]

Pending(R, wanted, gone, allow, touched) ==
  [touch   |-> touched \/ gone # {} \/ Missing(R, wanted) # {},
   allow   |-> allow,
   updates |-> Changed(R, wanted),
   deletes |-> gone,
   inserts |-> Missing(R, wanted)]

-----------------------------------------------------------------------------
(***************************************************************************)
(* A batch: the zone is read when the worker starts, its parameters when   *)
(* something first asks for them, and the write-back is at the end.        *)
(***************************************************************************)
BeginBatch(b) ==
  /\ pc[b] = "idle"
  /\ base' = [base EXCEPT ![b] = zone]
  /\ Goto(b, "run")
  /\ UNCHANGED <<zone, rows, lastId, read, form, work>>

LoadParameters(b) ==
  /\ pc[b] = "run"
  /\ \E V \in Views(rows) : read' = [read EXCEPT ![b] = V]
  /\ Goto(b, "loaded")
  /\ UNCHANGED <<zone, rows, lastId, base, form, work>>

\* Mutant: the flags that deny updates are not looked at.
WritableAlways(b, r) == TRUE

Writable(b, r) == base[b].allow /\ r.exposed

ExposedIn(R, n) == \E r \in R : r.name = n /\ r.exposed

\* Of the parameters a batch found in its process context, those it may write;
\* one the zone does not have yet is stored as exposed.
Granted(b, found) ==
  [n \in {m \in DOMAIN found : \A r \in read[b] : r.name = m => Writable(b, r)} |->
     [value |-> found[n], exposed |-> n \in NamesIn(read[b]) => ExposedIn(read[b], n)]]

\* found: the exposed or published parameters of the flow that the scripts left
\* in the process context.
WriteBack(b, found) ==
  /\ pc[b] = "loaded"
  /\ work' = [work EXCEPT ![b] =
       Pending(read[b], Granted(b, found), {}, base[b].allow, FALSE)]
  /\ Goto(b, "flush")
  /\ UNCHANGED <<zone, rows, lastId, base, read, form>>

-----------------------------------------------------------------------------
(***************************************************************************)
(* The zone page and the REST interface.                                   *)
(***************************************************************************)
\* A session between the update of the zone's row and its last insert.
Inserting(s) == pc[s] = "flush" /\ ~ work[s].touch /\ work[s].inserts # {}

OpenForm(e) ==
  /\ pc[e] = "idle"
  /\ \E V \in Views(rows) :
       form' = [form EXCEPT ![e] = [version |-> zone.version, rows |-> V,
                                    quiet |-> \A s \in Sessions : ~ Inserting(s)]]
  /\ Goto(e, "form")
  /\ UNCHANGED <<zone, rows, lastId, base, read, work>>

\* update(): the form is out of date.
RejectForm(e) ==
  /\ pc[e] = "form" /\ zone.version > form[e].version
  /\ form' = [form EXCEPT ![e] = NoForm]
  /\ Goto(e, "rejected")
  /\ UNCHANGED <<zone, rows, lastId, base, read, work>>

\* Mutant: the version of the form is not compared.
SubmitUnchecked(e, posted, allow) ==
  /\ pc[e] = "form"
  /\ \E V \in Views(rows) :
       /\ read' = [read EXCEPT ![e] = V]
       /\ work' = [work EXCEPT ![e] =
            Pending(V, posted, Unwanted(V, posted), allow, allow # zone.allow)]
  /\ base' = [base EXCEPT ![e] = zone]
  /\ form' = [form EXCEPT ![e] = NoForm]
  /\ Goto(e, "flush")
  /\ UNCHANGED <<zone, rows, lastId>>

\* update() and synchronizeProcessingParameters: the parameters of the zone
\* become those of the form, an administrator may also set the flag.
SubmitForm(e, posted, allow) ==
  /\ pc[e] = "form" /\ ~ zone.version > form[e].version
  /\ \E V \in Views(rows) :
       /\ read' = [read EXCEPT ![e] = V]
       /\ work' = [work EXCEPT ![e] =
            Pending(V, posted, Unwanted(V, posted), allow, allow # zone.allow)]
  /\ base' = [base EXCEPT ![e] = zone]
  /\ form' = [form EXCEPT ![e] = NoForm]
  /\ Goto(e, "flush")
  /\ UNCHANGED <<zone, rows, lastId>>

\* PUT of parameters: existing ones keep their flag, new ones are not exposed.
Put(R, given) ==
  [n \in DOMAIN given |-> [value |-> given[n], exposed |-> ExposedIn(R, n)]]

RestPut(c, given) ==
  /\ pc[c] = "idle"
  /\ \E V \in Views(rows) :
       /\ read' = [read EXCEPT ![c] = V]
       /\ work' = [work EXCEPT ![c] = Pending(V, Put(V, given), {}, zone.allow, FALSE)]
  /\ base' = [base EXCEPT ![c] = zone]
  /\ Goto(c, "flush")
  /\ UNCHANGED <<zone, rows, lastId, form>>

RestDelete(c, given) ==
  /\ pc[c] = "idle"
  /\ \E V \in Views(rows) :
       /\ read' = [read EXCEPT ![c] = V]
       /\ work' = [work EXCEPT ![c] =
            Pending(V, << >>, {r \in V : r.name \in given}, zone.allow, FALSE)]
  /\ base' = [base EXCEPT ![c] = zone]
  /\ Goto(c, "flush")
  /\ UNCHANGED <<zone, rows, lastId, form>>

-----------------------------------------------------------------------------
(***************************************************************************)
(* The flush of a session: the row of the zone, the changed parameters,    *)
(* the removed ones, the new ones.  A row whose version is not the one the *)
(* session read ends the flush; what was written stays.                    *)
(***************************************************************************)
Leave(s, how) ==
  /\ work' = [work EXCEPT ![s] = NoWork]
  /\ base' = [base EXCEPT ![s] = NewZone]
  /\ read' = [read EXCEPT ![s] = {}]
  /\ Goto(s, how)
  /\ UNCHANGED <<zone, rows, lastId, form>>

FlushZone(s) ==
  /\ pc[s] = "flush" /\ work[s].touch /\ zone.version = base[s].version
  /\ zone' = [version |-> zone.version + 1, allow |-> work[s].allow]
  /\ work' = [work EXCEPT ![s].touch = FALSE]
  /\ UNCHANGED <<rows, lastId, pc, base, read, form>>

ZoneConflict(s) ==
  /\ pc[s] = "flush" /\ work[s].touch /\ zone.version # base[s].version
  /\ Leave(s, "failed")

\* Mutant: the version of a parameter is not compared.
CurrentById(r) == {q \in rows : q.id = r.id}

Current(r) == {q \in rows : q.id = r.id /\ q.version = r.version}

Updated(r, f) ==
  [id |-> r.id, name |-> r.name, value |-> f.value, exposed |-> f.exposed,
   version |-> r.version + 1]

FlushUpdate(s, u) ==
  /\ pc[s] = "flush" /\ ~ work[s].touch /\ u \in work[s].updates
  /\ Current(u[1]) # {}
  /\ rows' = (rows \ Current(u[1])) \cup {Updated(u[1], u[2])}
  /\ work' = [work EXCEPT ![s].updates = @ \ {u}]
  /\ UNCHANGED <<zone, lastId, pc, base, read, form>>

UpdateConflict(s, u) ==
  /\ pc[s] = "flush" /\ ~ work[s].touch /\ u \in work[s].updates
  /\ Current(u[1]) = {}
  /\ Leave(s, "failed")

FlushDelete(s, r) ==
  /\ pc[s] = "flush" /\ ~ work[s].touch /\ work[s].updates = {} /\ r \in work[s].deletes
  /\ rows' = {q \in rows : q.id # r.id}
  /\ work' = [work EXCEPT ![s].deletes = @ \ {r}]
  /\ UNCHANGED <<zone, lastId, pc, base, read, form>>

FlushInsert(s, i) ==
  /\ pc[s] = "flush" /\ ~ work[s].touch
  /\ work[s].updates = {} /\ work[s].deletes = {} /\ i \in work[s].inserts
  /\ lastId' = lastId + 1
  /\ rows' = rows \cup {[id |-> lastId', name |-> i[1], value |-> i[2].value,
                         exposed |-> i[2].exposed, version |-> 0]}
  /\ work' = [work EXCEPT ![s].inserts = @ \ {i}]
  /\ UNCHANGED <<zone, pc, base, read, form>>

Flushed(s) ==
  /\ pc[s] = "flush" /\ ~ work[s].touch
  /\ work[s].updates = {} /\ work[s].deletes = {} /\ work[s].inserts = {}
  /\ Leave(s, "done")

Flush(s) ==
  \/ FlushZone(s) \/ ZoneConflict(s) \/ Flushed(s)
  \/ \E u \in work[s].updates : FlushUpdate(s, u) \/ UpdateConflict(s, u)
  \/ \E r \in work[s].deletes : FlushDelete(s, r)
  \/ \E i \in work[s].inserts : FlushInsert(s, i)

Next ==
  \/ \E b \in Batches : \/ BeginBatch(b) \/ LoadParameters(b)
                        \/ \E found \in Partial(Names, Values) : WriteBack(b, found)
  \/ \E e \in Editors : \/ OpenForm(e) \/ RejectForm(e)
                        \/ \E posted \in Partial(Names, Field), allow \in BOOLEAN :
                             SubmitForm(e, posted, allow)
  \/ \E c \in Clients : \/ \E given \in Partial(Names, Values) : RestPut(c, given)
                        \/ \E given \in SUBSET Names : RestDelete(c, given)
  \/ \E s \in Sessions : Flush(s)

Spec == Init /\ [][Next]_vars

-----------------------------------------------------------------------------
(***************************************************************************)
(* Properties.                                                             *)
(***************************************************************************)
\* "denies parameter updates": a batch replaces a parameter only if its zone
\* allowed it when the batch started and the parameter, as it is in the
\* database at that moment, is exposed and the one the batch read - however
\* long its scripts ran and whatever users did meanwhile.  It removes none.
BatchesRespectTheRows ==
  [][\A b \in Batches : work'[b] # work[b] =>
       \A r \in rows \ rows' : base[b].allow /\ r.exposed /\ r \in read[b]]_vars

\* Adding or removing a parameter makes every open form out of date: a form
\* that is accepted, and was not opened in the middle of an insert, removes no
\* parameter its user has never seen.
FormsRemoveOnlyWhatTheyShowed ==
  [][\A e \in Editors : pc[e] = "form" /\ pc'[e] = "flush" /\ form[e].quiet =>
       NamesIn(work'[e].deletes) \subseteq NamesIn(form[e].rows)]_vars

(***************************************************************************)
(* The invariant behind the first two.                                     *)
(***************************************************************************)
\* An id names one parameter, whose version tells what a session has read.
ReadInv ==
  /\ \A r \in rows : r.id <= lastId
  /\ \A r, q \in rows : r.id = q.id => r = q
  /\ \A s \in Sessions : \A r \in read[s] :
       /\ r.id <= lastId
       /\ \A q \in rows : q.id = r.id =>
            q.version >= r.version /\ (q.version = r.version => q = r)

\* What is to be flushed was computed from what was read.
WorkInv ==
  /\ \A s \in Sessions : pc[s] # "flush" => work[s] = NoWork
  /\ \A s \in Sessions : \A u \in work[s].updates : u[1] \in read[s]
  /\ \A b \in Batches :
       /\ work[b].deletes = {}
       /\ \A u \in work[b].updates : base[b].allow /\ u[1].exposed

\* A form that is not out of date shows the names of all parameters.
FormInv ==
  \A e \in Editors : pc[e] = "form" /\ form[e].quiet =>
    /\ form[e].version <= zone.version
    /\ form[e].version = zone.version =>
         /\ NamesIn(rows) \subseteq NamesIn(form[e].rows)
         /\ \A s \in Sessions : ~ Inserting(s)

ZoneInv == ReadInv /\ WorkInv /\ FormInv

\* update(): "Another user has updated this ExecutionZone while you were
\* editing".  A form that is accepted, and was not opened in the middle of an
\* insert, would change or remove parameters only as they were shown.
FormsChangeOnlyWhatTheyShowed ==
  [][\A e \in Editors : pc[e] = "form" /\ pc'[e] = "flush" /\ form[e].quiet =>
       work'[e].deletes \cup {u[1] : u \in work'[e].updates} \subseteq form[e].rows]_vars
=============================================================================
