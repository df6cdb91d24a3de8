----------------------------- MODULE BatchRecord -----------------------------
(***************************************************************************)
(* What the rows of a script batch promise to whoever reads them: the      *)
(* batch pages, the REST interface, and the clean-up after a restart.      *)
(* rows[b] maps 0 to the state of the batch and i to that of its i-th      *)
(* scriptlet; it is empty until the batch is stored.  BatchExecution is    *)
(* shown to implement this specification.                                  *)
(***************************************************************************)
EXTENDS Integers

CONSTANTS
  Batches,
  MaxScriptlets

ASSUME MaxScriptletsIsNat == MaxScriptlets \in Nat

VARIABLE rows

ProcessState == {"WAITING", "RUNNING", "SUCCESS", "FAILURE", "CANCELED"}

NoRows == << >>
Rows == UNION {[0 .. n -> ProcessState] : n \in 0 .. MaxScriptlets}

TypeOK == rows \in [Batches -> {NoRows} \cup Rows]

Scripts(r) == DOMAIN r \ {0}
Begun == {"RUNNING", "SUCCESS", "FAILURE"}

Init == rows = [b \in Batches |-> NoRows]

\* Mutant: the clean-up lets what was running wait again.
MovesAndResets ==
  {<<"WAITING", "RUNNING">>, <<"WAITING", "FAILURE">>, <<"WAITING", "CANCELED">>,
   <<"RUNNING", "SUCCESS">>, <<"RUNNING", "FAILURE">>, <<"RUNNING", "WAITING">>,
   <<"SUCCESS", "FAILURE">>}

\* The states one unit goes through.  A success may still turn into a failure
\* when the hook that runs after it fails.
Moves ==
  {<<"WAITING", "RUNNING">>, <<"WAITING", "FAILURE">>, <<"WAITING", "CANCELED">>,
   <<"RUNNING", "SUCCESS">>, <<"RUNNING", "FAILURE">>, <<"RUNNING", "CANCELED">>,
   <<"SUCCESS", "FAILURE">>}

\* A batch is stored as a whole, waiting, or as failed without any scriptlet.
NewRows(r) ==
  /\ r \in Rows
  /\ \/ \A u \in DOMAIN r : r[u] = "WAITING"
     \/ Scripts(r) = {} /\ r[0] = "FAILURE"

(***************************************************************************)
(* One write may move several units, each along Moves.                     *)
(***************************************************************************)
\* A scriptlet begins in a running batch, after its predecessors succeeded.
BeginsInTurn(r, s) ==
  \A j \in Scripts(r) : r[j] = "WAITING" /\ s[j] \in Begun =>
    /\ s[0] = "RUNNING"
    /\ \A i \in 1 .. (j - 1) : s[i] = "SUCCESS"

\* Mutant: a success may be taken back after the next scriptlet has begun.
RevokesAnytime(r, s) ==
  \A j \in Scripts(r) : r[j] = "SUCCESS" /\ s[j] = "FAILURE" => s[0] # "SUCCESS"

\* A success is taken back only while nothing builds on it.
RevokesAlone(r, s) ==
  \A j \in Scripts(r) : r[j] = "SUCCESS" /\ s[j] = "FAILURE" =>
    /\ s[0] # "SUCCESS"
    /\ \A k \in Scripts(r) : k > j => s[k] \notin Begun

SucceedsAsAWhole(r, s) ==
  r[0] # "SUCCESS" /\ s[0] = "SUCCESS" => \A i \in Scripts(r) : s[i] = "SUCCESS"

\* A scriptlet is cancelled with its batch failed or cancelled.
CancelsAfterTheBatch(r, s) ==
  \A j \in Scripts(r) : r[j] # "CANCELED" /\ s[j] = "CANCELED" =>
    s[0] \in {"FAILURE", "CANCELED"}

Rewritten(r, s) ==
  /\ s \in [DOMAIN r -> ProcessState]
  /\ \A u \in DOMAIN r : s[u] = r[u] \/ <<r[u], s[u]>> \in Moves
  /\ BeginsInTurn(r, s)
  /\ RevokesAlone(r, s)
  /\ SucceedsAsAWhole(r, s)
  /\ CancelsAfterTheBatch(r, s)

Others(b) == \A c \in Batches \ {b} : rows'[c] = rows[c]

Store(b) == rows[b] = NoRows /\ NewRows(rows'[b]) /\ Others(b)
Rewrite(b) == rows[b] # NoRows /\ Rewritten(rows[b], rows'[b]) /\ Others(b)

Next ==
  /\ rows' \in [Batches -> {NoRows} \cup Rows]
  /\ \E b \in Batches : Store(b) \/ Rewrite(b)

Spec == Init /\ [][Next]_rows

-----------------------------------------------------------------------------
\* Scriptlets run in order and none begins before its predecessors succeeded,
\* a batch is successful only as a whole, and nothing in it has begun or is
\* cancelled while it waits: the pages that show a batch and its steps, and
\* the operator who decides from them what has been done, rely on it.
Coherent(r) ==
  /\ \A j \in Scripts(r) : r[j] \in Begun => \A i \in 1 .. (j - 1) : r[i] = "SUCCESS"
  /\ r[0] = "SUCCESS" => \A i \in Scripts(r) : r[i] = "SUCCESS"
  /\ r[0] = "WAITING" => \A i \in Scripts(r) : r[i] = "WAITING"

RecordsCoherent == \A b \in Batches : rows[b] # NoRows => Coherent(rows[b])
=============================================================================
