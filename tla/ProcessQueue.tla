---------------------------- MODULE ProcessQueue ----------------------------
(***************************************************************************)
(* The process queue on every page: while the page is visible a timer asks *)
(* for the newest batches, every answer replaces what the queue shows, and *)
(* the first request that fails stops the timer for good.  Requests are    *)
(* never waited for: answers may come in another order.                    *)
(***************************************************************************)
EXTENDS BatchRecord

CONSTANT MaxRequests   \* bound on the requests under way

ASSUME MaxRequestsIsNat == MaxRequests \in Nat

VARIABLES
  visible,   \* is the page visible
  changed,   \* a visibilitychange is under way to its listener
  hasFocus,  \* what the listener made of the last one
  polling,   \* the timer runs
  requests,  \* of each slot: idle, sent, or the answer under way
  shown      \* what the queue shows

queue == <<visible, changed, hasFocus, polling, requests, shown>>
vars == <<rows, queue>>

Slots == 1 .. MaxRequests

\* The list shows the state of a stored batch, and a bar if it is running.
Bar(r) == IF r[0] = "RUNNING" THEN {u \in Scripts(r) : r[u] # "WAITING"} ELSE {}

Listed(rs) ==
  {[batch |-> b, state |-> rs[b][0], bar |-> Bar(rs[b])] :
    b \in {c \in Batches : rs[c] # NoRows}}

Idle == [phase |-> "idle", list |-> {}]
Sent == [phase |-> "sent", list |-> {}]
Answered(list) == [phase |-> "answered", list |-> list]

\* The page comes with the list as it was when it was rendered; the plug-in
\* asks for the visibility when it is installed.
QueueInit ==
  /\ Init
  /\ visible \in BOOLEAN /\ hasFocus = visible /\ changed = FALSE
  /\ polling = TRUE
  /\ requests = [i \in Slots |-> Idle]
  /\ shown = Listed(rows)

Works == Next /\ UNCHANGED queue

Becomes ==
  /\ visible' = ~visible /\ changed' = TRUE
  /\ UNCHANGED <<rows, hasFocus, polling, requests, shown>>

\* Mutant: no handler for the focus is registered.
OnBlurOnly ==
  /\ changed
  /\ changed' = FALSE /\ hasFocus' = (hasFocus /\ visible)
  /\ UNCHANGED <<rows, visible, polling, requests, shown>>

\* onChange reads the visibility as it is when the event arrives.
OnChange ==
  /\ changed
  /\ changed' = FALSE /\ hasFocus' = visible
  /\ UNCHANGED <<rows, visible, polling, requests, shown>>

Poll ==
  /\ polling /\ hasFocus
  /\ \E i \in Slots :
       /\ requests[i] = Idle
       /\ requests' = [requests EXCEPT ![i] = Sent]
  /\ UNCHANGED <<rows, visible, changed, hasFocus, polling, shown>>

AjaxList(i) ==
  /\ requests[i] = Sent
  /\ requests' = [requests EXCEPT ![i] = Answered(Listed(rows))]
  /\ UNCHANGED <<rows, visible, changed, hasFocus, polling, shown>>

Done(i) ==
  /\ requests[i].phase = "answered"
  /\ shown' = requests[i].list
  /\ requests' = [requests EXCEPT ![i] = Idle]
  /\ UNCHANGED <<rows, visible, changed, hasFocus, polling>>

StopProcessQueue(i) ==
  /\ requests[i] # Idle
  /\ requests' = [requests EXCEPT ![i] = Idle]
  /\ polling' = FALSE
  /\ UNCHANGED <<rows, visible, changed, hasFocus, shown>>

QueueNext ==
  \/ Works
  \/ Becomes \/ OnChange \/ Poll
  \/ \E i \in Slots : AjaxList(i) \/ Done(i) \/ StopProcessQueue(i)

\* The timer rings, events and answers arrive.
QueueSpec ==
  /\ QueueInit /\ [][QueueNext]_vars
  /\ WF_vars(OnChange) /\ WF_vars(Poll)
  /\ \A i \in Slots : WF_vars(AjaxList(i)) /\ WF_vars(Done(i))

-----------------------------------------------------------------------------
Entries ==
  [batch : Batches, state : ProcessState, bar : SUBSET (1 .. MaxScriptlets)]

QueueTypeOK ==
  /\ TypeOK
  /\ visible \in BOOLEAN /\ changed \in BOOLEAN
  /\ hasFocus \in BOOLEAN /\ polling \in BOOLEAN
  /\ requests \in [Slots -> [phase : {"idle", "sent", "answered"}, list : SUBSET Entries]]
  /\ shown \in SUBSET Entries

\* A batch that was seen in state q may have come to state s since.
HasBecome(q, s) ==
  \/ q \in {s, "WAITING"}
  \/ q = "RUNNING" /\ s \in {"SUCCESS", "FAILURE", "CANCELED"}
  \/ q = "SUCCESS" /\ s = "FAILURE"

\* However late an answer comes and whichever it overtakes, what the queue
\* shows, or is about to show, is never ahead of the rows: the batch is stored, it
\* is where it is shown or further on, and what its bar counts has begun.  What
\* is shown as failed or cancelled is so for good.
QueueIsNeverAhead ==
  \A list \in {shown} \cup {requests[i].list : i \in Slots} : \A e \in list :
    LET r == rows[e.batch]
    IN /\ r # NoRows
       /\ HasBecome(e.state, r[0])
       /\ e.bar \subseteq {u \in Scripts(r) : r[u] # "WAITING"}

\* However the page was hidden and shown in between, and in whatever order the
\* answers come: once it stays visible the queue shows the batches as they are,
\* again and again, if no request ever failed.
QueueCatchesUp ==
  []polling /\ <>[]visible => []<>(shown = Listed(rows))
=============================================================================
