--------------------------- MODULE BatchExecution ---------------------------
(***************************************************************************)
(* The execution of script batches: Processable.execute and its hooks,     *)
(* inherited by Scriptlet and ScriptletBatch, the worker closure of        *)
(* ScriptletBatchService.onApplicationEvent that builds and runs one batch *)
(* per published ProcessingEvent, the Hibernate session the worker writes  *)
(* through, a crash of the server and the clean-up BootStrap runs after a  *)
(* restart.                                                                *)
(*                                                                         *)
(* A batch and its scriptlets are all Processables and share one state     *)
(* machine: unit 0 of a batch is the batch itself, unit i its i-th         *)
(* scriptlet.  The call stack is at most two frames deep (the batch's and  *)
(* that of the scriptlet it is running), so "inner" and "pos" tell whose   *)
(* frame pc[b] is a position of.                                           *)
(***************************************************************************)
EXTENDS Integers, FiniteSets

CONSTANTS
  Batches,        \* the ProcessingEvents that are ever published
  MaxScriptlets,  \* bound: scriptlets of one batch
  Faults,         \* what a hook or script may throw
  MaxCrashes      \* bound: crashes of the server

ASSUME MaxScriptletsAssumption == MaxScriptlets \in Nat
ASSUME FaultsAssumption == Faults \subseteq {"exception", "error"}
ASSUME MaxCrashesAssumption == MaxCrashes \in Nat

VARIABLES
  pc,         \* where the worker of a batch is
  size,       \* batch.processables.size()
  inner,      \* the scriptlet's frame is on top of the batch's
  pos,        \* iterator of processables.each
  handled,    \* handledException of the top frame is set
  raised,     \* the Throwable in flight, or how the worker ended
  state,      \* the states of the units in the worker's session
  started,    \* units whose startDate is set
  stopped,    \* units whose stop() was entered
  saved,      \* the batch has rows in the database
  stored,     \* the states of the units in the database
  phase,      \* the server: up, down, or booting
  hung,       \* batches BootStrap still has to clean up
  crashes

memVars == <<pc, size, inner, pos, handled, raised, state, started, stopped>>
dbVars == <<saved, stored>>
serverVars == <<phase, hung, crashes>>
vars == <<memVars, dbVars, serverVars>>

Units == 0 .. MaxScriptlets
Scriptlets == 1 .. MaxScriptlets

ProcessState == {"WAITING", "RUNNING", "SUCCESS", "FAILURE", "CANCELED"}

\* Positions inside Processable.execute, then those of the worker around it.
ExecutePC == {"enter", "start", "onStart", "process", "success", "onSuccess",
              "failure", "onFailure", "stop", "onStop", "caught", "leave"}
WorkerPC == {"queued", "cancel", "sync", "close"}
PC == ExecutePC \cup WorkerPC \cup {"idle", "done", "lost"}

Throwables == {"none", "exception", "error"}
Endings == {"unbuilt", "conflict"}

AllWaiting == [u \in Units |-> "WAITING"]

\* The unit whose frame is on top of the worker's stack, and the units of b.
Unit(b) == IF inner[b] THEN pos[b] ELSE 0
Members(b) == 1 .. size[b]

TypeOK ==
  /\ pc \in [Batches -> PC]
  /\ size \in [Batches -> Units]
  /\ inner \in [Batches -> BOOLEAN]
  /\ pos \in [Batches -> Units]
  /\ handled \in [Batches -> BOOLEAN]
  /\ raised \in [Batches -> Throwables \cup Endings]
  /\ state \in [Batches -> [Units -> ProcessState]]
  /\ started \in [Batches -> SUBSET Units]
  /\ stopped \in [Batches -> SUBSET Units]
  /\ saved \in [Batches -> BOOLEAN]
  /\ stored \in [Batches -> [Units -> ProcessState]]
  /\ phase \in {"up", "down", "boot"}
  /\ hung \subseteq Batches
  /\ crashes \in 0 .. MaxCrashes

Init ==
  /\ pc = [b \in Batches |-> "idle"]
  /\ size = [b \in Batches |-> 0]
  /\ inner = [b \in Batches |-> FALSE]
  /\ pos = [b \in Batches |-> 0]
  /\ handled = [b \in Batches |-> FALSE]
  /\ raised = [b \in Batches |-> "none"]
  /\ state = [b \in Batches |-> AllWaiting]
  /\ started = [b \in Batches |-> {}]
  /\ stopped = [b \in Batches |-> {}]
  /\ saved = [b \in Batches |-> FALSE]
  /\ stored = [b \in Batches |-> AllWaiting]
  /\ phase = "up"
  /\ hung = {}
  /\ crashes = 0

-----------------------------------------------------------------------------
(***************************************************************************)
(* Building blocks of the actions.                                         *)
(***************************************************************************)
Goto(b, label) == pc' = [pc EXCEPT ![b] = label]
Become(b, s) == state' = [state EXCEPT ![b][Unit(b)] = s]
Throw(b, t) == raised' = [raised EXCEPT ![b] = t]

\* save(flush:true) writes every dirty object of the session, not only the
\* one it is called on.
Flush(b) == stored' = [stored EXCEPT ![b] = state'[b]] /\ UNCHANGED saved

\* An Error passes every catch (Exception): only the finally blocks run.
\* From the scriptlet's frame it reaches the finally of the batch's frame,
\* from there it leaves the worker's closure.
Unwind(b) ==
  /\ Throw(b, "error")
  /\ inner' = [inner EXCEPT ![b] = FALSE]
  /\ handled' = [handled EXCEPT ![b] = FALSE]
  /\ Goto(b, IF inner[b] THEN "stop" ELSE "close")

\* An Exception that leaves a frame: the batch's frame handles that of its
\* scriptlet, ScriptletBatch.execute that of the batch.
Escape(b) ==
  /\ Throw(b, IF inner[b] THEN "none" ELSE "exception")
  /\ inner' = [inner EXCEPT ![b] = FALSE]
  /\ handled' = [handled EXCEPT ![b] = FALSE]
  /\ Goto(b, IF inner[b] THEN "failure" ELSE "cancel")

-----------------------------------------------------------------------------
(***************************************************************************)
(* The worker before execute: publishing and building the batch.           *)
(***************************************************************************)
\* publishEvent of a ProcessingEvent hands the closure to the executor.
Publish(b) ==
  /\ pc[b] = "idle"
  /\ Goto(b, "queued")
  /\ UNCHANGED <<size, inner, pos, handled, raised, state, started, stopped, dbVars>>

\* buildScriptletBatch: one scriptlet per resolved script, all saved WAITING.
Build(b, n) ==
  /\ pc[b] = "queued"
  /\ size' = [size EXCEPT ![b] = n]
  /\ saved' = [saved EXCEPT ![b] = TRUE]
  /\ Goto(b, "enter")
  /\ UNCHANGED <<inner, pos, handled, raised, state, started, stopped, stored>>

\* The build throws before the batch is attached to its action: the batch
\* plugin does not compile.
BuildRejected(b) ==
  /\ pc[b] = "queued" /\ "exception" \in Faults
  /\ Throw(b, "unbuilt")
  /\ Goto(b, "done")
  /\ UNCHANGED <<size, inner, pos, handled, state, started, stopped, dbVars>>

\* ScriptResolver rejects the script directory: addScriptlets saves the
\* empty batch as FAILURE and rethrows.
BuildWithoutScripts(b) ==
  /\ pc[b] = "queued" /\ "exception" \in Faults
  /\ state' = [state EXCEPT ![b][0] = "FAILURE"]
  /\ stored' = [stored EXCEPT ![b] = state'[b]]
  /\ saved' = [saved EXCEPT ![b] = TRUE]
  /\ Throw(b, "unbuilt")
  /\ Goto(b, "close")
  /\ UNCHANGED <<size, inner, pos, handled, started, stopped>>

\* A plugin of the (n+1)-st scriptlet does not compile: the batch is already
\* in action.scriptletBatches and reaches the database when the session
\* closes, but nobody executes or cancels it.
BuildBroken(b, n) ==
  /\ pc[b] = "queued" /\ "exception" \in Faults
  /\ size' = [size EXCEPT ![b] = n]
  /\ Throw(b, "unbuilt")
  /\ Goto(b, "close")
  /\ UNCHANGED <<inner, pos, handled, state, started, stopped, dbVars>>

-----------------------------------------------------------------------------
(***************************************************************************)
(* Processable.execute, for the unit on top of the stack.                  *)
(***************************************************************************)
IsExecutable(b) ==
  IF inner[b] THEN state[b][Unit(b)] = "WAITING" ELSE size[b] > 0

Enter(b) ==
  /\ pc[b] = "enter"
  /\ IsExecutable(b) /\ state[b][Unit(b)] = "WAITING"
  /\ Goto(b, "start")
  /\ UNCHANGED <<size, inner, pos, handled, raised, state, started, stopped, dbVars>>

\* "not executable" / "is not waiting for execution" is thrown before the try.
EnterRefused(b) ==
  /\ pc[b] = "enter"
  /\ ~ (IsExecutable(b) /\ state[b][Unit(b)] = "WAITING")
  /\ Escape(b)
  /\ UNCHANGED <<size, pos, state, started, stopped, dbVars>>

\* Scriptlet.start: createTempFile fails before super.start.
TempFileFails(b) ==
  /\ pc[b] = "start" /\ inner[b] /\ "exception" \in Faults
  /\ Throw(b, "exception")
  /\ Goto(b, "caught")
  /\ UNCHANGED <<size, inner, pos, handled, state, started, stopped, dbVars>>

\* Mutant: the row is not flushed before the hook runs.
StartWithoutFlush(b) ==
  /\ pc[b] = "start"
  /\ Become(b, "RUNNING")
  /\ started' = [started EXCEPT ![b] = @ \cup {Unit(b)}]
  /\ Goto(b, "onStart")
  /\ UNCHANGED <<size, inner, pos, handled, raised, stopped, dbVars>>

\* start(): a scriptlet attaches its log appender, the unit becomes RUNNING,
\* is flushed, and only then the hook runs.
Start(b) ==
  /\ pc[b] = "start"
  /\ Become(b, "RUNNING")
  /\ started' = [started EXCEPT ![b] = @ \cup {Unit(b)}]
  /\ Flush(b)
  /\ Goto(b, "onStart")
  /\ UNCHANGED <<size, inner, pos, handled, raised, stopped>>

OnStart(b) ==
  /\ pc[b] = "onStart"
  /\ Goto(b, "process")
  /\ UNCHANGED <<size, inner, pos, handled, raised, state, started, stopped, dbVars>>

\* start() is outside the inner try: neither failure() nor stop() runs.
OnStartThrows(b) ==
  /\ pc[b] = "onStart" /\ "exception" \in Faults
  /\ Throw(b, "exception")
  /\ Goto(b, "caught")
  /\ UNCHANGED <<size, inner, pos, handled, state, started, stopped, dbVars>>

OnStartErrs(b) ==
  /\ pc[b] = "onStart" /\ "error" \in Faults
  /\ Unwind(b)
  /\ UNCHANGED <<size, pos, state, started, stopped, dbVars>>

\* process() of a scriptlet: the script ends with an exit value below 2.
RunScript(b) ==
  /\ pc[b] = "process" /\ inner[b]
  /\ Goto(b, "success")
  /\ UNCHANGED <<size, inner, pos, handled, raised, state, started, stopped, dbVars>>

\* The script ends with a higher exit value, times out, or throws.
ScriptThrows(b) ==
  /\ pc[b] = "process" /\ inner[b] /\ "exception" \in Faults
  /\ Goto(b, "failure")
  /\ UNCHANGED <<size, inner, pos, handled, raised, state, started, stopped, dbVars>>

\* An Error in the script or in onSuccess: the finally block runs stop().
BodyErrs(b) ==
  /\ \/ pc[b] = "process" /\ inner[b]
     \/ pc[b] = "onSuccess"
  /\ "error" \in Faults
  /\ Throw(b, "error")
  /\ Goto(b, "stop")
  /\ UNCHANGED <<size, inner, pos, handled, state, started, stopped, dbVars>>

\* Mutant: the loop runs one scriptlet too far.
EachNextPastTheEnd(b) ==
  /\ pc[b] = "process" /\ ~ inner[b] /\ pos[b] <= size[b]
  /\ pos' = [pos EXCEPT ![b] = @ + 1]
  /\ inner' = [inner EXCEPT ![b] = TRUE]
  /\ Goto(b, "enter")
  /\ UNCHANGED <<size, handled, raised, state, started, stopped, dbVars>>

\* Mutant: the loop executes the last scriptlet again.
EachNextAgain(b) ==
  /\ pc[b] = "process" /\ ~ inner[b] /\ pos[b] < size[b]
  /\ pos' = [pos EXCEPT ![b] = IF @ = 0 THEN 1 ELSE @]
  /\ inner' = [inner EXCEPT ![b] = TRUE]
  /\ Goto(b, "enter")
  /\ UNCHANGED <<size, handled, raised, state, started, stopped, dbVars>>

\* process() of a batch: processables.each executes the next scriptlet.
EachNext(b) ==
  /\ pc[b] = "process" /\ ~ inner[b] /\ pos[b] < size[b]
  /\ pos' = [pos EXCEPT ![b] = @ + 1]
  /\ inner' = [inner EXCEPT ![b] = TRUE]
  /\ Goto(b, "enter")
  /\ UNCHANGED <<size, handled, raised, state, started, stopped, dbVars>>

\* After the last scriptlet the batch looks for a failed one.
SomeUnitFailed(b) == \E i \in Members(b) : state[b][i] = "FAILURE"

\* Mutant: the loop never goes on to the end of the batch.
EachDoneNever(b) ==
  /\ pc[b] = "process" /\ ~ inner[b] /\ pos[b] > size[b]
  /\ Goto(b, IF SomeUnitFailed(b) THEN "failure" ELSE "success")
  /\ UNCHANGED <<size, inner, pos, handled, raised, state, started, stopped, dbVars>>

EachDone(b) ==
  /\ pc[b] = "process" /\ ~ inner[b] /\ pos[b] = size[b]
  /\ Goto(b, IF SomeUnitFailed(b) THEN "failure" ELSE "success")
  /\ UNCHANGED <<size, inner, pos, handled, raised, state, started, stopped, dbVars>>

Success(b) ==
  /\ pc[b] = "success"
  /\ Become(b, "SUCCESS")
  /\ Goto(b, "onSuccess")
  /\ UNCHANGED <<size, inner, pos, handled, raised, started, stopped, dbVars>>

OnSuccess(b) ==
  /\ pc[b] = "onSuccess"
  /\ Goto(b, "stop")
  /\ UNCHANGED <<size, inner, pos, handled, raised, state, started, stopped, dbVars>>

OnSuccessThrows(b) ==
  /\ pc[b] = "onSuccess" /\ "exception" \in Faults
  /\ Goto(b, "failure")
  /\ UNCHANGED <<size, inner, pos, handled, raised, state, started, stopped, dbVars>>

\* Mutant: the inner catch does not remember the exception.
FailureForgotten(b) ==
  /\ pc[b] = "failure"
  /\ Become(b, "FAILURE")
  /\ Goto(b, "onFailure")
  /\ UNCHANGED <<size, inner, pos, handled, raised, started, stopped, dbVars>>

\* The inner catch remembers the exception and runs failure().
Failure(b) ==
  /\ pc[b] = "failure"
  /\ handled' = [handled EXCEPT ![b] = TRUE]
  /\ Become(b, "FAILURE")
  /\ Goto(b, "onFailure")
  /\ UNCHANGED <<size, inner, pos, raised, started, stopped, dbVars>>

\* onFailure returns or throws; either way the finally block runs stop().
OnFailure(b, t) ==
  /\ pc[b] = "onFailure"
  /\ Throw(b, t)
  /\ Goto(b, "stop")
  /\ UNCHANGED <<size, inner, pos, handled, state, started, stopped, dbVars>>

\* stop(): a scriptlet first detaches its appender and deletes its temp file.
Stop(b) ==
  /\ pc[b] = "stop"
  /\ stopped' = [stopped EXCEPT ![b] = @ \cup {Unit(b)}]
  /\ Goto(b, "onStop")
  /\ UNCHANGED <<size, inner, pos, handled, raised, state, started, dbVars>>

\* After the hook the unit is flushed and what was in flight goes on.
OnStop(b) ==
  /\ pc[b] = "onStop"
  /\ UNCHANGED state
  /\ Flush(b)
  /\ \/ raised[b] = "error" /\ Unwind(b)
     \/ raised[b] = "exception" /\ Goto(b, "caught") /\ UNCHANGED <<raised, inner, handled>>
     \/ raised[b] = "none" /\ Goto(b, "leave") /\ UNCHANGED <<raised, inner, handled>>
  /\ UNCHANGED <<size, pos, started, stopped>>

\* A Throwable of the finally block replaces the one in flight.
OnStopThrows(b) ==
  /\ pc[b] = "onStop" /\ "exception" \in Faults
  /\ Throw(b, "exception")
  /\ Goto(b, "caught")
  /\ UNCHANGED <<size, inner, pos, handled, state, started, stopped, dbVars>>

OnStopErrs(b) ==
  /\ pc[b] = "onStop" /\ "error" \in Faults
  /\ Unwind(b)
  /\ UNCHANGED <<size, pos, state, started, stopped, dbVars>>

\* Mutants: the outer catch does not rethrow; it does not set FAILURE.
CaughtWithoutRethrow(b) ==
  /\ pc[b] = "caught"
  /\ Become(b, "FAILURE")
  /\ Flush(b)
  /\ Throw(b, "none")
  /\ Goto(b, "leave")
  /\ UNCHANGED <<size, inner, pos, handled, started, stopped>>

CaughtWithoutFailure(b) ==
  /\ pc[b] = "caught"
  /\ UNCHANGED state
  /\ Flush(b)
  /\ Escape(b)
  /\ UNCHANGED <<size, pos, started, stopped>>

\* The outer catch.
Caught(b) ==
  /\ pc[b] = "caught"
  /\ Become(b, "FAILURE")
  /\ Flush(b)
  /\ Escape(b)
  /\ UNCHANGED <<size, pos, started, stopped>>

\* The end of execute: rethrow the handled exception, or return.
Rethrow(b) ==
  /\ pc[b] = "leave" /\ handled[b]
  /\ Escape(b)
  /\ UNCHANGED <<size, pos, state, started, stopped, dbVars>>

Return(b) ==
  /\ pc[b] = "leave" /\ ~ handled[b]
  /\ inner' = [inner EXCEPT ![b] = FALSE]
  /\ Goto(b, IF inner[b] THEN "process" ELSE "sync")
  /\ UNCHANGED <<size, pos, handled, raised, state, started, stopped, dbVars>>

\* A query made by a hook or a groovy script flushes the session (FlushMode
\* AUTO), so a state can become visible before its save(flush:true).
AutoFlush(b) ==
  /\ \/ pc[b] \in {"onStart", "onSuccess", "onFailure", "onStop"}
     \/ pc[b] = "process" /\ inner[b]
  /\ stored[b] # state[b]
  /\ UNCHANGED memVars
  /\ Flush(b)

-----------------------------------------------------------------------------
(***************************************************************************)
(* The worker after execute.                                               *)
(***************************************************************************)
\* cancel() of the batch cancels its waiting scriptlets, then itself; the
\* save() of each does not flush.  The catch of ScriptletBatch.execute and
\* that of the closure both call it, the second time without effect.
Canceled(s) == IF s = "WAITING" THEN "CANCELED" ELSE s

\* Mutant: the batch cancels itself only.
CancelTheBatchOnly(b) ==
  /\ pc[b] = "cancel"
  /\ state' = [state EXCEPT ![b][0] = Canceled(@)]
  /\ Throw(b, "none")
  /\ Goto(b, "sync")
  /\ UNCHANGED <<size, inner, pos, handled, started, stopped, dbVars>>

Cancel(b) ==
  /\ pc[b] = "cancel"
  /\ state' = [state EXCEPT ![b] =
       [u \in Units |-> IF u \in Members(b) \cup {0} THEN Canceled(@[u]) ELSE @[u]]]
  /\ Throw(b, "none")
  /\ Goto(b, "sync")
  /\ UNCHANGED <<size, inner, pos, handled, started, stopped, dbVars>>

\* synchronizeExposedProcessingParameters writes the zone's parameters (see
\* ZoneParameters); for the batch it only returns or throws.
Sync(b) ==
  /\ pc[b] = "sync"
  /\ Goto(b, "close")
  /\ UNCHANGED <<size, inner, pos, handled, raised, state, started, stopped, dbVars>>

SyncThrows(b) ==
  /\ pc[b] = "sync" /\ "exception" \in Faults
  /\ Throw(b, "exception")
  /\ Goto(b, "close")
  /\ UNCHANGED <<size, inner, pos, handled, state, started, stopped, dbVars>>

\* The executor closes the session: what is still dirty is flushed.
Close(b) ==
  /\ pc[b] = "close"
  /\ saved' = [saved EXCEPT ![b] = TRUE]
  /\ stored' = [stored EXCEPT ![b] = state[b]]
  /\ Goto(b, "done")
  /\ UNCHANGED <<size, inner, pos, handled, raised, state, started, stopped>>

\* The flush fails at a row another session has changed.  No transaction
\* surrounds it, so the writes W before that row stay.
CloseFails(b, W) ==
  /\ pc[b] = "close" /\ "exception" \in Faults
  /\ stored' = [stored EXCEPT ![b] =
       [u \in Units |-> IF saved[b] /\ u \in W THEN state[b][u] ELSE @[u]]]
  /\ Throw(b, IF raised[b] \in {"error", "unbuilt"} THEN raised[b] ELSE "conflict")
  /\ Goto(b, "done")
  /\ UNCHANGED <<size, inner, pos, handled, state, started, stopped, saved>>

-----------------------------------------------------------------------------
(***************************************************************************)
(* The server: a crash loses every session; BootStrap.init then cancels    *)
(* what the database shows as unfinished, one batch at a time.             *)
(***************************************************************************)
\* Mutants: the query misses running batches; it misses those a clean-up that
\* was interrupted has canceled.
IsHungUnlessRunning(b) == saved[b] /\ stored[b][0] \in {"WAITING", "CANCELED"}

IsHungUnlessCanceled(b) == saved[b] /\ stored[b][0] \in {"RUNNING", "WAITING"}

\* The query of the clean-up.
IsHung(b) == saved[b] /\ stored[b][0] \in {"RUNNING", "WAITING", "CANCELED"}

\* Mutant: the clean-up cancels finished scriptlets too.
UnhangAll(s) == "CANCELED"

Unhang(s) == IF s \in {"RUNNING", "WAITING"} THEN "CANCELED" ELSE s

\* The rows of b once its units below n have been cleaned up.  The flush of the
\* clean-up updates the batch, which was loaded first, and then its scriptlets.
CleanedRows(b, n) ==
  [u \in Units |->
     CASE u = 0 /\ u < n -> "CANCELED"
       [] u \in Members(b) /\ u < n -> Unhang(stored[b][u])
       [] OTHER -> stored[b][u]]

\* No transaction surrounds the clean-up, so a crash in the middle of a batch
\* leaves some of its rows written.
Crash ==
  /\ phase # "down" /\ crashes < MaxCrashes
  /\ crashes' = crashes + 1
  /\ phase' = "down"
  /\ hung' = {}
  /\ pc' = [b \in Batches |-> IF pc[b] \in {"idle", "done"} THEN pc[b] ELSE "lost"]
  /\ inner' = [b \in Batches |-> FALSE]
  /\ pos' = [b \in Batches |-> 0]
  /\ handled' = [b \in Batches |-> FALSE]
  /\ raised' = [b \in Batches |-> IF pc[b] = "done" THEN raised[b] ELSE "none"]
  /\ state' = [b \in Batches |-> AllWaiting]
  /\ started' = [b \in Batches |-> {}]
  /\ stopped' = [b \in Batches |-> {}]
  /\ \/ UNCHANGED stored
     \/ \E b \in hung, n \in Units : stored' = [stored EXCEPT ![b] = CleanedRows(b, n)]
  /\ UNCHANGED <<size, saved>>

Restart ==
  /\ phase = "down"
  /\ phase' = "boot"
  /\ hung' = {b \in Batches : IsHung(b)}
  /\ UNCHANGED <<memVars, dbVars, crashes>>

CleanUp(b) ==
  /\ phase = "boot" /\ b \in hung
  /\ stored' = [stored EXCEPT ![b] = CleanedRows(b, MaxScriptlets + 1)]
  /\ hung' = hung \ {b}
  /\ UNCHANGED <<memVars, saved, phase, crashes>>

BootDone ==
  /\ phase = "boot" /\ hung = {}
  /\ phase' = "up"
  /\ UNCHANGED <<memVars, dbVars, hung, crashes>>

-----------------------------------------------------------------------------
\* The steps the worker's thread takes by itself.
Prepare(b) ==
  \/ \E n \in Units : Build(b, n) \/ BuildBroken(b, n)
  \/ BuildRejected(b) \/ BuildWithoutScripts(b)

Execute(b) ==
  \/ Enter(b) \/ EnterRefused(b)
  \/ TempFileFails(b) \/ Start(b)
  \/ OnStart(b) \/ OnStartThrows(b) \/ OnStartErrs(b)
  \/ RunScript(b) \/ ScriptThrows(b) \/ BodyErrs(b)
  \/ EachNext(b) \/ EachDone(b)
  \/ Success(b) \/ OnSuccess(b) \/ OnSuccessThrows(b)
  \/ Failure(b) \/ \E t \in Faults \cup {"none"} : OnFailure(b, t)
  \/ Stop(b) \/ OnStop(b) \/ OnStopThrows(b) \/ OnStopErrs(b)
  \/ Caught(b) \/ Rethrow(b) \/ Return(b)

Conclude(b) ==
  \/ Cancel(b) \/ Sync(b) \/ SyncThrows(b)
  \/ Close(b) \/ \E W \in SUBSET Units : CloseFails(b, W)

Worker(b) ==
  /\ phase = "up" /\ UNCHANGED serverVars
  /\ Prepare(b) \/ Execute(b) \/ Conclude(b)

Server == Restart \/ BootDone \/ \E b \in Batches : CleanUp(b)

Next ==
  \/ \E b \in Batches : Worker(b)
  \/ \E b \in Batches : /\ phase = "up" /\ UNCHANGED serverVars
                        /\ Publish(b) \/ AutoFlush(b)
  \/ Crash
  \/ Server

Spec == Init /\ [][Next]_vars

\* A started thread goes on running, and a server that went down is restarted.
\* Shell scripts are ended by waitForOrKill; Groovy scripts and the hooks of
\* plugins have no time-out: that they end is assumed of whoever wrote them.
Fairness ==
  /\ \A b \in Batches : WF_vars(Worker(b))
  /\ WF_vars(Server)

FairSpec == Spec /\ Fairness

-----------------------------------------------------------------------------
(***************************************************************************)
(* Properties.                                                             *)
(***************************************************************************)
\* The rows a reader of the database sees; BatchRecord says what they promise.
RowsOf(b) == IF saved[b] THEN [u \in 0 .. size[b] |-> stored[b][u]] ELSE << >>

Record == INSTANCE BatchRecord WITH rows <- [b \in Batches |-> RowsOf(b)]

\* Whatever hook fails, whenever a query flushes the session early and wherever
\* the server crashes, the sequence of states execute(), cancel() and the
\* clean-up write is one BatchRecord allows.
ImplementsRecord == Record!Spec

\* The rows of a stored batch are coherent (see BatchRecord) at every moment.
RecordsCoherent == Record!RecordsCoherent

\* When the worker has ended without an Error and without a conflict, cancel()
\* and the last flush have left no unit of the batch waiting or running in the
\* database.  An Error that a later exception of a stop hook replaces may leave
\* a scriptlet RUNNING.
Pending == {"WAITING", "RUNNING"}

Settled(b, r) ==
  \A u \in Members(b) \cup {0} :
    r[u] \notin IF u # 0 /\ "error" \in Faults THEN {"WAITING"} ELSE Pending

NothingLeftPending ==
  \A b \in Batches :
    pc[b] = "done" /\ raised[b] \in {"none", "exception"} => Settled(b, stored[b])

\* ScriptletBatch.process looks for a failed scriptlet after its loop; since
\* execute() rethrows whatever a scriptlet failed with, it never finds one.
FailureCheckIsRedundant ==
  \A b \in Batches : pc[b] = "process" /\ ~ inner[b] => ~ SomeUnitFailed(b)

\* Where an Error has taken a batch that it left in the middle of a scriptlet.
AbandonPC == {"stop", "onStop", "caught", "cancel", "sync", "close", "done"}

\* A scriptlet that goes wrong in any of its hooks is not left RUNNING in the
\* session while the batch goes on.  Only an Error leaves one RUNNING, the one
\* the batch is given up at: no other scriptlet is executed, and neither the
\* success nor the failure hook of the batch runs over it.
OnlyTheTopRuns ==
  \A b \in Batches : \A i \in Members(b) :
    state[b][i] = "RUNNING" =>
      /\ pos[b] = i
      /\ inner[b] \/ ("error" \in Faults /\ pc[b] \in AbandonPC)

\* A scriptlet that attached its log appender to the root logger and whose
\* stop() is skipped is the one the batch gave up at: a batch leaks at most
\* one appender.
LeaksAtMostOneAppender ==
  \A b \in Batches : \A i \in Members(b) :
    i \in started[b] \ stopped[b] => i = pos[b]

\* Mutant: the progress counts the successful scriptlets.
ProgressOfSuccesses(r, n) ==
  IF n = 0 \/ r[0] = "WAITING" THEN 0
  ELSE (100 * Cardinality({i \in 1 .. n : r[i] = "SUCCESS"})) \div n

\* getProgress, from the rows the batch pages poll.
Progress(r, n) ==
  CASE n = 0 -> 0
    [] n > 0 /\ r[0] \in {"FAILURE", "SUCCESS"} -> 100
    [] n > 0 /\ r[0] = "WAITING" -> 0
    [] OTHER -> (100 * Cardinality({i \in 1 .. n : r[i] # "WAITING"})) \div n

\* The progress a user watches never falls back, not even over a failure, a
\* crash and the clean-up.
ProgressNeverFalls ==
  [][\A b \in Batches : saved[b] =>
       Progress(stored'[b], size[b]) >= Progress(stored[b], size[b])]_vars

\* What the clean-up owes a stored batch: an end, and nothing pending in it
\* unless it had failed before (see CleanUpLeavesNothingHung).
CleanedUp(b) ==
  /\ stored[b][0] \notin Pending
  /\ stored[b][0] # "FAILURE" => \A i \in Members(b) : stored[b][i] \notin Pending

\* However often the server crashes, and be it between two rows the clean-up
\* writes: what the clean-up has passed over or is done with needs it no longer,
\* and once the server is up every batch that lost its worker has been cleaned
\* up, and no other worker undoes it.
LostBatchesAreCleanedUp ==
  /\ phase = "boot" => \A b \in Batches \ hung : saved[b] => CleanedUp(b)
  /\ phase = "up" => \A b \in Batches : pc[b] = "lost" /\ saved[b] => CleanedUp(b)

\* The steps of execute that follow a position in the same frame, at most.
Ahead ==
  [enter |-> 10, start |-> 9, onStart |-> 8, process |-> 7, success |-> 6, onSuccess |-> 5,
   failure |-> 4, onFailure |-> 3, stop |-> 2, onStop |-> 1, caught |-> 0, leave |-> 0]

\* A bound on the steps a worker takes from position p of a scriptlet's or the
\* batch's frame, with so many scriptlets ahead of the loop.
StepsFrom(p, scriptlet, ahead) ==
  CASE p = "idle" -> 12 * MaxScriptlets + 16
    [] p = "queued" -> 12 * MaxScriptlets + 15
    [] p \in ExecutePC /\ scriptlet -> 12 * ahead + Ahead[p] + 12
    [] p \in {"enter", "start", "onStart", "process"} /\ ~ scriptlet ->
         12 * ahead + Ahead[p] + 4
    [] p \in ExecutePC \ {"enter", "start", "onStart", "process"} /\ ~ scriptlet ->
         Ahead[p] + 4
    [] p = "cancel" -> 3
    [] p = "sync" -> 2
    [] p = "close" -> 1
    [] OTHER -> 0

StepsLeft(b) == StepsFrom(pc[b], inner[b], size[b] - pos[b])

\* No catch, rethrow or hook sends a worker back to where it has been: whatever
\* is thrown, each of its steps leaves it fewer to take.
WorkersAdvance ==
  [][\A b \in Batches : pc'[b] # pc[b] =>
       0 <= StepsLeft(b)' /\ StepsLeft(b)' < StepsLeft(b)]_vars

\* A published event is worked off: its worker ends or is lost in a crash.
WorkerEnds ==
  \A b \in Batches : pc[b] = "queued" ~> pc[b] \in {"done", "lost"}

\* What a worker may end with before its batch has ended: an Error, which passes
\* every catch (Exception) up to the executor, a broken build, a lost flush.
GaveUp(b) == pc[b] = "done" /\ raised[b] \in Endings \cup {"error"}

\* A stored batch does not show WAITING or RUNNING for ever: its worker or,
\* after a crash, the clean-up settles it.  A batch its worker gave up stays as
\* it is, but not beyond the next restart, which settles every stored batch.
BatchSettles ==
  /\ \A b \in Batches : saved[b] ~> stored[b][0] \notin Pending \/ GaveUp(b)
  /\ phase = "down" ~> phase = "up" /\ \A b \in Batches : saved[b] => CleanedUp(b)

(***************************************************************************)
(* The inductive invariant behind the safety properties.                   *)
(***************************************************************************)
Live == ExecutePC \cup {"cancel", "sync", "close"}

\* Which control states each part of the bookkeeping allows.
ControlInv(b) ==
  /\ pos[b] <= size[b]
  /\ inner[b] => pos[b] > 0 /\ pc[b] \in ExecutePC
  /\ pc[b] \in {"idle", "queued"} =>
       /\ ~ saved[b] /\ size[b] = 0 /\ pos[b] = 0 /\ ~ handled[b] /\ raised[b] = "none"
       /\ state[b] = AllWaiting /\ started[b] = {}
  /\ pc[b] \in Live \ {"close"} => saved[b]
  /\ pc[b] = "close" /\ ~ saved[b] => state[b] = AllWaiting
  /\ ~ saved[b] => stored[b] = AllWaiting
  /\ phase # "up" => pc[b] \in {"idle", "done", "lost"}
  /\ b \in hung => phase = "boot" /\ IsHung(b)

\* What is in flight at each position of execute.
ThrowInv(b) ==
  /\ pc[b] \in {"enter", "start", "onStart", "process", "success", "onSuccess",
                "failure", "onFailure", "leave"} => raised[b] = "none"
  /\ pc[b] \in {"enter", "start", "onStart", "process", "success", "onSuccess"} =>
       ~ handled[b]
  /\ pc[b] = "onFailure" => handled[b]
  /\ pc[b] \in {"stop", "onStop"} => raised[b] \in Throwables
  /\ pc[b] \in {"caught", "cancel"} => raised[b] = "exception"

\* The state of the unit on top of the stack.
TopInv(b) ==
  LET s == state[b][Unit(b)]
  IN /\ pc[b] \in {"enter", "start"} => s = "WAITING"
     /\ pc[b] \in {"onStart", "process", "success"} => s = "RUNNING"
     /\ pc[b] = "onSuccess" => s = "SUCCESS"
     /\ pc[b] = "failure" => s \in {"RUNNING", "SUCCESS"}
     /\ pc[b] = "onFailure" => s = "FAILURE"
     /\ pc[b] \in {"stop", "onStop", "leave"} =>
          IF handled[b] THEN s = "FAILURE"
          ELSE IF raised[b] = "none" THEN s = "SUCCESS" ELSE s \in {"RUNNING", "SUCCESS"}
     /\ pc[b] = "caught" => s \in {"RUNNING", "SUCCESS", "FAILURE"} \/ inner[b]

\* The scriptlets behind and ahead of the loop's position, and the batch.
LoopInv(b) ==
  /\ \A i \in 1 .. (pos[b] - 1) : state[b][i] = "SUCCESS"
  /\ \A i \in (pos[b] + 1) .. size[b] :
       state[b][i] \in IF pc[b] \in {"sync", "close"} THEN {"WAITING", "CANCELED"}
                                                     ELSE {"WAITING"}
  /\ pc[b] \in {"enter", "start", "onStart"} /\ ~ inner[b] => pos[b] = 0
  /\ pc[b] = "process" /\ ~ inner[b] /\ pos[b] > 0 => state[b][pos[b]] = "SUCCESS"
  /\ pc[b] \in ExecutePC /\ pos[b] > 0 => state[b][pos[b]] # "CANCELED"
  /\ inner[b] => state[b][0] = "RUNNING"
  /\ state[b][0] = "WAITING" => pos[b] = 0
  /\ (pc[b] = "success" /\ ~ inner[b]) \/ state[b][0] = "SUCCESS" =>
       \A i \in Members(b) : state[b][i] = "SUCCESS"
  /\ pc[b] = "cancel" => state[b][0] = "FAILURE" \/ (state[b][0] = "WAITING" /\ size[b] = 0)
  /\ \A i \in Members(b) : state[b][i] = "CANCELED" => state[b][0] = "FAILURE"
  /\ state[b][0] = "CANCELED" => pc[b] \in {"sync", "close"}

\* How far the database may be behind the session.
LagInv(b) ==
  \A u \in Members(b) \cup {0} :
    \/ stored[b][u] = state[b][u]
    \/ <<stored[b][u], state[b][u]>> \in
         {<<"RUNNING", "SUCCESS">>, <<"RUNNING", "FAILURE">>,
          <<"SUCCESS", "FAILURE">>, <<"WAITING", "CANCELED">>}

\* What has been flushed for certain: the scriptlets behind the loop, a unit
\* whose stop() is over, and a failed batch before its scriptlets are cancelled.
FlushInv(b) ==
  /\ \A i \in 1 .. (pos[b] - 1) : stored[b][i] = "SUCCESS"
  /\ pc[b] = "process" /\ ~ inner[b] /\ pos[b] > 0 => stored[b][pos[b]] = "SUCCESS"
  /\ pc[b] = "leave" => stored[b][Unit(b)] = state[b][Unit(b)]
  /\ pc[b] = "cancel" => stored[b][0] = state[b][0]
  /\ (pc[b] = "success" /\ ~ inner[b]) \/ state[b][0] = "SUCCESS" =>
       \A i \in Members(b) : stored[b][i] = "SUCCESS"
  /\ stored[b][0] = "SUCCESS" => \A i \in Members(b) : state[b][i] = "SUCCESS"
  /\ \A i \in Members(b) : state[b][i] = "CANCELED" => stored[b][0] = "FAILURE"

\* The scriptlets the loop has left behind, and what the worker leaves.
SettleInv(b) ==
  /\ \A i \in Members(b) : i \in started[b] \ stopped[b] => i = pos[b]
  /\ pc[b] \in {"onStop", "leave"} => Unit(b) \in stopped[b]
  /\ pc[b] = "process" /\ ~ inner[b] /\ pos[b] > 0 => pos[b] \in stopped[b]
  /\ "error" \notin Faults => raised[b] # "error"
  /\ pc[b] \in ExecutePC /\ raised[b] = "none" =>
       \A i \in Members(b) : state[b][i] = "RUNNING" => inner[b]
  /\ \A i \in Members(b) : state[b][i] = "RUNNING" =>
       pos[b] = i /\ (inner[b] \/ ("error" \in Faults /\ pc[b] \in AbandonPC))
  /\ pc[b] = "sync" => Settled(b, state[b])
  /\ pc[b] = "close" /\ raised[b] \in {"none", "exception"} => Settled(b, state[b])
  /\ pc[b] = "done" /\ raised[b] \in {"none", "exception"} => Settled(b, stored[b])

BatchInv(b) ==
  /\ ControlInv(b) /\ SettleInv(b)
  /\ pc[b] \in Live => ThrowInv(b) /\ TopInv(b) /\ LoopInv(b)
  /\ pc[b] \in Live /\ saved[b] => LagInv(b) /\ FlushInv(b)

ExecutionInv == \A b \in Batches : BatchInv(b)

(***************************************************************************)
(* What the sources say of the program and the program does not do.        *)
(***************************************************************************)
\* BootStrap: "clean up hung stuff after restart".  After the clean-up nothing
\* stored would be waiting or running, since nothing is being executed.
CleanUpLeavesNothingHung ==
  phase = "boot" /\ hung = {} =>
    \A b \in Batches : saved[b] =>
      \A u \in Members(b) \cup {0} : stored[b][u] \notin Pending

\* The plugins: their hooks "will be executed at the beginning (onStart) and at
\* the end (onSuccess, onFailure, onStop)".  A unit that was started and is no
\* longer executed would have been stopped.
StartedUnitsAreStopped ==
  \A b \in Batches : \A u \in started[b] \ stopped[b] :
    IF u = 0 THEN pc[b] \in ExecutePC ELSE inner[b] /\ pos[b] = u
=============================================================================
