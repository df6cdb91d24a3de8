----------------------------- MODULE FlowCache -----------------------------
(***************************************************************************)
(* The cache of script flows of ScriptletBatchService.  Requests and batch *)
(* workers look flows up in one map without any lock: they test the field, *)
(* read the map, build what is missing from the script directory, store it *)
(* and read it back, and each access reads the field anew.  An             *)
(* administrator who edits an execution zone type sets the field to null   *)
(* (clearCache) before the type is saved; files change at any time.        *)
(*                                                                         *)
(* A flow is represented by the state of the files its build read first;   *)
(* the key of a flow (directory and runtime attributes) by the stack, and  *)
(* each stack has a type of its own.                                       *)
(***************************************************************************)
EXTENDS Naturals

CONSTANTS
  Stacks,       \* directories with scripts
  Requests,     \* threads that look up flows
  Null,         \* the field or an entry that is not set
  MaxEdits,     \* bound on the edits of a stack
  MaxUpdates    \* bound on the updates of types

ASSUME NullIsDistinct ==
  Null \notin Nat /\ \A D \in SUBSET Stacks : Null \notin [D -> Nat]

VARIABLES
  disk,      \* how often the files of a stack were edited
  devMode,   \* the flag of the type of a stack
  saving,    \* updates of types between clearCache and save
  updates,   \* how many updates there were
  cache,     \* scriptletFlowCache
  pc,        \* where a request is
  want,      \* the stack it asks for
  dev,       \* devMode of its type, as the request loaded it
  flow,      \* the flow it has built
  got,       \* the flow it was given
  floor,     \* history: disk at the last clearCache
  begun,     \* history: disk when the request began
  met,       \* history: another request was under way during the request
  cleared    \* history: the cache was cleared during the request

vars == <<disk, devMode, saving, updates, cache, pc, want, dev, flow, got,
          floor, begun, met, cleared>>

TypeOK ==
  /\ disk \in [Stacks -> Nat]
  /\ devMode \in [Stacks -> BOOLEAN]
  /\ saving \subseteq Stacks \X BOOLEAN
  /\ updates \in Nat
  /\ cache = Null \/ \E D \in SUBSET Stacks : cache \in [D -> Nat]
  /\ pc \in [Requests -> {"idle", "test", "create", "lookup", "build", "store",
                         "reread", "done", "failed", "broken"}]
  /\ want \in [Requests -> Stacks]
  /\ dev \in [Requests -> BOOLEAN]
  /\ flow \in [Requests -> Nat]
  /\ got \in [Requests -> Nat \cup {Null}]
  /\ floor \in [Stacks -> Nat]
  /\ begun \in [Requests -> Nat]
  /\ met \in [Requests -> BOOLEAN]
  /\ cleared \in [Requests -> BOOLEAN]

Init ==
  /\ disk = [k \in Stacks |-> 0]
  /\ devMode \in [Stacks -> BOOLEAN]
  /\ saving = {}
  /\ updates = 0
  /\ cache = Null
  /\ pc = [r \in Requests |-> "idle"]
  /\ want \in [Requests -> Stacks]
  /\ dev = [r \in Requests |-> FALSE]
  /\ flow = [r \in Requests |-> 0]
  /\ got = [r \in Requests |-> Null]
  /\ floor = [k \in Stacks |-> 0]
  /\ begun = [r \in Requests |-> 0]
  /\ met = [r \in Requests |-> FALSE]
  /\ cleared = [r \in Requests |-> FALSE]

UnderWay(r) == pc[r] \in {"test", "create", "lookup", "build", "store", "reread"}

Goto(r, label) == pc' = [pc EXCEPT ![r] = label]
-----------------------------------------------------------------------------
(***************************************************************************)
(* A lookup: getScriptletBatchFlow.                                        *)
(***************************************************************************)
files == <<disk, devMode, saving, updates, floor>>

\* The request has loaded the type and calls the service.
Begin(r, k) ==
  /\ ~ UnderWay(r)
  /\ Goto(r, "test")
  /\ want' = [want EXCEPT ![r] = k]
  /\ dev' = [dev EXCEPT ![r] = devMode[k]]
  /\ begun' = [begun EXCEPT ![r] = disk[k]]
  /\ met' = [q \in Requests |->
       IF q = r THEN \E p \in Requests \ {r} : UnderWay(p) ELSE met[q] \/ UnderWay(q)]
  /\ cleared' = [cleared EXCEPT ![r] = FALSE]
  /\ got' = [got EXCEPT ![r] = Null]
  /\ UNCHANGED <<files, cache, flow>>

history == <<want, dev, begun, met, cleared>>

\* Mutant: a missing map is not created.
TestNothing(r) ==
  /\ pc[r] = "test"
  /\ Goto(r, "lookup")
  /\ UNCHANGED <<files, cache, flow, got, history>>

Test(r) ==
  /\ pc[r] = "test"
  /\ Goto(r, IF cache = Null THEN "create" ELSE "lookup")
  /\ UNCHANGED <<files, cache, flow, got, history>>

\* Between the test and the assignment another request may have set the field.
Create(r) ==
  /\ pc[r] = "create"
  /\ cache' = << >>
  /\ Goto(r, "lookup")
  /\ UNCHANGED <<files, flow, got, history>>

\* Every access to the map fails if the field is null.
NoMap(r) ==
  /\ pc[r] \in {"lookup", "store", "reread"} /\ cache = Null
  /\ Goto(r, "failed")
  /\ UNCHANGED <<files, cache, flow, got, history>>

\* Mutant: devMode is not looked at.
IsMissingOnly(r) == want[r] \notin DOMAIN cache

IsMissing(r) == want[r] \notin DOMAIN cache \/ dev[r]

Lookup(r) ==
  /\ pc[r] = "lookup" /\ cache # Null
  /\ Goto(r, IF IsMissing(r) THEN "build" ELSE "reread")
  /\ UNCHANGED <<files, cache, flow, got, history>>

\* Mutant: the request builds a flow only once.
BuildOnce(r) ==
  /\ pc[r] = "build"
  /\ flow' = [flow EXCEPT ![r] = IF flow[r] = 0 THEN disk[want[r]] ELSE flow[r]]
  /\ Goto(r, "store")
  /\ UNCHANGED <<files, cache, got, history>>

Build(r) ==
  /\ pc[r] = "build"
  /\ flow' = [flow EXCEPT ![r] = disk[want[r]]]
  /\ Goto(r, "store")
  /\ UNCHANGED <<files, cache, got, history>>

\* A script directory is missing, a plugin does not compile, ...
BuildBreaks(r) ==
  /\ pc[r] = "build"
  /\ Goto(r, "broken")
  /\ UNCHANGED <<files, cache, flow, got, history>>

Store(r) ==
  /\ pc[r] = "store" /\ cache # Null
  /\ cache' = [k \in DOMAIN cache \cup {want[r]} |->
                 IF k = want[r] THEN flow[r] ELSE cache[k]]
  /\ Goto(r, "reread")
  /\ UNCHANGED <<files, flow, got, history>>

Reread(r) ==
  /\ pc[r] = "reread" /\ cache # Null
  /\ got' = [got EXCEPT ![r] = IF want[r] \in DOMAIN cache THEN cache[want[r]] ELSE Null]
  /\ Goto(r, "done")
  /\ UNCHANGED <<files, cache, flow, history>>
-----------------------------------------------------------------------------
(***************************************************************************)
(* Files and types.                                                        *)
(***************************************************************************)
request == <<pc, want, dev, flow, got, begun, met>>

Edit(k) ==
  /\ disk[k] < MaxEdits
  /\ disk' = [disk EXCEPT ![k] = @ + 1]
  /\ UNCHANGED <<devMode, saving, updates, cache, floor, cleared, request>>

\* Mutant: only the flow of the edited type is dropped.
ClearOne(k, flag) ==
  /\ updates < MaxUpdates
  /\ updates' = updates + 1
  /\ saving' = saving \cup {<<k, flag>>}
  /\ cache' = IF cache = Null THEN Null ELSE [j \in DOMAIN cache \ {k} |-> cache[j]]
  /\ floor' = disk
  /\ cleared' = [r \in Requests |-> cleared[r] \/ UnderWay(r)]
  /\ UNCHANGED <<disk, devMode, request>>

\* update() clears the cache before it saves the type.
Clear(k, flag) ==
  /\ updates < MaxUpdates
  /\ updates' = updates + 1
  /\ saving' = saving \cup {<<k, flag>>}
  /\ cache' = Null
  /\ floor' = disk
  /\ cleared' = [r \in Requests |-> cleared[r] \/ UnderWay(r)]
  /\ UNCHANGED <<disk, devMode, request>>

\* The type is saved, or does not validate.
Save(k, flag) ==
  /\ <<k, flag>> \in saving
  /\ saving' = saving \ {<<k, flag>>}
  /\ devMode' \in {devMode, [devMode EXCEPT ![k] = flag]}
  /\ UNCHANGED <<disk, updates, cache, floor, cleared, request>>

Step(r) ==
  \/ Test(r) \/ Create(r) \/ NoMap(r) \/ Lookup(r)
  \/ Build(r) \/ BuildBreaks(r) \/ Store(r) \/ Reread(r)

Next ==
  \/ \E r \in Requests : Step(r) \/ \E k \in Stacks : Begin(r, k)
  \/ \E k \in Stacks : Edit(k) \/ \E flag \in BOOLEAN : Clear(k, flag) \/ Save(k, flag)

Spec == Init /\ [][Next]_vars
-----------------------------------------------------------------------------
(***************************************************************************)
(* Properties.                                                             *)
(***************************************************************************)
\* A lookup finds the field null in its middle only if the cache was cleared
\* meanwhile, and is given no flow only if that happened or another lookup was
\* under way (which may have replaced the map it had just filled).
LookupsAnswer ==
  \A r \in Requests :
    /\ pc[r] = "failed" => cleared[r]
    /\ pc[r] = "done" /\ got[r] = Null => cleared[r] \/ met[r]

\* In devMode a lookup sees all edits made before it, if no other lookup was
\* under way.
LoneDevLookupsAreFresh ==
  \A r \in Requests :
    pc[r] = "done" /\ dev[r] /\ ~ met[r] /\ got[r] # Null => got[r] >= begun[r]

\* A cached flow is replaced by one of older files only by a lookup that ran
\* at the same time as another one.
FlowsNeverAge ==
  [][\A k \in Stacks :
       cache # Null /\ cache' # Null /\ k \in DOMAIN cache /\ k \in DOMAIN cache'
         /\ cache'[k] < cache[k] =>
       \E r \in Requests : pc[r] = "store" /\ want[r] = k /\ met[r]]_vars

Stale(k) == cache # Null /\ k \in DOMAIN cache /\ cache[k] < floor[k]

\* Files older than the last clearCache come back into the cache only by a
\* lookup that was under way when the cache was cleared.
OnlyOldLookupsSpoil ==
  [][\A k \in Stacks : Stale(k)' /\ ~ Stale(k) =>
       \E r \in Requests : pc[r] = "store" /\ pc'[r] = "reread" /\ cleared[r]]_vars

(***************************************************************************)
(* The invariant behind them.                                              *)
(***************************************************************************)
FilesInv ==
  /\ \A k \in Stacks : floor[k] <= disk[k]
  /\ cache # Null => \A k \in DOMAIN cache : cache[k] <= disk[k]

\* Two requests under way know of each other.
MeetInv == \A r, q \in Requests : r # q /\ UnderWay(r) /\ UnderWay(q) => met[r]

\* The stack a request asks for is in the cache.
Cached(r) == cache # Null /\ want[r] \in DOMAIN cache

RequestInv(r) ==
  /\ UnderWay(r) => begun[r] <= disk[want[r]]
  /\ pc[r] = "store" => flow[r] >= begun[r] /\ flow[r] <= disk[want[r]]
  /\ pc[r] = "store" /\ ~ cleared[r] => flow[r] >= floor[want[r]]
  /\ pc[r] \in {"lookup", "build", "store", "reread"} /\ ~ cleared[r] => cache # Null
  /\ pc[r] = "reread" /\ ~ cleared[r] /\ ~ met[r] => Cached(r)
  /\ pc[r] = "reread" /\ dev[r] /\ ~ met[r] /\ Cached(r) => cache[want[r]] >= begun[r]
  /\ pc[r] \in {"test", "create", "lookup", "build", "store"} /\ ~ met[r] /\ Cached(r) =>
       cache[want[r]] <= begun[r]

FlowInv == FilesInv /\ MeetInv /\ \A r \in Requests : RequestInv(r)

\* ExecutionZoneTypeController.update: "we want to have a clean start
\* afterwards" - the cache never holds files older than the last clearCache.
CleanStart == \A k \in Stacks : ~ Stale(k)
=============================================================================
