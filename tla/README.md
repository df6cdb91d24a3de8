# Verification of zenboot

zenboot is a Grails application that runs stacks of shell and Groovy scripts
("script batches") for execution zones, and keeps the parameters, hosts, users
and templates around them. This directory holds TLA+ models of its core, the
TLC configurations that check them on small instances, and proofs, checked by
TLAPS, that hold for every value of the constants.

* [1. The system](#1-the-system): inventory of parts, state and hard behaviour
* [2. Modules](#2-modules): which module models what, and how
* [3. Runs](#3-runs): what TLC checks, with which bounds, and why they suffice
* [4. Proofs](#4-proofs): theorems, assumptions and inductive invariants
* [5. Disagreements](#5-disagreements): four places where the code does not do
  what a comment says
* [6. Not modelled, and plan](#6-not-modelled-and-plan)

`tlc -workers 2 -config X.cfg M` checks a run, `tlapm M.tla` a module of proofs.
`PROJECT.json` lists the runs, the source lines of every definition, and the
hazards with the properties aimed at them.

## 1. The system

| Part | State | Operations | Hard behaviour |
|---|---|---|---|
| **Batch execution** (`Processable`, `ScriptletBatch`, `Scriptlet`, `ScriptletBatchService`, `ExecutionService`, `ProcessHandler`) | state, dates and exception of a batch and of its scriptlets, in the worker's Hibernate session and in the database; log appenders | publish an event, build a batch, `execute` with hooks `onStart`, `onSuccess`, `onFailure`, `onStop`, cancel, write parameters back | one thread per event that nobody waits for; exceptions and errors at every hook, including those of the handlers themselves; a session flushed early by a query, explicitly, or only when it is closed; crashes |
| **Restart clean-up** (`BootStrap`) | the rows of the batches | cancels what a crash left behind, publishes the bootstrap action | crashes again half-way; which rows are selected |
| **Zone parameters** (`ExecutionZone`, `ProcessingParameter`, `ControllerUtils`, `ExecutionZoneController`, the REST controller, write-back of `ScriptletBatchService`) | the parameters of a zone with version, value and exposed flag; version and flags of the zone | page update, REST PUT and DELETE, write-back at the end of a batch | long-lived copies in sessions and forms; optimistic locking of two kinds of rows; flushes statement by statement |
| **Flow cache** (`ScriptletBatchService.getScriptletBatchFlow`, `clearCache`) | a map of flows in a field of a singleton service | look up, build, store, clear | no lock at all; the field is set to null at any time |
| **Script and plugin selection** (`ScriptResolver`, `PluginResolver`, `AbstractRankableFile`) | none of its own; directories and runtime attributes | choose a file of each order number, replace YAML files by the files they list, choose a plugin | ranks, ties, search order, YAML files that list each other |
| **Parameter flow** (`ScriptletBatchFlow`, `ParameterMetadataList`, annotation readers) | parameters a stack consumes and emits | build, overlay with the zone's parameters | parameters emitted by an earlier script of the stack must not be asked for |
| **Host pool** (`Host`, `Hostname`, `HostService`, example plugins and jobs, `CronjobService`) | hosts and their states, cron jobs | create, delete, expire hosts; run due jobs | limit checked and used at different moments; jobs that select again what is already being done |
| **Access cache** (`AccessService`) | per-user maps of zones | look up, refresh, drop, warm up in a thread | entries computed from data that changes before they are stored |
| **Configuration templates** (`zenboot.js`, `TemplateController`, `Template`) | templates with their versions; the form of the templates tab | choose a template or a version, save, update, delete, preview, check | chains of requests nothing aborts, whose answers come in any order and each change a part of one form |
| **Readme editor** (`epiceditor.js`, the script of `ajaxGetReadme.gsp`, `ExecutionZoneController`) | text, modes, drafts and flags of the editor; the checksum of the page; the file | type, preview, toggle full screen, save; open and close the panel | keys released unseen, a live preview on a timer, a browser that follows late; read, check and write of a file without a lock |
| **Process queue** (`zenboot.js`, `jquery.winFocus.js`, `ScriptletBatchController.ajaxList`) | visibility, timer, the list shown | poll, pause, stop at the first failure | answers in any order, visibility that changes again before its event arrives |
| **Zone types, controllers, customers, log capture, command line client** | see `PROJECT.json` | mostly create, read, update, delete and rendering | few |

How the parts interact: a controller, a cron job or a plugin publishes a
`ProcessingEvent`. `ScriptletBatchService` hands it to a thread of the executor,
which selects the scripts of the zone's type, builds the batch, runs it, and at
the end writes exposed parameters back to the zone that users edit meanwhile.
Pages and REST clients poll the rows of the batch: every page shows the process
queue. The flow of a stack, needed
by the pages to ask for parameters and by the write-back to know which ones are
exposed, comes from the cache, which is filled from the script directory and
dropped when a type is edited. After a crash `BootStrap` is the only one that
looks at abandoned batches.

What makes each part correct:

* *Batch execution*: scripts run in order, none before its predecessor
  succeeded, as seen by a reader of the database, too; a failure of any hook
  reaches the batch and, unless it is an `Error`, cancels the rest; a worker that
  finishes without one leaves nothing waiting; every event is worked off.
* *Clean-up*: it may be interrupted and repeated, and never rewrites a result.
* *Zone parameters*: a batch overwrites only what it read and may write; a user
  never removes what the page did not show; changes of others are not lost.
* *Flow cache*: a lookup is answered; an edit is seen after `clearCache`, or at
  once in devMode.
* *Templates*: what belongs together in the form stays together; no template
  gets the text of another; what is disabled is enabled again.
* *Readme editor*: a visible preview is up to date; full screen ends in the mode
  it began in; nothing is posted that was not asked for, and nothing overwritten
  that was not seen.
* *Process queue*: a visible page catches up with the batches, and no page ever
  shows one further on than it is.
* *Selection*: the best fitting file of each order number, in order; nested
  lists expand to exactly what they list; the lookup ends.

## 2. Modules

| Module | Models |
|---|---|
| `BatchRecord` | abstract: what the rows of a batch promise to a reader |
| `BatchExecution` | the worker, `execute` and its hooks, session, crash, clean-up; implements `BatchRecord` |
| `BatchRecordProofs`, `BatchExecutionProofs` | their theorems; the latter also proves the implementation |
| `ZoneParameters`, `ZoneParametersProofs`, `MCZoneParameters` | the parameters of one zone and the sessions that change them |
| `FlowCache`, `FlowCacheProofs`, `MCFlowCache` | the cache of flows |
| `ScriptSelection`, `ScriptSelectionProofs`, `MCScriptSelection` | the choice of scripts and plugins |
| `TemplateEditor`, `TemplateEditorProofs` | the templates tab and its controller |
| `EpicEditor` | the markdown editor by itself |
| `ReadmeEditor`, `ReadmeEditorProofs` | composes `EpicEditor` with the page, the controller and the file |
| `ProcessQueue`, `ProcessQueueProofs` | composes `BatchRecord` with the pages that poll it |

### BatchExecution

A batch and its scriptlets are all `Processable`s, so both go through the same
`execute`. Unit 0 of a batch is the batch, unit *i* its *i*-th scriptlet. The
call stack is at most two frames deep; `inner` says whether the scriptlet's frame
is on top, `pos` is the position of the loop in `ScriptletBatch.process`, and
`pc` is a position inside `execute` (or in the worker around it). `state` is the
session's copy of the rows, `stored` the database. `raised` is the throwable in
flight, `handled` the local variable `handledException` of `execute`.

Each step of `execute` is an action, with one more for each way it can end: `Start`,
`OnStart`, `OnStartThrows`, `OnStartErrs`, and so on. This keeps everything that the
nested `try`/`catch`/`finally` does: `start()` lies outside the inner `try`; an
exception thrown by `failure()` passes through the `finally` block to the outer
catch; one thrown by `stop()` replaces the one in flight; `catch (Exception)` lets
an `Error` pass; the outer catch records what the inner one could not. A hook or
script is an environment action that returns or throws.

The session: `Flush` writes the batch and its scriptlets where the code saves
with `flush: true`. `AutoFlush` writes them at any hook, because a hook may
query (FlushMode.AUTO). `Close` flushes at the end of the session; `CloseFails`
writes an arbitrary part, since there is no transaction around it. `Crash` loses
sessions at any moment, `Restart`, `Unhang`, `CleanUp` and `BootDone` are the
clean-up, one batch at a time. The next crash may interrupt it between two
batches or inside one: the clean-up updates the batch first and then its scriptlets,
without a transaction around them, so `Crash` may leave a part written
(`CleanedRows`). This is why its query selects `CANCELED` batches again.

Abstractions: an explicit flush is one step and succeeds. As long as only exceptions
are thrown it writes one row whose state has changed, the one the step has set,
since the changes before it have been flushed; and no other session of the model
writes the rows of a batch while its worker lives, so no version is stale. What a
query, the end of the session or the clean-up flushes may be several rows, and is
written in part where it can be interrupted or fail (`CloseFails`, `Crash`). Dates,
output, exit codes and process contexts are left out; the write-back of parameters
is a step that returns or throws (`ZoneParameters` is its inside); the bootstrap
action and deletion of a running batch are left out.

### BatchRecord

Rows of a batch change by `Rewritten`: each unit along `Moves`, a scriptlet
begins only in a running batch after its predecessors succeeded, a success is
revoked only while nothing builds on it, the batch succeeds as a whole, and
scriptlets are cancelled only with a failed or cancelled batch. `RowsOf` in
`BatchExecution` is the refinement mapping: the stored rows of a batch that has
been saved.

### ZoneParameters

`rows` are the parameters of one zone in the database, each with id and version;
`zone` is the zone's row. A batch reads the zone when it starts (`BeginBatch`),
the parameters at first use (`LoadParameters`), and computes its write-back from
what it read (`WriteBack`, `Granted`). A page is opened (`OpenForm`), later
rejected as outdated or accepted (`RejectForm`, `SubmitForm`); REST requests read
and compute in one step (`RestPut`, `RestDelete`). What is to be written is
`work`, flushed statement by statement in Hibernate's order (zone, updates,
deletes, inserts) with optimistic locking on both kinds of rows. The zone's
version grows with its own fields and with the set of its parameters, not with
their values.

Abstractions: values are opaque and not trimmed; description and published flag
are left out; a stale delete changes only the answer and is a delete of nothing;
the submission of a form and a REST request read zone and parameters in one step.
In the code another session may come in between; what such a submission would add
or remove makes it write the zone, whose version is then stale. Names that differ
in case only, which the sorted set of a session would merge, do not occur.

### FlowCache

One access to the field together with the access to the map it yields is a step
(`Test`, `Create`, `Lookup`, `Store`, `Reread`); building a flow is another.
`Clear` is the part of `ExecutionZoneTypeController.update` that drops the map,
before `Save` stores the new devMode. A flow is the number of edits its build has
seen. `floor`, `begun`, `met` and `cleared` are history variables: they are never
read by a guard. Internal races of the hash map are left out.

### ScriptSelection

A file is the record of what its name and contents mean: order number,
qualifiers, and for YAML the listed names and the lookup path. `FilterScriptFiles`
picks the last of each order number after the two sorts (`BestFitting`),
`InjectYamlScriptFiles` is one level of the recursion, `TooManyLevels` its limit
(50 in the code, `MaxLevel` here). Reference definitions are `FitsBetter` and
`Leaves`, a recursive function of the depth that follows lists depth first instead
of level by level.

### TemplateEditor

The form is a handful of variables (`target`, the template its action updates;
`text` and `placeholder`, the versions these came from; `newest`, `chosen`,
`fileOf`, `removable`, `removeOf`), because the handlers of `zenboot.js` set them one by one
from different answers. A request is a record with the gesture its chain began
with and what it asks about; `sent` and `answers` are sets, so any order is
possible. Each gesture, each success handler and the error handlers are actions
(`Choose` to `Check`, `Described` to `Refused`), each handler of the controller
another; save and update answer by a redirect, a request `saved` of its own, or
with an error although they have stored the template, when the computation of its
missing parameters throws (`Concludes`).

What the code does here that one would not expect: the success handlers of
`loadTemplateFrom` and `loadTemplate` enable the inputs right after the
`beforeSend` of the request they have just made disabled them, so the form can be
submitted while its text is on the way. Anchors that look disabled still work.
Cancelling leaves the action in the delete dialog. A form that was made up of
two chains, or of one that failed half-way, stays so at rest, and its next save
gives one template the text of another; hence the history variable `suspect`
in `FormAtRestIsWhole` and `CalmSavesAreOwn`, which say that haste or an error is
the only way to get there. An error of the request for the list leaves the
list disabled until the page is loaded again (`listLost`).

Abstractions: a text stands for the version it was loaded from; names and commit
messages are left out, a refusal for their sake is left to chance (`Refuse`).
Requests that only read are served when their answer is taken, or before a
deletion, which is all that can tell the difference. The scripts also fade spinners
in and out, but no view has an element of their names, so they are left out.

### EpicEditor and ReadmeEditor

The editor is one record `ee`, and its methods are operators from records to
records, nested as the methods call each other: `GoFullscreen` calls `Preview`,
which saves a draft and takes the focus, and `KeyDown` does what `shortcutHandler` does
in its order; an *s* saves once for `isCtrl` and once for the command key of a Mac.
`browser` is the full screen of the browser, which is asked for
by a method and entered, denied or left later (`Entered`, `Left`). `ctrlDown` is
the key, `ee.ctrl` what the editor believes of it. `before`, `behind`, `asked`, `stuck`,
`hasty` are history variables.

`ReadmeEditor` adds the page and the server. `PageScript` is the script of the
panel: construct, load, import, preview, and only then listen to `save`. The
answer to a request for the panel replaces whatever is there. `reads` and `posts`
are the requests with the phase of their handler; reading takes two steps (text,
checksum), saving three (`Validate`, `Write`, `ReadBack`), and `OthersWrite` may come
between any two. The checksum of a text is the text. `base` is the history of what
the user knows to be in the file, `mixed` records that it was written between two
accesses of one handler, or that a later panel took the answer to an earlier
panel's save.

What the code does here: a control key released outside the frames leaves
`isCtrl` set, and a plain *s* then saves and posts the readme (`stuck`). Text pasted
with the mouse in full screen is not previewed (`behind`). A browser that denies
full screen, or is toggled faster than it follows, ends up disagreeing with the
editor (`hasty`). The second of two quick saves is refused as if another user had
changed the file, after a lost answer every save is, and a readme cannot be emptied.

Not used by this page, and left out: automatic saving, the textarea, storage in the
browser, `remove`, `rename`, `unload` and automatic growth; also the fading bar and
the markdown parser. An editor that is taken out of the page leaves its listeners of
`fullscreenchange` on the document, and its key timer may still ring; they reach only
the flags, frames and drafts of that editor, whose elements are gone, so the model
drops them with it.

### ProcessQueue

Every step of `BatchRecord` is `Works`. `visible` is the page, `hasFocus` what the
listener last made of it, `requests` are slots, each idle, sent or answered. `Poll` does not
wait for earlier requests. `StopProcessQueue` is the error handler, which clears the
timer for good. An older answer may replace a newer list, so the queue can fall back,
but not run ahead (`QueueIsNeverAhead`); deletion of batches is not modelled.

## 3. Runs

| Run | Bounds | Shows |
|---|---|---|
| `batch_faults` | 1 batch, 3 scriptlets, exceptions and errors, 2 crashes | `ImplementsRecord`: whatever fails, the rows are ones `BatchRecord` allows. `ProgressNeverFalls`: a user polling the page never sees progress fall. `NothingLeftPending`: a worker that ends without an `Error` or a conflict leaves nothing waiting. `FailureCheckIsRedundant`: the loop never gets past a failure. `OnlyTheTopRuns`: no scriptlet that went wrong is left running while the batch goes on. `LeaksAtMostOneAppender`. `LostBatchesAreCleanedUp`: what lost its worker in a crash is settled once the server is up, also when the clean-up was itself cut short inside a batch. `WorkersAdvance`: no worker goes back to where it was. `ExecutionInv`, the inductive invariant |
| `batch_liveness` | 2 batches, 1 scriptlet each, exceptions and errors, 1 crash | `WorkerEnds`: every event is worked off. `BatchSettles`: every stored batch is settled by its worker or by the clean-up, or given up by its worker (an `Error`, a broken build, a lost last flush); a restart settles those, too |
| `batch_record` | 1 batch, 2 scriptlets, 2 requests of a page | the abstract record by itself is coherent; `QueueIsNeverAhead`: no list shown or on its way shows a batch further on than it is; `QueueCatchesUp`: a page that stays visible shows the batches as they are again and again, if no request failed |
| `zone_parameters` | 1 name, 2 values, 2 batches, 1 page, 1 REST client | `BatchesRespectTheRows`, `FormsRemoveOnlyWhatTheyShowed`, `ZoneInv` |
| `flow_cache` | 2 stacks, 2 requests, 1 edit, 1 update | `LookupsAnswer`, `LoneDevLookupsAreFresh`, `FlowsNeverAge`, `OnlyOldLookupsSpoil`, `FlowInv` |
| `script_selection` | all contents of two directories with up to 7 files, 2 attributes, 3 levels | `BestOfEachOrder`, `InjectionFollowsTheLists`, `StackFilesComeFirst`, `MostSpecialPlugin`, `ResolveEnds` |
| `template_editor` | 3 templates, 1 of them new, 3 gestures, 2 chains at once, 1 failure | `FormAtRestIsWhole`, `CalmSavesAreOwn`: mixed forms come only from haste or errors. `DialogMatchesForm`: the delete dialog removes what the form shows. `DisabledMeansWaiting`, `InputsComeBack`: the user is never locked out |
| `readme_editor` | 3 texts, 5 gestures, 2 panels, 2 saves | `PreviewIsCurrent`, `FullscreenIsUndone`, `SavesAreAskedFor`, `NothingOverwrittenUnseen` |
| `cleanup_gap`, `start_hook`, `zone_lost_update`, `flow_clean_start` | small | violated; see section 5 |

The type invariants of `ZoneParameters`, `FlowCache` and `ProcessQueue`, and
`ResolveDescends`, which says more than `ResolveEnds`, are proved and need no run of
their own.

Why the bounds are enough. *Batches* share nothing but the server's phase, so one
batch shows every safety property and two the progress of one beside another. With
three scriptlets there is one behind, one at and one ahead of the loop's position.
Two crashes allow one during the clean-up of the other, before or inside the
clean-up of the batch; that it may come between two batches is left to the proofs.
*Zones*: two batches, a page and a REST client make every kind of session meet every
other, and batches meet their own kind; one name suffices because rows of different
names interact only through the version of the zone, which inserts and deletes of
the same name change as well. *Flow cache*: two lookups, of the same or of different
stacks, are what the history variables can tell apart; the proofs cover the rest.
*Selection*: with three levels a chain of two lists ends in time and a cycle does
not; the files have hits and misses, ties, and equal names in two directories.
*Templates*: with two chains at once each handler meets each state another chain can
leave behind, and a third gesture shows what comes of the form they made; the third
template is the one that is created. *Readme*: five gestures are enough to open a
panel, change the text, toggle full screen both ways or lose a key, and save; two
panels and two saves make late answers meet a later panel. *Queue*: two requests can
overtake each other. What these bounds leave open for the invariants the proofs
cover.

Every run has `CHECK_DEADLOCK FALSE`, since the bounded server really comes to rest:
all events are worked off, all forms submitted, all edits made, the selection done,
all gestures made. In `BatchExecution` this does not hide a stuck worker, which
`WorkerEnds` excludes.

Fairness. `BatchExecution` assumes weak fairness of the steps of each worker (a
thread the executor has started runs on) and that a script or hook returns or throws:
`ProcessHandler` sees to it for shell scripts by `waitForOrKill`; Groovy scripts and the
hooks of plugins have no time-out, so for them it is an assumption on whoever wrote
them. The same is assumed of the server's steps (it is
started again after a crash and `init` runs on); no fairness is assumed of
`Publish` or `Crash`. `ScriptSelection` assumes that `resolve()` runs on.
`TemplateEditor` assumes that some request
under way is served, and some answer taken, as long as there is one: an XHR always
completes, by an answer, an error or a time-out, and jQuery then calls its handler.
It assumes nothing of which one comes first. `ProcessQueue` assumes that the timer
rings while it is set, that a visibility event reaches its listener, and that each
request is answered and its answer taken; a request that fails instead sets
`polling` to false, which the property excludes. The other modules state no
liveness property and no fairness.

Every property of a passing run has a mutant: a plausible bug (a dropped guard,
a lost increment, a wrong order), defined next to the operator it replaces and
marked "Mutant:", under which TLC finds the property violated.

## 4. Proofs

All theorems hold for every value of the constants under the named assumptions
of the modules (`MaxScriptletsAssumption`, `FaultsAssumption`,
`MaxCrashesAssumption`, `SessionsAreDistinct`, `NullIsDistinct`,
`MaxScriptletsIsNat`, `NobodyIsNoTemplate`, `ExistingAreTemplates`, `BoundsAreNat`,
`EmptyIsAText`, `GesturesAreNat`, `PanelBoundsAreNat`, `MaxRequestsIsNat`,
`FilesAssumption`, `FiniteAssumption`, `BoostAssumption`), which say that bounds are
numbers, kinds of faults are the two known ones, sets of sessions do not overlap,
that placeholders (no template, no file) are none of what they stand in for, and
that there are finitely many files and attributes, no more attributes than the 1000
by which a hit outweighs a miss.

*Batch execution.* `TypeCorrect`, `ExecutionInvariant`,
`WorkersSettleTheirBatches`, `FailuresAlwaysPropagate`,
`RunningScriptletsAreOnTop`, `AppenderLeaksAreBounded`. None of the properties is
inductive: that a worker ends with nothing waiting depends on what every earlier
position had in its session, and that on what was in flight. `ExecutionInv` is the
strengthening, for each batch the conjunction of

* `ControlInv`: which positions go with which bookkeeping,
* `ThrowInv`: what is in flight at each position of `execute`,
* `TopInv`: the state of the unit whose frame is on top,
* `LoopInv`: the scriptlets behind the loop succeeded, those ahead wait,
* `LagInv`: how far the database may be behind the session,
* `FlushInv`: what has been flushed for certain,
* `SettleInv`: what the loop and the worker leave behind.

Each has a lemma (`StepKeepsControl` to `StepKeepsSettle`) with one step per
action; a worker's step leaves the other batches alone (`StepLeavesOthersAlone`,
`SameKeepsInv`).

*Refinement.* `BatchExecutionProofs!Implementation` proves `Spec => ImplementsRecord`.
A step either stores a batch, leaves its rows alone, or rewrites them; that each
flush, even a partial or early one, is `Rewritten` follows from `LagInv` (each unit
is at most one move behind), `LoopInv` and `FlushInv` (what lies behind the loop is
in the database). `RowsAlwaysCoherent` then gives the coherence of the rows from
`BatchRecordProofs!RecordCoherence`, which speaks of `BatchRecord` only.
Two more results come from the refinement. `ProgressOnlyGrows`: every step, of
whichever worker or of the server, is a row step of each batch
(`EveryStepIsRowStep`), row steps move units along `Moves`, along which no unit
waits again and none leaves `FAILURE`, and a division keeps the order of what it
divides. `LostBatchesAreAlwaysCleanedUp`: while the server boots, a stored batch
the clean-up is done with is clean because of its last step, and one it never
selected because a coherent batch that succeeded did so as a whole (`CleanInv`); one
whose clean-up was cut short is `CANCELED` or as it was, so it is selected again.

*Termination of a worker.* `WorkersAlwaysAdvance` needs only `ControlInv`: the bound
`StepsFrom` counts twelve steps for each scriptlet ahead of the loop, and each action
is a case of `Onward`, along which it falls. What `WorkerEnds` adds is fairness and that
some step is always enabled.

*Zone parameters.* `TypeCorrect`, `ZoneInvariant`, `BatchesRespect`,
`FormsRemove`. `ReadInv`: a row with the id and version a session read is the row it
read. `WorkInv`: what is to be flushed was computed from what was read, and a
batch's only from writable rows. `FormInv`: a form whose version is current shows
the names of all rows. The action properties follow from one step under these.

*Flow cache.* `TypeCorrect`, `FlowInvariant`, `LookupsAreAnswered`,
`LoneDevLookups`, `CachedFlowsNeverAge`, `OldLookupsSpoil`. `FilesInv` bounds what
is cached by what was edited, `MeetInv` says that overlapping lookups know of each
other, and `RequestInv` what a lookup may rely on at each position while it is
alone and the cache has not been cleared.

*Templates.* `TypeCorrect`, `DialogAlwaysMatches`, `DisabledAlwaysWaits`,
`FormAtRestIsAlwaysWhole`, `CalmSavesAreAlwaysOwn`. The dialog's
property needs that only stored templates are described (`DialogInv`).
`DisabledMeansWaiting` is inductive with the types; its proof follows a request from
the set of those sent to that of the answers (`ServeKeepsUnderWay`) and shows that a
handler that takes one either enables what it disabled or asks for more.
`CalmInv`, which holds until a gesture is
hasty or an answer an error, says what is true between the answers: the requests
under way are of one chain (`OneChain`) and about what is chosen (`AsksForChosen`), and a
part that does not fit yet is one that such a request brings (`TextFits`, `Brings`). A
calm submission then carries the form's own text (`CalmSubmits`), and from there on
it does not matter what becomes of the form.

*Readme.* `PageInvariant`, `TypeCorrect`, `PreviewsAreCurrent`, `FullscreenIsAlwaysUndone`,
`SavesAreAlwaysAskedFor`, `NothingIsOverwrittenUnseen`. `PageInv` joins

* `Sound(ee)`: the open file can be exported and keys reach the text only where it is
  visible (`Ready`), the modes fit the one last chosen and the one to come back to
  (`Moded`), and a visible preview is up to date but for the timer or a paste
  (`Current`);
* `Screens` and `CtrlIsKnown`: how browser and keyboard may differ from what the
  editor believes, given the history;
* `SavesAreAskedFor`, inductive with these;
* `ChecksumsFit`: unless `mixed`, a checksum on the page or under way is that of the text
  its user knew, and a save that passed the check names the text that is in the file.

Each method of the editor has a lemma that it keeps an editor sound, each action one
that it keeps the rest.

*Process queue.* `QueueImplementsRecord`: pages only read, so what is proved of
`BatchRecord` holds of the rows they are answered from (`QueueReadsCoherentRows`).
`QueueStaysBehind`: a list is up to date when it is put together (`ListedIsBehind`)
and stays behind whatever is written (`WritesKeepListsBehind`), on its way or shown;
it is inductive with `QueueTypeCorrect`.

*Selection.* `TypeCorrect`, `StackRunsTheBest`, `StackHidesLibraries`,
`PluginIsMostSpecial`, `ReplacementIsRecursion`, `ResolveAlwaysDescends`. `Inv` adds to
the properties that the scripts so far are files of the disk no file of the stack hides
(`ScriptsInSight`), and `LevelsDone`: they are what following the lists to depth `level`
gives. Three parts are about data, for files, lists and attributes of any number:

* *Rank.* 1000 times the hits less the misses orders like hits first, then misses
  (`RankIsLexicographic`), as long as there are at most 1000 attributes.
* *The choice.* A finite set of files has one that no other beats (`FiniteMaximum`), and
  a set with distinct order numbers one list in rising order (`Enumeration`), so that
  the `CHOOSE` of `Filtered` has a value (`FilteredIsTheBest`).
* *The replacement.* `Leaves` recurses from the top of the nesting, the code from its
  bottom: following lists to depth *n* + 1 is replacing once what depth *n* gives
  (`LevelByLevel`), because replacing the members of a concatenation is the
  concatenation of the replacements (`MapFlatConcat`, `LevelsAreDepths`), for any depth.

The library's induction theorems take an operator as parameter, which the provers
cannot instantiate. The module has its own, about sets: a non-empty set of numbers has
a least (`LeastNumber`), so a set with 0 and all successors holds every number
(`NatSetInduction`), one of sequences closed under `Append` every sequence
(`SeqAppendInduction`), and an iteration has a value at each depth (`Iteration`).

Only model-checked: the liveness properties (`WorkerEnds`, `BatchSettles`,
`ResolveEnds`, `InputsComeBack`, `QueueCatchesUp`), which need fairness and `ENABLED`. Of
`WorkerEnds` and `ResolveEnds` the bound on the number of steps is proved. Every
invariant and action property of a passing run is stated by a theorem.

## 5. Disagreements

* `cleanup_gap`: `cancel()` does not flush. If the server crashes after a batch's
  `FAILURE` was flushed and before the session is closed, its remaining
  scriptlets stay `WAITING`, and the clean-up ("clean up hung stuff after
  restart") does not look at failed batches.
* `start_hook`: when `onStart` throws, neither `onFailure` nor `onStop` runs, although
  a plugin's documentation promises them at the end; a scriptlet's log
  appender stays attached.
* `zone_lost_update`: only the zone's version tells a form that it is outdated. A
  value changed meanwhile does not change it, and the form writes the old value
  back without "Another user has updated this ExecutionZone".
* `flow_clean_start`: a build that began before `clearCache` stores its flow into
  the map created afterwards, although "we want to have a clean start".

No run of its own has what the model also shows of an `Error`, such as a failed
`assert` of a Groovy script: it passes every `catch (Exception)` of
`Processable.execute`, `ScriptletBatch.execute` and the worker. The batch stays
`RUNNING` and its remaining scriptlets `WAITING` until the next restart, although
`ScriptletBatch.execute` is to "cancel all sub process in case of a failure".
`NothingLeftPending` and `BatchSettles` make an exception of it by name.

## 6. Not modelled, and plan

Not modelled: dates and durations, rendering, log capture beyond the appender, login
and directory mapping, the command line client, customers, service URLs and
notifications (no protocol of their own), build files and vendored code. Of
`zenboot.js`, what does not talk to the server: rows of parameters in forms,
tooltips, pretty-printing and sizes of text areas. Of `epiceditor.js`, what the page
does not use or see (above). Of `TemplateController`, `upload` and `export`; of the
computation of missing parameters only that it may throw. Groovy's dispatch of hook
closures and the threads that read a script's output are left to chance in the model
of a hook or a script. The page loads `epiceditor.min.js`, the minified form of the
source modelled.

Done, in this order: **BatchRecord, BatchExecution** with refinement and proofs,
**ZoneParameters**, **FlowCache**, **ScriptSelection**, **TemplateEditor** and
**EpicEditor, ReadmeEditor** with proofs, **ProcessQueue** over `BatchRecord` with
proofs.

Worth doing next:

1. **ParameterFlow**: `ScriptletBatchFlow.build`, `ParameterMetadataList` and the
   overlay with the zone's parameters, against an abstract execution of the
   stack: a stack given what the flow asks for never reads an unset parameter.
   Written with recursive functions, so that a step lemma can be proved. The
   write-back for other runtime attributes belongs here.
2. **HostPool**: batches that create hosts (limit checked in `onStart`, host
   stored in `onSuccess`), the jobs that expire and delete hosts, `CronjobService`;
   an abstract pool with its limit, which the code implements only when
   creations do not overlap. Theorem: the excess is bounded by the number of
   overlapping batches.
3. **AccessCache**: coherence of cached entries with the data they were computed
   from, under refresh, clearing and warm-up.
4. **Zone types** (synchronisation with directories).
5. Extensions of `BatchExecution`: the bootstrap action that is published before
   the clean-up, and deletion of a batch while it runs.
