---------------------------- MODULE ReadmeEditor ----------------------------
(***************************************************************************)
(* The readme of a script directory: a link opens and closes a panel, the  *)
(* panel is an editor with the readme's text and its checksum, and what is *)
(* saved is accepted if the checksum is that of the file.  The server      *)
(* reads the file once for the text and again for the checksum, and for an *)
(* update checks, writes and reads again, without a lock; others write the *)
(* same file.  Answers are taken in any order, also by a later panel.      *)
(*                                                                         *)
(* A text is its own checksum.                                             *)
(***************************************************************************)
EXTENDS EpicEditor

CONSTANTS
  MaxOpens,  \* bound on how often the panel is opened
  MaxPosts   \* bound on the saves that are posted

ASSUME PanelBoundsAreNat == MaxOpens \in Nat /\ MaxPosts \in Nat

VARIABLES
  file,    \* the text of the readme on the server
  reads,   \* requests for the panel
  posts,   \* requests that save
  shown,   \* is the panel visible
  opens,   \* how often it was opened
  panel,   \* the request whose answer it shows
  sum,     \* its hidden field: the checksum
  base,    \* history: the text of the file as its user knows it
  posted,  \* history: how many saves were posted
  mixed    \* history: the file was written between two accesses of one handler,
           \* or the answer to a save of an earlier panel was taken

server == <<file, reads, posts>>
page == <<shown, opens, panel, sum>>
vars == <<editorVars, server, page, base, posted, mixed>>

Read == [n : Nat, phase : {"sent", "text", "read"}, text : Texts, sum : Texts]
Post == [n : Nat, from : Nat,
         phase : {"sent", "valid", "written", "saved", "refused"},
         text : Texts, sum : Texts,
         base : Texts]   \* history: what its user knew

TypeOK ==
  /\ EditorTypeOK
  /\ file \in Texts /\ sum \in Texts /\ base \in Texts
  /\ reads \subseteq Read /\ posts \subseteq Post
  /\ shown \in BOOLEAN /\ mixed \in BOOLEAN
  /\ opens \in Nat /\ panel \in Nat /\ posted \in Nat

Init ==
  /\ EditorInit
  /\ file \in Texts
  /\ reads = {} /\ posts = {}
  /\ shown = FALSE /\ opens = 0 /\ panel = 0
  /\ sum = Empty /\ base = Empty
  /\ posted = 0 /\ mixed = FALSE

-----------------------------------------------------------------------------
(* The page. *)

\* The handler of 'save' posts what the editor exports, each time it is called:
\* twice for one key if s is pressed with isCtrl set and the command key held down.
Submits(called) ==
  LET times == called.saves - ee.saves IN
  /\ posted + times <= MaxPosts
  /\ posted' = posted + times
  /\ posts' = posts \cup {[n |-> posted + i, from |-> panel, phase |-> "sent",
                           text |-> called.main[called.file], sum |-> sum,
                           base |-> base] : i \in 1 .. times}

Edits ==
  /\ shown
  /\ EditorNext
  /\ Submits(ee')
  /\ UNCHANGED <<file, reads, page, base, mixed>>

\* The button `Update Readme'.
UpdateReadme ==
  /\ shown /\ Gesture /\ ~ee.full
  /\ Calls(Save(ee)) /\ Submits(ee')
  /\ asked' = asked + 1
  /\ UNCHANGED <<keyboard, file, reads, page, base, mixed>>

\* The link, as prepareAjaxLoading has it: a visible panel is hidden and
\* emptied, a hidden one is shown as it is and loaded.  An editor that is taken
\* out of the page takes the browser out of full screen.
Windowed ==
  /\ browser' = [full |-> FALSE, entering |-> FALSE, leaving |-> FALSE]
  /\ hasty' = FALSE

Close ==
  /\ shown /\ ~ee.full
  /\ shown' = FALSE
  /\ ee' = Constructed
  /\ Windowed
  /\ UNCHANGED <<native, keyboard, gestures, asked, server, opens, panel, sum, base,
                 posted, mixed>>

Opened ==
  /\ ~shown /\ opens < MaxOpens /\ Counted
  /\ shown' = TRUE /\ opens' = opens + 1
  /\ reads' = reads \cup {[n |-> opens', phase |-> "sent", text |-> Empty,
                           sum |-> Empty]}
  /\ UNCHANGED <<ee, native, screens, keyboard, asked, file, posts, panel, sum, base,
                 posted, mixed>>

\* The script of the panel; only its last line registers the handler of 'save'.
PageScript(text) ==
  Preview(ImportFile(Load(Constructed), "readme", text))

\* Its answer takes the place of whatever the panel shows, full screen or not.
PanelLoaded(r) ==
  /\ r.phase = "read"
  /\ reads' = reads \ {r}
  /\ ee' = PageScript(r.text)
  /\ Windowed
  /\ panel' = r.n /\ sum' = r.sum /\ base' = r.text
  /\ UNCHANGED <<native, keyboard, gestures, asked, file, posts, shown, opens, posted,
                 mixed>>

\* The answer to a save sets the hidden field of the panel that is there now.
SavedTaken(p) ==
  /\ p.phase = "saved"
  /\ posts' = posts \ {p}
  /\ IF ee.loaded
       THEN /\ sum' = p.sum
            /\ base' = IF p.from = panel THEN p.text ELSE base
            /\ mixed' = (mixed \/ p.from # panel)
       ELSE UNCHANGED <<sum, base, mixed>>
  /\ UNCHANGED <<editorVars, file, reads, shown, opens, panel, posted>>

\* An error only shows a message: the checksum stays as it is.
RefusedTaken(p) ==
  /\ p.phase = "refused"
  /\ posts' = posts \ {p}
  /\ UNCHANGED <<editorVars, file, reads, page, base, posted, mixed>>

-----------------------------------------------------------------------------
(* The controller, and whoever else writes the file. *)

Steps(p, next) == posts' = (posts \ {p}) \cup {next}

Halfway == {r \in reads : r.phase = "text"}
           \cup {p \in posts : p.phase \in {"valid", "written"}}

ReadText(r) ==
  /\ r.phase = "sent"
  /\ reads' = (reads \ {r}) \cup {[r EXCEPT !.phase = "text", !.text = file]}
  /\ UNCHANGED <<file, posts, mixed>>

ReadChecksum(r) ==
  /\ r.phase = "text"
  /\ reads' = (reads \ {r}) \cup {[r EXCEPT !.phase = "read", !.sum = file]}
  /\ UNCHANGED <<file, posts, mixed>>

\* Mutant: only the presence of a checksum is checked.
ValidateNothing(p) ==
  /\ p.phase = "sent"
  /\ Steps(p, [p EXCEPT !.phase = IF p.text # Empty THEN "valid" ELSE "refused"])
  /\ UNCHANGED <<file, reads, mixed>>

\* A readme cannot be emptied.
Validate(p) ==
  /\ p.phase = "sent"
  /\ Steps(p, [p EXCEPT !.phase =
       IF p.text # Empty /\ p.sum = file THEN "valid" ELSE "refused"])
  /\ UNCHANGED <<file, reads, mixed>>

Write(p) ==
  /\ p.phase = "valid"
  /\ file' = p.text
  /\ Steps(p, [p EXCEPT !.phase = "written"])
  /\ mixed' = (mixed \/ Halfway # {p})
  /\ UNCHANGED reads

\* The new checksum is that of the file, not of what was written.
ReadBack(p) ==
  /\ p.phase = "written"
  /\ Steps(p, [p EXCEPT !.phase = "saved", !.sum = file])
  /\ UNCHANGED <<file, reads, mixed>>

\* A request or its answer is lost, or rejected on its way.
Lose(p) ==
  /\ p.phase \in {"sent", "saved"}
  /\ Steps(p, [p EXCEPT !.phase = "refused"])
  /\ UNCHANGED <<file, reads, mixed>>

OthersWrite ==
  /\ Counted
  /\ file' \in Texts \ {file}
  /\ mixed' = (mixed \/ Halfway # {})
  /\ UNCHANGED <<ee, native, screens, keyboard, asked, reads, posts, page, base, posted>>

Server ==
  /\ \/ \E r \in reads : ReadText(r) \/ ReadChecksum(r)
     \/ \E p \in posts : Validate(p) \/ Write(p) \/ ReadBack(p) \/ Lose(p)
  /\ UNCHANGED <<editorVars, page, base, posted>>

Next ==
  \/ Edits \/ UpdateReadme \/ Close \/ Opened
  \/ \E r \in reads : PanelLoaded(r)
  \/ \E p \in posts : SavedTaken(p) \/ RefusedTaken(p)
  \/ Server \/ OthersWrite

Spec == Init /\ [][Next]_vars

-----------------------------------------------------------------------------
\* Loading the panel, previewing, the live preview and full screen save drafts
\* only: whatever is posted was asked for, by the button or by an s with the control
\* or the command key held down, unless the control key was released where the
\* editor could not see.
SavesAreAskedFor == posted <= asked \/ stuck

\* A save that was accepted overwrites the text its user knows to be in the
\* file, though the checksum he sent may come from the answers to several
\* requests, unless the file was written between two accesses of one handler
\* or the answer to a save was taken by a later panel.
NothingOverwrittenUnseen ==
  \A p \in posts : p.phase = "valid" /\ ~mixed => file = p.base
=============================================================================
