----------------------------- MODULE EpicEditor -----------------------------
(***************************************************************************)
(* The markdown editor as the readme page uses it: windowed it shows the   *)
(* text or its preview, in full screen both.  It is driven by keys whose   *)
(* release may get lost, by a timer for the live preview, and by the       *)
(* browser, which enters and leaves its own full screen later than asked.  *)
(*                                                                         *)
(* The editor is one record; its methods, which call each other, are       *)
(* operators on such records, and actions say when they are called.  The   *)
(* page neither switches autosave on nor calls remove, rename or unload.   *)
(***************************************************************************)
EXTENDS Integers

CONSTANTS
  Texts,       \* what can be written
  Empty,       \* the empty text
  Absent,      \* no such file in the storage
  MaxGestures  \* bound on what is done to the editor and around it

ASSUME EmptyIsAText == Empty \in Texts /\ Absent \notin Texts
ASSUME GesturesAreNat == MaxGestures \in Nat

VARIABLES
  ee,        \* the editor
  native,    \* does the browser have a full screen of its own; never changes
  browser,   \* whether it is in it, and what was asked of it
  ctrlDown,  \* is the control key really held down
  gestures,  \* how often something was done
  asked,     \* history: how often he asked for a save
  stuck,     \* history: the control key was released unseen
  hasty      \* history: full screen was toggled or denied while the browser
             \* was changing

keyboard == <<ctrlDown, stuck>>
screens == <<browser, hasty>>
editorVars == <<ee, native, browser, ctrlDown, gestures, asked, stuck, hasty>>

Files == {"container", "readme"}   \* the file's default name; the imported one
Stored == [Files -> Texts \cup {Absent}]

Editor == [
  loaded : BOOLEAN, edit : BOOLEAN, preview : BOOLEAN, full : BOOLEAN,
  inEdit : BOOLEAN,   \* _isInEdit: the mode full screen was entered from
  file : Files,
  text : Texts,       \* in the editor's frame
  shown : Texts,      \* in the previewer's frame
  main : Stored, draft : Stored,
  timer : BOOLEAN,    \* keypressTimer is set
  focus : {"page", "editor", "previewer"},
  mod : BOOLEAN, ctrl : BOOLEAN,   \* isMod, isCtrl
  saves : Nat,        \* 'save' events emitted
  behind : BOOLEAN,   \* history: text was pasted with the mouse in full screen
                      \* and not previewed since
  before : {"edit", "preview"}]    \* history: the windowed mode last chosen

EditorTypeOK ==
  /\ ee \in Editor
  /\ native \in BOOLEAN
  /\ browser \in [full : BOOLEAN, entering : BOOLEAN, leaving : BOOLEAN]
  /\ ctrlDown \in BOOLEAN /\ stuck \in BOOLEAN /\ hasty \in BOOLEAN
  /\ gestures \in Nat /\ asked \in Nat

-----------------------------------------------------------------------------
(* The methods. *)

\* The constructor: an empty file of the default name, and its draft.
Constructed ==
  LET storage == [f \in Files |-> IF f = "container" THEN Empty ELSE Absent] IN
  [loaded |-> FALSE, edit |-> FALSE, preview |-> FALSE, full |-> FALSE,
   inEdit |-> FALSE, file |-> "container", text |-> Empty, shown |-> Empty,
   main |-> storage, draft |-> storage, timer |-> FALSE, focus |-> "page",
   mod |-> FALSE, ctrl |-> FALSE, saves |-> 0, behind |-> FALSE,
   before |-> "edit"]

\* save: drafts are kept apart and emit no 'save'.
SaveDraft(e) == [e EXCEPT !.draft[e.file] = e.text]
Save(e) == [e EXCEPT !.main[e.file] = e.text, !.saves = @ + 1]

Focus(e) == [e EXCEPT !.focus = IF e.preview THEN "previewer" ELSE "editor"]

Open(e, name) ==
  LET n == [e EXCEPT !.file = name]
      o == IF n.main[name] # Absent
             THEN [n EXCEPT !.text = n.main[name]]
             ELSE Save([n EXCEPT !.text = Empty])
  IN [o EXCEPT !.shown = o.main[name]]

\* Mutant: there may be no draft to show yet.
PreviewUnsaved(e) ==
  LET p == [e EXCEPT !.shown = e.draft[e.file], !.behind = FALSE]
  IN IF p.full THEN p
     ELSE Focus([p EXCEPT !.preview = TRUE, !.edit = FALSE, !.before = "preview"])

\* Mutant: the file is shown, not its draft.
PreviewOfFile(e) ==
  LET s == SaveDraft(e)
      p == [s EXCEPT !.shown = s.main[s.file], !.behind = FALSE]
  IN IF p.full THEN p
     ELSE Focus([p EXCEPT !.preview = TRUE, !.edit = FALSE, !.before = "preview"])

\* Mutant: previewing saves the file itself.
PreviewSaves(e) ==
  LET s == Save(SaveDraft(e))
      p == [s EXCEPT !.shown = s.draft[s.file], !.behind = FALSE]
  IN IF p.full THEN p
     ELSE Focus([p EXCEPT !.preview = TRUE, !.edit = FALSE, !.before = "preview"])

Preview(e) ==
  LET s == SaveDraft(e)
      p == [s EXCEPT !.shown = s.draft[s.file], !.behind = FALSE]
  IN IF p.full THEN p
     ELSE Focus([p EXCEPT !.preview = TRUE, !.edit = FALSE, !.before = "preview"])

Edit(e) == Focus([e EXCEPT !.preview = FALSE, !.edit = TRUE, !.before = "edit"])

\* While the editor starts up edit() does not take the focus.
Load(e) == [Open(e, e.file) EXCEPT !.loaded = TRUE, !.edit = TRUE]

ImportFile(e, name, content) ==
  LET i == Save([e EXCEPT !.file = name, !.text = content])
  IN IF i.full THEN Preview(i) ELSE i

ExitFullscreen(e) ==
  LET w == [e EXCEPT !.full = FALSE]
  IN [(IF w.inEdit THEN Edit(w) ELSE Preview(w)) EXCEPT !.before = e.before]

\* Mutant: the flag is read after it was set.
GoFullscreenTooLate(e) ==
  IF e.full THEN ExitFullscreen(e)
  ELSE Focus(Preview([e EXCEPT !.inEdit = TRUE, !.full = TRUE, !.edit = TRUE,
                               !.preview = TRUE]))

GoFullscreen(e) ==
  IF e.full THEN ExitFullscreen(e)
  ELSE Focus(Preview([e EXCEPT !.inEdit = e.edit, !.full = TRUE, !.edit = TRUE,
                               !.preview = TRUE]))

\* shortcutHandler, in its order; `cmd-s' is an s with the command key held down.
Toggle(e) == IF e.edit THEN Preview(e) ELSE Edit(e)

KeyDown(e, k) ==
  LET flags == [e EXCEPT !.mod = @ \/ k = "alt", !.ctrl = @ \/ k = "ctrl"]
      p == IF flags.mod /\ k = "p" /\ ~flags.full THEN Toggle(flags) ELSE flags
      f == IF p.mod /\ k = "f" THEN GoFullscreen(p) ELSE p
      m == IF k = "alt" THEN f ELSE [f EXCEPT !.mod = FALSE]
      x == IF k = "esc" /\ m.full THEN ExitFullscreen(m) ELSE m
      s == IF x.ctrl /\ k \in {"s", "cmd-s"} THEN [Save(x) EXCEPT !.ctrl = FALSE] ELSE x
  IN IF k = "cmd-s" THEN Save(s) ELSE s

\* preventDefault was called: nothing is typed.
Prevented(e, k) ==
  \/ e.mod /\ (k = "f" \/ (k = "p" /\ ~e.full))
  \/ e.ctrl /\ k = "s"
  \/ k = "cmd-s"

\* A key released over the editor's frame sets the timer of the live preview.
KeyUp(e, k) ==
  [e EXCEPT !.mod = @ /\ k # "alt", !.ctrl = @ /\ k # "ctrl",
            !.timer = @ \/ e.focus = "editor"]

-----------------------------------------------------------------------------
(* The browser's full screen: asked for by a method, changed later. *)

AfterCall(b, e, called) ==
  IF ~native \/ e.full = called.full THEN b
  ELSE IF called.full THEN [b EXCEPT !.entering = TRUE]
  ELSE [b EXCEPT !.leaving = b.full]

Changing == browser.entering \/ browser.leaving

Calls(called) ==
  /\ ee' = called
  /\ browser' = AfterCall(browser, ee, called)
  /\ hasty' = (hasty \/ (Changing /\ ee.full # called.full))
  /\ UNCHANGED native

\* It is entered, which the listener ignores, or denied, which it never learns.
Entered ==
  /\ browser.entering /\ ~browser.leaving
  /\ \E granted \in BOOLEAN :
       /\ browser' = [browser EXCEPT !.entering = FALSE, !.full = @ \/ granted]
       /\ hasty' = (hasty \/ ~granted)
  /\ UNCHANGED <<ee, native, keyboard, gestures, asked>>

\* It is left, as asked or by the user: fullscreenchange.  That it is left on
\* request finds the editor windowed, unless he was quicker.
Left ==
  /\ browser.full
  /\ LET windowed == [browser EXCEPT !.full = FALSE, !.leaving = FALSE]
         called == IF ee.full THEN ExitFullscreen(ee) ELSE ee
     IN /\ ee' = called
        /\ browser' = AfterCall(windowed, ee, called)
        /\ hasty' = (hasty \/ (Changing /\ ee.full # called.full))
  /\ UNCHANGED <<native, keyboard, gestures, asked>>

-----------------------------------------------------------------------------
(* What the user does. *)

Counted ==
  /\ gestures < MaxGestures
  /\ gestures' = gestures + 1

Gesture == ee.loaded /\ Counted

\* A key that is no modifier is pressed and released.
Press(k) ==
  /\ Gesture /\ ee.focus # "page"
  /\ LET down == KeyDown(ee, k)
         types == ee.focus = "editor" /\ k # "esc" /\ ~ctrlDown /\ ~Prevented(ee, k)
         typed == {t \in Texts \ {ee.text} : t = Empty => k = "other"}
     IN \E t \in IF types THEN typed ELSE {down.text} :
          Calls(KeyUp([down EXCEPT !.text = t], k))
  /\ asked' = asked + (IF k \in {"s", "cmd-s"} /\ ctrlDown THEN 1 ELSE 0)
                   + (IF k = "cmd-s" THEN 1 ELSE 0)
  /\ UNCHANGED keyboard

\* A modifier is pressed, released over the editor, or elsewhere: then the
\* editor never learns of it.
Hold(k) ==
  /\ Gesture /\ ee.focus # "page"
  /\ Calls(KeyDown(ee, k))
  /\ ctrlDown' = (ctrlDown \/ k = "ctrl")
  /\ UNCHANGED <<asked, stuck>>

Release(k) ==
  /\ ee.loaded /\ ee.focus # "page"
  /\ IF k = "ctrl" THEN ctrlDown ELSE ee.mod
  /\ Calls(KeyUp(ee, k))
  /\ ctrlDown' = (ctrlDown /\ k # "ctrl")
  /\ UNCHANGED <<gestures, asked, stuck>>

ReleaseElsewhere ==
  /\ ctrlDown
  /\ ctrlDown' = FALSE /\ stuck' = TRUE
  /\ UNCHANGED <<ee, native, screens, gestures, asked>>

\* pasteHandler, called from the mouse's menu: no key is released.
Paste ==
  /\ Gesture /\ ee.focus = "editor"
  /\ \E t \in Texts \ {Empty, ee.text} :
       Calls([ee EXCEPT !.text = t, !.behind = @ \/ ee.full])
  /\ UNCHANGED <<keyboard, asked>>

\* The buttons of the bar, which full screen hides.
Click(button) ==
  /\ Gesture /\ ~ee.full
  /\ Calls(CASE button = "preview" -> Preview(ee)
             [] button = "edit" -> Edit(ee)
             [] button = "fullscreen" -> GoFullscreen(ee))
  /\ UNCHANGED <<keyboard, asked>>

\* A click on what is visible gives it the focus.
FocusOn(frame) ==
  /\ ee.loaded /\ frame # ee.focus
  /\ CASE frame = "editor" -> ee.edit
       [] frame = "previewer" -> ee.preview
       [] frame = "page" -> ~ee.full
  /\ Calls([ee EXCEPT !.focus = frame])
  /\ UNCHANGED <<keyboard, gestures, asked>>

\* 250 ms after the last key was released.
LivePreview ==
  /\ ee.timer
  /\ LET rung == [ee EXCEPT !.timer = FALSE]
     IN Calls(IF rung.full THEN Preview(rung) ELSE rung)
  /\ UNCHANGED <<keyboard, gestures, asked>>

EditorInit ==
  /\ ee = Constructed
  /\ native \in BOOLEAN
  /\ browser = [full |-> FALSE, entering |-> FALSE, leaving |-> FALSE]
  /\ ctrlDown = FALSE /\ gestures = 0 /\ asked = 0
  /\ stuck = FALSE /\ hasty = FALSE

EditorNext ==
  \/ \E k \in {"p", "f", "s", "cmd-s", "esc", "other"} : Press(k)
  \/ \E k \in {"alt", "ctrl"} : Hold(k) \/ Release(k)
  \/ ReleaseElsewhere \/ Paste
  \/ \E button \in {"preview", "edit", "fullscreen"} : Click(button)
  \/ \E frame \in {"editor", "previewer", "page"} : FocusOn(frame)
  \/ LivePreview \/ Entered \/ Left

-----------------------------------------------------------------------------
\* Whatever was typed, by which keys and in which mode: a preview that is
\* visible shows the text of the editor once the timer of the live preview has
\* rung, but for text that was pasted with the mouse in full screen.
PreviewIsCurrent == ee.preview /\ ~ee.timer /\ ~ee.behind => ee.shown = ee.text

\* Windowed, the editor is in exactly one mode, and leaving full screen by key,
\* button or through the browser brings back the mode it was entered from.
ModeComesBack ==
  ee.loaded /\ ~ee.full =>
    ee.edit = (ee.before = "edit") /\ ee.preview = (ee.before = "preview")

\* At rest the browser is in full screen just when the editor is, unless it was
\* denied or the user toggled it faster than the browser followed.
ScreensAgree == native /\ ~Changing /\ ~hasty => browser.full = ee.full

FullscreenIsUndone == ModeComesBack /\ ScreensAgree
=============================================================================
