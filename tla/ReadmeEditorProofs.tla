------------------------- MODULE ReadmeEditorProofs -------------------------
(***************************************************************************)
(* The invariants of ReadmeEditor, for every set of texts and every bound. *)
(* The editor is a record and its methods are operators on it: one lemma   *)
(* says of every method that it keeps an editor sound and what it does to  *)
(* the saves and the keys, and the steps only cite these.                  *)
(***************************************************************************)
EXTENDS ReadmeEditor, TLAPS

(***************************************************************************)
(* A sound editor: its parts fit each other.  The file it has open can be  *)
(* exported, keys reach the text only where it is visible, full screen     *)
(* remembers the mode it came from, and a visible preview is up to date or *)
(* about to be.                                                            *)
(***************************************************************************)
Moded(e) ==
  /\ e.full => e.loaded /\ e.edit /\ e.preview
  /\ e.full => (e.inEdit <=> e.before = "edit")
  /\ e.loaded /\ ~e.full => (e.edit <=> e.before = "edit")
  /\ e.loaded /\ ~e.full => (e.preview <=> e.before = "preview")

Current(e) == e.preview /\ ~(e.full /\ e.timer) /\ ~e.behind => e.shown = e.text

Ready(e) ==
  /\ e \in Editor
  /\ e.main[e.file] \in Texts
  /\ e.focus = "editor" => e.edit
  /\ ~e.loaded => ~e.edit /\ ~e.preview
  /\ Moded(e)

Sound(e) == Ready(e) /\ Current(e)

\* What changing the mode leaves alone.
Keeps(e, f) ==
  /\ f.main = e.main /\ f.file = e.file /\ f.text = e.text
  /\ f.loaded = e.loaded /\ f.saves = e.saves
  /\ f.ctrl = e.ctrl /\ f.timer = e.timer

LEMMA SaveDraftDoes ==
  ASSUME NEW e \in Editor
  PROVE  \E d \in Stored :
           /\ d[e.file] = e.text
           /\ SaveDraft(e) = [e EXCEPT !.draft = d]
<1> DEFINE d == [e.draft EXCEPT ![e.file] = e.text]
<1>1. d \in Stored /\ d[e.file] = e.text
  BY DEF Editor, Stored
<1>2. SaveDraft(e) = [e EXCEPT !.draft = d]
  BY DEF SaveDraft
<1> QED BY <1>1, <1>2

LEMMA PreviewIs ==
  ASSUME NEW e \in Editor
  PROVE  \E d \in Stored :
           Preview(e) =
             IF e.full
               THEN [e EXCEPT !.draft = d, !.shown = e.text, !.behind = FALSE]
               ELSE [e EXCEPT !.draft = d, !.shown = e.text, !.behind = FALSE,
                              !.preview = TRUE, !.edit = FALSE,
                              !.before = "preview", !.focus = "previewer"]
<1>1. PICK d \in Stored : d[e.file] = e.text /\ SaveDraft(e) = [e EXCEPT !.draft = d]
  BY SaveDraftDoes
<1> DEFINE s == [e EXCEPT !.draft = d]
           p == [s EXCEPT !.shown = s.draft[s.file], !.behind = FALSE]
           q == [e EXCEPT !.draft = d, !.shown = e.text, !.behind = FALSE]
           r == [p EXCEPT !.preview = TRUE, !.edit = FALSE, !.before = "preview"]
<1>2. s.draft[s.file] = e.text
  BY <1>1 DEF Editor
<1>3. p = q
  BY <1>2 DEF Editor
<1>4. Preview(e) = IF p.full THEN p ELSE Focus(r)
  BY <1>1 DEF Preview
<1>5. p.full = e.full
  BY <1>3 DEF Editor
<1>6. Focus(r) = [e EXCEPT !.draft = d, !.shown = e.text, !.behind = FALSE,
                           !.preview = TRUE, !.edit = FALSE, !.before = "preview",
                           !.focus = "previewer"]
  BY <1>3 DEF Focus, Editor
<1> QED BY <1>3, <1>4, <1>5, <1>6

LEMMA PreviewDoes ==
  ASSUME NEW e \in Editor, NEW f, f = Preview(e)
  PROVE  /\ f \in Editor /\ Keeps(e, f) /\ f.full = e.full /\ f.inEdit = e.inEdit
         /\ f.shown = f.text /\ ~f.behind
         /\ e.full => /\ f.preview = e.preview /\ f.edit = e.edit
                      /\ f.before = e.before /\ f.focus = e.focus
         /\ ~e.full => /\ f.preview /\ ~f.edit /\ f.before = "preview"
                       /\ f.focus = "previewer"
<1>1. PICK d \in Stored :
        f = IF e.full
              THEN [e EXCEPT !.draft = d, !.shown = e.text, !.behind = FALSE]
              ELSE [e EXCEPT !.draft = d, !.shown = e.text, !.behind = FALSE,
                             !.preview = TRUE, !.edit = FALSE,
                             !.before = "preview", !.focus = "previewer"]
  BY PreviewIs
<1>2. CASE e.full
  <2>1. f = [e EXCEPT !.draft = d, !.shown = e.text, !.behind = FALSE]
    BY <1>1, <1>2
  <2>2. f \in Editor
    BY <2>1 DEF Editor
  <2>3. Keeps(e, f) /\ f.full = e.full /\ f.inEdit = e.inEdit
    BY <2>1 DEF Editor, Keeps
  <2>4. /\ f.shown = f.text /\ ~f.behind
        /\ f.preview = e.preview /\ f.edit = e.edit
        /\ f.before = e.before /\ f.focus = e.focus
    BY <2>1 DEF Editor
  <2> QED BY <1>2, <2>2, <2>3, <2>4
<1>3. CASE ~e.full
  <2>1. f = [e EXCEPT !.draft = d, !.shown = e.text, !.behind = FALSE,
                      !.preview = TRUE, !.edit = FALSE, !.before = "preview",
                      !.focus = "previewer"]
    BY <1>1, <1>3
  <2>2. f \in Editor
    BY <2>1 DEF Editor
  <2>3. Keeps(e, f) /\ f.full = e.full /\ f.inEdit = e.inEdit
    BY <2>1 DEF Editor, Keeps
  <2>4. /\ f.shown = f.text /\ ~f.behind
        /\ f.preview /\ ~f.edit /\ f.before = "preview" /\ f.focus = "previewer"
    BY <2>1 DEF Editor
  <2> QED BY <1>3, <2>2, <2>3, <2>4
<1> QED BY <1>2, <1>3

LEMMA PreviewSound ==
  ASSUME NEW e, Ready(e), e.loaded, NEW f, f = Preview(e)
  PROVE  Sound(f) /\ Keeps(e, f) /\ f.full = e.full
<1>1. e \in Editor
  BY DEF Ready
<1>2. /\ f \in Editor /\ Keeps(e, f) /\ f.full = e.full /\ f.inEdit = e.inEdit
      /\ f.shown = f.text /\ ~f.behind
      /\ e.full => /\ f.preview = e.preview /\ f.edit = e.edit
                   /\ f.before = e.before /\ f.focus = e.focus
      /\ ~e.full => /\ f.preview /\ ~f.edit /\ f.before = "preview"
                    /\ f.focus = "previewer"
  BY <1>1, PreviewDoes
<1>3. f.main[f.file] \in Texts /\ f.loaded
  BY <1>2 DEF Ready, Keeps
<1>4. f.focus = "editor" => f.edit
  BY <1>2 DEF Ready, Keeps
<1>5. Moded(f)
  BY <1>2 DEF Ready, Moded, Keeps
<1>6. Current(f)
  BY <1>2 DEF Current
<1> QED BY <1>2, <1>3, <1>4, <1>5, <1>6 DEF Ready, Sound

LEMMA EditDoes ==
  ASSUME NEW e \in Editor, NEW f, f = Edit(e)
  PROVE  /\ f \in Editor /\ Keeps(e, f) /\ f.full = e.full /\ f.inEdit = e.inEdit
         /\ ~f.preview /\ f.edit /\ f.before = "edit" /\ f.focus = "editor"
<1>1. f = [e EXCEPT !.preview = FALSE, !.edit = TRUE, !.before = "edit",
                    !.focus = "editor"]
  BY DEF Edit, Focus, Editor
<1> QED BY <1>1 DEF Editor, Keeps

LEMMA EditSound ==
  ASSUME NEW e, Ready(e), e.loaded, ~e.full, NEW f, f = Edit(e)
  PROVE  Sound(f) /\ Keeps(e, f) /\ ~f.full
<1>1. e \in Editor
  BY DEF Ready
<1> QED BY <1>1, EditDoes DEF Ready, Sound, Moded, Current, Keeps

LEMMA ExitSound ==
  ASSUME NEW e, Ready(e), e.full, NEW f, f = ExitFullscreen(e)
  PROVE  Sound(f) /\ Keeps(e, f) /\ ~f.full
<1>1. PICK w : w = [e EXCEPT !.full = FALSE]
  OBVIOUS
<1>2. e \in Editor
  BY DEF Ready
<1>3. /\ w \in Editor /\ Keeps(e, w) /\ ~w.full /\ w.inEdit = e.inEdit
  BY <1>1, <1>2 DEF Editor, Keeps
<1>4. PICK v : v = IF w.inEdit THEN Edit(w) ELSE Preview(w)
  OBVIOUS
<1>5. /\ v \in Editor /\ Keeps(w, v) /\ ~v.full
      /\ w.inEdit => ~v.preview /\ v.edit /\ v.focus = "editor"
      /\ ~w.inEdit => /\ v.preview /\ ~v.edit /\ v.focus = "previewer"
                      /\ v.shown = v.text
  BY <1>3, <1>4, EditDoes, PreviewDoes
<1>6. f = [v EXCEPT !.before = e.before]
  BY <1>1, <1>4 DEF ExitFullscreen
<1>7. e.before \in {"edit", "preview"}
  BY <1>2 DEF Editor
<1>8. /\ f \in Editor /\ Keeps(v, f) /\ f.full = v.full
      /\ f.preview = v.preview /\ f.edit = v.edit /\ f.focus = v.focus
      /\ f.shown = v.shown /\ f.before = e.before
  BY <1>5, <1>6, <1>7 DEF Editor, Keeps
<1> QED BY <1>3, <1>5, <1>7, <1>8 DEF Ready, Sound, Moded, Current, Keeps

LEMMA GoSound ==
  ASSUME NEW e, Ready(e), e.loaded, NEW f, f = GoFullscreen(e)
  PROVE  Sound(f) /\ Keeps(e, f) /\ (f.full <=> ~e.full)
<1>1. e \in Editor
  BY DEF Ready
<1>2. CASE e.full
  <2>1. Sound(f) /\ Keeps(e, f) /\ ~f.full
    BY <1>2, ExitSound DEF GoFullscreen
  <2> QED BY <1>2, <2>1
<1>3. CASE ~e.full
  <2>1. PICK g : g = [e EXCEPT !.inEdit = e.edit, !.full = TRUE, !.edit = TRUE,
                               !.preview = TRUE]
    OBVIOUS
  <2>2. /\ g \in Editor /\ g.inEdit = e.edit /\ g.full /\ g.edit /\ g.preview
        /\ g.before = e.before /\ g.focus = e.focus
        /\ Keeps(e, g)
    BY <1>1, <2>1 DEF Keeps, Editor
  <2>3. PICK v : v = Preview(g)
    OBVIOUS
  <2>4. /\ v \in Editor /\ Keeps(g, v) /\ v.full /\ v.edit /\ v.preview
        /\ v.inEdit = e.edit
        /\ v.before = e.before /\ v.shown = v.text
    BY <2>2, <2>3, PreviewDoes
  <2>5. f = [v EXCEPT !.focus = "previewer"]
    BY <1>3, <2>1, <2>3, <2>4 DEF GoFullscreen, Focus
  <2>6. /\ f \in Editor /\ Keeps(v, f) /\ f.full /\ f.edit /\ f.preview
        /\ f.inEdit = e.edit
        /\ f.before = e.before /\ f.shown = f.text /\ f.focus = "previewer"
    BY <2>4, <2>5 DEF Keeps, Editor
  <2>7. Keeps(e, f)
    BY <2>2, <2>4, <2>6 DEF Keeps
  <2> QED BY <1>3, <2>6, <2>7 DEF Ready, Sound, Moded, Current, Keeps
<1> QED BY <1>2, <1>3

\* The same but for the keys, the count of saves, what the files hold, and a
\* timer that may have been set.
Looks(e, f) ==
  /\ f.loaded = e.loaded /\ f.edit = e.edit /\ f.preview = e.preview
  /\ f.full = e.full /\ f.inEdit = e.inEdit /\ f.before = e.before
  /\ f.text = e.text /\ f.shown = e.shown /\ f.behind = e.behind
  /\ f.focus = e.focus /\ (e.timer => f.timer)

LEMMA LooksSound ==
  ASSUME NEW e, Sound(e), NEW f \in Editor, Looks(e, f), f.main[f.file] \in Texts
  PROVE  Sound(f)
<1>1. Moded(f)
  BY DEF Sound, Ready, Moded, Looks
<1>2. Current(f)
  BY DEF Sound, Current, Looks
<1> QED BY <1>1, <1>2 DEF Sound, Ready, Looks

LEMMA SaveSound ==
  ASSUME NEW e, Sound(e), NEW f, f = Save(e)
  PROVE  /\ Sound(f) /\ Looks(e, f)
         /\ f.saves = e.saves + 1 /\ f.ctrl = e.ctrl
<1>1. e \in Editor
  BY DEF Sound, Ready
<1>2. PICK n : n = [e.main EXCEPT ![e.file] = e.text]
  OBVIOUS
<1>3. n \in Stored /\ n[e.file] \in Texts
  BY <1>1, <1>2 DEF Editor, Stored
<1>4. PICK c : c = e.saves + 1
  OBVIOUS
<1> c \in Nat
  BY <1>1, <1>4 DEF Editor
<1> f = [e EXCEPT !.main = n, !.saves = c]
  BY <1>2, <1>4 DEF Save
<1>5. f \in Editor
  BY <1>1, <1>3 DEF Editor
<1>6. Looks(e, f) /\ f.saves = e.saves + 1 /\ f.ctrl = e.ctrl
  BY <1>1, <1>4 DEF Editor, Looks
<1>7. f.main[f.file] \in Texts
  BY <1>1, <1>3 DEF Editor
<1> QED BY <1>5, <1>6, <1>7, LooksSound

\* How often a key saves.
Times(e, k) == (IF k \in {"s", "cmd-s"} /\ e.ctrl THEN 1 ELSE 0) + (IF k = "cmd-s" THEN 1 ELSE 0)

\* A key that is typed moves nothing but the flags; any other may.
LEMMA KeyDownDoes ==
  ASSUME NEW e, Sound(e), e.loaded, NEW k, NEW g, g = KeyDown(e, k)
  PROVE  /\ Sound(g) /\ g.loaded
         /\ g.saves = e.saves + Times(e, k)
         /\ g.ctrl => e.ctrl \/ k = "ctrl"
         /\ k \notin {"esc", "alt", "ctrl"} /\ ~Prevented(e, k) => Looks(e, g)
<1>0. e \in Editor /\ e.saves \in Nat
  BY DEF Sound, Ready, Editor
<1>1. PICK flags : flags = [e EXCEPT !.mod = @ \/ k = "alt", !.ctrl = @ \/ k = "ctrl"]
  OBVIOUS
<1>2. /\ Sound(flags) /\ Looks(e, flags) /\ flags.saves = e.saves
      /\ flags.ctrl <=> e.ctrl \/ k = "ctrl"
      /\ flags.mod <=> e.mod \/ k = "alt"
  <2>1. flags \in Editor
    BY <1>0, <1>1 DEF Editor
  <2>2. Looks(e, flags) /\ flags.saves = e.saves
    BY <1>0, <1>1 DEF Editor, Looks
  <2>3. (flags.ctrl <=> e.ctrl \/ k = "ctrl") /\ (flags.mod <=> e.mod \/ k = "alt")
    BY <1>0, <1>1 DEF Editor
  <2>4. flags.main[flags.file] \in Texts
    BY <1>0, <1>1 DEF Editor, Sound, Ready
  <2> QED BY <2>1, <2>2, <2>3, <2>4, LooksSound
<1>3. PICK p : p = IF flags.mod /\ k = "p" /\ ~flags.full THEN Toggle(flags) ELSE flags
  OBVIOUS
<1>4. /\ Sound(p) /\ p.loaded /\ p.saves = e.saves /\ p.ctrl = flags.ctrl
      /\ ~(flags.mod /\ k = "p" /\ ~flags.full) => p = flags
  <2>1. flags.loaded /\ Ready(flags)
    BY <1>2 DEF Looks, Sound
  <2>2. CASE flags.mod /\ k = "p" /\ ~flags.full
    <3>1. p = Preview(flags) \/ p = Edit(flags)
      BY <1>3, <2>2 DEF Toggle
    <3>2. Sound(p) /\ Keeps(flags, p)
      BY <3>1, <2>1, <2>2, PreviewSound, EditSound
    <3> QED BY <1>2, <2>1, <2>2, <3>2 DEF Keeps
  <2>3. CASE ~(flags.mod /\ k = "p" /\ ~flags.full)
    BY <1>2, <1>3, <2>1, <2>3
  <2> QED BY <2>2, <2>3
<1>5. PICK f : f = IF p.mod /\ k = "f" THEN GoFullscreen(p) ELSE p
  OBVIOUS
<1>6. /\ Sound(f) /\ f.loaded /\ f.saves = e.saves /\ f.ctrl = flags.ctrl
      /\ ~(p.mod /\ k = "f") => f = p
  <2>1. CASE p.mod /\ k = "f"
    BY <1>4, <1>5, <2>1, GoSound DEF Sound, Keeps
  <2>2. CASE ~(p.mod /\ k = "f")
    BY <1>4, <1>5, <2>2
  <2> QED BY <2>1, <2>2
<1>7. PICK m : m = IF k = "alt" THEN f ELSE [f EXCEPT !.mod = FALSE]
  OBVIOUS
<1>8. /\ Sound(m) /\ Looks(f, m) /\ m.saves = e.saves /\ m.ctrl = flags.ctrl
  <2>1. f \in Editor
    BY <1>6 DEF Sound, Ready
  <2>2. CASE k = "alt"
    BY <1>6, <1>7, <2>2 DEF Looks
  <2>3. CASE k # "alt"
    <3>1. m = [f EXCEPT !.mod = FALSE]
      BY <1>7, <2>3
    <3>2. m \in Editor /\ Looks(f, m)
      BY <2>1, <3>1 DEF Editor, Looks
    <3>3. m.saves = f.saves /\ m.ctrl = f.ctrl /\ m.main[m.file] \in Texts
      BY <1>6, <2>1, <3>1 DEF Editor, Sound, Ready
    <3> QED BY <1>6, <3>2, <3>3, LooksSound
  <2> QED BY <2>2, <2>3
<1>9. PICK x : x = IF k = "esc" /\ m.full THEN ExitFullscreen(m) ELSE m
  OBVIOUS
<1>10. /\ Sound(x) /\ x.loaded /\ x.saves = e.saves /\ x.ctrl = flags.ctrl
       /\ k # "esc" => x = m
  <2>1. m.loaded
    BY <1>6, <1>8 DEF Looks
  <2>2. CASE k = "esc" /\ m.full
    BY <1>8, <1>9, <2>1, <2>2, ExitSound DEF Sound, Keeps
  <2>3. CASE ~(k = "esc" /\ m.full)
    BY <1>8, <1>9, <2>1, <2>3
  <2> QED BY <2>2, <2>3
<1>11. PICK s : s = IF x.ctrl /\ k \in {"s", "cmd-s"} THEN [Save(x) EXCEPT !.ctrl = FALSE] ELSE x
  OBVIOUS
<1>12. g = IF k = "cmd-s" THEN Save(s) ELSE s
  BY <1>1, <1>3, <1>5, <1>7, <1>9, <1>11 DEF KeyDown
<1>13. x.ctrl <=> e.ctrl \/ k = "ctrl"
  BY <1>2, <1>10
<1>14. /\ Sound(s) /\ s.loaded /\ Looks(x, s)
       /\ s.saves = e.saves + (IF k \in {"s", "cmd-s"} /\ e.ctrl THEN 1 ELSE 0)
       /\ s.ctrl => e.ctrl \/ k = "ctrl"
  <2>1. CASE x.ctrl /\ k \in {"s", "cmd-s"}
    <3>1. PICK v : v = Save(x)
      OBVIOUS
    <3>2. Sound(v) /\ Looks(x, v) /\ v.saves = x.saves + 1
      BY <1>10, <3>1, SaveSound
    <3>3. v \in Editor
      BY <3>2 DEF Sound, Ready
    <3>4. s = [v EXCEPT !.ctrl = FALSE]
      BY <1>11, <2>1, <3>1
    <3>5. Sound(s) /\ Looks(v, s) /\ s.saves = v.saves /\ ~s.ctrl
      <4>1. s \in Editor /\ Looks(v, s)
        BY <3>3, <3>4 DEF Editor, Looks
      <4>2. s.saves = v.saves /\ ~s.ctrl /\ s.main[s.file] \in Texts
        BY <3>2, <3>3, <3>4 DEF Editor, Sound, Ready
      <4> QED BY <3>2, <4>1, <4>2, LooksSound
    <3>6. Looks(x, s) /\ s.loaded
      BY <1>10, <3>2, <3>5 DEF Looks
    <3> QED BY <1>0, <1>10, <1>13, <2>1, <3>2, <3>5, <3>6
  <2>2. CASE ~(x.ctrl /\ k \in {"s", "cmd-s"})
    <3>1. s = x
      BY <1>11, <2>2
    <3>2. Looks(x, x)
      BY DEF Looks
    <3>3. ~(k \in {"s", "cmd-s"} /\ e.ctrl)
      BY <1>13, <2>2
    <3> QED BY <1>0, <1>10, <1>13, <3>1, <3>2, <3>3
  <2> QED BY <2>1, <2>2
<1>15. /\ Sound(g) /\ g.loaded /\ Looks(s, g) /\ g.ctrl = s.ctrl
       /\ g.saves = s.saves + (IF k = "cmd-s" THEN 1 ELSE 0)
  <2>1. CASE k = "cmd-s"
    <3>1. g = Save(s)
      BY <1>12, <2>1
    <3>2. Sound(g) /\ Looks(s, g) /\ g.saves = s.saves + 1 /\ g.ctrl = s.ctrl
      BY <1>14, <3>1, SaveSound
    <3>3. g.loaded
      BY <1>14, <3>2 DEF Looks
    <3> QED BY <2>1, <3>2, <3>3
  <2>2. CASE k # "cmd-s"
    <3>1. g = s /\ Looks(s, s)
      BY <1>12, <2>2 DEF Looks
    <3>2. s.saves \in Nat
      BY <1>14 DEF Sound, Ready, Editor
    <3> QED BY <1>14, <2>2, <3>1, <3>2
  <2> QED BY <2>1, <2>2
<1>16. Looks(x, g)
  BY <1>14, <1>15 DEF Looks
<1>17. g.saves = e.saves + Times(e, k)
  BY <1>0, <1>14, <1>15 DEF Times
<1>18. k \notin {"esc", "alt", "ctrl"} /\ ~Prevented(e, k) => Looks(e, g)
  <2> SUFFICES ASSUME k \notin {"esc", "alt", "ctrl"}, ~Prevented(e, k)
               PROVE  Looks(e, g)
    OBVIOUS
  <2>1. flags.full = e.full /\ (flags.mod <=> e.mod)
    BY <1>2 DEF Looks
  <2>2. p = flags
    BY <1>4, <2>1 DEF Prevented
  <2>3. f = p
    BY <1>6, <2>1, <2>2 DEF Prevented
  <2>4. Looks(e, f) /\ Looks(f, m) /\ Looks(m, g)
    BY <1>2, <1>8, <1>10, <1>16, <2>2, <2>3
  <2> QED BY <2>4 DEF Looks
<1> QED BY <1>14, <1>15, <1>17, <1>18

-----------------------------------------------------------------------------
(***************************************************************************)
(* The editor as it starts, and as the script of the panel leaves it.      *)
(***************************************************************************)
LEMMA ConstructedSound ==
  Sound(Constructed) /\ ~Constructed.full /\ ~Constructed.ctrl
<1>1. PICK n : n = [f \in Files |-> IF f = "container" THEN Empty ELSE Absent]
  OBVIOUS
<1>2. n \in Stored /\ n["container"] = Empty
  BY <1>1, EmptyIsAText DEF Stored, Files
<1>3. PICK c : c = Constructed
  OBVIOUS
<1>4. c = [loaded |-> FALSE, edit |-> FALSE, preview |-> FALSE, full |-> FALSE,
           inEdit |-> FALSE, file |-> "container", text |-> Empty, shown |-> Empty,
           main |-> n, draft |-> n, timer |-> FALSE, focus |-> "page",
           mod |-> FALSE, ctrl |-> FALSE, saves |-> 0, behind |-> FALSE,
           before |-> "edit"]
  BY <1>1, <1>3 DEF Constructed
<1>5. c \in Editor
  BY <1>2, <1>4, EmptyIsAText DEF Editor, Files
<1>6. /\ c.main[c.file] \in Texts /\ ~c.loaded /\ ~c.edit /\ ~c.preview
      /\ ~c.full /\ ~c.ctrl /\ c.focus = "page"
  BY <1>2, <1>4, EmptyIsAText
<1>7. Sound(c)
  BY <1>5, <1>6 DEF Sound, Ready, Moded, Current
<1> QED BY <1>3, <1>6, <1>7

LEMMA PageScriptSound ==
  ASSUME NEW text \in Texts, NEW f, f = PageScript(text)
  PROVE  Sound(f) /\ ~f.full /\ ~f.ctrl
<1>1. PICK c : c = Constructed
  OBVIOUS
<1>2. /\ c \in Editor /\ c.main["container"] = Empty /\ c.file = "container"
      /\ ~c.preview /\ ~c.full /\ c.before = "edit" /\ c.focus = "page"
      /\ ~c.ctrl /\ c.saves = 0
  BY <1>1, ConstructedSound DEF Constructed, Files, Sound, Ready
<1>3. PICK o : o = Open(c, c.file)
  OBVIOUS
<1>4. o = [c EXCEPT !.file = "container", !.text = Empty, !.shown = Empty]
  <2>1. PICK n : n = [c EXCEPT !.file = "container"]
    OBVIOUS
  <2>2. n \in Editor /\ n.main["container"] = Empty
    BY <1>2, <2>1 DEF Editor, Files
  <2>3. PICK q : q = [n EXCEPT !.text = Empty]
    OBVIOUS
  <2>4. q.main["container"] = Empty
    BY <2>2, <2>3 DEF Editor
  <2>5. o = [q EXCEPT !.shown = q.main["container"]]
    BY <1>2, <1>3, <2>1, <2>2, <2>3, EmptyIsAText DEF Open
  <2> QED BY <1>2, <2>1, <2>3, <2>4, <2>5 DEF Editor
<1>5. PICK l : l = Load(c)
  OBVIOUS
<1>6. l = [o EXCEPT !.loaded = TRUE, !.edit = TRUE]
  BY <1>3, <1>5 DEF Load
<1>7. o \in Editor /\ ~o.preview /\ ~o.full /\ o.before = "edit" /\ o.focus = "page"
      /\ ~o.ctrl /\ o.saves = 0
  BY <1>2, <1>4, EmptyIsAText DEF Editor, Files
<1>8. l \in Editor /\ l.loaded /\ l.edit /\ ~l.preview /\ ~l.full /\ l.before = "edit"
      /\ l.focus = "page" /\ ~l.ctrl /\ l.saves = 0
  BY <1>6, <1>7 DEF Editor
<1>9. PICK j : j = [l EXCEPT !.file = "readme", !.text = text]
  OBVIOUS
<1>10. j \in Editor /\ j.loaded /\ j.edit /\ ~j.preview /\ ~j.full /\ j.before = "edit"
       /\ j.focus = "page" /\ ~j.ctrl /\ j.saves = 0 /\ j.file = "readme" /\ j.text = text
  BY <1>8, <1>9 DEF Editor, Files
<1>11. PICK n : n = [j.main EXCEPT ![j.file] = j.text]
  OBVIOUS
<1>12. n \in Stored /\ n["readme"] = text
  BY <1>10, <1>11 DEF Editor, Stored, Files
<1>13. PICK i : i = Save(j)
  OBVIOUS
<1>14. i = [j EXCEPT !.main = n, !.saves = 1]
  BY <1>10, <1>11, <1>13 DEF Save, Editor
<1>15. i \in Editor
  BY <1>10, <1>12, <1>14 DEF Editor
<1>16. i.loaded /\ i.edit /\ ~i.preview /\ ~i.full /\ i.before = "edit"
       /\ i.focus = "page" /\ ~i.ctrl /\ i.main[i.file] = text
  BY <1>10, <1>12, <1>14 DEF Editor
<1>17. Ready(i)
  BY <1>15, <1>16 DEF Ready, Moded
<1>18. ImportFile(l, "readme", text) = i
  BY <1>9, <1>13, <1>16 DEF ImportFile
<1>19. f = Preview(i)
  BY <1>1, <1>5, <1>18 DEF PageScript
<1> QED BY <1>16, <1>17, <1>19, PreviewSound DEF Keeps

-----------------------------------------------------------------------------
(***************************************************************************)
(* The editor between the user and the browser: three things the browser's *)
(* full screen can be about, as long as nobody is hasty.                   *)
(***************************************************************************)
Screens ==
  native /\ ~hasty =>
    \/ ~browser.entering /\ ~browser.leaving /\ (browser.full <=> ee.full)
    \/ browser.entering /\ ~browser.leaving /\ ee.full /\ ~browser.full
    \/ ~browser.entering /\ browser.leaving /\ ~ee.full /\ browser.full

CtrlIsKnown == ee.ctrl => ctrlDown \/ stuck

EditorInv == EditorTypeOK /\ Sound(ee) /\ Screens /\ CtrlIsKnown

\* What a step of the editor saves was asked for.
Accounted ==
  /\ stuck => stuck'
  /\ asked' \in Nat /\ asked' >= asked
  /\ ee'.saves >= ee.saves
  /\ stuck \/ ee'.saves - ee.saves <= asked' - asked

LEMMA SavesAreNat == EditorInv => ee.saves \in Nat
BY DEF EditorInv, EditorTypeOK, Editor

LEMMA CallsDo ==
  ASSUME EditorInv, NEW f, Sound(f), Calls(f)
  PROVE  /\ ee' = f /\ Screens' /\ ee' \in Editor /\ native' \in BOOLEAN
         /\ browser' \in [full : BOOLEAN, entering : BOOLEAN, leaving : BOOLEAN]
         /\ hasty' \in BOOLEAN
<1> DEFINE B == [full : BOOLEAN, entering : BOOLEAN, leaving : BOOLEAN]
<1>1. /\ ee' = f /\ browser' = AfterCall(browser, ee, f)
      /\ hasty' = (hasty \/ (Changing /\ ee.full # f.full)) /\ native' = native
  BY DEF Calls
<1>2. ee \in Editor /\ browser \in B /\ native \in BOOLEAN /\ hasty \in BOOLEAN
  BY DEF EditorInv, EditorTypeOK
<1>3. f \in Editor
  BY DEF Sound, Ready
<1>4. ee.full \in BOOLEAN /\ f.full \in BOOLEAN
  BY <1>2, <1>3 DEF Editor
<1>5. hasty' \in BOOLEAN
  BY <1>1, <1>2, Zenon
<1>6. CASE ~native \/ ee.full = f.full
  <2>1. browser' = browser
    BY <1>1, <1>6 DEF AfterCall
  <2>2. ~hasty' => ~hasty
    BY <1>1
  <2>3. Screens'
    BY <1>1, <1>6, <2>1, <2>2 DEF Screens, EditorInv
  <2> QED BY <1>1, <1>2, <1>3, <1>5, <2>1, <2>3
<1>7. CASE native /\ ee.full # f.full /\ f.full
  <2>1. browser' = [browser EXCEPT !.entering = TRUE]
    BY <1>1, <1>7 DEF AfterCall
  <2>2. browser' \in B
    BY <1>2, <2>1
  <2>3. ~ee.full
    BY <1>4, <1>7
  <2>4. ~hasty' => ~hasty /\ ~browser.entering /\ ~browser.leaving
    BY <1>1, <1>7 DEF Changing
  <2>5. ~hasty' => browser'.entering /\ ~browser'.leaving /\ ~browser'.full
    BY <1>2, <1>7, <2>1, <2>3, <2>4 DEF Screens, EditorInv
  <2>6. Screens'
    BY <1>1, <1>7, <2>5 DEF Screens
  <2> QED BY <1>1, <1>2, <1>3, <1>5, <2>2, <2>6
<1>8. CASE native /\ ee.full # f.full /\ ~f.full
  <2>1. browser' = [browser EXCEPT !.leaving = browser.full]
    BY <1>1, <1>8 DEF AfterCall
  <2>2. browser' \in B
    BY <1>2, <2>1
  <2>3. ee.full
    BY <1>4, <1>8
  <2>4. ~hasty' => ~hasty /\ ~browser.entering /\ ~browser.leaving
    BY <1>1, <1>8 DEF Changing
  <2>5. ~hasty' => ~browser'.entering /\ browser'.leaving /\ browser'.full
    BY <1>2, <1>8, <2>1, <2>3, <2>4 DEF Screens, EditorInv
  <2>6. Screens'
    BY <1>1, <1>8, <2>5 DEF Screens
  <2> QED BY <1>1, <1>2, <1>3, <1>5, <2>2, <2>6
<1> QED BY <1>6, <1>7, <1>8

LEMMA KeyUpChanges ==
  ASSUME NEW e \in Editor, NEW k, NEW f, f = KeyUp(e, k)
  PROVE  /\ f \in Editor /\ Looks(e, f) /\ f.saves = e.saves
         /\ f.main[f.file] = e.main[e.file]
         /\ f.ctrl <=> e.ctrl /\ k # "ctrl"
         /\ e.focus = "editor" => f.timer
<1>1. f = [e EXCEPT !.mod = @ /\ k # "alt", !.ctrl = @ /\ k # "ctrl",
                    !.timer = @ \/ e.focus = "editor"]
  BY DEF KeyUp
<1>2. f \in Editor
  BY <1>1 DEF Editor
<1>3. Looks(e, f) /\ f.saves = e.saves
  BY <1>1 DEF Editor, Looks
<1>4. (f.ctrl <=> e.ctrl /\ k # "ctrl") /\ (e.focus = "editor" => f.timer)
  BY <1>1 DEF Editor
<1>5. f.main[f.file] = e.main[e.file]
  BY <1>1 DEF Editor
<1> QED BY <1>2, <1>3, <1>4, <1>5

LEMMA KeyUpDoes ==
  ASSUME NEW e, Sound(e), NEW k, NEW f, f = KeyUp(e, k)
  PROVE  /\ Sound(f) /\ Looks(e, f) /\ f.saves = e.saves
         /\ f.ctrl <=> e.ctrl /\ k # "ctrl"
BY KeyUpChanges, LooksSound DEF Sound, Ready

\* The text changes where it is visible.
LEMMA TextChanges ==
  ASSUME NEW e, Sound(e), e.loaded, e.focus = "editor", NEW t \in Texts,
         NEW f, f = [e EXCEPT !.text = t]
  PROVE  /\ Ready(f) /\ f.loaded /\ f.focus = "editor" /\ f.saves = e.saves
         /\ f.ctrl <=> e.ctrl
<1>1. e \in Editor
  BY DEF Sound, Ready
<1>2. f \in Editor
  BY <1>1 DEF Editor
<1>3. /\ f.loaded /\ f.focus = "editor" /\ f.main[f.file] \in Texts
      /\ f.edit /\ f.saves = e.saves /\ (f.ctrl <=> e.ctrl)
  BY <1>1 DEF Editor, Sound, Ready
<1>4. Moded(f)
  BY <1>1 DEF Editor, Sound, Ready, Moded
<1> QED BY <1>2, <1>3, <1>4 DEF Ready

LEMMA KeyUpOverEditor ==
  ASSUME NEW f, Ready(f), f.loaded, f.focus = "editor", NEW k,
         NEW g, g = KeyUp(f, k)
  PROVE  Sound(g) /\ g.saves = f.saves /\ (g.ctrl <=> f.ctrl /\ k # "ctrl")
<1>1. /\ g \in Editor /\ Looks(f, g) /\ g.saves = f.saves
      /\ g.main[g.file] = f.main[f.file] /\ g.timer
      /\ g.ctrl <=> f.ctrl /\ k # "ctrl"
  BY KeyUpChanges DEF Ready
<1>2. g.main[g.file] \in Texts /\ g.focus = "editor" /\ g.edit /\ g.loaded
  BY <1>1 DEF Looks, Ready
<1>3. Moded(g)
  BY <1>1 DEF Moded, Looks, Ready
<1>4. Current(g)
  <2>1. CASE g.full
    BY <1>1, <2>1 DEF Current
  <2>2. CASE ~g.full
    <3>1. ~g.preview
      BY <1>2, <1>3, <2>2 DEF Moded
    <3> QED BY <3>1 DEF Current
  <2> QED BY <2>1, <2>2
<1> QED BY <1>1, <1>2, <1>3, <1>4 DEF Sound, Ready

LEMMA CallsKeep ==
  ASSUME EditorInv, NEW f, Sound(f), Calls(f),
         ctrlDown' \in BOOLEAN, stuck' \in BOOLEAN, gestures' \in Nat, asked' \in Nat,
         f.ctrl => ctrlDown' \/ stuck'
  PROVE  EditorInv' /\ ee' = f
<1>1. /\ ee' = f /\ Screens' /\ ee' \in Editor /\ native' \in BOOLEAN
      /\ browser' \in [full : BOOLEAN, entering : BOOLEAN, leaving : BOOLEAN]
      /\ hasty' \in BOOLEAN
  BY CallsDo
<1>2. EditorTypeOK'
  BY <1>1 DEF EditorTypeOK
<1>3. Sound(ee)' /\ CtrlIsKnown'
  BY <1>1 DEF CtrlIsKnown
<1> QED BY <1>1, <1>2, <1>3 DEF EditorInv

LEMMA CountedDoes ==
  ASSUME EditorInv, Counted
  PROVE  gestures' \in Nat
BY DEF Counted, EditorInv, EditorTypeOK

LEMMA PressStep ==
  ASSUME EditorInv, NEW k \in {"p", "f", "s", "cmd-s", "esc", "other"}, Press(k)
  PROVE  EditorInv' /\ Accounted
<1> USE DEF EditorInv
<1>1. /\ ee.loaded /\ Sound(ee) /\ ee \in Editor /\ asked \in Nat
      /\ ctrlDown \in BOOLEAN /\ stuck \in BOOLEAN
  BY DEF Press, Gesture, EditorTypeOK
<1>2. gestures' \in Nat
  BY CountedDoes DEF Press, Gesture
<1>3. PICK down : down = KeyDown(ee, k)
  OBVIOUS
<1>4. /\ Sound(down) /\ down.loaded
      /\ down.saves = ee.saves + Times(ee, k)
      /\ down.ctrl => ee.ctrl
      /\ k # "esc" /\ ~Prevented(ee, k) => Looks(ee, down)
  BY <1>1, <1>3, KeyDownDoes
<1> DEFINE types == ee.focus = "editor" /\ k # "esc" /\ ~ctrlDown /\ ~Prevented(ee, k)
           typed == {t \in Texts \ {ee.text} : t = Empty => k = "other"}
<1>5. PICK t \in IF types THEN typed ELSE {down.text} :
        Calls(KeyUp([down EXCEPT !.text = t], k))
  BY <1>3 DEF Press
<1>6. PICK d : d = [down EXCEPT !.text = t]
  OBVIOUS
<1>7. PICK f : f = KeyUp(d, k)
  OBVIOUS
<1>8. Sound(f) /\ f.saves = down.saves /\ (f.ctrl <=> down.ctrl)
  <2>1. CASE types
    <3>1. t \in Texts
      BY <1>5, <2>1
    <3>2. down.focus = "editor"
      BY <1>4, <2>1 DEF Looks
    <3>3. /\ Ready(d) /\ d.loaded /\ d.focus = "editor" /\ d.saves = down.saves
          /\ d.ctrl <=> down.ctrl
      BY <1>4, <1>6, <3>1, <3>2, TextChanges
    <3> QED BY <1>7, <3>3, KeyUpOverEditor
  <2>2. CASE ~types
    <3>1. t = down.text
      BY <1>5, <2>2
    <3>2. down \in Editor
      BY <1>4 DEF Sound, Ready
    <3>3. d = down
      BY <1>6, <3>1, <3>2 DEF Editor
    <3> QED BY <1>4, <1>7, <3>3, KeyUpDoes
  <2> QED BY <2>1, <2>2
<1>9. /\ asked' = asked + (IF k \in {"s", "cmd-s"} /\ ctrlDown THEN 1 ELSE 0)
                    + (IF k = "cmd-s" THEN 1 ELSE 0)
      /\ ctrlDown' = ctrlDown /\ stuck' = stuck
  BY DEF Press, keyboard
<1>10. f.ctrl => ctrlDown \/ stuck
  BY <1>4, <1>8 DEF CtrlIsKnown
<1>11. Calls(f)
  BY <1>5, <1>6, <1>7
<1>12. EditorInv' /\ ee' = f
  BY <1>1, <1>2, <1>8, <1>9, <1>10, <1>11, CallsKeep
<1>13. Accounted
  <2>1. ee.saves \in Nat /\ ee'.saves = ee.saves + Times(ee, k)
    BY <1>1, <1>4, <1>8, <1>12 DEF Editor
  <2>2. ee.ctrl => ctrlDown \/ stuck
    BY DEF CtrlIsKnown
  <2>3. Times(ee, k) \in Nat
    BY DEF Times
  <2>4. asked' \in Nat /\ asked' >= asked
    BY <1>1, <1>9
  <2>5. stuck \/ Times(ee, k) <= asked' - asked
    BY <1>1, <1>9, <2>2 DEF Times
  <2> QED BY <1>1, <1>9, <2>1, <2>3, <2>4, <2>5 DEF Accounted
<1> QED BY <1>12, <1>13

LEMMA HoldStep ==
  ASSUME EditorInv, NEW k \in {"alt", "ctrl"}, Hold(k)
  PROVE  EditorInv' /\ Accounted
<1> USE DEF EditorInv
<1>1. /\ ee.loaded /\ Sound(ee) /\ ee.saves \in Nat /\ asked \in Nat
      /\ ctrlDown \in BOOLEAN /\ stuck \in BOOLEAN
  BY DEF Hold, Gesture, EditorTypeOK, Editor
<1>2. gestures' \in Nat
  BY CountedDoes DEF Hold, Gesture
<1>3. PICK f : f = KeyDown(ee, k)
  OBVIOUS
<1>4. /\ Sound(f) /\ f.saves = ee.saves /\ (f.ctrl => ee.ctrl \/ k = "ctrl")
  BY <1>1, <1>3, KeyDownDoes DEF Times
<1>5. /\ Calls(f) /\ ctrlDown' = (ctrlDown \/ k = "ctrl")
      /\ asked' = asked /\ stuck' = stuck
  BY <1>3 DEF Hold
<1>6. ctrlDown' \in BOOLEAN /\ (f.ctrl => ctrlDown' \/ stuck')
  BY <1>1, <1>4, <1>5 DEF CtrlIsKnown
<1>7. EditorInv' /\ ee' = f
  BY <1>1, <1>2, <1>4, <1>5, <1>6, CallsKeep
<1> QED BY <1>1, <1>4, <1>5, <1>7 DEF Accounted

LEMMA ReleaseStep ==
  ASSUME EditorInv, NEW k \in {"alt", "ctrl"}, Release(k)
  PROVE  EditorInv' /\ Accounted
<1> USE DEF EditorInv
<1>1. /\ Sound(ee) /\ ee.saves \in Nat /\ asked \in Nat /\ gestures \in Nat
      /\ ctrlDown \in BOOLEAN /\ stuck \in BOOLEAN
  BY DEF EditorTypeOK, Editor
<1>2. PICK f : f = KeyUp(ee, k)
  OBVIOUS
<1>3. Sound(f) /\ f.saves = ee.saves /\ (f.ctrl <=> ee.ctrl /\ k # "ctrl")
  BY <1>1, <1>2, KeyUpDoes
<1>4. /\ Calls(f) /\ ctrlDown' = (ctrlDown /\ k # "ctrl") /\ gestures' = gestures
      /\ asked' = asked /\ stuck' = stuck
  BY <1>2 DEF Release
<1>5. ctrlDown' \in BOOLEAN /\ (f.ctrl => ctrlDown' \/ stuck')
  BY <1>1, <1>3, <1>4 DEF CtrlIsKnown
<1>6. EditorInv' /\ ee' = f
  BY <1>1, <1>3, <1>4, <1>5, CallsKeep
<1> QED BY <1>1, <1>3, <1>4, <1>6 DEF Accounted

\* A step that calls a method which neither saves nor touches the keys.
LEMMA QuietStep ==
  ASSUME EditorInv, NEW f, Sound(f), Calls(f), f.saves = ee.saves, f.ctrl = ee.ctrl,
         ctrlDown' = ctrlDown, stuck' = stuck, asked' = asked, gestures' \in Nat
  PROVE  EditorInv' /\ Accounted
<1>1. ctrlDown' \in BOOLEAN /\ stuck' \in BOOLEAN /\ asked' \in Nat
  BY DEF EditorInv, EditorTypeOK
<1>2. f.ctrl => ctrlDown' \/ stuck'
  BY DEF EditorInv, CtrlIsKnown
<1>3. EditorInv' /\ ee' = f
  BY <1>1, <1>2, CallsKeep
<1>4. ee.saves \in Nat /\ asked \in Nat
  BY SavesAreNat DEF EditorInv, EditorTypeOK
<1> QED BY <1>1, <1>3, <1>4 DEF Accounted

LEMMA PasteStep ==
  ASSUME EditorInv, Paste
  PROVE  EditorInv' /\ Accounted
<1>1. /\ ee.loaded /\ Sound(ee) /\ ee \in Editor /\ gestures' \in Nat
      /\ ee.focus = "editor"
  BY CountedDoes DEF Paste, Gesture, EditorInv, EditorTypeOK
<1>2. PICK t \in Texts : Calls([ee EXCEPT !.text = t, !.behind = @ \/ ee.full])
  BY DEF Paste
<1>3. PICK f : f = [ee EXCEPT !.text = t, !.behind = @ \/ ee.full]
  OBVIOUS
<1>4. f \in Editor
  BY <1>1, <1>3 DEF Editor
<1>5. /\ f.loaded /\ f.main[f.file] \in Texts /\ f.edit /\ f.full = ee.full
      /\ f.saves = ee.saves /\ f.ctrl = ee.ctrl /\ (ee.full => f.behind)
      /\ f.before = ee.before /\ f.inEdit = ee.inEdit /\ f.preview = ee.preview
      /\ f.edit = ee.edit
  BY <1>1, <1>3 DEF Editor, Sound, Ready
<1>6. Moded(f)
  BY <1>1, <1>5 DEF Sound, Ready, Moded
<1>7. Current(f)
  <2>1. ~f.full => ~f.preview
    BY <1>5, <1>6 DEF Moded
  <2> QED BY <1>5, <2>1 DEF Current
<1>8. Sound(f)
  BY <1>4, <1>5, <1>6, <1>7 DEF Sound, Ready
<1> QED BY <1>1, <1>2, <1>3, <1>5, <1>8, QuietStep DEF Paste, keyboard

LEMMA ClickStep ==
  ASSUME EditorInv, NEW button \in {"preview", "edit", "fullscreen"}, Click(button)
  PROVE  EditorInv' /\ Accounted
<1>1. ee.loaded /\ Ready(ee) /\ ~ee.full /\ gestures' \in Nat
  BY CountedDoes DEF Click, Gesture, EditorInv, Sound
<1>2. PICK f : Calls(f) /\ (f = Preview(ee) \/ f = Edit(ee) \/ f = GoFullscreen(ee))
  BY DEF Click
<1>3. Sound(f) /\ Keeps(ee, f)
  BY <1>1, <1>2, PreviewSound, EditSound, GoSound
<1> QED BY <1>1, <1>2, <1>3, QuietStep DEF Click, keyboard, Keeps

LEMMA FocusStep ==
  ASSUME EditorInv, NEW frame \in {"editor", "previewer", "page"}, FocusOn(frame)
  PROVE  EditorInv' /\ Accounted
<1>1. Sound(ee) /\ ee \in Editor /\ gestures \in Nat
  BY DEF EditorInv, EditorTypeOK
<1>2. PICK f : f = [ee EXCEPT !.focus = frame]
  OBVIOUS
<1>3. f \in Editor
  BY <1>1, <1>2 DEF Editor
<1>4. /\ f.loaded = ee.loaded /\ f.main[f.file] \in Texts /\ f.full = ee.full
      /\ f.saves = ee.saves /\ f.ctrl = ee.ctrl /\ f.behind = ee.behind
      /\ f.before = ee.before /\ f.inEdit = ee.inEdit /\ f.preview = ee.preview
      /\ f.edit = ee.edit /\ f.timer = ee.timer /\ f.text = ee.text
      /\ f.shown = ee.shown /\ f.focus = frame
  BY <1>1, <1>2 DEF Editor, Sound, Ready
<1>5. f.focus = "editor" => f.edit
  BY <1>4 DEF FocusOn
<1>6. Sound(f)
  BY <1>1, <1>3, <1>4, <1>5 DEF Sound, Ready, Moded, Current
<1>7. Calls(f) /\ gestures' = gestures
  BY <1>2 DEF FocusOn
<1> QED BY <1>1, <1>4, <1>6, <1>7, QuietStep DEF FocusOn, keyboard

LEMMA LivePreviewStep ==
  ASSUME EditorInv, LivePreview
  PROVE  EditorInv' /\ Accounted
<1>1. Sound(ee) /\ ee \in Editor /\ gestures \in Nat
  BY DEF EditorInv, EditorTypeOK
<1>2. PICK r : r = [ee EXCEPT !.timer = FALSE]
  OBVIOUS
<1>3. r \in Editor
  BY <1>1, <1>2 DEF Editor
<1>4. /\ r.loaded = ee.loaded /\ r.main[r.file] \in Texts /\ r.full = ee.full
      /\ r.saves = ee.saves /\ r.ctrl = ee.ctrl /\ r.behind = ee.behind
      /\ r.before = ee.before /\ r.inEdit = ee.inEdit /\ r.preview = ee.preview
      /\ r.edit = ee.edit /\ r.text = ee.text
      /\ r.shown = ee.shown /\ r.focus = ee.focus
  BY <1>1, <1>2 DEF Editor, Sound, Ready
<1>5. Ready(r)
  BY <1>1, <1>3, <1>4 DEF Sound, Ready, Moded
<1>6. ~r.full => Current(r)
  BY <1>1, <1>4 DEF Sound, Current
<1>7. PICK f : f = IF r.full THEN Preview(r) ELSE r
  OBVIOUS
<1>8. Sound(f) /\ f.saves = ee.saves /\ f.ctrl = ee.ctrl
  <2>1. CASE r.full
    <3>1. r.loaded
      BY <1>5, <2>1 DEF Ready, Moded
    <3> QED BY <1>4, <1>5, <1>7, <2>1, <3>1, PreviewSound DEF Keeps
  <2>2. CASE ~r.full
    BY <1>4, <1>5, <1>6, <1>7, <2>2 DEF Sound
  <2> QED BY <2>1, <2>2
<1>9. Calls(f) /\ gestures' = gestures
  BY <1>2, <1>7 DEF LivePreview
<1> QED BY <1>1, <1>8, <1>9, QuietStep DEF LivePreview, keyboard

LEMMA ReleaseElsewhereStep ==
  ASSUME EditorInv, ReleaseElsewhere
  PROVE  EditorInv' /\ Accounted
<1>1. /\ UNCHANGED <<ee, native, browser, hasty, gestures, asked>>
      /\ ctrlDown' = FALSE /\ stuck' = TRUE
  BY DEF ReleaseElsewhere, screens
<1>2. EditorTypeOK' /\ asked \in Nat
  BY <1>1 DEF EditorInv, EditorTypeOK
<1>3. Sound(ee)' /\ Screens' /\ CtrlIsKnown'
  BY <1>1 DEF EditorInv, Screens, CtrlIsKnown
<1> QED BY <1>1, <1>2, <1>3, SavesAreNat DEF EditorInv, Accounted

LEMMA EnteredStep ==
  ASSUME EditorInv, Entered
  PROVE  EditorInv' /\ Accounted
<1>1. UNCHANGED <<ee, native, ctrlDown, stuck, gestures, asked>>
  BY DEF Entered, keyboard
<1>2. PICK granted \in BOOLEAN :
        /\ browser' = [browser EXCEPT !.entering = FALSE, !.full = @ \/ granted]
        /\ hasty' = (hasty \/ ~granted)
  BY DEF Entered
<1>3. browser \in [full : BOOLEAN, entering : BOOLEAN, leaving : BOOLEAN]
      /\ hasty \in BOOLEAN /\ asked \in Nat
  BY DEF EditorInv, EditorTypeOK
<1>4. /\ browser' \in [full : BOOLEAN, entering : BOOLEAN, leaving : BOOLEAN]
      /\ ~browser'.entering /\ (browser'.leaving <=> browser.leaving)
      /\ browser'.full <=> browser.full \/ granted
  BY <1>2, <1>3
<1>5. hasty' \in BOOLEAN
  BY <1>2, <1>3, Zenon
<1>6. EditorTypeOK'
  BY <1>1, <1>4, <1>5 DEF EditorInv, EditorTypeOK
<1>7. Screens'
  <2>1. ~hasty' => ~hasty /\ granted
    BY <1>2
  <2>2. browser.entering /\ ~browser.leaving
    BY DEF Entered
  <2> QED BY <1>1, <1>4, <2>1, <2>2 DEF EditorInv, Screens
<1>8. Sound(ee)' /\ CtrlIsKnown'
  BY <1>1 DEF EditorInv, CtrlIsKnown
<1> QED BY <1>1, <1>3, <1>6, <1>7, <1>8, SavesAreNat DEF EditorInv, Accounted

LEMMA LeftStep ==
  ASSUME EditorInv, Left
  PROVE  EditorInv' /\ Accounted
<1>1. UNCHANGED <<native, ctrlDown, stuck, gestures, asked>>
  BY DEF Left, keyboard
<1>2. /\ browser \in [full : BOOLEAN, entering : BOOLEAN, leaving : BOOLEAN]
      /\ hasty \in BOOLEAN /\ asked \in Nat /\ ee \in Editor /\ Sound(ee)
      /\ native \in BOOLEAN
  BY DEF EditorInv, EditorTypeOK
<1>3. PICK w : w = [browser EXCEPT !.full = FALSE, !.leaving = FALSE]
  OBVIOUS
<1>4. /\ w \in [full : BOOLEAN, entering : BOOLEAN, leaving : BOOLEAN]
      /\ ~w.full /\ ~w.leaving /\ (w.entering <=> browser.entering)
  BY <1>2, <1>3
<1>5. PICK f : f = IF ee.full THEN ExitFullscreen(ee) ELSE ee
  OBVIOUS
<1>6. Sound(f) /\ f.saves = ee.saves /\ f.ctrl = ee.ctrl /\ ~f.full
  <2>1. CASE ee.full
    BY <1>2, <1>5, <2>1, ExitSound DEF Sound, Keeps
  <2>2. CASE ~ee.full
    BY <1>2, <1>5, <2>2
  <2> QED BY <2>1, <2>2
<1>7. /\ ee' = f /\ browser' = AfterCall(w, ee, f)
      /\ hasty' = (hasty \/ (Changing /\ ee.full # f.full)) /\ browser.full
  BY <1>3, <1>5 DEF Left
<1>8. /\ browser' \in [full : BOOLEAN, entering : BOOLEAN, leaving : BOOLEAN]
      /\ ~browser'.full /\ ~browser'.leaving /\ (browser'.entering <=> browser.entering)
  <2>1. browser' = w \/ browser' = [w EXCEPT !.leaving = w.full]
    BY <1>6, <1>7 DEF AfterCall
  <2> QED BY <1>4, <2>1
<1>9. hasty' \in BOOLEAN
  BY <1>2, <1>7, Zenon
<1>10. f \in Editor
  BY <1>6 DEF Sound, Ready
<1>11. EditorTypeOK'
  BY <1>1, <1>2, <1>7, <1>8, <1>9, <1>10 DEF EditorInv, EditorTypeOK
<1>12. Screens'
  <2>1. ~hasty' => ~hasty
    BY <1>7
  <2> QED BY <1>1, <1>6, <1>7, <1>8, <2>1 DEF EditorInv, Screens
<1>13. Sound(ee)' /\ CtrlIsKnown'
  BY <1>1, <1>6, <1>7 DEF EditorInv, CtrlIsKnown
<1> QED BY <1>1, <1>2, <1>6, <1>7, <1>11, <1>12, <1>13, SavesAreNat DEF EditorInv, Accounted

LEMMA EditorStep ==
  ASSUME EditorInv, EditorNext
  PROVE  EditorInv' /\ Accounted
BY PressStep, HoldStep, ReleaseStep, PasteStep, ClickStep, FocusStep, LivePreviewStep,
   ReleaseElsewhereStep, EnteredStep, LeftStep DEF EditorNext

-----------------------------------------------------------------------------
(***************************************************************************)
(* The page and the server.  As long as no two requests mix, a text and    *)
(* its checksum go together wherever they are kept, and a save that passed *)
(* the check still names the text that is in the file.                     *)
(***************************************************************************)
ReadFits(r, text) ==
  /\ r.phase = "text" => r.text = text
  /\ r.phase = "read" => r.text = r.sum

PostFits(p, text) ==
  /\ p.phase = "sent" => p.sum = p.base
  /\ p.phase = "valid" => p.sum = p.base /\ p.sum = text
  /\ p.phase = "written" => p.text = text
  /\ p.phase = "saved" => p.text = p.sum

ChecksumsFit ==
  ~mixed => /\ sum = base
            /\ \A r \in reads : ReadFits(r, file)
            /\ \A p \in posts : PostFits(p, file)

PageInv == TypeOK /\ EditorInv /\ SavesAreAskedFor /\ ChecksumsFit

LEMMA PageInvInit == Init => PageInv
<1> SUFFICES ASSUME Init PROVE PageInv
  OBVIOUS
<1>1. Sound(ee) /\ ~ee.full /\ ~ee.ctrl /\ ee \in Editor
  BY ConstructedSound DEF Init, EditorInit, Sound, Ready
<1>2. EditorInv
  BY <1>1 DEF Init, EditorInit, EditorInv, EditorTypeOK, Screens, CtrlIsKnown
<1>3. TypeOK
  BY <1>2, EmptyIsAText DEF Init, EditorInv, TypeOK
<1>4. SavesAreAskedFor
  BY DEF Init, EditorInit, SavesAreAskedFor
<1>5. ChecksumsFit
  BY DEF Init, ChecksumsFit
<1> QED BY <1>2, <1>3, <1>4, <1>5 DEF PageInv

LEMMA EditorUnchanged ==
  ASSUME EditorInv, UNCHANGED editorVars
  PROVE  EditorInv'
<1>1. UNCHANGED <<ee, native, browser, ctrlDown, gestures, asked, stuck, hasty>>
  BY DEF editorVars
<1>2. EditorTypeOK' /\ Sound(ee)' /\ Screens' /\ CtrlIsKnown'
  BY <1>1 DEF EditorInv, EditorTypeOK, Screens, CtrlIsKnown
<1> QED BY <1>2 DEF EditorInv

LEMMA SubmitsDo ==
  ASSUME TypeOK, NEW f, f \in Editor, f.main[f.file] \in Texts, Submits(f),
         f.saves >= ee.saves
  PROVE  /\ posts' \subseteq Post /\ posted' \in Nat
         /\ posted' = posted + (f.saves - ee.saves)
         /\ \A p \in posts' : p \in posts \/ (p.phase = "sent" /\ p.sum = sum /\ p.base = base)
<1>1. PICK times : times = f.saves - ee.saves
  OBVIOUS
<1>2. times \in Nat /\ posted \in Nat
  BY <1>1 DEF TypeOK, EditorTypeOK, Editor
<1>3. PICK p : p = [i \in 1 .. times |->
        [n |-> posted + i, from |-> panel, phase |-> "sent",
         text |-> f.main[f.file], sum |-> sum, base |-> base]]
  OBVIOUS
<1>4. posted' = posted + times /\ posts' = posts \cup {p[i] : i \in 1 .. times}
  BY <1>1, <1>3 DEF Submits
<1>5. ASSUME NEW i \in 1 .. times
      PROVE  p[i] \in Post /\ p[i].phase = "sent" /\ p[i].sum = sum /\ p[i].base = base
  <2>1. p[i] = [n |-> posted + i, from |-> panel, phase |-> "sent",
                text |-> f.main[f.file], sum |-> sum, base |-> base]
    BY <1>3
  <2>2. posted + i \in Nat
    BY <1>2
  <2> QED BY <2>1, <2>2 DEF TypeOK, Post
<1>6. posts' \subseteq Post
  BY <1>4, <1>5 DEF TypeOK
<1> QED BY <1>1, <1>2, <1>4, <1>5, <1>6

\* Saves of the editor, by whatever way, are posted with what its user knows.
LEMMA SavingStep ==
  ASSUME PageInv, EditorInv', Accounted, Submits(ee'),
         UNCHANGED <<file, reads, page, base, mixed>>
  PROVE  PageInv'
<1>1. UNCHANGED <<file, reads, shown, opens, panel, sum, base, mixed>>
  BY DEF page
<1>2. ee' \in Editor /\ ee'.main[ee'.file] \in Texts
  BY DEF EditorInv, Sound, Ready
<1>3. /\ posts' \subseteq Post /\ posted' \in Nat
      /\ posted' = posted + (ee'.saves - ee.saves)
      /\ \A p \in posts' : p \in posts \/ (p.phase = "sent" /\ p.sum = sum /\ p.base = base)
  BY <1>2, SubmitsDo DEF PageInv, Accounted
<1>4. TypeOK'
  BY <1>1, <1>3 DEF PageInv, TypeOK, EditorInv
<1>5. SavesAreAskedFor'
  <2>1. /\ posted \in Nat /\ asked \in Nat /\ ee.saves \in Nat /\ ee'.saves \in Nat
        /\ stuck \in BOOLEAN
    BY <1>2 DEF PageInv, TypeOK, EditorTypeOK, Editor
  <2> QED BY <1>3, <2>1 DEF PageInv, SavesAreAskedFor, Accounted
<1>6. ChecksumsFit'
  <2> SUFFICES ASSUME ~mixed'
               PROVE  /\ sum' = base'
                      /\ \A r \in reads' : ReadFits(r, file')
                      /\ \A p \in posts' : PostFits(p, file')
    BY DEF ChecksumsFit
  <2>1. /\ sum = base
        /\ \A r \in reads : ReadFits(r, file)
        /\ \A p \in posts : PostFits(p, file)
    BY <1>1 DEF PageInv, ChecksumsFit
  <2>2. ASSUME NEW p \in posts' PROVE PostFits(p, file')
    <3>1. CASE p \in posts
      BY <1>1, <2>1, <3>1
    <3>2. CASE p.phase = "sent" /\ p.sum = sum /\ p.base = base
      BY <2>1, <3>2 DEF PostFits
    <3> QED BY <1>3, <3>1, <3>2
  <2> QED BY <1>1, <2>1, <2>2
<1> QED BY <1>4, <1>5, <1>6 DEF PageInv

\* The editor is replaced by one that is windowed.
LEMMA NewEditor ==
  ASSUME EditorInv, NEW f, Sound(f), ~f.full, ~f.ctrl, ee' = f, Windowed,
         UNCHANGED <<native, ctrlDown, stuck, asked>>, gestures' \in Nat
  PROVE  EditorInv'
<1>1. f \in Editor
  BY DEF Sound, Ready
<1>2. EditorTypeOK'
  BY <1>1 DEF EditorInv, EditorTypeOK, Windowed
<1>3. Screens' /\ CtrlIsKnown'
  BY DEF Screens, CtrlIsKnown, Windowed
<1> QED BY <1>2, <1>3 DEF EditorInv

LEMMA CloseStep ==
  ASSUME PageInv, Close
  PROVE  PageInv'
<1>1. /\ UNCHANGED <<file, reads, posts, opens, panel, sum, base, posted, mixed>>
      /\ UNCHANGED <<native, ctrlDown, stuck, gestures, asked>> /\ shown' = FALSE
  BY DEF Close, server, keyboard
<1>2. PICK f : f = Constructed
  OBVIOUS
<1>3. EditorInv'
  BY <1>1, <1>2, ConstructedSound, NewEditor DEF Close, PageInv, EditorInv, EditorTypeOK
<1>4. TypeOK'
  BY <1>1, <1>3 DEF PageInv, TypeOK, EditorInv
<1>5. SavesAreAskedFor' /\ ChecksumsFit'
  BY <1>1 DEF PageInv, SavesAreAskedFor, ChecksumsFit
<1> QED BY <1>3, <1>4, <1>5 DEF PageInv

LEMMA OpenedStep ==
  ASSUME PageInv, Opened
  PROVE  PageInv'
<1>1. /\ UNCHANGED <<ee, native, browser, hasty, ctrlDown, stuck, asked>>
      /\ UNCHANGED <<file, posts, panel, sum, base, posted, mixed>>
      /\ shown' = TRUE /\ opens' = opens + 1 /\ Counted
  BY DEF Opened, screens, keyboard
<1>2. gestures' \in Nat
  BY <1>1, CountedDoes DEF PageInv
<1>3. EditorInv'
  <2>1. EditorTypeOK' /\ Sound(ee)' /\ Screens' /\ CtrlIsKnown'
    BY <1>1, <1>2 DEF PageInv, EditorInv, EditorTypeOK, Screens, CtrlIsKnown
  <2> QED BY <2>1 DEF EditorInv
<1>4. PICK r : r = [n |-> opens', phase |-> "sent", text |-> Empty, sum |-> Empty]
  OBVIOUS
<1>5. reads' = reads \cup {r} /\ r.phase = "sent"
  BY <1>4 DEF Opened
<1>6. r \in Read
  BY <1>1, <1>4, EmptyIsAText DEF PageInv, TypeOK, Read
<1>7. TypeOK'
  BY <1>1, <1>3, <1>5, <1>6 DEF PageInv, TypeOK, EditorInv
<1>8. SavesAreAskedFor'
  BY <1>1 DEF PageInv, SavesAreAskedFor
<1>9. ChecksumsFit'
  BY <1>1, <1>5 DEF PageInv, ChecksumsFit, ReadFits
<1> QED BY <1>3, <1>7, <1>8, <1>9 DEF PageInv

LEMMA PanelLoadedStep ==
  ASSUME PageInv, NEW r \in reads, PanelLoaded(r)
  PROVE  PageInv'
<1>1. /\ UNCHANGED <<native, ctrlDown, stuck, gestures, asked>>
      /\ UNCHANGED <<file, posts, shown, opens, posted, mixed>>
      /\ reads' = reads \ {r} /\ ee' = PageScript(r.text) /\ Windowed
      /\ panel' = r.n /\ sum' = r.sum /\ base' = r.text /\ r.phase = "read"
  BY DEF PanelLoaded, keyboard
<1>2. r \in Read /\ r.text \in Texts /\ r.sum \in Texts /\ r.n \in Nat
  BY DEF PageInv, TypeOK, Read
<1>3. PICK f : f = PageScript(r.text)
  OBVIOUS
<1>4. Sound(f) /\ ~f.full /\ ~f.ctrl
  BY <1>2, <1>3, PageScriptSound
<1>5. EditorInv'
  BY <1>1, <1>3, <1>4, NewEditor DEF PageInv, EditorInv, EditorTypeOK
<1>6. TypeOK'
  BY <1>1, <1>2, <1>5 DEF PageInv, TypeOK, EditorInv
<1>7. SavesAreAskedFor'
  BY <1>1 DEF PageInv, SavesAreAskedFor
<1>8. ChecksumsFit'
  BY <1>1 DEF PageInv, ChecksumsFit, ReadFits
<1> QED BY <1>5, <1>6, <1>7, <1>8 DEF PageInv

LEMMA EditsStep ==
  ASSUME PageInv, Edits \/ UpdateReadme
  PROVE  PageInv'
<1>1. CASE Edits
  BY <1>1, EditorStep, SavingStep DEF Edits, PageInv
<1>2. CASE UpdateReadme
  <2>1. Sound(ee) /\ gestures' \in Nat
    BY <1>2, CountedDoes DEF UpdateReadme, Gesture, PageInv, EditorInv
  <2>2. /\ UNCHANGED <<ctrlDown, stuck>> /\ asked' = asked + 1 /\ Calls(Save(ee))
        /\ Submits(ee') /\ UNCHANGED <<file, reads, page, base, mixed>>
    BY <1>2 DEF UpdateReadme, keyboard
  <2>3. asked \in Nat /\ ctrlDown \in BOOLEAN /\ stuck \in BOOLEAN
    BY DEF PageInv, EditorInv, EditorTypeOK
  <2>4. PICK f : f = Save(ee)
    OBVIOUS
  <2>5. Sound(f) /\ f.ctrl = ee.ctrl /\ f.saves = ee.saves + 1 /\ ee.saves \in Nat
    BY <2>1, <2>4, SaveSound DEF Sound, Ready, Editor
  <2>6. EditorInv' /\ ee' = f
    BY <2>1, <2>2, <2>3, <2>4, <2>5, CallsKeep DEF PageInv, EditorInv, CtrlIsKnown
  <2>7. Accounted
    BY <2>2, <2>3, <2>5, <2>6 DEF Accounted
  <2> QED BY <2>2, <2>6, <2>7, SavingStep
<1> QED BY <1>1, <1>2

\* One request of the two sets is replaced or removed.
LEMMA PostsStep ==
  ASSUME PageInv, UNCHANGED editorVars, UNCHANGED <<reads, shown, opens, panel, posted>>,
         file' \in Texts, sum' \in Texts, base' \in Texts, mixed' \in BOOLEAN,
         posts' \subseteq Post, ChecksumsFit'
  PROVE  PageInv'
<1>1. EditorInv' /\ stuck' = stuck /\ asked' = asked
  BY EditorUnchanged DEF PageInv, editorVars
<1>2. TypeOK' /\ SavesAreAskedFor'
  BY <1>1 DEF PageInv, TypeOK, EditorInv, SavesAreAskedFor
<1> QED BY <1>1, <1>2 DEF PageInv

LEMMA TakenStep ==
  ASSUME PageInv, NEW p \in posts, SavedTaken(p) \/ RefusedTaken(p)
  PROVE  PageInv'
<1>1. /\ UNCHANGED editorVars /\ UNCHANGED <<file, reads, shown, opens, panel, posted>>
      /\ posts' = posts \ {p}
  BY DEF SavedTaken, RefusedTaken, page
<1>2. p \in Post /\ p.sum \in Texts /\ p.text \in Texts
  BY DEF PageInv, TypeOK, Post
<1>3. /\ file \in Texts /\ sum \in Texts /\ base \in Texts /\ mixed \in BOOLEAN
      /\ posts \subseteq Post
  BY DEF PageInv, TypeOK
<1>4. CASE UNCHANGED <<sum, base, mixed>>
  <2>1. ChecksumsFit'
    BY <1>1, <1>4 DEF PageInv, ChecksumsFit
  <2> QED BY <1>1, <1>3, <1>4, <2>1, PostsStep
<1>5. CASE SavedTaken(p) /\ ee.loaded
  <2>1. /\ sum' = p.sum /\ p.phase = "saved"
        /\ base' = IF p.from = panel THEN p.text ELSE base
        /\ mixed' = (mixed \/ p.from # panel)
    BY <1>5 DEF SavedTaken
  <2>2. mixed' \in BOOLEAN /\ base' \in Texts
    BY <1>2, <1>3, <2>1
  <2>3. ChecksumsFit'
    <3> SUFFICES ASSUME ~mixed'
                 PROVE  /\ sum' = base'
                        /\ \A r \in reads' : ReadFits(r, file')
                        /\ \A q \in posts' : PostFits(q, file')
      BY DEF ChecksumsFit
    <3>1. ~mixed /\ p.from = panel
      BY <2>1
    <3>2. /\ \A r \in reads : ReadFits(r, file)
          /\ \A q \in posts : PostFits(q, file)
      BY <3>1 DEF PageInv, ChecksumsFit
    <3>3. p.text = p.sum
      BY <2>1, <3>2 DEF PostFits
    <3> QED BY <1>1, <2>1, <3>1, <3>2, <3>3
  <2> QED BY <1>1, <1>2, <1>3, <2>1, <2>2, <2>3, PostsStep
<1> QED BY <1>4, <1>5 DEF SavedTaken, RefusedTaken, page

\* The server's accesses that leave the file alone.
LEMMA PostMoves ==
  ASSUME PageInv, NEW p \in posts, NEW q \in Post, Steps(p, q),
         UNCHANGED editorVars, UNCHANGED <<file, reads, page, base, posted, mixed>>,
         ~mixed => PostFits(q, file)
  PROVE  PageInv'
<1>1. UNCHANGED <<shown, opens, panel, sum>> /\ posts' = (posts \ {p}) \cup {q}
  BY DEF page, Steps
<1>2. /\ file \in Texts /\ sum \in Texts /\ base \in Texts /\ mixed \in BOOLEAN
      /\ posts' \subseteq Post
  BY <1>1 DEF PageInv, TypeOK
<1>3. ChecksumsFit'
  BY <1>1 DEF PageInv, ChecksumsFit
<1> QED BY <1>1, <1>2, <1>3, PostsStep

LEMMA ReadStep ==
  ASSUME PageInv, NEW r \in reads, ReadText(r) \/ ReadChecksum(r),
         UNCHANGED <<editorVars, page, base, posted>>
  PROVE  PageInv'
<1>1. /\ UNCHANGED editorVars
      /\ UNCHANGED <<shown, opens, panel, sum, base, posted, file, posts, mixed>>
  BY DEF page, ReadText, ReadChecksum
<1>2. EditorInv' /\ stuck' = stuck /\ asked' = asked
  BY <1>1, EditorUnchanged DEF PageInv, editorVars
<1>3. r \in Read /\ file \in Texts
  BY DEF PageInv, TypeOK
<1>4. PICK q : /\ reads' = (reads \ {r}) \cup {q}
               /\ \/ q = [r EXCEPT !.phase = "text", !.text = file]
                  \/ r.phase = "text" /\ q = [r EXCEPT !.phase = "read", !.sum = file]
  BY DEF ReadText, ReadChecksum
<1>5. q \in Read
  BY <1>3, <1>4 DEF Read
<1>6. TypeOK' /\ SavesAreAskedFor'
  BY <1>1, <1>2, <1>4, <1>5 DEF PageInv, TypeOK, EditorInv, SavesAreAskedFor
<1>7. ~mixed => ReadFits(q, file)
  BY <1>3, <1>4 DEF PageInv, ChecksumsFit, ReadFits, Read
<1>8. ChecksumsFit'
  BY <1>1, <1>4, <1>7 DEF PageInv, ChecksumsFit
<1> QED BY <1>2, <1>6, <1>8 DEF PageInv

LEMMA PostStep ==
  ASSUME PageInv, NEW p \in posts, Validate(p) \/ ReadBack(p) \/ Lose(p),
         UNCHANGED <<editorVars, page, base, posted>>
  PROVE  PageInv'
<1>1. p \in Post /\ file \in Texts
  BY DEF PageInv, TypeOK
<1>2. ~mixed => PostFits(p, file)
  BY DEF PageInv, ChecksumsFit
<1>3. CASE Validate(p)
  <2>1. PICK q : q = [p EXCEPT !.phase =
                        IF p.text # Empty /\ p.sum = file THEN "valid" ELSE "refused"]
    OBVIOUS
  <2>2. q \in Post
    BY <1>1, <2>1 DEF Post
  <2>3. ~mixed => PostFits(q, file)
    BY <1>1, <1>2, <1>3, <2>1 DEF PostFits, Post, Validate
  <2> QED BY <1>3, <2>1, <2>2, <2>3, PostMoves DEF Validate
<1>4. CASE ReadBack(p)
  <2>1. PICK q : q = [p EXCEPT !.phase = "saved", !.sum = file]
    OBVIOUS
  <2>2. q \in Post
    BY <1>1, <2>1 DEF Post
  <2>3. ~mixed => PostFits(q, file)
    BY <1>1, <1>2, <1>4, <2>1 DEF PostFits, Post, ReadBack
  <2> QED BY <1>4, <2>1, <2>2, <2>3, PostMoves DEF ReadBack
<1>5. CASE Lose(p)
  <2>1. PICK q : q = [p EXCEPT !.phase = "refused"]
    OBVIOUS
  <2>2. q \in Post
    BY <1>1, <2>1 DEF Post
  <2>3. PostFits(q, file)
    BY <1>1, <2>1 DEF PostFits, Post
  <2> QED BY <1>5, <2>1, <2>2, <2>3, PostMoves DEF Lose
<1> QED BY <1>3, <1>4, <1>5

\* Who writes while nobody else is halfway makes nothing stale but what is
\* checked against the file later on.
LEMMA WriteStep ==
  ASSUME PageInv, NEW p \in posts, Write(p),
         UNCHANGED <<editorVars, page, base, posted>>
  PROVE  PageInv'
<1>1. /\ UNCHANGED editorVars /\ UNCHANGED <<shown, opens, panel, sum, base, posted, reads>>
      /\ file' = p.text /\ mixed' = (mixed \/ Halfway # {p}) /\ p.phase = "valid"
  BY DEF Write, page
<1>2. PICK q : q = [p EXCEPT !.phase = "written"]
  OBVIOUS
<1>3. posts' = (posts \ {p}) \cup {q}
  BY <1>2 DEF Write, Steps
<1>4. p \in Post /\ p.text \in Texts /\ sum \in Texts /\ base \in Texts
      /\ mixed \in BOOLEAN /\ posts \subseteq Post
  BY DEF PageInv, TypeOK, Post
<1>5. q \in Post /\ q.phase = "written" /\ q.text = p.text
  BY <1>2, <1>4 DEF Post
<1>6. ChecksumsFit'
  <2> SUFFICES ASSUME ~mixed'
               PROVE  /\ sum' = base'
                      /\ \A r \in reads' : ReadFits(r, file')
                      /\ \A s \in posts' : PostFits(s, file')
    BY DEF ChecksumsFit
  <2>1. ~mixed /\ Halfway = {p}
    BY <1>1
  <2>2. /\ sum = base
        /\ \A r \in reads : ReadFits(r, file)
        /\ \A s \in posts : PostFits(s, file)
    BY <2>1 DEF PageInv, ChecksumsFit
  <2>3. ASSUME NEW r \in reads PROVE ReadFits(r, file')
    <3>1. CASE r.phase = "text"
      <4>1. r = p
        BY <2>1, <3>1 DEF Halfway
      <4> QED BY <1>1, <3>1, <4>1
    <3>2. CASE r.phase # "text"
      BY <2>2, <3>2 DEF ReadFits
    <3> QED BY <3>1, <3>2
  <2>4. ASSUME NEW s \in posts, s # p PROVE PostFits(s, file')
    <3>1. s.phase \notin {"valid", "written"}
      BY <2>1, <2>4 DEF Halfway
    <3> QED BY <2>2, <3>1 DEF PostFits
  <2>5. PostFits(q, file')
    BY <1>1, <1>5 DEF PostFits
  <2> QED BY <1>1, <1>3, <2>2, <2>3, <2>4, <2>5
<1>7. mixed' \in BOOLEAN
  BY <1>1, <1>4, Zenon
<1> QED BY <1>1, <1>3, <1>4, <1>5, <1>6, <1>7, PostsStep

LEMMA OthersWriteStep ==
  ASSUME PageInv, OthersWrite
  PROVE  PageInv'
<1>1. /\ UNCHANGED <<ee, native, browser, hasty, ctrlDown, stuck, asked>>
      /\ UNCHANGED <<reads, posts, shown, opens, panel, sum, base, posted>>
      /\ file' \in Texts /\ mixed' = (mixed \/ Halfway # {}) /\ Counted
  BY DEF OthersWrite, screens, keyboard, page
<1>2. gestures' \in Nat /\ mixed \in BOOLEAN
  BY <1>1, CountedDoes DEF PageInv, TypeOK
<1>3. EditorInv'
  <2>1. EditorTypeOK' /\ Sound(ee)' /\ Screens' /\ CtrlIsKnown'
    BY <1>1, <1>2 DEF PageInv, EditorInv, EditorTypeOK, Screens, CtrlIsKnown
  <2> QED BY <2>1 DEF EditorInv
<1>4. mixed' \in BOOLEAN
  BY <1>1, <1>2, Zenon
<1>5. TypeOK' /\ SavesAreAskedFor'
  BY <1>1, <1>3, <1>4 DEF PageInv, TypeOK, EditorInv, SavesAreAskedFor
<1>6. ChecksumsFit'
  BY <1>1 DEF PageInv, ChecksumsFit, Halfway, ReadFits, PostFits
<1> QED BY <1>3, <1>5, <1>6 DEF PageInv

LEMMA PageInvNext == PageInv /\ [Next]_vars => PageInv'
<1> SUFFICES ASSUME PageInv, [Next]_vars PROVE PageInv'
  OBVIOUS
<1>1. CASE Edits \/ UpdateReadme
  BY <1>1, EditsStep
<1>2. CASE Close
  BY <1>2, CloseStep
<1>3. CASE Opened
  BY <1>3, OpenedStep
<1>4. CASE \E r \in reads : PanelLoaded(r)
  BY <1>4, PanelLoadedStep
<1>5. CASE \E p \in posts : SavedTaken(p) \/ RefusedTaken(p)
  BY <1>5, TakenStep
<1>6. CASE Server
  BY <1>6, ReadStep, PostStep, WriteStep DEF Server
<1>7. CASE OthersWrite
  BY <1>7, OthersWriteStep
<1>8. CASE UNCHANGED vars
  <2>1. /\ UNCHANGED editorVars /\ UNCHANGED <<file, reads, posts>>
        /\ UNCHANGED <<shown, opens, panel, sum, base, posted, mixed>>
    BY <1>8 DEF vars, server, page
  <2>2. /\ file \in Texts /\ sum \in Texts /\ base \in Texts /\ mixed \in BOOLEAN
        /\ posts \subseteq Post
    BY DEF PageInv, TypeOK
  <2>3. ChecksumsFit'
    BY <2>1 DEF PageInv, ChecksumsFit
  <2> QED BY <2>1, <2>2, <2>3, PostsStep
<1> QED BY <1>1, <1>2, <1>3, <1>4, <1>5, <1>6, <1>7, <1>8 DEF Next

\* The editor is sound, the browser's full screen is where it is expected, and
\* texts and checksums go together.
THEOREM PageInvariant == Spec => []PageInv
BY PageInvInit, PageInvNext, PTL DEF Spec

-----------------------------------------------------------------------------
\* Every variable keeps its type: the methods of the editor leave a record that
\* has all of its fields, and a file that can be exported.
THEOREM TypeCorrect == Spec => []TypeOK
<1>1. PageInv => TypeOK
  BY DEF PageInv
<1> QED BY <1>1, PageInvariant, PTL

\* A visible preview shows the text of the editor once the timer has rung.
THEOREM PreviewsAreCurrent == Spec => []PreviewIsCurrent
<1>1. PageInv => PreviewIsCurrent
  BY DEF PageInv, EditorInv, Sound, Current, PreviewIsCurrent
<1> QED BY <1>1, PageInvariant, PTL

\* Leaving full screen, by whatever way, brings back the mode it was entered
\* from, and browser and editor agree about full screen when nobody is hasty.
THEOREM FullscreenIsAlwaysUndone == Spec => []FullscreenIsUndone
<1>1. PageInv => FullscreenIsUndone
  <2> SUFFICES ASSUME PageInv PROVE FullscreenIsUndone
    OBVIOUS
  <2>1. /\ ee.edit \in BOOLEAN /\ ee.preview \in BOOLEAN /\ ee.full \in BOOLEAN
        /\ browser.full \in BOOLEAN
    BY DEF PageInv, EditorInv, EditorTypeOK, Editor
  <2>2. Moded(ee) /\ Screens
    BY DEF PageInv, EditorInv, Sound, Ready
  <2>3. ModeComesBack
    BY <2>1, <2>2 DEF Moded, ModeComesBack
  <2>4. ScreensAgree
    BY <2>1, <2>2 DEF Screens, ScreensAgree, Changing
  <2> QED BY <2>3, <2>4 DEF FullscreenIsUndone
<1> QED BY <1>1, PageInvariant, PTL

\* Nothing is posted that was not asked for, unless the control key was released
\* where the editor could not see it.
THEOREM SavesAreAlwaysAskedFor == Spec => []SavesAreAskedFor
<1>1. PageInv => SavesAreAskedFor
  BY DEF PageInv
<1> QED BY <1>1, PageInvariant, PTL

\* An accepted save overwrites what its user knows to be in the file.
THEOREM NothingIsOverwrittenUnseen == Spec => []NothingOverwrittenUnseen
<1>1. PageInv => NothingOverwrittenUnseen
  BY DEF PageInv, ChecksumsFit, PostFits, NothingOverwrittenUnseen
<1> QED BY <1>1, PageInvariant, PTL
=============================================================================
