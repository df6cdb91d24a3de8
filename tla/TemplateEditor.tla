--------------------------- MODULE TemplateEditor ---------------------------
(***************************************************************************)
(* The templates tab of an execution zone: one page, the chains of         *)
(* requests its script sends, and the controller that answers them.        *)
(* Choosing a template asks for its description, the answer asks for a     *)
(* version, the answer to that for the text and for the comment; each step *)
(* is a request of its own, nothing is aborted, and answers come in any    *)
(* order or not at all.  Meanwhile the form has parts of two templates.    *)
(*                                                                         *)
(* A text stands for the version it was loaded from, whatever was changed  *)
(* in it since; the name field always travels with the form's action.      *)
(***************************************************************************)
EXTENDS Integers, Sequences, FiniteSets

CONSTANTS
  Templates,    \* ids the database may hand out
  Existing,     \* those of the templates stored at first
  Nobody,       \* no template
  MaxGestures,  \* bound on what the user does
  MaxOverlap,   \* bound on the gestures whose requests are under way at once
  MaxFailures   \* bound on failed requests and lost answers

ASSUME NobodyIsNoTemplate == Nobody \notin Templates
ASSUME ExistingAreTemplates == Existing \subseteq Templates
ASSUME BoundsAreNat ==
  MaxGestures \in Nat /\ MaxOverlap \in Nat /\ MaxFailures \in Nat

VARIABLES
  status,       \* of each template in the database
  saved,        \* its versions: whose text each holds, and how it was saved
  target,       \* the template the form's action updates; Nobody: it creates one
  text,         \* the text area
  placeholder,  \* the version whose comment the message field shows
  newest,       \* the newest version on offer in the version list
  chosen,       \* the version selected there
  fileOf,       \* the template the preview button asks for
  removable,    \* does the delete button look enabled
  removeOf,     \* the template the delete dialog removes
  inputs,       \* are the inputs of the form enabled
  list,         \* the list of templates
  listOn,       \* is it enabled
  sent,         \* requests under way to the server
  answers,      \* answers under way to the page
  gestures,     \* how often the user did something
  failures,     \* how many requests failed or answers were lost
  suspect,      \* history: a gesture came while the page waited, or an answer
                \* was an error, since the form was last cancelled at rest
  listLost      \* history: a request for the list failed

server == <<status, saved>>
form == <<target, text, placeholder, newest, chosen, fileOf, removable, removeOf>>
shown == <<inputs, list, listOn>>
net == <<sent, answers>>
history == <<suspect, listLost>>
vars == <<server, form, shown, net, gestures, failures, history>>

Owner == Templates \cup {Nobody}
Version == Owner \X Nat
Blank == <<Nobody, 0>>   \* also: the default placeholder, an empty version list
Typed == <<Nobody, 1>>   \* text typed into an empty area

\* Requests whose every answer enables the inputs, and the others.
FormKinds == {"show", "version", "text", "comment", "file", "save", "update",
              "saved", "delete"}
Kinds == FormKinds \cup {"list", "check"}

Request == [chain : Nat, kind : Kinds, about : Version, text : Version,
            calm : BOOLEAN]
Answer == [to : Request, ok : BOOLEAN, upTo : Nat, list : SUBSET Templates]
Entry == [from : Owner, calm : BOOLEAN]

TypeOK ==
  /\ status \in [Templates -> {"unused", "stored", "deleted"}]
  /\ saved \in [Templates -> Seq(Entry)]
  /\ target \in Owner /\ fileOf \in Owner /\ removeOf \in Owner
  /\ text \in Version /\ placeholder \in Version
  /\ newest \in Version /\ chosen \in Version
  /\ removable \in BOOLEAN
  /\ inputs \in BOOLEAN /\ listOn \in BOOLEAN
  /\ list \subseteq Templates
  /\ sent \subseteq Request
  /\ answers \subseteq Answer
  /\ gestures \in Nat /\ failures \in Nat
  /\ suspect \in BOOLEAN /\ listLost \in BOOLEAN

Init ==
  /\ status = [t \in Templates |-> IF t \in Existing THEN "stored" ELSE "unused"]
  /\ saved = [t \in Templates |->
       IF t \in Existing THEN [n \in 1 .. 2 |-> [from |-> t, calm |-> TRUE]] ELSE << >>]
  /\ target = Nobody /\ fileOf = Nobody /\ removeOf = Nobody
  /\ text = Blank /\ placeholder = Blank /\ newest = Blank /\ chosen = Blank
  /\ removable = FALSE
  /\ inputs = TRUE /\ list = Existing /\ listOn = TRUE
  /\ sent = {} /\ answers = {}
  /\ gestures = 0 /\ failures = 0
  /\ suspect = FALSE /\ listLost = FALSE

\* Requests whose answers the page has not taken yet.
UnderWay == sent \cup {a.to : a \in answers}
Busy == UnderWay # {}

Asks(chain, kind, about) ==
  [chain |-> chain, kind |-> kind, about |-> about, text |-> Blank,
   calm |-> TRUE]

-----------------------------------------------------------------------------
(***************************************************************************)
(* What the user does.  Inputs inside the form work while it is enabled,   *)
(* the list of templates is outside it, and the buttons Cancel, Delete and *)
(* Preview are anchors: looking disabled does not keep a click from them.  *)
(***************************************************************************)
Gesture ==
  /\ gestures < MaxGestures
  /\ Cardinality({r.chain : r \in UnderWay}) < MaxOverlap
  /\ gestures' = gestures + 1
  /\ UNCHANGED <<server, answers, failures, list, listOn, listLost>>

Hurried == suspect' = (suspect \/ Busy)

\* beforeSend of the requests that concern the form.
Disable == inputs' = FALSE

\* A change of the list: loadTemplateFrom.
Choose(t) ==
  /\ listOn /\ t \in list
  /\ Gesture /\ Hurried /\ Disable
  /\ sent' = sent \cup {Asks(gestures + 1, "show", <<t, 0>>)}
  /\ UNCHANGED form

\* A change of the version list: loadTemplate.
ChooseVersion(n) ==
  /\ inputs /\ n \in 1 .. newest[2] /\ n # chosen[2]
  /\ Gesture /\ Hurried /\ Disable
  /\ chosen' = <<newest[1], n>>
  /\ sent' = sent \cup {Asks(gestures + 1, "version", chosen')}
  /\ UNCHANGED <<target, text, placeholder, newest, fileOf, removable,
                 removeOf>>

\* Typing starts a text; what is typed into a loaded text leaves it the text of
\* its version.
TypeText ==
  /\ inputs /\ text = Blank
  /\ text' = Typed
  /\ UNCHANGED <<server, target, placeholder, newest, chosen, fileOf,
                 removable, removeOf, shown, net, gestures, failures, history>>

\* The submit button: templateSave posts the form to its action.
Submit ==
  /\ inputs
  /\ Gesture /\ Hurried /\ Disable
  /\ sent' = sent \cup
       {[chain |-> gestures + 1, kind |-> IF target = Nobody THEN "save" ELSE "update",
         about |-> <<target, 0>>, text |-> text, calm |-> ~suspect']}
  /\ UNCHANGED form

\* Mutant: the text area is forgotten.
ClearFormButText ==
  /\ target' = Nobody
  /\ UNCHANGED text
  /\ placeholder' = Blank
  /\ newest' = Blank /\ chosen' = Blank
  /\ fileOf' = Nobody
  /\ removable' = FALSE
  /\ UNCHANGED removeOf

\* The form after templateCancel; the delete dialog keeps its action.
ClearForm ==
  /\ target' = Nobody
  /\ text' = Blank
  /\ placeholder' = Blank
  /\ newest' = Blank /\ chosen' = Blank
  /\ fileOf' = Nobody
  /\ removable' = FALSE
  /\ UNCHANGED removeOf

Cancel ==
  /\ Gesture /\ ClearForm
  /\ suspect' = Busy
  /\ UNCHANGED <<inputs, sent>>

\* The delete dialog: templateRemove, followed at once by templateCancel.
Remove ==
  /\ Gesture /\ ClearForm /\ Hurried
  /\ Disable
  /\ sent' = sent \cup {Asks(gestures + 1, "delete", <<removeOf, 0>>)}

\* The preview button, once a template was loaded.
ShowFile ==
  /\ fileOf # Nobody
  /\ Gesture /\ Hurried /\ Disable
  /\ sent' = sent \cup {Asks(gestures + 1, "file", <<fileOf, 0>>)}
  /\ UNCHANGED form

\* templateCheck leaves the form alone.
Check ==
  /\ Gesture /\ Hurried
  /\ sent' = sent \cup {Asks(gestures + 1, "check", Blank)}
  /\ UNCHANGED <<form, inputs>>

-----------------------------------------------------------------------------
(***************************************************************************)
(* The controller.  save and update answer with a redirect, which the      *)
(* browser follows with a request of its own.                              *)
(***************************************************************************)
Stored(t) == t \in Templates /\ status[t] = "stored"
HasVersion(v) == Stored(v[1]) /\ v[2] \in 1 .. Len(saved[v[1]])

AnswerTo(r, ok, upTo, names) == [to |-> r, ok |-> ok, upTo |-> upTo, list |-> names]

Replies(r, ok, upTo, names) ==
  /\ sent' = sent \ {r}
  /\ answers' = answers \cup {AnswerTo(r, ok, upTo, names)}

\* show; also what the redirect of save and update leads to.
ServeShow(r) ==
  /\ r.kind \in {"show", "saved"}
  /\ IF Stored(r.about[1])
       THEN Replies(r, TRUE, Len(saved[r.about[1]]), {})
       ELSE Replies(r, FALSE, 0, {})
  /\ UNCHANGED server

\* index.
ServeList(r) ==
  /\ r.kind = "list" /\ Replies(r, TRUE, 0, {t \in Templates : Stored(t)})
  /\ UNCHANGED server

\* ajaxGetVersion, ajaxGetTemplate and ajaxGetComment, showFile and
\* checkParameters only read what nothing but a deletion changes: they are
\* served as their answer is taken, unless a deletion comes in between.
Reads == {r \in sent : r.kind \in {"version", "text", "comment", "file", "check"}}

ReadBy(r) ==
  AnswerTo(r, CASE r.kind = "file" -> Stored(r.about[1])
                [] r.kind = "check" -> TRUE
                [] OTHER -> HasVersion(r.about), 0, {})

\* A version is added only if there is a text (saveTeamplateVersion).
WithText(versions, r) ==
  IF r.text = Blank THEN versions
  ELSE Append(versions, [from |-> r.text[1], calm |-> r.calm])

Redirects(r, t) ==
  /\ sent' = (sent \ {r}) \cup {[r EXCEPT !.kind = "saved", !.about = <<t, 0>>]}
  /\ UNCHANGED answers

\* The version is stored before the missing parameters are computed: when that
\* throws, the page is told of an error although the template was saved.
Concludes(r, t) == Redirects(r, t) \/ Replies(r, FALSE, 0, {})

ServeSave(r) ==
  /\ r.kind = "save"
  /\ \E t \in Templates :
       /\ status[t] = "unused"
       /\ status' = [status EXCEPT ![t] = "stored"]
       /\ saved' = [saved EXCEPT ![t] = WithText(<< >>, r)]
       /\ Concludes(r, t)

ServeUpdate(r) ==
  /\ r.kind = "update" /\ Stored(r.about[1])
  /\ saved' = [saved EXCEPT ![r.about[1]] = WithText(@, r)]
  /\ UNCHANGED status
  /\ Concludes(r, r.about[1])

\* No commit message, a name that is empty or taken, or no such template: what
\* the user types there is left to chance.
Refuse(r) ==
  /\ r.kind \in {"save", "update"}
  /\ Replies(r, FALSE, 0, {})
  /\ UNCHANGED server

ServeDelete(r) ==
  /\ r.kind = "delete"
  /\ \E early \in SUBSET {q \in Reads : q.about[1] = r.about[1]} :
       /\ sent' = sent \ ({r} \cup early)
       /\ answers' = answers \cup {AnswerTo(r, Stored(r.about[1]), 0, {})}
                             \cup {ReadBy(q) : q \in early}
  /\ status' = [t \in Templates |->
       IF t = r.about[1] /\ Stored(t) THEN "deleted" ELSE status[t]]
  /\ UNCHANGED saved

Serve(r) ==
  /\ r \in sent
  /\ \/ ServeShow(r) \/ ServeList(r) \/ ServeSave(r) \/ ServeUpdate(r)
     \/ Refuse(r) \/ ServeDelete(r)
  /\ UNCHANGED <<form, shown, gestures, failures, history>>

\* A request fails before it is served; or the answer is lost on its way back,
\* which makes a difference if the request changed something.
Fail(r) ==
  /\ r \in sent /\ failures < MaxFailures
  /\ failures' = failures + 1
  /\ Replies(r, FALSE, 0, {})
  /\ UNCHANGED <<server, form, shown, gestures, history>>

LoseAnswer(a) ==
  /\ a \in answers /\ a.ok /\ a.to.kind \in {"saved", "delete"}
  /\ failures < MaxFailures
  /\ failures' = failures + 1
  /\ answers' = (answers \ {a}) \cup {AnswerTo(a.to, FALSE, 0, {})}
  /\ UNCHANGED <<server, form, shown, sent, gestures, history>>

-----------------------------------------------------------------------------
(***************************************************************************)
(* The page takes an answer.  A handler that asks for more disables the    *)
(* inputs in beforeSend and then enables them itself: they are enabled     *)
(* while the text is still on its way.                                     *)
(***************************************************************************)
Takes(a, more) ==
  /\ answers' = answers \ {a}
  /\ sent' = (sent \ {a.to}) \cup more
  /\ UNCHANGED <<server, gestures, failures>>

Enable == inputs' = TRUE

\* Mutant: the delete dialog keeps the template it had.
FormButDialogOf(t, upTo) ==
  /\ target' = t
  /\ newest' = <<t, upTo>> /\ chosen' = <<t, upTo>>
  /\ removable' = TRUE
  /\ UNCHANGED <<text, placeholder, removeOf>>

\* Mutant: the action is made from the link of the version, not the template.
FormOfVersion(t, upTo) ==
  /\ target' = <<t, upTo>>
  /\ newest' = <<t, upTo>> /\ chosen' = <<t, upTo>>
  /\ removable' = TRUE
  /\ removeOf' = t
  /\ UNCHANGED <<text, placeholder>>

\* Also for `saved': the form turns into that of template t.
FormOf(t, upTo) ==
  /\ target' = t
  /\ newest' = <<t, upTo>> /\ chosen' = <<t, upTo>>
  /\ removable' = TRUE
  /\ removeOf' = t
  /\ UNCHANGED <<text, placeholder>>

Described(a) ==
  LET r == a.to t == r.about[1] IN
  /\ a.ok /\ r.kind = "show"
  /\ Takes(a, {Asks(r.chain, "version", <<t, a.upTo>>)})
  /\ FormOf(t, a.upTo) /\ fileOf' = t
  /\ Enable
  /\ UNCHANGED <<list, listOn, history>>

\* Saved: as above, but the preview button stays as it was and the list of
\* templates is loaded again.
SavedForm(a) ==
  LET r == a.to t == r.about[1] IN
  /\ a.ok /\ r.kind = "saved"
  /\ Takes(a, {Asks(r.chain, "version", <<t, a.upTo>>), Asks(r.chain, "list", Blank)})
  /\ FormOf(t, a.upTo) /\ UNCHANGED fileOf
  /\ Enable /\ listOn' = FALSE
  /\ UNCHANGED <<list, history>>

\* Mutant: only the comment is asked for.
VersionFoundNoText(a) ==
  LET r == a.to IN
  /\ a.ok /\ r.kind = "version"
  /\ Takes(a, {Asks(r.chain, "comment", r.about)})
  /\ Enable
  /\ UNCHANGED <<form, list, listOn, history>>

\* loadTemplate's answer asks for the text and the comment.
VersionFound(a) ==
  LET r == a.to IN
  /\ a.ok /\ r.kind = "version"
  /\ Takes(a, {Asks(r.chain, "text", r.about), Asks(r.chain, "comment", r.about)})
  /\ Enable
  /\ UNCHANGED <<form, list, listOn, history>>

TextLoaded(a) ==
  /\ a.ok /\ a.to.kind = "text" /\ Takes(a, {})
  /\ text' = a.to.about
  /\ Enable
  /\ UNCHANGED <<target, placeholder, newest, chosen, fileOf, removable,
                 removeOf, list, listOn, history>>

\* The comment becomes the placeholder of the message field.
CommentLoaded(a) ==
  /\ a.ok /\ a.to.kind = "comment" /\ Takes(a, {})
  /\ placeholder' = a.to.about
  /\ Enable
  /\ UNCHANGED <<target, text, newest, chosen, fileOf, removable, removeOf, list,
                 listOn, history>>

FileLoaded(a) ==
  /\ a.ok /\ a.to.kind = "file" /\ Takes(a, {})
  /\ Enable
  /\ UNCHANGED <<form, list, listOn, history>>

Removed(a) ==
  /\ a.ok /\ a.to.kind = "delete"
  /\ Takes(a, {Asks(a.to.chain, "list", Blank)})
  /\ Enable /\ listOn' = FALSE
  /\ UNCHANGED <<form, list, history>>

\* Mutant: the list is filled but stays disabled.
ListLoadedStaysOff(a) ==
  /\ a.ok /\ a.to.kind = "list" /\ Takes(a, {})
  /\ list' = a.list
  /\ UNCHANGED <<form, inputs, listOn, history>>

ListLoaded(a) ==
  /\ a.ok /\ a.to.kind = "list" /\ Takes(a, {})
  /\ list' = a.list /\ listOn' = TRUE
  /\ UNCHANGED <<form, inputs, history>>

Checked(a) ==
  /\ a.ok /\ a.to.kind = "check" /\ Takes(a, {})
  /\ UNCHANGED <<form, inputs, list, listOn, history>>

\* Mutant: the error handler of templateSave forgets the inputs.
RefusedSaveStaysOff(a) ==
  /\ ~a.ok /\ Takes(a, {})
  /\ inputs' = (inputs \/ a.to.kind \notin {"check", "save", "update"})
  /\ suspect' = TRUE
  /\ listLost' = (listLost \/ a.to.kind = "list")
  /\ UNCHANGED <<form, list, listOn>>

\* Every error handler but that of templateCheck enables the inputs of the form;
\* that of the list does not enable the list.
Refused(a) ==
  /\ ~a.ok /\ Takes(a, {})
  /\ inputs' = (inputs \/ a.to.kind # "check")
  /\ suspect' = TRUE
  /\ listLost' = (listLost \/ a.to.kind = "list")
  /\ UNCHANGED <<form, list, listOn>>

Deliver(a) ==
  \/ Described(a) \/ SavedForm(a) \/ VersionFound(a) \/ TextLoaded(a)
  \/ CommentLoaded(a) \/ FileLoaded(a) \/ Removed(a) \/ ListLoaded(a)
  \/ Checked(a) \/ Refused(a)

-----------------------------------------------------------------------------
User ==
  \/ \E t \in Templates : Choose(t)
  \/ \E n \in 1 .. newest[2] : ChooseVersion(n)
  \/ TypeText \/ Submit \/ Cancel \/ Remove \/ ShowFile \/ Check

Network ==
  \/ \E r \in sent : Serve(r) \/ Fail(r)
  \/ \E a \in answers : LoseAnswer(a)
  \/ \E a \in answers \cup {ReadBy(r) : r \in Reads} : Deliver(a)

Next == User \/ Network

\* A request is answered or fails in the end, and its handler runs: an XHR
\* always completes.
Spec ==
  /\ Init /\ [][Next]_vars
  /\ WF_vars(\E r \in sent : Serve(r))
  /\ WF_vars(\E a \in answers \cup {ReadBy(r) : r \in Reads} : Deliver(a))

-----------------------------------------------------------------------------
\* The parts of the form belong together: they are all of the template its
\* action updates and of the version selected, or those of an empty form.
Whole ==
  IF target = Nobody
    THEN text \in {Blank, Typed} /\ newest = Blank /\ placeholder = Blank
         /\ fileOf = Nobody /\ ~removable
    ELSE text = chosen /\ chosen[1] = target /\ newest[1] = target
         /\ placeholder = chosen /\ fileOf \in {target, Nobody}

\* A form at rest is whole, unless the user was quicker than the answers or
\* one of them was an error: the handlers put the parts in one by one, and
\* none of them checks that they still belong to what is shown.
FormAtRestIsWhole == ~Busy /\ ~suspect => Whole

\* A template never gets the text of another one as its new version from a
\* form that was submitted at rest and had come about without haste or errors;
\* only the first version can be one that was typed into an empty form.
CalmSavesAreOwn ==
  \A t \in Templates : \A n \in 1 .. Len(saved[t]) :
    saved[t][n].calm => saved[t][n].from = t \/ (n = 1 /\ saved[t][n].from = Nobody)

\* In every order of answers the delete dialog, whose question does not name
\* the template, removes the one the form shows if the button looks enabled.
DialogMatchesForm == removable => removeOf = target /\ target # Nobody

\* What is disabled will be enabled again: inputs of the form are disabled only
\* while a request is under way whose answer enables them, the list only for
\* the answer that fills it, unless that one failed.
DisabledMeansWaiting ==
  /\ ~inputs => \E r \in UnderWay : r.kind \in FormKinds
  /\ ~listOn => listLost \/ \E r \in UnderWay : r.kind = "list"

\* The page never keeps the user out for good: when he does nothing more the
\* inputs come back, whatever fails on the way.
InputsComeBack == []<>inputs
=============================================================================
