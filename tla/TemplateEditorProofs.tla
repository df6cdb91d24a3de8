------------------------ MODULE TemplateEditorProofs ------------------------
(***************************************************************************)
(* Proofs about TemplateEditor, for any templates and however many chains  *)
(* of requests overlap: what the delete dialog removes, that whatever is   *)
(* disabled waits for an answer, and that a form at rest is whole and what *)
(* it saves is its own, as long as the user waits and no answer is an      *)
(* error.                                                                  *)
(***************************************************************************)
EXTENDS TemplateEditor, TLAPS

LEMMA VersionFacts ==
  /\ Blank \in Version /\ Typed \in Version
  /\ \A v \in Version : v[1] \in Owner /\ v[2] \in Nat
  /\ \A t \in Owner, n \in Nat : <<t, n>> \in Version
  /\ Templates \subseteq Owner /\ Nobody \in Owner
BY DEF Version, Owner, Blank, Typed

LEMMA AsksFacts ==
  ASSUME NEW c \in Nat, NEW k \in Kinds, NEW v \in Version
  PROVE  Asks(c, k, v) \in Request
BY VersionFacts DEF Asks, Request

LEMMA AnswerFacts ==
  ASSUME NEW r \in Request, NEW ok \in BOOLEAN, NEW n \in Nat,
         NEW names \in SUBSET Templates
  PROVE  /\ AnswerTo(r, ok, n, names) \in Answer
         /\ AnswerTo(r, ok, n, names).to = r
         /\ AnswerTo(r, ok, n, names).ok = ok
BY DEF AnswerTo, Answer

LEMMA ReadByFacts ==
  ASSUME NEW r \in Request
  PROVE  ReadBy(r) \in Answer /\ ReadBy(r).to = r
<1>1. PICK ok : ok = CASE r.kind = "file" -> Stored(r.about[1])
                       [] r.kind = "check" -> TRUE
                       [] OTHER -> HasVersion(r.about)
  OBVIOUS
<1>2. ok \in BOOLEAN
  <2>1. Stored(r.about[1]) \in BOOLEAN /\ HasVersion(r.about) \in BOOLEAN
    BY DEF Stored, HasVersion
  <2>2. CASE r.kind = "file"
    BY <1>1, <2>1, <2>2
  <2>3. CASE r.kind = "check"
    BY <1>1, <2>3
  <2>4. CASE r.kind \notin {"file", "check"}
    BY <1>1, <2>1, <2>4
  <2> QED BY <2>2, <2>3, <2>4
<1>3. ReadBy(r) = AnswerTo(r, ok, 0, {})
  BY <1>1 DEF ReadBy
<1> QED BY <1>2, <1>3, AnswerFacts

LEMMA TypeInit == Init => TypeOK
<1> SUFFICES ASSUME Init PROVE TypeOK
  OBVIOUS
<1>1. saved \in [Templates -> Seq(Entry)]
  <2>1. ASSUME NEW t \in Templates
        PROVE  [n \in 1 .. 2 |-> [from |-> t, calm |-> TRUE]] \in Seq(Entry)
    <3>1. [from |-> t, calm |-> TRUE] \in Entry
      BY VersionFacts DEF Entry
    <3> QED BY <3>1
  <2>2. << >> \in Seq(Entry)
    OBVIOUS
  <2> QED BY <2>1, <2>2 DEF Init
<1>2. status \in [Templates -> {"unused", "stored", "deleted"}]
  BY DEF Init
<1> QED BY <1>1, <1>2, VersionFacts, ExistingAreTemplates DEF Init, TypeOK

-----------------------------------------------------------------------------
(***************************************************************************)
(* The steps of the user keep the types.                                   *)
(***************************************************************************)
FormTypes ==
  /\ target \in Owner /\ fileOf \in Owner /\ removeOf \in Owner
  /\ text \in Version /\ placeholder \in Version
  /\ newest \in Version /\ chosen \in Version
  /\ removable \in BOOLEAN

ShownTypes ==
  /\ inputs \in BOOLEAN /\ listOn \in BOOLEAN
  /\ list \subseteq Templates
  /\ suspect \in BOOLEAN /\ listLost \in BOOLEAN

ServerTypes ==
  /\ status \in [Templates -> {"unused", "stored", "deleted"}]
  /\ saved \in [Templates -> Seq(Entry)]

NetTypes ==
  /\ sent \subseteq Request /\ answers \subseteq Answer
  /\ gestures \in Nat /\ failures \in Nat

LEMMA TypeParts ==
  /\ TypeOK <=> FormTypes /\ ShownTypes /\ ServerTypes /\ NetTypes
  /\ TypeOK' <=> FormTypes' /\ ShownTypes' /\ ServerTypes' /\ NetTypes'
BY DEF TypeOK, FormTypes, ShownTypes, ServerTypes, NetTypes

\* One more request is sent.
LEMMA GestureTypes ==
  ASSUME TypeOK, Gesture, NEW r \in Request,
         sent' = sent \cup {r} \/ sent' = sent,
         suspect' \in BOOLEAN, inputs' \in BOOLEAN, FormTypes'
  PROVE  TypeOK'
<1>1. ServerTypes' /\ ShownTypes'
  BY TypeParts DEF Gesture, server, ServerTypes, ShownTypes
<1>2. NetTypes'
  BY TypeParts DEF Gesture, NetTypes
<1> QED BY <1>1, <1>2, TypeParts

LEMMA FormStays == FormTypes /\ UNCHANGED form => FormTypes'
BY DEF FormTypes, form

LEMMA HurriedTypes == TypeOK /\ Hurried => suspect' \in BOOLEAN
<1> SUFFICES ASSUME TypeOK, Hurried PROVE suspect' \in BOOLEAN
  OBVIOUS
<1>1. suspect \in BOOLEAN /\ suspect' = (suspect \/ Busy)
  BY DEF TypeOK, Hurried
<1>2. Busy \in BOOLEAN
  BY DEF Busy
<1> QED BY <1>1, <1>2, Zenon

LEMMA UserTypes ==
  ASSUME TypeOK, User
  PROVE  TypeOK'
<1>0. /\ FormTypes /\ gestures + 1 \in Nat /\ sent \subseteq Request
      /\ inputs \in BOOLEAN
  BY TypeParts DEF NetTypes, ShownTypes
<1> Disable => inputs' \in BOOLEAN
  BY DEF Disable
<1>1. ASSUME NEW t \in Templates, Choose(t) PROVE TypeOK'
  <2>1. PICK r : r = Asks(gestures + 1, "show", <<t, 0>>)
    OBVIOUS
  <2>2. r \in Request
    BY <1>0, <2>1, AsksFacts, VersionFacts DEF Kinds, FormKinds
  <2> QED BY <1>0, <1>1, <2>1, <2>2, GestureTypes, FormStays, HurriedTypes DEF Choose
<1>2. ASSUME NEW n \in 1 .. newest[2], ChooseVersion(n) PROVE TypeOK'
  <2>1. chosen' = <<newest[1], n>> /\ chosen' \in Version
    BY <1>0, <1>2, VersionFacts DEF ChooseVersion, FormTypes
  <2>2. PICK r : r = Asks(gestures + 1, "version", chosen')
    OBVIOUS
  <2>3. r \in Request
    BY <1>0, <2>1, <2>2, AsksFacts DEF Kinds, FormKinds
  <2>4. FormTypes'
    BY <1>0, <1>2, <2>1 DEF FormTypes, ChooseVersion
  <2> QED BY <1>0, <1>2, <2>2, <2>3, <2>4, GestureTypes, HurriedTypes DEF ChooseVersion
<1>3. CASE TypeText
  <2>1. FormTypes'
    BY <1>0, <1>3, VersionFacts DEF FormTypes, TypeText
  <2>2. ShownTypes' /\ ServerTypes' /\ NetTypes'
    BY <1>3, TypeParts DEF ShownTypes, ServerTypes, NetTypes, TypeText, shown, server, net, history
  <2> QED BY <2>1, <2>2, TypeParts
<1>4. CASE Submit
  <2>1. PICK r : r = [chain |-> gestures + 1, kind |-> IF target = Nobody THEN "save" ELSE "update",
                      about |-> <<target, 0>>, text |-> text, calm |-> ~suspect']
    OBVIOUS
  <2>2. suspect' \in BOOLEAN
    BY <1>4, HurriedTypes DEF Submit
  <2>3. PICK c \in BOOLEAN : c = ~suspect'
    BY <2>2
  <2>4. PICK k \in Kinds : k = IF target = Nobody THEN "save" ELSE "update"
    BY DEF Kinds, FormKinds
  <2>5. <<target, 0>> \in Version /\ text \in Version
    BY <1>0, VersionFacts DEF FormTypes
  <2>6. r \in Request
    BY <1>0, <2>1, <2>3, <2>4, <2>5 DEF Request
  <2>7. sent' = sent \cup {r}
    BY <1>4, <2>1 DEF Submit
  <2> QED BY <1>0, <1>4, <2>2, <2>6, <2>7, GestureTypes, FormStays DEF Submit
<1>5. CASE Cancel
  <2>1. FormTypes'
    BY <1>0, <1>5, VersionFacts DEF Cancel, ClearForm, FormTypes
  <2>2. suspect' \in BOOLEAN
    BY <1>5 DEF Cancel, Busy
  <2>3. PICK r \in Request : TRUE
    BY <1>0, AsksFacts, VersionFacts DEF Kinds
  <2> QED BY <1>0, <1>5, <2>1, <2>2, <2>3, GestureTypes DEF Cancel
<1>6. CASE Remove
  <2>1. FormTypes'
    BY <1>0, <1>6, VersionFacts DEF Remove, ClearForm, FormTypes
  <2>2. PICK r : r = Asks(gestures + 1, "delete", <<removeOf, 0>>)
    OBVIOUS
  <2>3. r \in Request
    BY <1>0, <2>2, AsksFacts, VersionFacts DEF Kinds, FormKinds, FormTypes
  <2> QED BY <1>0, <1>6, <2>1, <2>2, <2>3, GestureTypes, HurriedTypes DEF Remove
<1>7. CASE ShowFile
  <2>1. PICK r : r = Asks(gestures + 1, "file", <<fileOf, 0>>)
    OBVIOUS
  <2>2. r \in Request
    BY <1>0, <2>1, AsksFacts, VersionFacts DEF Kinds, FormKinds, FormTypes
  <2> QED BY <1>0, <1>7, <2>1, <2>2, GestureTypes, FormStays, HurriedTypes DEF ShowFile
<1>8. CASE Check
  <2>1. PICK r : r = Asks(gestures + 1, "check", Blank)
    OBVIOUS
  <2>2. r \in Request
    BY <1>0, <2>1, AsksFacts, VersionFacts DEF Kinds
  <2> QED BY <1>0, <1>8, <2>1, <2>2, GestureTypes, FormStays, HurriedTypes DEF Check
<1> QED BY <1>1, <1>2, <1>3, <1>4, <1>5, <1>6, <1>7, <1>8 DEF User

-----------------------------------------------------------------------------
(***************************************************************************)
(* The server's steps keep the types.                                      *)
(***************************************************************************)
LEMMA RequestFacts ==
  ASSUME NEW r \in Request
  PROVE  /\ r.chain \in Nat /\ r.kind \in Kinds /\ r.about \in Version
         /\ r.text \in Version /\ r.calm \in BOOLEAN
         /\ r.about[1] \in Owner /\ r.about[2] \in Nat /\ r.text[1] \in Owner
BY VersionFacts DEF Request

LEMMA RepliesTypes ==
  ASSUME NetTypes, NEW r \in sent, NEW ok \in BOOLEAN, NEW n \in Nat,
         NEW names \in SUBSET Templates, Replies(r, ok, n, names)
  PROVE  sent' \subseteq Request /\ answers' \subseteq Answer
BY AnswerFacts DEF NetTypes, Replies

LEMMA WithTextTypes ==
  ASSUME NEW v \in Seq(Entry), NEW r \in Request
  PROVE  WithText(v, r) \in Seq(Entry)
<1>1. PICK e : e = [from |-> r.text[1], calm |-> r.calm]
  OBVIOUS
<1>2. e \in Entry
  BY <1>1, RequestFacts DEF Entry
<1>3. WithText(v, r) = v \/ WithText(v, r) = Append(v, e)
  BY <1>1 DEF WithText
<1> QED BY <1>2, <1>3

LEMMA RedirectsTypes ==
  ASSUME NetTypes, NEW r \in sent, NEW t \in Templates, Redirects(r, t)
  PROVE  sent' \subseteq Request /\ answers' \subseteq Answer
<1>1. r \in Request
  BY DEF NetTypes
<1>2. PICK q : q = [r EXCEPT !.kind = "saved", !.about = <<t, 0>>]
  OBVIOUS
<1>3. "saved" \in Kinds /\ <<t, 0>> \in Version
  BY VersionFacts DEF Kinds, FormKinds
<1>4. q \in Request
  BY <1>1, <1>2, <1>3 DEF Request
<1> QED BY <1>2, <1>4 DEF Redirects, NetTypes

LEMMA ConcludesTypes ==
  ASSUME NetTypes, NEW r \in sent, NEW t \in Templates, Concludes(r, t)
  PROVE  sent' \subseteq Request /\ answers' \subseteq Answer
<1>1. CASE Redirects(r, t)
  BY <1>1, RedirectsTypes
<1>2. CASE Replies(r, FALSE, 0, {})
  <2>1. {} \in SUBSET Templates
    OBVIOUS
  <2> QED BY <1>2, <2>1, RepliesTypes
<1> QED BY <1>1, <1>2 DEF Concludes

LEMMA ServeTypes ==
  ASSUME TypeOK, NEW r, Serve(r)
  PROVE  TypeOK'
<1>1. /\ FormTypes /\ ShownTypes /\ ServerTypes /\ NetTypes /\ r \in sent
      /\ r \in Request
  BY TypeParts DEF Serve, NetTypes
<1>2. FormTypes' /\ ShownTypes' /\ gestures' \in Nat /\ failures' \in Nat
  BY <1>1 DEF Serve, FormTypes, ShownTypes, NetTypes, form, shown, history
<1>3. \A t \in Templates : Len(saved[t]) \in Nat
  BY <1>1 DEF ServerTypes
<1>4. {} \in SUBSET Templates /\ 0 \in Nat
  OBVIOUS
<1>5. ServerTypes' /\ sent' \subseteq Request /\ answers' \subseteq Answer
  <2>1. CASE ServeShow(r)
    <3>1. ServerTypes'
      BY <1>1, <2>1 DEF ServeShow, server, ServerTypes
    <3>2. CASE Stored(r.about[1])
      <4>1. Len(saved[r.about[1]]) \in Nat
        BY <1>3, <3>2 DEF Stored
      <4>2. Replies(r, TRUE, Len(saved[r.about[1]]), {})
        BY <2>1, <3>2 DEF ServeShow
      <4> QED BY <1>1, <1>4, <3>1, <4>1, <4>2, RepliesTypes
    <3>3. CASE ~Stored(r.about[1])
      <4>1. Replies(r, FALSE, 0, {})
        BY <2>1, <3>3 DEF ServeShow
      <4> QED BY <1>1, <1>4, <3>1, <4>1, RepliesTypes
    <3> QED BY <3>2, <3>3
  <2>2. CASE ServeList(r)
    <3>1. PICK names \in SUBSET Templates : names = {t \in Templates : Stored(t)}
      OBVIOUS
    <3>2. ServerTypes' /\ Replies(r, TRUE, 0, names)
      BY <1>1, <2>2, <3>1 DEF ServeList, server, ServerTypes
    <3> QED BY <1>1, <3>2, RepliesTypes
  <2>3. CASE ServeSave(r)
    <3>1. PICK t \in Templates :
            /\ status' = [status EXCEPT ![t] = "stored"]
            /\ saved' = [saved EXCEPT ![t] = WithText(<< >>, r)]
            /\ Concludes(r, t)
      BY <2>3 DEF ServeSave
    <3>2. WithText(<< >>, r) \in Seq(Entry)
      <4>1. << >> \in Seq(Entry)
        OBVIOUS
      <4> QED BY <1>1, <4>1, WithTextTypes
    <3>3. ServerTypes'
      BY <1>1, <3>1, <3>2 DEF ServerTypes
    <3> QED BY <1>1, <3>1, <3>3, ConcludesTypes
  <2>4. CASE ServeUpdate(r)
    <3>1. PICK t \in Templates : t = r.about[1]
      BY <2>4 DEF ServeUpdate, Stored
    <3>2. WithText(saved[t], r) \in Seq(Entry)
      BY <1>1, WithTextTypes DEF ServerTypes
    <3>3. /\ saved' = [saved EXCEPT ![t] = WithText(saved[t], r)]
          /\ status' = status /\ Concludes(r, t)
      BY <2>4, <3>1 DEF ServeUpdate
    <3>4. ServerTypes'
      BY <1>1, <3>2, <3>3 DEF ServerTypes
    <3> QED BY <1>1, <3>3, <3>4, ConcludesTypes
  <2>5. CASE Refuse(r)
    <3>1. ServerTypes' /\ Replies(r, FALSE, 0, {})
      BY <1>1, <2>5 DEF Refuse, server, ServerTypes
    <3> QED BY <1>1, <1>4, <3>1, RepliesTypes
  <2>6. CASE ServeDelete(r)
    <3>1. PICK early \in SUBSET {q \in Reads : q.about[1] = r.about[1]} :
            /\ sent' = sent \ ({r} \cup early)
            /\ answers' = answers \cup {AnswerTo(r, Stored(r.about[1]), 0, {})}
                                  \cup {ReadBy(q) : q \in early}
      BY <2>6 DEF ServeDelete
    <3>2. early \subseteq Request
      BY <1>1 DEF Reads, NetTypes
    <3>3. Stored(r.about[1]) \in BOOLEAN
      BY DEF Stored
    <3>4. AnswerTo(r, Stored(r.about[1]), 0, {}) \in Answer
      BY <1>1, <3>3, AnswerFacts
    <3>5. \A q \in early : ReadBy(q) \in Answer
      BY <3>2, ReadByFacts
    <3>6. sent' \subseteq Request /\ answers' \subseteq Answer
      BY <1>1, <3>1, <3>4, <3>5 DEF NetTypes
    <3>7. ServerTypes'
      BY <1>1, <2>6 DEF ServeDelete, ServerTypes
    <3> QED BY <3>6, <3>7
  <2> QED BY <2>1, <2>2, <2>3, <2>4, <2>5, <2>6 DEF Serve
<1> QED BY <1>2, <1>5, TypeParts DEF NetTypes

LEMMA FailureTypes ==
  ASSUME TypeOK, (\E r \in sent : Fail(r)) \/ (\E a \in answers : LoseAnswer(a))
  PROVE  TypeOK'
<1>1. FormTypes /\ ShownTypes /\ ServerTypes /\ NetTypes
  BY TypeParts
<1>2. ASSUME NEW r \in sent, Fail(r) PROVE TypeOK'
  <2>1. sent' \subseteq Request /\ answers' \subseteq Answer
    <3>1. Replies(r, FALSE, 0, {}) /\ {} \in SUBSET Templates /\ 0 \in Nat
      BY <1>2 DEF Fail
    <3> QED BY <1>1, <1>2, <3>1, RepliesTypes
  <2>2. FormTypes' /\ ShownTypes' /\ ServerTypes'
    BY <1>1, <1>2 DEF Fail, FormTypes, ShownTypes, ServerTypes, form, shown, history, server
  <2>3. gestures' \in Nat /\ failures' \in Nat
    BY <1>1, <1>2 DEF Fail, NetTypes
  <2> QED BY <2>1, <2>2, <2>3, TypeParts DEF NetTypes
<1>3. ASSUME NEW a \in answers, LoseAnswer(a) PROVE TypeOK'
  <2>1. a.to \in Request
    BY <1>1 DEF NetTypes, Answer
  <2>2. AnswerTo(a.to, FALSE, 0, {}) \in Answer
    BY <2>1, AnswerFacts
  <2>3. sent' \subseteq Request /\ answers' \subseteq Answer
    BY <1>1, <1>3, <2>2 DEF LoseAnswer, NetTypes
  <2>4. FormTypes' /\ ShownTypes' /\ ServerTypes'
    BY <1>1, <1>3 DEF LoseAnswer, FormTypes, ShownTypes, ServerTypes, form, shown, history, server
  <2>5. gestures' \in Nat /\ failures' \in Nat
    BY <1>1, <1>3 DEF LoseAnswer, NetTypes
  <2> QED BY <2>3, <2>4, <2>5, TypeParts DEF NetTypes
<1> QED BY <1>2, <1>3

-----------------------------------------------------------------------------
(***************************************************************************)
(* The page's steps keep the types.                                        *)
(***************************************************************************)
\* The answers that may be delivered.
Deliverable == answers \cup {ReadBy(r) : r \in Reads}

LEMMA DeliverableFacts ==
  ASSUME NetTypes, NEW a \in Deliverable
  PROVE  /\ a \in Answer /\ a.to \in Request /\ a.upTo \in Nat
         /\ a.list \subseteq Templates
         /\ a \in answers \/ a.to \in Reads
         /\ a.to \in UnderWay
<1>1. CASE a \in answers
  BY <1>1 DEF NetTypes, Answer, UnderWay
<1>2. ASSUME NEW r \in Reads, a = ReadBy(r) PROVE a \in Answer /\ a.to = r /\ r \in sent
  <2>1. r \in Request /\ r \in sent
    BY DEF Reads, NetTypes
  <2> QED BY <1>2, <2>1, ReadByFacts
<1> QED BY <1>1, <1>2 DEF Deliverable, Answer, UnderWay

LEMMA TakesTypes ==
  ASSUME NetTypes, ServerTypes, NEW a, NEW more \in SUBSET Request, Takes(a, more)
  PROVE  NetTypes' /\ ServerTypes'
BY DEF NetTypes, ServerTypes, Takes, server

LEMMA FormOfTypes ==
  ASSUME FormTypes, NEW t \in Owner, NEW n \in Nat, FormOf(t, n),
         fileOf' = t \/ fileOf' = fileOf
  PROVE  FormTypes'
<1>1. <<t, n>> \in Version
  BY VersionFacts
<1> QED BY <1>1 DEF FormTypes, FormOf

LEMMA ListStays ==
  ASSUME ShownTypes, UNCHANGED <<list, listOn, history>>,
         inputs' \in BOOLEAN
  PROVE  ShownTypes'
BY DEF ShownTypes, history

LEMMA DeliverTypes ==
  ASSUME TypeOK, NEW a \in Deliverable, Deliver(a)
  PROVE  TypeOK'
<1>1. FormTypes /\ ShownTypes /\ ServerTypes /\ NetTypes
  BY TypeParts
<1>2. /\ a.to \in Request /\ a.upTo \in Nat /\ a.list \subseteq Templates
      /\ a.to.chain \in Nat /\ a.to.about \in Version /\ a.to.about[1] \in Owner
      /\ <<a.to.about[1], a.upTo>> \in Version
  BY <1>1, DeliverableFacts, RequestFacts, VersionFacts
<1>3. \A k \in {"version", "text", "comment", "list"} : k \in Kinds
  BY DEF Kinds, FormKinds
<1>4. \A more \in SUBSET Request : Takes(a, more) => NetTypes' /\ ServerTypes'
  BY <1>1, TakesTypes
<1>5. {} \in SUBSET Request /\ Blank \in Version
  BY VersionFacts
<1>6. CASE Described(a)
  <2>1. PICK q : q = Asks(a.to.chain, "version", <<a.to.about[1], a.upTo>>)
    OBVIOUS
  <2>2. q \in Request
    BY <1>2, <1>3, <2>1, AsksFacts
  <2>3. /\ Takes(a, {q}) /\ FormOf(a.to.about[1], a.upTo) /\ fileOf' = a.to.about[1]
        /\ inputs' = TRUE /\ UNCHANGED <<list, listOn, history>>
    BY <1>6, <2>1 DEF Described, Enable
  <2>4. FormTypes' /\ ShownTypes'
    BY <1>1, <1>2, <2>3, FormOfTypes, ListStays
  <2> QED BY <1>4, <2>2, <2>3, <2>4, TypeParts
<1>7. CASE SavedForm(a)
  <2>1. PICK q, l : /\ q = Asks(a.to.chain, "version", <<a.to.about[1], a.upTo>>)
                    /\ l = Asks(a.to.chain, "list", Blank)
    OBVIOUS
  <2>2. q \in Request /\ l \in Request
    BY <1>2, <1>3, <1>5, <2>1, AsksFacts
  <2>3. /\ Takes(a, {q, l}) /\ FormOf(a.to.about[1], a.upTo) /\ fileOf' = fileOf
        /\ inputs' = TRUE /\ listOn' = FALSE /\ UNCHANGED <<list, history>>
    BY <1>7, <2>1 DEF SavedForm, Enable
  <2>4. FormTypes' /\ ShownTypes'
    BY <1>1, <1>2, <2>3, FormOfTypes DEF ShownTypes, history
  <2> QED BY <1>4, <2>2, <2>3, <2>4, TypeParts
<1>8. CASE VersionFound(a)
  <2>1. PICK q, l : /\ q = Asks(a.to.chain, "text", a.to.about)
                    /\ l = Asks(a.to.chain, "comment", a.to.about)
    OBVIOUS
  <2>2. q \in Request /\ l \in Request
    BY <1>2, <1>3, <2>1, AsksFacts
  <2>3. Takes(a, {q, l}) /\ inputs' = TRUE /\ UNCHANGED <<form, list, listOn, history>>
    BY <1>8, <2>1 DEF VersionFound, Enable
  <2>4. FormTypes' /\ ShownTypes'
    BY <1>1, <2>3, FormStays, ListStays
  <2> QED BY <1>4, <2>2, <2>3, <2>4, TypeParts
<1>9. CASE TextLoaded(a)
  <2>1. FormTypes' /\ ShownTypes'
    BY <1>1, <1>2, <1>9, ListStays DEF TextLoaded, FormTypes, Enable
  <2> QED BY <1>4, <1>5, <1>9, <2>1, TypeParts DEF TextLoaded
<1>10. CASE CommentLoaded(a)
  <2>1. FormTypes' /\ ShownTypes'
    BY <1>1, <1>2, <1>10, ListStays DEF CommentLoaded, FormTypes, Enable
  <2> QED BY <1>4, <1>5, <1>10, <2>1, TypeParts DEF CommentLoaded
<1>11. CASE FileLoaded(a)
  <2>1. FormTypes' /\ ShownTypes'
    BY <1>1, <1>11, FormStays, ListStays DEF FileLoaded, Enable
  <2> QED BY <1>4, <1>5, <1>11, <2>1, TypeParts DEF FileLoaded
<1>12. CASE Removed(a)
  <2>1. PICK l : l = Asks(a.to.chain, "list", Blank)
    OBVIOUS
  <2>2. l \in Request
    BY <1>2, <1>3, <1>5, <2>1, AsksFacts
  <2>3. FormTypes' /\ ShownTypes'
    BY <1>1, <1>12, FormStays DEF Removed, Enable, ShownTypes, history
  <2> QED BY <1>4, <1>12, <2>1, <2>2, <2>3, TypeParts DEF Removed
<1>13. CASE ListLoaded(a)
  <2>1. FormTypes' /\ ShownTypes'
    BY <1>1, <1>2, <1>13, FormStays DEF ListLoaded, ShownTypes, history
  <2> QED BY <1>4, <1>5, <1>13, <2>1, TypeParts DEF ListLoaded
<1>14. CASE Checked(a)
  <2>1. inputs' \in BOOLEAN
    BY <1>1, <1>14 DEF Checked, ShownTypes
  <2>2. FormTypes' /\ ShownTypes'
    BY <1>1, <1>14, <2>1, FormStays, ListStays DEF Checked
  <2> QED BY <1>4, <1>5, <1>14, <2>2, TypeParts DEF Checked
<1>15. CASE Refused(a)
  <2>1. /\ Takes(a, {}) /\ suspect' = TRUE
        /\ inputs' = (inputs \/ a.to.kind # "check")
        /\ listLost' = (listLost \/ a.to.kind = "list")
        /\ UNCHANGED <<form, list, listOn>>
    BY <1>15 DEF Refused
  <2>2. inputs \in BOOLEAN /\ listLost \in BOOLEAN
    BY <1>1 DEF ShownTypes
  <2>3. inputs' \in BOOLEAN
    BY <2>1, <2>2, Zenon
  <2>4. listLost' \in BOOLEAN
    BY <2>1, <2>2, Zenon
  <2>5. FormTypes' /\ ShownTypes'
    BY <1>1, <2>1, <2>3, <2>4, FormStays DEF ShownTypes
  <2> QED BY <1>4, <1>5, <2>1, <2>5, TypeParts
<1> QED BY <1>6, <1>7, <1>8, <1>9, <1>10, <1>11, <1>12, <1>13, <1>14, <1>15 DEF Deliver

\* Every variable keeps its type: only versions of templates are ever shown,
\* asked for or stored.
THEOREM TypeCorrect == Spec => []TypeOK
<1>1. TypeOK /\ [Next]_vars => TypeOK'
  <2> SUFFICES ASSUME TypeOK, [Next]_vars PROVE TypeOK'
    OBVIOUS
  <2>1. CASE User
    BY <2>1, UserTypes
  <2>2. CASE Network
    BY <2>2, ServeTypes, FailureTypes, DeliverTypes DEF Network, Deliverable
  <2>3. CASE UNCHANGED vars
    BY <2>3 DEF TypeOK, vars, server, form, shown, net, history
  <2> QED BY <2>1, <2>2, <2>3 DEF Next
<1> QED BY <1>1, TypeInit, PTL DEF Spec

-----------------------------------------------------------------------------
(***************************************************************************)
(* The delete dialog.  What makes the button look enabled is the answer    *)
(* about a stored template.                                                *)
(***************************************************************************)
Describes(a) == a.ok /\ a.to.kind \in {"show", "saved"}

DescribedAreTemplates ==
  \A a \in answers : Describes(a) => a.to.about[1] \in Templates

DialogInv == DescribedAreTemplates /\ DialogMatchesForm

DialogVars == <<removable, removeOf, target>>

LEMMA ServeKeepsDescribed ==
  ASSUME TypeOK, DialogInv, NEW r, Serve(r)
  PROVE  DialogInv'
<1>1. r \in Request /\ r \in sent /\ NetTypes
  BY TypeParts DEF Serve, NetTypes
<1>2. DialogMatchesForm'
  BY DEF Serve, form, DialogInv, DialogMatchesForm
<1>3. ASSUME NEW ok \in BOOLEAN, NEW n, NEW names, Replies(r, ok, n, names),
             ok => r.about[1] \in Templates \/ r.kind \notin {"show", "saved"}
      PROVE  DescribedAreTemplates'
  <2>1. PICK b : b = AnswerTo(r, ok, n, names)
    OBVIOUS
  <2>2. answers' = answers \cup {b} /\ b.to = r /\ b.ok = ok
    BY <1>3, <2>1 DEF Replies, AnswerTo
  <2> QED BY <1>3, <2>2 DEF DialogInv, DescribedAreTemplates, Describes
<1>4. DescribedAreTemplates'
  <2>1. CASE ServeShow(r)
    BY <1>3, <2>1 DEF ServeShow, Stored
  <2>2. CASE ServeList(r)
    BY <1>3, <2>2 DEF ServeList
  <2>3. CASE ServeSave(r) \/ ServeUpdate(r)
    <3>1. PICK t : Redirects(r, t) \/ Replies(r, FALSE, 0, {})
      BY <2>3 DEF ServeSave, ServeUpdate, Concludes
    <3>2. CASE Redirects(r, t)
      BY <3>2 DEF Redirects, DialogInv, DescribedAreTemplates
    <3> QED BY <1>3, <3>1, <3>2
  <2>4. CASE Refuse(r)
    BY <1>3, <2>4 DEF Refuse
  <2>5. CASE ServeDelete(r)
    <3>1. PICK early \in SUBSET Reads :
            answers' = answers \cup {AnswerTo(r, Stored(r.about[1]), 0, {})}
                               \cup {ReadBy(q) : q \in early}
      BY <2>5 DEF ServeDelete
    <3>2. ASSUME NEW q \in early PROVE ~Describes(ReadBy(q))
      <4>1. q \in Request /\ q.kind \notin {"show", "saved"}
        BY <1>1 DEF Reads, NetTypes
      <4> QED BY <4>1, ReadByFacts DEF Describes
    <3>3. ~Describes(AnswerTo(r, Stored(r.about[1]), 0, {}))
      BY <2>5 DEF ServeDelete, Describes, AnswerTo
    <3> QED BY <3>1, <3>2, <3>3 DEF DialogInv, DescribedAreTemplates
  <2> QED BY <2>1, <2>2, <2>3, <2>4, <2>5 DEF Serve
<1> QED BY <1>2, <1>4 DEF DialogInv

LEMMA DialogNext ==
  ASSUME TypeOK, DialogInv, [Next]_vars
  PROVE  DialogInv'
<1>1. ASSUME answers' = answers, UNCHANGED DialogVars \/ removable' = FALSE
      PROVE  DialogInv'
  BY <1>1 DEF DialogInv, DescribedAreTemplates, DialogMatchesForm, DialogVars
<1>2. CASE User
  <2>1. answers' = answers
    BY <1>2 DEF User, Choose, ChooseVersion, TypeText, Submit, Cancel, Remove, ShowFile,
                Check, Gesture, net
  <2>2. UNCHANGED DialogVars \/ removable' = FALSE
    BY <1>2 DEF User, Choose, ChooseVersion, TypeText, Submit, Cancel, Remove, ShowFile,
                Check, ClearForm, form, DialogVars
  <2> QED BY <1>1, <2>1, <2>2
<1>3. ASSUME NEW r \in sent, Serve(r) PROVE DialogInv'
  BY <1>3, ServeKeepsDescribed
<1>4. CASE (\E r \in sent : Fail(r)) \/ (\E a \in answers : LoseAnswer(a))
  <2>1. PICK b : ~b.ok /\ answers' \subseteq answers \cup {b}
    <3>1. ASSUME NEW r \in sent, Fail(r) PROVE \E b : ~b.ok /\ answers' \subseteq answers \cup {b}
      BY <3>1 DEF Fail, Replies, AnswerTo
    <3>2. ASSUME NEW a \in answers, LoseAnswer(a)
          PROVE \E b : ~b.ok /\ answers' \subseteq answers \cup {b}
      BY <3>2 DEF LoseAnswer, AnswerTo
    <3> QED BY <1>4, <3>1, <3>2
  <2>2. UNCHANGED DialogVars
    BY <1>4 DEF Fail, LoseAnswer, form, DialogVars
  <2> QED BY <2>1, <2>2
      DEF DialogInv, DescribedAreTemplates, Describes, DialogMatchesForm, DialogVars
<1>5. ASSUME NEW a \in Deliverable, Deliver(a) PROVE DialogInv'
  <2>1. answers' \subseteq answers
    BY <1>5 DEF Deliver, Takes, Described, SavedForm, VersionFound, TextLoaded,
                CommentLoaded, FileLoaded, Removed, ListLoaded, Checked, Refused
  <2>2. CASE Described(a) \/ SavedForm(a)
    <3>1. Describes(a) /\ FormOf(a.to.about[1], a.upTo)
      BY <2>2 DEF Describes, Described, SavedForm
    <3>2. a \in answers
      BY <3>1, TypeParts, DeliverableFacts DEF Describes, Reads
    <3>3. a.to.about[1] \in Templates
      BY <3>1, <3>2 DEF DialogInv, DescribedAreTemplates
    <3> QED BY <2>1, <3>1, <3>3, NobodyIsNoTemplate
        DEF DialogInv, DescribedAreTemplates, DialogMatchesForm, FormOf
  <2>3. CASE ~(Described(a) \/ SavedForm(a))
    <3>1. UNCHANGED DialogVars
      BY <1>5, <2>3 DEF Deliver, VersionFound, TextLoaded, CommentLoaded, FileLoaded,
                        Removed, ListLoaded, Checked, Refused, form, DialogVars
    <3> QED BY <2>1, <3>1 DEF DialogInv, DescribedAreTemplates, DialogMatchesForm, DialogVars
  <2> QED BY <2>2, <2>3
<1>6. CASE UNCHANGED vars
  BY <1>1, <1>6 DEF vars, net, form, DialogVars
<1> QED BY <1>2, <1>3, <1>4, <1>5, <1>6 DEF Next, Network, Deliverable

\* In whatever order answers come, and however many templates are asked for at
\* once, an enabled delete button removes the template the form shows.
THEOREM DialogAlwaysMatches == Spec => []DialogMatchesForm
<1>1. Init => DialogInv
  BY DEF Init, DialogInv, DescribedAreTemplates, DialogMatchesForm
<1>2. TypeOK /\ DialogInv /\ [Next]_vars => DialogInv'
  BY DialogNext
<1>3. DialogInv => DialogMatchesForm
  BY DEF DialogInv
<1> QED BY <1>1, <1>2, <1>3, TypeCorrect, PTL DEF Spec

-----------------------------------------------------------------------------
(***************************************************************************)
(* Waiting.  A request stays under way, as sent or as an answer, until its *)
(* answer is taken; the handler of every kind then enables what that kind  *)
(* disabled.                                                               *)
(***************************************************************************)
\* Requests under way stay so, or become the ones that redirects lead to.
LEMMA ServeKeepsUnderWay ==
  ASSUME TypeOK, NEW r, Serve(r), NEW q \in UnderWay
  PROVE  \E p \in UnderWay' : \/ p.kind = q.kind
                              \/ p.kind \in FormKinds /\ q.kind \in FormKinds
<1>1. q \in sent \/ \E a \in answers : a.to = q
  BY DEF UnderWay
<1>2. r \in sent /\ NetTypes
  BY TypeParts DEF Serve
<1>3. CASE \E a \in answers : a.to = q
  <2>1. answers \subseteq answers'
    BY DEF Serve, ServeShow, ServeList, ServeSave, ServeUpdate, Refuse, ServeDelete,
           Concludes, Replies, Redirects
  <2> QED BY <1>3, <2>1 DEF UnderWay
<1>4. CASE q \in sent
  <2>1. ASSUME NEW b \in answers', b.to = q PROVE q \in UnderWay'
    BY <2>1 DEF UnderWay
  <2>2. ASSUME NEW ok, NEW n, NEW names, Replies(r, ok, n, names) PROVE q \in UnderWay'
    <3>1. CASE q # r
      BY <1>4, <2>2, <3>1 DEF Replies, UnderWay
    <3>2. CASE q = r
      <4>1. PICK b : b = AnswerTo(r, ok, n, names)
        OBVIOUS
      <4>2. b \in answers' /\ b.to = r
        BY <2>2, <4>1 DEF Replies, AnswerTo
      <4> QED BY <2>1, <3>2, <4>2
    <3> QED BY <3>1, <3>2
  <2>3. CASE ServeShow(r) \/ ServeList(r) \/ Refuse(r)
    BY <2>2, <2>3 DEF ServeShow, ServeList, Refuse
  <2>4. CASE ServeSave(r) \/ ServeUpdate(r)
    <3>1. PICK t : Redirects(r, t) \/ Replies(r, FALSE, 0, {})
      BY <2>4 DEF ServeSave, ServeUpdate, Concludes
    <3>2. r.kind \in FormKinds
      BY <2>4 DEF ServeSave, ServeUpdate, FormKinds
    <3>3. CASE Redirects(r, t) /\ q # r
      BY <1>4, <3>3 DEF Redirects, UnderWay
    <3>4. CASE Redirects(r, t) /\ q = r
      <4>1. PICK p : p = [r EXCEPT !.kind = "saved", !.about = <<t, 0>>]
        OBVIOUS
      <4>2. r \in Request
        BY <1>2 DEF NetTypes
      <4>3. p.kind = "saved" /\ p.kind \in FormKinds
        BY <4>1, <4>2 DEF Request, FormKinds
      <4>4. p \in UnderWay'
        BY <3>4, <4>1 DEF Redirects, UnderWay
      <4> QED BY <3>2, <3>4, <4>3, <4>4
    <3> QED BY <2>2, <3>1, <3>3, <3>4
  <2>5. CASE ServeDelete(r)
    <3>1. PICK early \in SUBSET Reads :
            /\ sent' = sent \ ({r} \cup early)
            /\ answers' = answers \cup {AnswerTo(r, Stored(r.about[1]), 0, {})}
                                  \cup {ReadBy(p) : p \in early}
      BY <2>5 DEF ServeDelete
    <3>2. CASE q = r
      <4>1. PICK b : b = AnswerTo(r, Stored(r.about[1]), 0, {})
        OBVIOUS
      <4>2. b \in answers' /\ b.to = r
        BY <3>1, <4>1 DEF AnswerTo
      <4> QED BY <2>1, <3>2, <4>2
    <3>3. CASE q \in early
      <4>1. q \in Request
        BY <1>2, <1>4 DEF NetTypes
      <4>2. ReadBy(q) \in answers' /\ ReadBy(q).to = q
        BY <3>1, <3>3, <4>1, ReadByFacts
      <4> QED BY <2>1, <4>2
    <3>4. CASE q # r /\ q \notin early
      BY <1>4, <3>1, <3>4 DEF UnderWay
    <3> QED BY <3>2, <3>3, <3>4
  <2> QED BY <2>3, <2>4, <2>5 DEF Serve
<1> QED BY <1>1, <1>3, <1>4

LEMMA TakesKeepsOthers ==
  ASSUME NEW a, NEW more, Takes(a, more)
  PROVE  /\ \A q \in UnderWay : q = a.to \/ q \in UnderWay'
         /\ more \subseteq UnderWay'
BY DEF Takes, UnderWay

FormWaits == \E r \in UnderWay : r.kind \in FormKinds
ListWaits == \E r \in UnderWay : r.kind = "list"

LEMMA WaitingParts ==
  /\ DisabledMeansWaiting <=>
       (~inputs => FormWaits) /\ (~listOn => listLost \/ ListWaits)
  /\ DisabledMeansWaiting' <=>
       (~inputs' => FormWaits') /\ (~listOn' => listLost' \/ ListWaits')
BY DEF DisabledMeansWaiting, FormWaits, ListWaits

\* What only adds requests, or moves them along, takes nothing away.
LEMMA WaitingStays ==
  ASSUME DisabledMeansWaiting,
         \A q \in UnderWay : \E p \in UnderWay' :
           p.kind = q.kind \/ (p.kind \in FormKinds /\ q.kind \in FormKinds),
         UNCHANGED <<listOn, listLost>>, inputs' = inputs \/ FormWaits'
  PROVE  DisabledMeansWaiting'
<1>1. FormWaits => FormWaits'
  BY DEF FormWaits
<1>2. ListWaits => ListWaits'
  BY DEF ListWaits, FormKinds
<1> QED BY <1>1, <1>2, WaitingParts

LEMMA UserWaits ==
  ASSUME TypeOK, DisabledMeansWaiting, User
  PROVE  DisabledMeansWaiting'
<1>1. UNCHANGED <<answers, listOn, listLost>>
  BY DEF User, Choose, ChooseVersion, TypeText, Submit, Cancel, Remove, ShowFile,
         Check, Gesture, shown, net, history
<1>2. sent \subseteq sent'
  BY DEF User, Choose, ChooseVersion, TypeText, Submit, Cancel, Remove, ShowFile, Check, net
<1>3. UnderWay \subseteq UnderWay'
  BY <1>1, <1>2 DEF UnderWay
<1>4. ASSUME NEW r \in sent', r.kind \in FormKinds PROVE FormWaits'
  BY <1>4 DEF FormWaits, UnderWay
<1>5. inputs' = inputs \/ FormWaits'
  <2>0. ASSUME NEW c, NEW k \in FormKinds, NEW v, sent' = sent \cup {Asks(c, k, v)}
        PROVE  FormWaits'
    <3>1. PICK r : r = Asks(c, k, v)
      OBVIOUS
    <3>2. r.kind = k
      BY <3>1 DEF Asks
    <3> QED BY <1>4, <2>0, <3>1, <3>2
  <2> "show" \in FormKinds /\ "version" \in FormKinds /\ "delete" \in FormKinds
      /\ "file" \in FormKinds
    BY DEF FormKinds
  <2>1. ASSUME NEW t, Choose(t) PROVE FormWaits'
    BY <2>0, <2>1 DEF Choose
  <2>2. ASSUME NEW n, ChooseVersion(n) PROVE FormWaits'
    BY <2>0, <2>2 DEF ChooseVersion
  <2>3. CASE Submit
    <3>1. PICK r : r = [chain |-> gestures + 1, kind |-> IF target = Nobody THEN "save" ELSE "update",
                        about |-> <<target, 0>>, text |-> text, calm |-> ~suspect']
      OBVIOUS
    <3>2. r.kind \in FormKinds
      BY <3>1 DEF FormKinds
    <3> QED BY <1>4, <2>3, <3>1, <3>2 DEF Submit
  <2>4. CASE Remove
    BY <2>0, <2>4 DEF Remove
  <2>5. CASE ShowFile
    BY <2>0, <2>5 DEF ShowFile
  <2>6. CASE TypeText \/ Cancel \/ Check
    BY <2>6 DEF TypeText, Cancel, Check, shown
  <2> QED BY <2>1, <2>2, <2>3, <2>4, <2>5, <2>6 DEF User
<1> QED BY <1>1, <1>3, <1>5, WaitingStays

LEMMA NetworkWaits ==
  ASSUME TypeOK, DisabledMeansWaiting, NEW r \in sent, Serve(r) \/ Fail(r)
  PROVE  DisabledMeansWaiting'
<1>1. UNCHANGED <<inputs, listOn, listLost>>
  BY DEF Serve, Fail, shown, history
<1>2. ASSUME NEW q \in UnderWay
      PROVE  \E p \in UnderWay' :
               p.kind = q.kind \/ (p.kind \in FormKinds /\ q.kind \in FormKinds)
  <2>1. CASE Serve(r)
    BY <1>2, <2>1, ServeKeepsUnderWay
  <2>2. CASE Fail(r)
    <3>1. PICK b : b = AnswerTo(r, FALSE, 0, {})
      OBVIOUS
    <3>2. b.to = r /\ answers' = answers \cup {b} /\ sent' = sent \ {r}
      BY <2>2, <3>1 DEF Fail, Replies, AnswerTo
    <3> QED BY <3>2 DEF UnderWay
  <2> QED BY <2>1, <2>2
<1> QED BY <1>1, <1>2, WaitingStays

LEMMA LossWaits ==
  ASSUME TypeOK, DisabledMeansWaiting, NEW a \in answers, LoseAnswer(a)
  PROVE  DisabledMeansWaiting'
<1>1. UNCHANGED <<inputs, listOn, listLost, sent>>
  BY DEF LoseAnswer, shown, history
<1>2. PICK b : b = AnswerTo(a.to, FALSE, 0, {})
  OBVIOUS
<1>3. b.to = a.to /\ answers' = (answers \ {a}) \cup {b}
  BY <1>2 DEF LoseAnswer, AnswerTo
<1>4. \A q \in UnderWay : q \in UnderWay'
  BY <1>1, <1>3 DEF UnderWay
<1> QED BY <1>1, <1>4, WaitingStays

LEMMA DeliverWaits ==
  ASSUME TypeOK, DisabledMeansWaiting, NEW a \in Deliverable, Deliver(a)
  PROVE  DisabledMeansWaiting'
<1>1. ASSUME NEW more, Takes(a, more), a.to.kind # "list", UNCHANGED <<listOn, listLost>>
      PROVE  ~listOn' => listLost' \/ ListWaits'
  BY <1>1, TakesKeepsOthers DEF DisabledMeansWaiting, ListWaits
<1>2. ASSUME NEW more, Takes(a, more), a.to.kind \notin FormKinds, inputs' = inputs
      PROVE  ~inputs' => FormWaits'
  BY <1>2, TakesKeepsOthers DEF DisabledMeansWaiting, FormWaits
<1>3. CASE Described(a) \/ VersionFound(a)
  <2>1. PICK more : Takes(a, more)
    BY <1>3 DEF Described, VersionFound
  <2>2. a.to.kind # "list" /\ UNCHANGED <<listOn, listLost>> /\ inputs' = TRUE
    BY <1>3 DEF Described, VersionFound, Enable, history
  <2> QED BY <1>1, <2>1, <2>2, WaitingParts
<1>4. CASE SavedForm(a) \/ Removed(a)
  <2>1. PICK more, chain : Takes(a, more) /\ Asks(chain, "list", Blank) \in more
    BY <1>4 DEF SavedForm, Removed
  <2>2. PICK l : l = Asks(chain, "list", Blank)
    OBVIOUS
  <2>3. l.kind = "list" /\ l \in UnderWay'
    BY <2>1, <2>2, TakesKeepsOthers DEF Asks
  <2>4. ListWaits' /\ inputs' = TRUE
    BY <1>4, <2>3 DEF ListWaits, SavedForm, Removed, Enable
  <2> QED BY <2>4, WaitingParts
<1>5. CASE TextLoaded(a) \/ CommentLoaded(a) \/ FileLoaded(a)
  <2>1. /\ Takes(a, {}) /\ a.to.kind # "list" /\ UNCHANGED <<listOn, listLost>>
        /\ inputs' = TRUE
    BY <1>5 DEF TextLoaded, CommentLoaded, FileLoaded, Enable, history
  <2> QED BY <1>1, <2>1, WaitingParts
<1>6. CASE ListLoaded(a)
  <2>1. /\ Takes(a, {}) /\ a.to.kind \notin FormKinds /\ listOn' = TRUE
        /\ inputs' = inputs
    BY <1>6 DEF ListLoaded, FormKinds
  <2> QED BY <1>2, <2>1, WaitingParts
<1>7. CASE Checked(a)
  <2>1. /\ Takes(a, {}) /\ a.to.kind \notin FormKinds /\ a.to.kind # "list"
        /\ UNCHANGED <<inputs, listOn, listLost>>
    BY <1>7 DEF Checked, FormKinds, history
  <2> QED BY <1>1, <1>2, <2>1, WaitingParts
<1>8. CASE Refused(a)
  <2>1. /\ Takes(a, {}) /\ listOn' = listOn
        /\ inputs' = (inputs \/ a.to.kind # "check")
        /\ listLost' = (listLost \/ a.to.kind = "list")
    BY <1>8 DEF Refused
  <2>2. ~inputs' => FormWaits'
    <3>1. CASE a.to.kind # "check"
      BY <2>1, <3>1
    <3>2. CASE a.to.kind = "check"
      <4>1. a.to.kind \notin FormKinds /\ (inputs' <=> inputs)
        BY <2>1, <3>2 DEF FormKinds
      <4> QED BY <2>1, <4>1, TakesKeepsOthers DEF DisabledMeansWaiting, FormWaits
    <3> QED BY <3>1, <3>2
  <2>3. ~listOn' => listLost' \/ ListWaits'
    <3>1. CASE a.to.kind = "list"
      BY <2>1, <3>1
    <3>2. CASE a.to.kind # "list"
      BY <2>1, <3>2, TakesKeepsOthers DEF DisabledMeansWaiting, ListWaits
    <3> QED BY <3>1, <3>2
  <2> QED BY <2>1, <2>2, <2>3, WaitingParts
<1> QED BY <1>3, <1>4, <1>5, <1>6, <1>7, <1>8 DEF Deliver

\* The page never disables what no answer will enable, except for a list whose
\* request failed: the handlers of every kind, also those of errors and those
\* of requests that overlapped with others, keep count together.
THEOREM DisabledAlwaysWaits == Spec => []DisabledMeansWaiting
<1>1. Init => DisabledMeansWaiting
  BY DEF Init, DisabledMeansWaiting
<1>2. TypeOK /\ DisabledMeansWaiting /\ [Next]_vars => DisabledMeansWaiting'
  <2> SUFFICES ASSUME TypeOK, DisabledMeansWaiting, [Next]_vars
               PROVE  DisabledMeansWaiting'
    OBVIOUS
  <2>1. CASE User
    BY <2>1, UserWaits
  <2>2. CASE Network
    BY <2>2, NetworkWaits, LossWaits, DeliverWaits DEF Network, Deliverable
  <2>3. CASE UNCHANGED vars
    BY <2>3 DEF DisabledMeansWaiting, UnderWay, vars, net, shown, history
  <2> QED BY <2>1, <2>2, <2>3 DEF Next
<1> QED BY <1>1, <1>2, TypeCorrect, PTL DEF Spec

-----------------------------------------------------------------------------
(***************************************************************************)
(* The form at rest.  While no gesture was hasty and no answer an error,   *)
(* the requests under way are those of one chain, at most one of a kind    *)
(* that changes the form beyond one of its parts, and what a part still    *)
(* lacks is what such a request asks for.                                  *)
(***************************************************************************)
\* The answer to a request is one, and comes when it is no longer under way.
AnsweredOnce ==
  \A a \in answers : a.to \notin sent /\ \A b \in answers : a.to = b.to => a = b

\* Kinds of requests that are under way alone.
SoleKinds == {"show", "save", "update", "saved", "delete"}

OneChain ==
  \A r, q \in UnderWay :
    /\ r.kind \in SoleKinds => q = r
    /\ r.kind = "version" => q = r \/ q.kind = "list"

AsksForChosen ==
  \A r \in UnderWay :
    r.kind \in {"version", "text", "comment"} => r.about = chosen /\ target # Nobody

SavesWhatIsShown ==
  \A r \in UnderWay :
    /\ r.kind = "save" => fileOf = Nobody
    /\ r.kind \in {"update", "saved"} => fileOf \in {r.about[1], Nobody}

HeadIsWhole ==
  IF target = Nobody
    THEN newest = Blank /\ fileOf = Nobody /\ ~removable
    ELSE chosen[1] = target /\ newest[1] = target /\ fileOf \in {target, Nobody}

TextFits == IF target = Nobody THEN text \in {Blank, Typed} ELSE text = chosen
CommentFits == IF target = Nobody THEN placeholder = Blank ELSE placeholder = chosen

Brings(kind) == \E r \in UnderWay : r.kind \in {"show", "version", kind}

CalmInv ==
  /\ AnsweredOnce /\ OneChain /\ AsksForChosen /\ SavesWhatIsShown /\ HeadIsWhole
  /\ TextFits \/ Brings("text")
  /\ CommentFits \/ Brings("comment")

\* What was submitted calmly is the form's own.
CalmSubmits ==
  \A r \in sent :
    r.kind \in {"save", "update"} /\ r.calm =>
      r.text[1] = IF r.kind = "save" THEN Nobody ELSE r.about[1]

-----------------------------------------------------------------------------
(***************************************************************************)
(* What the steps do to the requests under way.                            *)
(***************************************************************************)
LEMMA AsksFields ==
  ASSUME NEW c, NEW k, NEW v
  PROVE  Asks(c, k, v).kind = k /\ Asks(c, k, v).about = v
BY DEF Asks

LEMMA RepliesUnderWay ==
  ASSUME NEW r \in sent, NEW ok, NEW n, NEW names, Replies(r, ok, n, names),
         AnsweredOnce
  PROVE  UnderWay' = UnderWay /\ AnsweredOnce'
<1>1. PICK b : b = AnswerTo(r, ok, n, names)
  OBVIOUS
<1>2. b.to = r /\ sent' = sent \ {r} /\ answers' = answers \cup {b}
  BY <1>1 DEF Replies, AnswerTo
<1>3. UnderWay' = UnderWay
  BY <1>2 DEF UnderWay
<1>4. AnsweredOnce'
  BY <1>2 DEF AnsweredOnce
<1> QED BY <1>3, <1>4

LEMMA DeleteUnderWay ==
  ASSUME NetTypes, NEW r \in sent, ServeDelete(r), AnsweredOnce
  PROVE  UnderWay' = UnderWay /\ AnsweredOnce'
<1>1. PICK early \in SUBSET {q \in Reads : q.about[1] = r.about[1]} :
        /\ sent' = sent \ ({r} \cup early)
        /\ answers' = answers \cup {AnswerTo(r, Stored(r.about[1]), 0, {})}
                              \cup {ReadBy(q) : q \in early}
  BY DEF ServeDelete
<1>2. PICK b : b = AnswerTo(r, Stored(r.about[1]), 0, {})
  OBVIOUS
<1>3. b.to = r
  BY <1>2 DEF AnswerTo
<1>4. early \subseteq sent /\ r \notin early
  BY DEF Reads, ServeDelete
<1>5. \A q \in early : ReadBy(q).to = q
  BY <1>4, ReadByFacts DEF NetTypes
<1>6. UnderWay' = UnderWay
  <2>1. UnderWay' \subseteq UnderWay
    BY <1>1, <1>2, <1>3, <1>4, <1>5 DEF UnderWay
  <2>2. ASSUME NEW q \in UnderWay PROVE q \in UnderWay'
    <3>1. CASE q = r
      BY <1>1, <1>2, <1>3, <3>1 DEF UnderWay
    <3>2. CASE q \in early
      <4>1. ReadBy(q) \in answers' /\ ReadBy(q).to = q
        BY <1>1, <1>5, <3>2
      <4> QED BY <4>1 DEF UnderWay
    <3>3. CASE q # r /\ q \notin early
      BY <1>1, <3>3 DEF UnderWay
    <3> QED BY <3>1, <3>2, <3>3
  <2> QED BY <2>1, <2>2
<1>7. AnsweredOnce'
  <2>1. ASSUME NEW x \in answers'
        PROVE  \/ x \in answers /\ x.to \notin sent
               \/ x = b /\ x.to = r
               \/ \E q \in early : x = ReadBy(q) /\ x.to = q
    BY <1>1, <1>2, <1>3, <1>5 DEF AnsweredOnce
  <2>2. ASSUME NEW x \in answers' PROVE x.to \notin sent'
    BY <1>1, <2>1
  <2>3. ASSUME NEW x \in answers', NEW y \in answers', x.to = y.to PROVE x = y
    <3>1. CASE x \in answers /\ x.to \notin sent
      BY <1>4, <2>1, <2>3, <3>1 DEF AnsweredOnce
    <3>2. CASE x = b /\ x.to = r
      BY <1>4, <2>1, <2>3, <3>2
    <3>3. ASSUME NEW q \in early, x = ReadBy(q), x.to = q PROVE x = y
      BY <1>4, <2>1, <2>3, <3>3
    <3> QED BY <2>1, <3>1, <3>2, <3>3
  <2> QED BY <2>2, <2>3 DEF AnsweredOnce
<1> QED BY <1>6, <1>7

LEMMA SoleMeansAlone ==
  ASSUME OneChain, NEW r \in UnderWay, r.kind \in SoleKinds
  PROVE  UnderWay = {r}
BY DEF OneChain

LEMMA RedirectsUnderWay ==
  ASSUME NetTypes, NEW r \in sent, r.kind \in SoleKinds, AnsweredOnce, OneChain,
         NEW t, Redirects(r, t)
  PROVE  \E p : /\ p.kind = "saved" /\ p.about = <<t, 0>>
                /\ sent' = {p} /\ answers' = {} /\ UnderWay' = {p}
<1>1. UnderWay = {r}
  BY SoleMeansAlone DEF UnderWay
<1>2. sent = {r} /\ answers = {}
  BY <1>1 DEF UnderWay, AnsweredOnce
<1>3. PICK p : p = [r EXCEPT !.kind = "saved", !.about = <<t, 0>>]
  OBVIOUS
<1>4. p.kind = "saved" /\ p.about = <<t, 0>>
  <2>1. r \in Request
    BY DEF NetTypes
  <2> QED BY <1>3, <2>1 DEF Request
<1>5. sent' = {p} /\ answers' = {}
  BY <1>2, <1>3 DEF Redirects
<1> QED BY <1>4, <1>5 DEF UnderWay

LEMMA LossUnderWay ==
  ASSUME NEW a \in answers, LoseAnswer(a), AnsweredOnce
  PROVE  UnderWay' = UnderWay /\ AnsweredOnce'
<1>1. PICK b : b = AnswerTo(a.to, FALSE, 0, {})
  OBVIOUS
<1>2. b.to = a.to /\ answers' = (answers \ {a}) \cup {b} /\ sent' = sent
  BY <1>1 DEF LoseAnswer, AnswerTo
<1> QED BY <1>2 DEF UnderWay, AnsweredOnce

\* The answer taken is gone, and what its handler asks for is under way.
LEMMA TakesUnderWay ==
  ASSUME NetTypes, AnsweredOnce, NEW a \in Deliverable, NEW more, Takes(a, more)
  PROVE  /\ UnderWay' = (UnderWay \ {a.to}) \cup more
         /\ (UnderWay \ {a.to}) \cap more = {} => AnsweredOnce'
<1>1. a \in answers \/ a.to \in sent
  BY DeliverableFacts DEF Reads
<1>2. \A b \in answers' : b \in answers /\ b.to \in UnderWay \ {a.to}
  BY <1>1 DEF Takes, AnsweredOnce, UnderWay
<1>3. \A b \in answers : b = a \/ b \in answers'
  BY DEF Takes
<1>4. sent' = (sent \ {a.to}) \cup more
  BY DEF Takes
<1>5. UnderWay' = (UnderWay \ {a.to}) \cup more
  BY <1>2, <1>3, <1>4 DEF UnderWay
<1>6. ASSUME (UnderWay \ {a.to}) \cap more = {} PROVE AnsweredOnce'
  BY <1>2, <1>4, <1>6 DEF AnsweredOnce
<1> QED BY <1>5, <1>6

-----------------------------------------------------------------------------
(***************************************************************************)
(* Steps that leave the form alone, or change one part of it.              *)
(***************************************************************************)
\* What only the form, its version and the requests under way decide.
HeadInv == OneChain /\ AsksForChosen /\ SavesWhatIsShown /\ HeadIsWhole

LEMMA CalmParts ==
  /\ CalmInv <=> /\ AnsweredOnce /\ HeadInv
                 /\ TextFits \/ Brings("text")
                 /\ CommentFits \/ Brings("comment")
  /\ CalmInv' <=> /\ AnsweredOnce' /\ HeadInv'
                  /\ TextFits' \/ Brings("text")'
                  /\ CommentFits' \/ Brings("comment")'
BY DEF CalmInv, HeadInv

LEMMA FewerKeepHead ==
  ASSUME HeadInv, UnderWay' \subseteq UnderWay,
         UNCHANGED <<target, newest, chosen, fileOf, removable>>
  PROVE  HeadInv'
<1>1. OneChain'
  BY DEF HeadInv, OneChain
<1>2. AsksForChosen'
  BY DEF HeadInv, AsksForChosen
<1>3. SavesWhatIsShown'
  BY DEF HeadInv, SavesWhatIsShown
<1>4. HeadIsWhole'
  BY DEF HeadInv, HeadIsWhole
<1> QED BY <1>1, <1>2, <1>3, <1>4 DEF HeadInv

LEMMA SameKeepsCalm ==
  ASSUME CalmInv, AnsweredOnce', UnderWay' = UnderWay, UNCHANGED form
  PROVE  CalmInv'
<1>1. HeadInv'
  BY CalmParts, FewerKeepHead DEF form
<1>2. (TextFits => TextFits') /\ (CommentFits => CommentFits')
  BY DEF TextFits, CommentFits, form
<1>3. (Brings("text") => Brings("text")') /\ (Brings("comment") => Brings("comment")')
  BY DEF Brings
<1> QED BY <1>1, <1>2, <1>3, CalmParts

\* An answer is taken that brings no part: the parts a request still brings
\* are those it brought before.
LEMMA TakenOtherStaysBrought ==
  ASSUME NEW a, UnderWay' = UnderWay \ {a.to}, NEW k,
         a.to.kind \notin {"show", "version", k}, Brings(k)
  PROVE  Brings(k)'
BY DEF Brings

LEMMA AloneKeepsOnce ==
  ASSUME NEW p, sent' = {p}, answers' = {}
  PROVE  UnderWay' = {p} /\ AnsweredOnce' /\ OneChain'
<1>1. UnderWay' = {p}
  BY DEF UnderWay
<1> QED BY <1>1 DEF AnsweredOnce, OneChain

LEMMA BringsSole ==
  ASSUME NEW p, p.kind \in {"show", "version"}, p \in UnderWay'
  PROVE  Brings("text")' /\ Brings("comment")'
BY DEF Brings

-----------------------------------------------------------------------------
(***************************************************************************)
(* What the user does.                                                     *)
(***************************************************************************)
LEMMA CalmlyAtRest ==
  ASSUME CalmInv, UnderWay = {}
  PROVE  sent = {} /\ answers = {} /\ TextFits /\ CommentFits
BY DEF CalmInv, UnderWay, Brings

LEMMA HurriedCalm ==
  ASSUME TypeOK, Hurried, ~suspect'
  PROVE  ~suspect /\ UnderWay = {}
<1>1. suspect' = (suspect \/ Busy) /\ suspect \in BOOLEAN
  BY DEF Hurried, TypeOK
<1>2. Busy \in BOOLEAN
  BY DEF Busy
<1>3. ~suspect /\ ~Busy
  BY <1>1, <1>2, Zenon
<1> QED BY <1>3 DEF Busy

\* A gesture at rest that leaves the form alone.
LEMMA CalmGesture ==
  ASSUME CalmInv, UnderWay = {}, UNCHANGED <<form, answers>>, NEW p,
         sent' = sent \cup {p}, p.kind \notin {"version", "text", "comment"},
         p.kind = "save" => fileOf = Nobody,
         p.kind \in {"update", "saved"} => fileOf \in {p.about[1], Nobody}
  PROVE  CalmInv'
<1>1. sent' = {p} /\ answers' = {} /\ TextFits /\ CommentFits
  BY CalmlyAtRest
<1>2. UnderWay' = {p} /\ AnsweredOnce' /\ OneChain'
  BY <1>1, AloneKeepsOnce
<1>3. AsksForChosen'
  BY <1>2 DEF AsksForChosen
<1>4. SavesWhatIsShown'
  BY <1>2 DEF SavesWhatIsShown, form
<1>5. HeadIsWhole' /\ TextFits' /\ CommentFits'
  BY <1>1 DEF CalmInv, HeadIsWhole, TextFits, CommentFits, form
<1> QED BY <1>2, <1>3, <1>4, <1>5 DEF CalmInv

\* The form is cleared.
LEMMA ClearedCalm ==
  ASSUME ClearForm, AnsweredOnce', OneChain',
         \A p \in UnderWay' : p.kind = "delete"
  PROVE  CalmInv'
<1>1. AsksForChosen' /\ SavesWhatIsShown'
  BY DEF AsksForChosen, SavesWhatIsShown
<1>2. HeadIsWhole' /\ TextFits' /\ CommentFits'
  BY DEF ClearForm, HeadIsWhole, TextFits, CommentFits
<1> QED BY <1>1, <1>2 DEF CalmInv

LEMMA UserCalm ==
  ASSUME TypeOK, ~suspect => CalmInv, User, ~suspect'
  PROVE  CalmInv'
<1>1. CASE TypeText
  <2>1. /\ CalmInv /\ text = Blank /\ text' = Typed /\ UNCHANGED <<sent, answers>>
        /\ UNCHANGED <<target, placeholder, newest, chosen, fileOf, removable>>
    BY <1>1 DEF TypeText, history, net
  <2>2. UnderWay' = UnderWay /\ AnsweredOnce'
    BY <2>1 DEF UnderWay, AnsweredOnce, CalmInv
  <2>3. HeadInv'
    BY <2>1, <2>2, CalmParts, FewerKeepHead
  <2>4. /\ CommentFits => CommentFits'
        /\ Brings("text") => Brings("text")'
        /\ Brings("comment") => Brings("comment")'
    BY <2>1, <2>2 DEF CommentFits, Brings
  <2>5. TextFits => TextFits'
    <3>1. target # Nobody => chosen # Blank
      BY <2>1 DEF CalmInv, HeadIsWhole, Blank
    <3> QED BY <2>1, <3>1 DEF TextFits
  <2> QED BY <2>1, <2>2, <2>3, <2>4, <2>5, CalmParts
<1>2. CASE Cancel
  <2>1. suspect' = Busy /\ UNCHANGED <<sent, answers>> /\ ClearForm
    BY <1>2 DEF Cancel, Gesture
  <2>2. UnderWay = {}
    BY <2>1 DEF Busy
  <2>3. UnderWay' = {} /\ answers' = {}
    BY <2>1, <2>2 DEF UnderWay
  <2>4. AnsweredOnce' /\ OneChain'
    BY <2>3 DEF AnsweredOnce, OneChain
  <2> QED BY <2>1, <2>3, <2>4, ClearedCalm
<1>3. CASE ~TypeText /\ ~Cancel
  <2>1. Hurried /\ UNCHANGED answers
    BY <1>3 DEF User, Choose, ChooseVersion, Submit, Remove, ShowFile, Check, Gesture
  <2>2. ~suspect /\ CalmInv /\ UnderWay = {}
    BY <2>1, HurriedCalm
  <2>3. sent = {} /\ answers' = {} /\ TextFits /\ CommentFits
    BY <2>1, <2>2, CalmlyAtRest
  <2>4. ASSUME NEW c, NEW k \in {"show", "file", "check"}, NEW v,
               sent' = sent \cup {Asks(c, k, v)}, UNCHANGED form
        PROVE  CalmInv'
    <3>1. PICK p : p = Asks(c, k, v)
      OBVIOUS
    <3>2. p.kind = k
      BY <3>1 DEF Asks
    <3> QED BY <2>1, <2>2, <2>4, <3>1, <3>2, CalmGesture
  <2>5. ASSUME NEW t \in Templates, Choose(t) PROVE CalmInv'
    BY <2>4, <2>5 DEF Choose
  <2>6. CASE ShowFile \/ Check
    BY <2>4, <2>6 DEF ShowFile, Check
  <2>7. ASSUME NEW n \in 1 .. newest[2], ChooseVersion(n) PROVE CalmInv'
    <3>1. PICK p : p = Asks(gestures + 1, "version", chosen')
      OBVIOUS
    <3>2. p.kind = "version" /\ p.about = chosen'
      BY <3>1 DEF Asks
    <3>3. sent' = {p} /\ chosen' = <<newest[1], n>>
          /\ UNCHANGED <<target, newest, fileOf, removable>>
      BY <2>3, <2>7, <3>1 DEF ChooseVersion
    <3>4. UnderWay' = {p} /\ AnsweredOnce' /\ OneChain'
      BY <2>3, <3>3, AloneKeepsOnce
    <3>5. target # Nobody
      BY <2>2, <2>7 DEF CalmInv, HeadIsWhole, Blank
    <3>6. AsksForChosen' /\ SavesWhatIsShown'
      BY <3>2, <3>3, <3>4, <3>5 DEF AsksForChosen, SavesWhatIsShown
    <3>7. HeadIsWhole'
      BY <2>2, <3>3, <3>5 DEF CalmInv, HeadIsWhole
    <3>8. Brings("text")' /\ Brings("comment")'
      BY <3>2, <3>4, BringsSole
    <3> QED BY <3>4, <3>6, <3>7, <3>8 DEF CalmInv
  <2>8. CASE Submit
    <3>1. PICK p : p = [chain |-> gestures + 1,
                        kind |-> IF target = Nobody THEN "save" ELSE "update",
                        about |-> <<target, 0>>, text |-> text, calm |-> ~suspect']
      OBVIOUS
    <3>2. /\ p.kind \in {"save", "update"} /\ p.about[1] = target
          /\ p.kind = "save" => target = Nobody
      BY <3>1
    <3>3. sent' = sent \cup {p} /\ UNCHANGED form
      BY <2>8, <3>1 DEF Submit
    <3>4. fileOf \in {target, Nobody}
      BY <2>2 DEF CalmInv, HeadIsWhole
    <3> QED BY <2>1, <2>2, <3>2, <3>3, <3>4, CalmGesture
  <2>9. CASE Remove
    <3>1. PICK p : p = Asks(gestures + 1, "delete", <<removeOf, 0>>)
      OBVIOUS
    <3>2. p.kind = "delete" /\ sent' = {p}
      BY <2>3, <2>9, <3>1 DEF Remove, Asks
    <3>3. UnderWay' = {p} /\ AnsweredOnce' /\ OneChain'
      BY <2>3, <3>2, AloneKeepsOnce
    <3> QED BY <2>9, <3>2, <3>3, ClearedCalm DEF Remove
  <2> QED BY <1>3, <2>5, <2>6, <2>7, <2>8, <2>9 DEF User
<1> QED BY <1>1, <1>2, <1>3

-----------------------------------------------------------------------------
(***************************************************************************)
(* The server.                                                             *)
(***************************************************************************)
LEMMA ServeCalm ==
  ASSUME TypeOK, CalmInv, NEW r, Serve(r)
  PROVE  CalmInv'
<1>1. NetTypes /\ r \in sent /\ r \in UnderWay /\ UNCHANGED form
  BY TypeParts DEF Serve, UnderWay
<1>2. AnsweredOnce /\ OneChain
  BY DEF CalmInv
<1>3. CASE ServeShow(r) \/ ServeList(r) \/ Refuse(r) \/ Replies(r, FALSE, 0, {})
  <2>1. PICK ok, n, names : Replies(r, ok, n, names)
    BY <1>3 DEF ServeShow, ServeList, Refuse
  <2> QED BY <1>1, <1>2, <2>1, RepliesUnderWay, SameKeepsCalm
<1>4. CASE ServeDelete(r)
  BY <1>1, <1>2, <1>4, DeleteUnderWay, SameKeepsCalm
<1>5. CASE (ServeSave(r) \/ ServeUpdate(r)) /\ ~Replies(r, FALSE, 0, {})
  <2>1. PICK t \in Templates : Redirects(r, t) /\ (r.kind = "update" => t = r.about[1])
    BY <1>5 DEF ServeSave, ServeUpdate, Concludes, Stored
  <2>2. r.kind \in {"save", "update"} /\ r.kind \in SoleKinds
    BY <1>5 DEF ServeSave, ServeUpdate, SoleKinds
  <2>3. PICK p : /\ p.kind = "saved" /\ p.about = <<t, 0>>
                 /\ sent' = {p} /\ answers' = {} /\ UnderWay' = {p}
    BY <1>1, <1>2, <2>1, <2>2, RedirectsUnderWay
  <2>4. AnsweredOnce' /\ OneChain'
    BY <2>3, AloneKeepsOnce
  <2>5. UnderWay = {r}
    BY <1>1, <1>2, <2>2, SoleMeansAlone
  <2>6. TextFits /\ CommentFits
    BY <2>2, <2>5 DEF CalmInv, Brings
  <2>7. fileOf \in {t, Nobody}
    <3>1. CASE r.kind = "update"
      BY <1>1, <2>1, <3>1 DEF CalmInv, SavesWhatIsShown
    <3>2. CASE r.kind = "save"
      BY <1>1, <3>2 DEF CalmInv, SavesWhatIsShown
    <3> QED BY <2>2, <3>1, <3>2
  <2>8. SavesWhatIsShown' /\ AsksForChosen'
    BY <1>1, <2>3, <2>7 DEF SavesWhatIsShown, AsksForChosen, form
  <2>9. HeadIsWhole' /\ TextFits' /\ CommentFits'
    BY <1>1, <2>6 DEF CalmInv, HeadIsWhole, TextFits, CommentFits, form
  <2> QED BY <2>4, <2>8, <2>9 DEF CalmInv
<1> QED BY <1>3, <1>4, <1>5 DEF Serve

-----------------------------------------------------------------------------
(***************************************************************************)
(* The page's handlers.                                                    *)
(***************************************************************************)
\* An answer is taken that asks for nothing more.
LEMMA TakenCalm ==
  ASSUME NetTypes, CalmInv, NEW a \in Deliverable, Takes(a, {}),
         UNCHANGED <<target, newest, chosen, fileOf, removable>>,
         TextFits' \/ (a.to.kind \notin {"show", "version", "text"} /\ text' = text),
         CommentFits' \/ (a.to.kind \notin {"show", "version", "comment"}
                            /\ placeholder' = placeholder)
  PROVE  CalmInv'
<1>1. UnderWay' = UnderWay \ {a.to} /\ AnsweredOnce'
  BY TakesUnderWay DEF CalmInv
<1>2. HeadInv'
  BY <1>1, CalmParts, FewerKeepHead
<1>3. TextFits' \/ Brings("text")'
  <2>1. CASE a.to.kind \notin {"show", "version", "text"} /\ text' = text
    <3>1. TextFits => TextFits'
      BY <2>1 DEF TextFits
    <3>2. Brings("text") => Brings("text")'
      BY <1>1, <2>1, TakenOtherStaysBrought
    <3> QED BY <3>1, <3>2 DEF CalmInv
  <2> QED BY <2>1
<1>4. CommentFits' \/ Brings("comment")'
  <2>1. CASE a.to.kind \notin {"show", "version", "comment"} /\ placeholder' = placeholder
    <3>1. CommentFits => CommentFits'
      BY <2>1 DEF CommentFits
    <3>2. Brings("comment") => Brings("comment")'
      BY <1>1, <2>1, TakenOtherStaysBrought
    <3> QED BY <3>1, <3>2 DEF CalmInv
  <2> QED BY <2>1
<1> QED BY <1>1, <1>2, <1>3, <1>4, CalmParts

\* The head of a template's form is set and its version asked for.
LEMMA HeadSetCalm ==
  ASSUME NEW t \in Templates, NEW n, FormOf(t, n), fileOf' \in {t, Nobody},
         AnsweredOnce', NEW v, v \in UnderWay', v.kind = "version", v.about = <<t, n>>,
         \A q \in UnderWay' : q = v \/ q.kind = "list"
  PROVE  CalmInv'
<1>1. target' = t /\ t # Nobody /\ newest' = <<t, n>> /\ chosen' = <<t, n>>
  BY NobodyIsNoTemplate DEF FormOf
<1>2. OneChain'
  BY DEF OneChain, SoleKinds
<1>3. AsksForChosen' /\ SavesWhatIsShown'
  BY <1>1 DEF AsksForChosen, SavesWhatIsShown
<1>4. HeadIsWhole'
  BY <1>1 DEF HeadIsWhole
<1>5. Brings("text")' /\ Brings("comment")'
  BY BringsSole
<1> QED BY <1>2, <1>3, <1>4, <1>5 DEF CalmInv

LEMMA DeliverCalm ==
  ASSUME TypeOK, DialogInv, CalmInv, NEW a \in Deliverable, Deliver(a), ~suspect'
  PROVE  CalmInv'
<1>1. NetTypes /\ AnsweredOnce /\ OneChain /\ a.to \in UnderWay
  BY TypeParts, DeliverableFacts DEF CalmInv
<1>2. CASE Described(a) \/ SavedForm(a)
  <2>1. PICK t \in Templates : t = a.to.about[1]
    <3>1. Describes(a)
      BY <1>2 DEF Described, SavedForm, Describes
    <3>2. a \in answers
      BY <1>1, <3>1, DeliverableFacts DEF Describes, Reads
    <3> QED BY <3>1, <3>2 DEF DialogInv, DescribedAreTemplates
  <2>2. PICK v : v = Asks(a.to.chain, "version", <<t, a.upTo>>)
    OBVIOUS
  <2>3. PICK l : l = Asks(a.to.chain, "list", Blank)
    OBVIOUS
  <2>4. v.kind = "version" /\ v.about = <<t, a.upTo>> /\ l.kind = "list"
    BY <2>2, <2>3 DEF Asks
  <2>5. a.to.kind \in SoleKinds
    BY <1>2 DEF Described, SavedForm, SoleKinds
  <2>6. UnderWay = {a.to}
    BY <1>1, <2>5, SoleMeansAlone
  <2>7. FormOf(t, a.upTo)
    BY <1>2, <2>1 DEF Described, SavedForm
  <2>8. PICK more \in {{v}, {v, l}} : Takes(a, more)
    BY <1>2, <2>1, <2>2, <2>3 DEF Described, SavedForm
  <2>9. UnderWay' = more /\ AnsweredOnce'
    BY <1>1, <2>6, <2>8, TakesUnderWay
  <2>10. fileOf' \in {t, Nobody}
    <3>1. CASE Described(a)
      BY <2>1, <3>1 DEF Described
    <3>2. CASE SavedForm(a)
      <4>1. a.to.kind = "saved" /\ fileOf' = fileOf
        BY <3>2 DEF SavedForm
      <4> QED BY <1>1, <2>1, <4>1 DEF CalmInv, SavesWhatIsShown
    <3> QED BY <1>2, <3>1, <3>2
  <2>11. v \in UnderWay' /\ \A q \in UnderWay' : q = v \/ q.kind = "list"
    BY <2>4, <2>8, <2>9
  <2> QED BY <2>4, <2>7, <2>9, <2>10, <2>11, HeadSetCalm
<1>3. CASE VersionFound(a)
  <2>1. PICK x : x = Asks(a.to.chain, "text", a.to.about)
    OBVIOUS
  <2>2. PICK c : c = Asks(a.to.chain, "comment", a.to.about)
    OBVIOUS
  <2>3. /\ x.kind = "text" /\ x.about = a.to.about
        /\ c.kind = "comment" /\ c.about = a.to.about
    BY <2>1, <2>2 DEF Asks
  <2>4. a.to.kind = "version" /\ Takes(a, {x, c}) /\ UNCHANGED form
    BY <1>3, <2>1, <2>2 DEF VersionFound
  <2>5. a.to.about = chosen /\ target # Nobody
    BY <1>1, <2>4 DEF CalmInv, AsksForChosen
  <2>6. \A q \in UnderWay \ {a.to} : q.kind = "list"
    BY <1>1, <2>4 DEF OneChain
  <2>7. UnderWay' = (UnderWay \ {a.to}) \cup {x, c} /\ AnsweredOnce'
    BY <1>1, <2>3, <2>4, <2>6, TakesUnderWay
  <2>8. \A q \in UnderWay' : q = x \/ q = c \/ q.kind = "list"
    BY <2>6, <2>7
  <2>9. OneChain' /\ SavesWhatIsShown'
    BY <2>3, <2>8 DEF OneChain, SoleKinds, SavesWhatIsShown
  <2>10. AsksForChosen'
    BY <2>3, <2>4, <2>5, <2>8 DEF AsksForChosen, form
  <2>11. HeadIsWhole'
    BY <2>4 DEF CalmInv, HeadIsWhole, form
  <2>12. Brings("text")' /\ Brings("comment")'
    BY <2>3, <2>7 DEF Brings
  <2> QED BY <2>7, <2>9, <2>10, <2>11, <2>12 DEF CalmInv
<1>4. CASE TextLoaded(a)
  <2>1. /\ a.to.kind = "text" /\ Takes(a, {}) /\ text' = a.to.about
        /\ UNCHANGED <<target, placeholder, newest, chosen, fileOf, removable>>
    BY <1>4 DEF TextLoaded
  <2>2. TextFits'
    BY <1>1, <2>1 DEF CalmInv, AsksForChosen, TextFits
  <2> QED BY <1>1, <2>1, <2>2, TakenCalm
<1>5. CASE CommentLoaded(a)
  <2>1. /\ a.to.kind = "comment" /\ Takes(a, {}) /\ placeholder' = a.to.about
        /\ UNCHANGED <<target, text, newest, chosen, fileOf, removable>>
    BY <1>5 DEF CommentLoaded
  <2>2. CommentFits'
    BY <1>1, <2>1 DEF CalmInv, AsksForChosen, CommentFits
  <2> QED BY <1>1, <2>1, <2>2, TakenCalm
<1>6. CASE FileLoaded(a) \/ ListLoaded(a) \/ Checked(a)
  <2>1. Takes(a, {}) /\ UNCHANGED form /\ a.to.kind \in {"file", "list", "check"}
    BY <1>6 DEF FileLoaded, ListLoaded, Checked
  <2> QED BY <1>1, <2>1, TakenCalm DEF form
<1>7. CASE Removed(a)
  <2>1. PICK l : l = Asks(a.to.chain, "list", Blank)
    OBVIOUS
  <2>2. l.kind = "list"
    BY <2>1 DEF Asks
  <2>3. a.to.kind = "delete" /\ Takes(a, {l}) /\ UNCHANGED form
    BY <1>7, <2>1 DEF Removed
  <2>4. UnderWay = {a.to}
    BY <1>1, <2>3, SoleMeansAlone DEF SoleKinds
  <2>5. UnderWay' = {l} /\ AnsweredOnce'
    BY <1>1, <2>3, <2>4, TakesUnderWay
  <2>6. TextFits /\ CommentFits
    BY <2>3, <2>4 DEF CalmInv, Brings
  <2>7. OneChain' /\ AsksForChosen' /\ SavesWhatIsShown'
    BY <2>2, <2>5 DEF OneChain, AsksForChosen, SavesWhatIsShown
  <2>8. HeadIsWhole' /\ TextFits' /\ CommentFits'
    BY <2>3, <2>6 DEF CalmInv, HeadIsWhole, TextFits, CommentFits, form
  <2> QED BY <2>5, <2>7, <2>8 DEF CalmInv
<1>8. CASE Refused(a)
  BY <1>8 DEF Refused
<1> QED BY <1>2, <1>3, <1>4, <1>5, <1>6, <1>7, <1>8 DEF Deliver

\* While the user waits and no answer is an error, the form and what is under
\* way fit together after every step.
LEMMA CalmNext ==
  ASSUME TypeOK, DialogInv, ~suspect => CalmInv, [Next]_vars
  PROVE  ~suspect' => CalmInv'
<1> SUFFICES ASSUME ~suspect' PROVE CalmInv'
  OBVIOUS
<1>1. CASE User
  BY <1>1, UserCalm
<1>2. ASSUME NEW r \in sent, Serve(r) PROVE CalmInv'
  BY <1>2, ServeCalm DEF Serve, history
<1>3. ASSUME NEW r \in sent, Fail(r) PROVE CalmInv'
  BY <1>3, RepliesUnderWay, SameKeepsCalm DEF Fail, history, CalmInv
<1>4. ASSUME NEW a \in answers, LoseAnswer(a) PROVE CalmInv'
  BY <1>4, LossUnderWay, SameKeepsCalm DEF LoseAnswer, history, CalmInv
<1>5. ASSUME NEW a \in Deliverable, Deliver(a) PROVE CalmInv'
  <2>1. CASE Refused(a)
    BY <2>1 DEF Refused
  <2>2. CASE ~Refused(a)
    <3>1. suspect' = suspect
      BY <1>5, <2>2 DEF Deliver, Described, SavedForm, VersionFound, TextLoaded,
                        CommentLoaded, FileLoaded, Removed, ListLoaded, Checked, history
    <3> QED BY <1>5, <3>1, DeliverCalm
  <2> QED BY <2>1, <2>2
<1>6. CASE UNCHANGED vars
  <2>1. UNCHANGED <<form, sent, answers, suspect>>
    BY <1>6 DEF vars, net, history
  <2> QED BY <2>1, SameKeepsCalm DEF UnderWay, AnsweredOnce, CalmInv
<1> QED BY <1>1, <1>2, <1>3, <1>4, <1>5, <1>6 DEF Next, Network, Deliverable

LEMMA CalmInit == Init => CalmInv
BY DEF Init, CalmInv, AnsweredOnce, OneChain, AsksForChosen, SavesWhatIsShown,
       HeadIsWhole, TextFits, CommentFits, UnderWay

\* Whatever the order of the answers within a chain of requests, a form at rest
\* has all its parts from one template and version, as long as each gesture
\* waited for the last one's answers and none of them was an error.
THEOREM FormAtRestIsAlwaysWhole == Spec => []FormAtRestIsWhole
<1>1. Init => (~suspect => CalmInv)
  BY CalmInit
<1>2. TypeOK /\ DialogInv /\ (~suspect => CalmInv) /\ [Next]_vars
        => (~suspect => CalmInv)'
  BY CalmNext
<1>3. (~suspect => CalmInv) => FormAtRestIsWhole
  BY CalmlyAtRest DEF FormAtRestIsWhole, Whole, Busy, CalmInv, HeadIsWhole,
                      TextFits, CommentFits
<1>4. Init => DialogInv
  BY DEF Init, DialogInv, DescribedAreTemplates, DialogMatchesForm
<1>5. TypeOK /\ DialogInv /\ [Next]_vars => DialogInv'
  BY DialogNext
<1> QED BY <1>1, <1>2, <1>3, <1>4, <1>5, TypeCorrect, PTL DEF Spec

-----------------------------------------------------------------------------
(***************************************************************************)
(* What is saved.  Only what was submitted counts, so the later fate of    *)
(* the form does not matter.                                               *)
(***************************************************************************)
\* Steps send nothing that is to be saved, or what CalmSubmits says.
LEMMA SubmitsStay ==
  ASSUME CalmSubmits,
         \A q \in sent' : \/ q \in sent
                          \/ q.kind \notin {"save", "update"}
                          \/ q.calm => q.text[1] = IF q.kind = "save" THEN Nobody
                                                   ELSE q.about[1]
  PROVE  CalmSubmits'
BY DEF CalmSubmits

LEMMA UserSubmits ==
  ASSUME TypeOK, ~suspect => CalmInv, CalmSubmits, User
  PROVE  CalmSubmits'
<1>1. ASSUME NEW c, NEW k \in {"show", "version", "delete", "file", "check"}, NEW v,
             sent' = sent \cup {Asks(c, k, v)}
      PROVE  CalmSubmits'
  <2>1. PICK p : p = Asks(c, k, v)
    OBVIOUS
  <2>2. p.kind = k /\ sent' = sent \cup {p}
    BY <1>1, <2>1, AsksFields
  <2> QED BY <2>2, SubmitsStay
<1>2. ASSUME NEW t, Choose(t) PROVE CalmSubmits'
  BY <1>1, <1>2 DEF Choose
<1>3. ASSUME NEW n, ChooseVersion(n) PROVE CalmSubmits'
  BY <1>1, <1>3 DEF ChooseVersion
<1>4. CASE Remove
  BY <1>1, <1>4 DEF Remove
<1>5. CASE ShowFile \/ Check
  BY <1>1, <1>5 DEF ShowFile, Check
<1>6. CASE TypeText \/ Cancel
  <2>1. sent' = sent
    BY <1>6 DEF TypeText, Cancel, net
  <2> QED BY <2>1, SubmitsStay
<1>7. CASE Submit
  <2>1. PICK p : p = [chain |-> gestures + 1,
                      kind |-> IF target = Nobody THEN "save" ELSE "update",
                      about |-> <<target, 0>>, text |-> text, calm |-> ~suspect']
    OBVIOUS
  <2>2. sent' = sent \cup {p} /\ Hurried
    BY <1>7, <2>1 DEF Submit
  <2>3. /\ p.kind = IF target = Nobody THEN "save" ELSE "update"
        /\ p.about[1] = target /\ p.text = text /\ p.calm = ~suspect'
    BY <2>1
  <2>4. ASSUME p.calm PROVE p.text[1] = IF p.kind = "save" THEN Nobody ELSE p.about[1]
    <3>1. ~suspect /\ UnderWay = {}
      BY <2>2, <2>3, <2>4, HurriedCalm
    <3>2. TextFits /\ HeadIsWhole
      BY <3>1, CalmlyAtRest DEF CalmInv
    <3>3. CASE target = Nobody
      BY <2>3, <3>2, <3>3 DEF TextFits, Blank, Typed
    <3>4. CASE target # Nobody
      BY <2>3, <3>2, <3>4 DEF TextFits, HeadIsWhole
    <3> QED BY <3>3, <3>4
  <2> QED BY <2>2, <2>4, SubmitsStay
<1> QED BY <1>2, <1>3, <1>4, <1>5, <1>6, <1>7 DEF User

LEMMA NetworkSubmits ==
  ASSUME TypeOK, CalmSubmits, Network
  PROVE  CalmSubmits'
<1>1. ASSUME NEW r \in sent, Serve(r) PROVE CalmSubmits'
  <2>1. CASE (ServeSave(r) \/ ServeUpdate(r)) /\ ~Replies(r, FALSE, 0, {})
    <3>1. PICK t : Redirects(r, t)
      BY <2>1 DEF ServeSave, ServeUpdate, Concludes
    <3>2. PICK p : p = [r EXCEPT !.kind = "saved", !.about = <<t, 0>>]
      OBVIOUS
    <3>3. r \in Request
      BY <1>1, TypeParts DEF NetTypes
    <3>4. p.kind = "saved" /\ sent' = (sent \ {r}) \cup {p}
      BY <3>1, <3>2, <3>3 DEF Redirects, Request
    <3> QED BY <3>4, SubmitsStay
  <2>2. CASE ~(ServeSave(r) \/ ServeUpdate(r)) \/ Replies(r, FALSE, 0, {})
    <3>1. sent' \subseteq sent
      BY <1>1, <2>2 DEF Serve, ServeShow, ServeList, Refuse, ServeDelete, Replies
    <3> QED BY <3>1, SubmitsStay
  <2> QED BY <2>1, <2>2
<1>2. ASSUME NEW r \in sent, Fail(r) PROVE CalmSubmits'
  BY <1>2, SubmitsStay DEF Fail, Replies
<1>3. ASSUME NEW a \in answers, LoseAnswer(a) PROVE CalmSubmits'
  BY <1>3, SubmitsStay DEF LoseAnswer
<1>4. ASSUME NEW a, Deliver(a) PROVE CalmSubmits'
  <2>1. ASSUME NEW more, Takes(a, more), \A q \in more : q.kind \notin {"save", "update"}
        PROVE  CalmSubmits'
    BY <2>1, SubmitsStay DEF Takes
  <2>2. CASE Described(a)
    BY <2>1, <2>2, AsksFields DEF Described
  <2>3. CASE SavedForm(a)
    BY <2>1, <2>3, AsksFields DEF SavedForm
  <2>4. CASE VersionFound(a)
    BY <2>1, <2>4, AsksFields DEF VersionFound
  <2>5. CASE Removed(a)
    BY <2>1, <2>5, AsksFields DEF Removed
  <2>6. CASE TextLoaded(a) \/ CommentLoaded(a) \/ FileLoaded(a) \/ ListLoaded(a)
               \/ Checked(a) \/ Refused(a)
    BY <2>1, <2>6 DEF TextLoaded, CommentLoaded, FileLoaded, ListLoaded, Checked, Refused
  <2> QED BY <1>4, <2>2, <2>3, <2>4, <2>5, <2>6 DEF Deliver
<1> QED BY <1>1, <1>2, <1>3, <1>4 DEF Network

\* One version is added, and it is the template's own.
LEMMA WithTextOwn ==
  ASSUME NEW t \in Templates, NEW v \in Seq(Entry), NEW r \in Request,
         \A n \in 1 .. Len(v) :
           v[n].calm => v[n].from = t \/ (n = 1 /\ v[n].from = Nobody),
         r.calm => r.text[1] = t \/ (v = << >> /\ r.text[1] = Nobody)
  PROVE  \A n \in 1 .. Len(WithText(v, r)) :
           WithText(v, r)[n].calm => \/ WithText(v, r)[n].from = t
                                     \/ n = 1 /\ WithText(v, r)[n].from = Nobody
<1>1. CASE r.text = Blank
  BY <1>1 DEF WithText
<1>2. CASE r.text # Blank
  <2>1. PICK e : e = [from |-> r.text[1], calm |-> r.calm]
    OBVIOUS
  <2>2. e.from = r.text[1] /\ e.calm = r.calm /\ e \in Entry
    BY <2>1, RequestFacts DEF Entry
  <2>3. PICK w \in Seq(Entry) : w = WithText(v, r)
    BY WithTextTypes
  <2>4. w = Append(v, e)
    BY <1>2, <2>1, <2>3 DEF WithText
  <2>5. Len(w) = Len(v) + 1 /\ Len(v) \in Nat
    BY <2>2, <2>4
  <2>6. ASSUME NEW n \in 1 .. Len(w), w[n].calm
        PROVE  w[n].from = t \/ (n = 1 /\ w[n].from = Nobody)
    <3>1. CASE n \in 1 .. Len(v)
      <4>1. w[n] = v[n]
        BY <2>2, <2>4, <3>1
      <4> QED BY <2>6, <3>1, <4>1
    <3>2. CASE n = Len(v) + 1
      <4>1. w[n] = e
        BY <2>2, <2>4, <3>2
      <4>2. v = << >> => n = 1
        BY <3>2
      <4> QED BY <2>2, <2>6, <4>1, <4>2
    <3> QED BY <2>5, <2>6, <3>1, <3>2
  <2> QED BY <2>3, <2>6
<1> QED BY <1>1, <1>2

OwnVersions(t, v) ==
  \A n \in 1 .. Len(v) : v[n].calm => v[n].from = t \/ (n = 1 /\ v[n].from = Nobody)

LEMMA ServeOwn ==
  ASSUME TypeOK, CalmSubmits, CalmSavesAreOwn, NEW r \in sent, Serve(r)
  PROVE  CalmSavesAreOwn'
<1>1. ServerTypes /\ NetTypes /\ r \in Request
  BY TypeParts DEF NetTypes
<1>2. \A t \in Templates : OwnVersions(t, saved[t])
  BY DEF CalmSavesAreOwn, OwnVersions
<1>3. ASSUME NEW t \in Templates, NEW v \in Seq(Entry), OwnVersions(t, v),
             saved' = [saved EXCEPT ![t] = WithText(v, r)],
             r.calm => r.text[1] = t \/ (v = << >> /\ r.text[1] = Nobody)
      PROVE  CalmSavesAreOwn'
  <2>1. OwnVersions(t, WithText(v, r))
    BY <1>1, <1>3, WithTextOwn DEF OwnVersions
  <2>2. \A s \in Templates : saved'[s] = IF s = t THEN WithText(v, r) ELSE saved[s]
    BY <1>1, <1>3 DEF ServerTypes
  <2>3. \A s \in Templates : OwnVersions(s, saved'[s])
    BY <1>2, <2>1, <2>2
  <2> QED BY <2>3 DEF CalmSavesAreOwn, OwnVersions
<1>4. CASE ServeSave(r)
  <2>1. PICK t \in Templates : saved' = [saved EXCEPT ![t] = WithText(<< >>, r)]
    BY <1>4 DEF ServeSave
  <2>2. r.calm => r.text[1] = Nobody
    BY <1>4 DEF CalmSubmits, ServeSave
  <2>3. << >> \in Seq(Entry) /\ OwnVersions(t, << >>)
    BY DEF OwnVersions
  <2> QED BY <1>3, <2>1, <2>2, <2>3
<1>5. CASE ServeUpdate(r)
  <2>1. PICK t \in Templates : t = r.about[1]
    BY <1>5 DEF ServeUpdate, Stored
  <2>2. saved' = [saved EXCEPT ![t] = WithText(saved[t], r)]
    BY <1>5, <2>1 DEF ServeUpdate
  <2>3. r.calm => r.text[1] = t
    BY <1>5, <2>1 DEF CalmSubmits, ServeUpdate
  <2>4. saved[t] \in Seq(Entry)
    BY <1>1 DEF ServerTypes
  <2> QED BY <1>2, <1>3, <2>2, <2>3, <2>4
<1>6. CASE ~ServeSave(r) /\ ~ServeUpdate(r)
  <2>1. saved' = saved
    BY <1>6 DEF Serve, ServeShow, ServeList, Refuse, ServeDelete, server
  <2> QED BY <2>1 DEF CalmSavesAreOwn
<1> QED BY <1>4, <1>5, <1>6

LEMMA OwnNext ==
  ASSUME TypeOK, ~suspect => CalmInv, CalmSubmits, CalmSavesAreOwn, [Next]_vars
  PROVE  CalmSubmits' /\ CalmSavesAreOwn'
<1>1. CalmSubmits'
  <2>1. CASE UNCHANGED vars
    BY <2>1 DEF vars, net, CalmSubmits
  <2> QED BY <2>1, UserSubmits, NetworkSubmits DEF Next
<1>2. CalmSavesAreOwn'
  <2>1. ASSUME saved' = saved PROVE CalmSavesAreOwn'
    BY <2>1 DEF CalmSavesAreOwn
  <2>2. CASE User
    BY <2>1, <2>2 DEF User, Choose, ChooseVersion, TypeText, Submit, Cancel, Remove,
                      ShowFile, Check, Gesture, server
  <2>3. CASE Network
    <3>1. ASSUME NEW r \in sent, Serve(r) PROVE CalmSavesAreOwn'
      BY <3>1, ServeOwn
    <3>2. ASSUME NEW r \in sent, Fail(r) PROVE CalmSavesAreOwn'
      BY <2>1, <3>2 DEF Fail, server
    <3>3. ASSUME NEW a \in answers, LoseAnswer(a) PROVE CalmSavesAreOwn'
      BY <2>1, <3>3 DEF LoseAnswer, server
    <3>4. ASSUME NEW a, Deliver(a) PROVE CalmSavesAreOwn'
      BY <2>1, <3>4 DEF Deliver, Described, SavedForm, VersionFound, TextLoaded,
                        CommentLoaded, FileLoaded, Removed, ListLoaded, Checked,
                        Refused, Takes, server
    <3> QED BY <2>3, <3>1, <3>2, <3>3, <3>4 DEF Network
  <2>4. CASE UNCHANGED vars
    BY <2>1, <2>4 DEF vars, server
  <2> QED BY <2>2, <2>3, <2>4 DEF Next
<1> QED BY <1>1, <1>2

\* No template ever gets the text of another as a version from a form that was
\* submitted at rest and had come about without haste or errors, however many
\* requests overlap with the saving itself and whatever of it fails.
THEOREM CalmSavesAreAlwaysOwn == Spec => []CalmSavesAreOwn
<1>1. Init => (~suspect => CalmInv)
  BY CalmInit
<1>2. TypeOK /\ DialogInv /\ (~suspect => CalmInv) /\ [Next]_vars
        => (~suspect => CalmInv)'
  BY CalmNext
<1>3. Init => DialogInv
  BY DEF Init, DialogInv, DescribedAreTemplates, DialogMatchesForm
<1>4. TypeOK /\ DialogInv /\ [Next]_vars => DialogInv'
  BY DialogNext
<1>5. Init => CalmSubmits /\ CalmSavesAreOwn
  <2> SUFFICES ASSUME Init PROVE CalmSubmits /\ CalmSavesAreOwn
    OBVIOUS
  <2>1. ASSUME NEW t \in Templates, NEW n \in 1 .. Len(saved[t])
        PROVE  saved[t][n].from = t
    <3>1. saved[t] = IF t \in Existing THEN [m \in 1 .. 2 |-> [from |-> t, calm |-> TRUE]]
                     ELSE << >>
      BY DEF Init
    <3>2. CASE t \in Existing
      BY <2>1, <3>1, <3>2
    <3>3. CASE t \notin Existing
      BY <2>1, <3>1, <3>3
    <3> QED BY <3>2, <3>3
  <2> QED BY <2>1 DEF Init, CalmSubmits, CalmSavesAreOwn
<1>6. TypeOK /\ (~suspect => CalmInv) /\ CalmSubmits /\ CalmSavesAreOwn /\ [Next]_vars
        => CalmSubmits' /\ CalmSavesAreOwn'
  BY OwnNext
<1> QED BY <1>1, <1>2, <1>3, <1>4, <1>5, <1>6, TypeCorrect, PTL DEF Spec
=============================================================================
