--------------------------- MODULE Records_proof ---------------------------
(***************************************************************************)
(* What is promised of the records an operator edits, proved for any       *)
(* number of leads, tabs, images, requests and submits: the suggestions of *)
(* leads, the notes in several editors, the images of a view, and the      *)
(* start of an engagement from a dialog that retries.                      *)
(*                                                                         *)
(* MCRecords moves one of the four components in a behaviour and they      *)
(* share no variable, so each part below has an inductive invariant of its *)
(* own.  LeadsInv: a suggestion cites the reason of the parking it stands  *)
(* by.  NotesInv: a save under way names a revision that its editor had on *)
(* the screen.  ImagesInv: a row this view wrote after a list was asked    *)
(* for is marked later than that list.  StartInv: the progress that the    *)
(* dialog and its runs retain, and every answer on its way to them, is a   *)
(* pair of revision and scope that its Engagement has had.  KeysInv adds   *)
(* that every key under way was drawn for its intent and that whatever was *)
(* done has a command of its own, stored under such a key.                 *)
(***************************************************************************)
EXTENDS MCRecords, FiniteSetTheorems, TLAPS

-----------------------------------------------------------------------------
(* Leads.                                                                  *)

LeadRow == [disposition : {"none", "open", "parked", "closed"},
            parkReason : Reasons \cup {None}, tested : Conditions \cup {None},
            revisit : [cites : Reasons \cup {None}, dismissed : BOOLEAN] \cup {None}]

LeadsInv == lead \in [Leads -> LeadRow] /\ L!RevisitCitesThisParking

LEMMA LeadRows ==
    /\ L!NoLead \in LeadRow /\ L!OpenLead \in LeadRow
    /\ [L!NoLead EXCEPT !.disposition = "closed"] \in LeadRow
    /\ L!OpenLead.revisit = None
    /\ [L!NoLead EXCEPT !.disposition = "closed"].revisit = None
  BY DEF L!NoLead, L!OpenLead, LeadRow

\* A parked lead becomes another one only through a step that drops the
\* suggestion with the parking, and a new suggestion copies the reason of the
\* parking it is made under.
LEMMA LeadsStep == LeadsInv /\ L!Next => LeadsInv'
  <1> SUFFICES ASSUME LeadsInv, L!Next PROVE LeadsInv'
    OBVIOUS
  <1> USE DEF LeadsInv, L!RevisitCitesThisParking
  <1>1. ASSUME NEW l \in Leads, L!CreateLead(l) PROVE LeadsInv'
    BY <1>1, LeadRows DEF L!CreateLead
  <1>2. ASSUME NEW l \in Leads, L!ReopenLead(l) PROVE LeadsInv'
    BY <1>2, LeadRows DEF L!ReopenLead, L!Reopened
  <1>3. ASSUME NEW l \in Leads, L!CloseLead(l) PROVE LeadsInv'
    BY <1>3, LeadRows DEF L!CloseLead
  <1>4. ASSUME NEW l \in Leads, L!DismissRevisit(l) PROVE LeadsInv'
    <2>1. lead' = [lead EXCEPT ![l] = [lead[l] EXCEPT
                     !.revisit = [lead[l].revisit EXCEPT !.dismissed = TRUE]]]
      BY <1>4 DEF L!DismissRevisit
    <2>2. [lead[l].revisit EXCEPT !.dismissed = TRUE]
            \in [cites : {lead[l].revisit.cites}, dismissed : BOOLEAN]
      BY <1>4 DEF L!DismissRevisit, LeadRow
    <2>3. lead[l].revisit.cites \in Reasons \cup {None}
      BY <1>4 DEF L!DismissRevisit, LeadRow
    <2> DEFINE row == [lead[l] EXCEPT !.revisit = [lead[l].revisit EXCEPT !.dismissed = TRUE]]
    <2>4. /\ row \in LeadRow /\ row.disposition = lead[l].disposition
          /\ row.parkReason = lead[l].parkReason /\ row.revisit.cites = lead[l].revisit.cites
      BY <2>2, <2>3 DEF LeadRow
    <2> HIDE DEF row
    <2>5. lead[l].revisit # None
      BY <1>4 DEF L!DismissRevisit
    <2>6. lead' = [lead EXCEPT ![l] = row]
      BY <2>1 DEF row
    <2>7. QED
      BY <2>4, <2>5, <2>6
  <1>5. ASSUME NEW l \in Leads, NEW reason \in Reasons, NEW c \in Conditions \cup {None},
               L!ParkLead(l, reason, c)
        PROVE  LeadsInv'
    <2> DEFINE row == [lead[l] EXCEPT !.disposition = "parked", !.parkReason = reason, !.tested = c]
    <2>1. lead' = [lead EXCEPT ![l] = row]
      BY <1>5 DEF L!ParkLead
    <2>2. row \in LeadRow /\ row.revisit = None
      BY <1>5 DEF L!ParkLead, LeadRow
    <2> HIDE DEF row
    <2>3. QED
      BY <2>1, <2>2
  <1>6. ASSUME NEW l \in Leads, NEW anonymous \in BOOLEAN, NEW c \in Conditions \cup {None},
               L!SuggestRevisit(l, anonymous, c)
        PROVE  LeadsInv'
    <2> DEFINE row == [lead[l] EXCEPT
                         !.revisit = [cites |-> lead[l].parkReason, dismissed |-> FALSE]]
    <2>1. lead' = [lead EXCEPT ![l] = row] /\ lead[l].disposition = "parked"
      BY <1>6 DEF L!SuggestRevisit, L!Suppressed
    <2>2. /\ row \in LeadRow /\ row.disposition = "parked"
          /\ row.revisit.cites = row.parkReason
      BY <2>1 DEF LeadRow
    <2> HIDE DEF row
    <2>3. QED
      BY <2>1, <2>2
  <1>7. ASSUME NEW a \in Attempts, NEW l \in Leads, L!RecordAttempt(a, l) \/ L!AttachAttempt(a, l)
        PROVE  LeadsInv'
    BY <1>7 DEF L!RecordAttempt, L!AttachAttempt, L!Arrives
  <1>8. ASSUME L!SetArchived PROVE LeadsInv'
    BY <1>8 DEF L!SetArchived
  <1>9. QED
    BY <1>1, <1>2, <1>3, <1>4, <1>5, <1>6, <1>7, <1>8 DEF L!Next

LEMMA LeadsInit == L!Init => LeadsInv
  BY LeadRows DEF L!Init, LeadsInv, L!RevisitCitesThisParking, L!NoLead

\* No long sequence of parking, reopening, closing and suggesting leaves a
\* suggestion beside a parking it was not made for.
THEOREM SuggestionsCiteTheirParking == Spec => []RevisitCitesThisParking
  <1>1. Init => LeadsInv
    BY LeadsInit DEF Init
  <1>2. LeadsInv /\ [Next]_vars => LeadsInv'
    <2> SUFFICES ASSUME LeadsInv, [Next]_vars PROVE LeadsInv'
      OBVIOUS
    <2>1. CASE L!Next
      BY <2>1, LeadsStep
    <2>2. CASE UNCHANGED leadVars
      BY <2>2 DEF leadVars, LeadsInv, L!RevisitCitesThisParking
    <2>3. QED
      BY <2>1, <2>2 DEF Next, vars
  <1>3. LeadsInv => RevisitCitesThisParking
    BY DEF LeadsInv, RevisitCitesThisParking
  <1>4. QED
    BY <1>1, <1>2, <1>3, PTL DEF Spec
-----------------------------------------------------------------------------
(* Notes.  The records of the editor, without the bounds of the model.     *)

NoteTexts == Texts \cup {NoDraft, NoText}
Copy == [text : NoteTexts, rev : Nat]
Copies == Copy \cup {NoNotes}
Editor == [open : BOOLEAN, draft : NoteTexts, base : Copies, conflict : Copies]
Reading == [at : {"idle", "asked", "answered", "failed"}, notes : Copies]
SaveRow == [text : NoteTexts, expected : Nat, live : BOOLEAN, shown : SUBSET Nat,
            answer : {"none", "saved", "request_failed", "revision_conflict"}]

\* Every save under way names a revision that its editor had on the screen.
NotesInv ==
    /\ notes \in Copy /\ cache \in [Tabs -> Copies] /\ editor \in [Tabs -> Editor]
    /\ load \in [Tabs -> Reading] /\ recovery \in [Tabs -> Reading]
    /\ saves \in [Tabs -> SUBSET {s \in SaveRow : s.expected \in s.shown}]

LEMMA NotesConstants ==
    /\ N!Closed \in Editor /\ \A at \in {"idle", "asked", "failed"} : N!Read(at) \in Reading
    /\ \A n \in Copies : N!ReadOf(n) \in Reading
  BY DEF N!Closed, Editor, NoteTexts, Copies, N!Read, N!ReadOf, Reading

\* The effect after a render keeps an editor an editor, and the draft where it
\* is not saved.
LEMMA SettledFacts ==
    ASSUME NEW e \in Editor, NEW c \in Copies
    PROVE  /\ N!Settled(e, c) \in Editor
           /\ e.base # NoNotes /\ e.draft # e.base.text => N!Settled(e, c).draft = e.draft
           /\ e.base = c => N!Settled(e, c) = e
  <1>1. ASSUME c # NoNotes PROVE N!Shows(e, c) \in Editor
    BY <1>1 DEF N!Shows, Editor, Copies, Copy
  <1>2. [e EXCEPT !.base = c] \in Editor /\ [e EXCEPT !.base = c].draft = e.draft
    BY DEF Editor
  <1>3. CASE ~e.open \/ c = NoNotes \/ c = e.base
    BY <1>3 DEF N!Settled
  <1>4. CASE ~(~e.open \/ c = NoNotes \/ c = e.base)
    <2>1. CASE e.base = NoNotes \/ e.draft = e.base.text
      <3>1. N!Settled(e, c) = N!Shows(e, c)
        BY <1>4, <2>1 DEF N!Settled
      <3>2. QED
        BY <1>1, <1>4, <2>1, <3>1
    <2>2. CASE e.base # NoNotes /\ e.draft # e.base.text
      <3>1. N!Settled(e, c) \in {e, [e EXCEPT !.base = c]}
        BY <1>4, <2>2 DEF N!Settled
      <3>2. QED
        BY <1>2, <1>4, <2>2, <3>1
    <2>3. QED
      BY <2>1, <2>2
  <1>5. QED
    BY <1>3, <1>4

LEMMA RenderFacts ==
    ASSUME NotesInv, NEW t \in Tabs, NEW e \in Editor, NEW c \in Copies, N!Render(t, e, c)
    PROVE  /\ cache' \in [Tabs -> Copies] /\ editor' \in [Tabs -> Editor]
           /\ editor'[t] = N!Settled(e, c)
           /\ \A u \in Tabs : u # t => editor'[u] = editor[u]
  BY SettledFacts DEF N!Render, NotesInv

\* A save that is sent names a revision on the screen, and every answer, heard
\* or not, leaves what it named as it was.
LEMMA NotesStep ==
    ASSUME NotesInv, NEW t \in Tabs
    PROVE  /\ N!Open(t) => NotesInv'
           /\ N!Leave(t) => NotesInv'
           /\ N!Fetch(t) \/ N!Loaded(t) => NotesInv'
           /\ \A text \in N!Typed : N!Edit(t, text) => NotesInv'
           /\ N!Save(t) \/ N!KeepMine(t) => NotesInv'
           /\ N!LoadServer(t) => NotesInv'
           /\ \A s \in saves[t] : N!ServeSave(t, s) \/ N!RefuseSave(t, s) => NotesInv'
           /\ \A s \in saves[t] : N!Saved(t, s) \/ N!SaveFails(t, s) => NotesInv'
           /\ N!ServeRecovery(t) \/ N!Recovered(t) \/ N!RetryRecovery(t) => NotesInv'
  <1> DEFINE Shown == {s \in SaveRow : s.expected \in s.shown}
  <1>0. /\ editor[t] \in Editor /\ cache[t] \in Copies /\ saves[t] \subseteq Shown
        /\ load[t] \in Reading /\ recovery[t] \in Reading
    BY DEF NotesInv
  <1>1. N!Open(t) => NotesInv'
    <2>1. [N!Closed EXCEPT !.open = TRUE] \in Editor
      BY NotesConstants DEF Editor
    <2>2. QED
      BY <1>0, <2>1, RenderFacts, NotesConstants DEF N!Open, NotesInv
  <1>2. N!Leave(t) => NotesInv'
    <2>1. \A s \in Shown : [s EXCEPT !.live = FALSE] \in Shown
      BY DEF SaveRow
    <2>2. QED
      BY <1>0, <2>1, NotesConstants DEF N!Leave, NotesInv
  <1>3. N!Fetch(t) \/ N!Loaded(t) => NotesInv'
    <2>1. N!Fetch(t) => NotesInv'
      BY <1>0, NotesConstants DEF N!Fetch, NotesInv, Copies
    <2>2. N!Loaded(t) => NotesInv'
      BY <1>0, RenderFacts, NotesConstants DEF N!Loaded, NotesInv, Reading
    <2>3. QED
      BY <2>1, <2>2
  <1>4. \A text \in N!Typed : N!Edit(t, text) => NotesInv'
    <2> TAKE text \in N!Typed
    <2>1. [editor[t] EXCEPT !.draft = text] \in Editor
      BY <1>0 DEF Editor, NoteTexts, N!Typed
    <2>2. QED
      BY <1>0, <2>1, RenderFacts DEF N!Edit, NotesInv
  <1>5. N!Save(t) \/ N!KeepMine(t) => NotesInv'
    <2>1. N!OnScreen(editor[t]) \subseteq Nat
      BY <1>0 DEF N!OnScreen, Editor, Copies, Copy
    <2>2. ASSUME NEW r \in N!OnScreen(editor[t]), N!Send(t, r), UNCHANGED <<notes, cache, editor, load, recovery>>
          PROVE  NotesInv'
      <3> DEFINE s == [text |-> editor[t].draft, expected |-> r, live |-> TRUE,
                       shown |-> N!OnScreen(editor[t]), answer |-> "none"]
      <3>1. s \in Shown
        BY <1>0, <2>1, <2>2 DEF SaveRow, Editor
      <3>2. saves' = [saves EXCEPT ![t] = @ \cup {s}]
        BY <2>2 DEF N!Send
      <3> HIDE DEF s
      <3>3. QED
        BY <2>2, <3>1, <3>2 DEF NotesInv
    <2>3. N!Save(t) => editor[t].base.rev \in N!OnScreen(editor[t])
      BY DEF N!Save, N!Editing, N!OnScreen
    <2>4. N!KeepMine(t) => editor[t].conflict.rev \in N!OnScreen(editor[t])
      BY DEF N!KeepMine, N!OnScreen
    <2>5. QED
      BY <2>2, <2>3, <2>4 DEF N!Save, N!KeepMine, N!BaseRevision
  <1>6. N!LoadServer(t) => NotesInv'
    <2> SUFFICES ASSUME N!LoadServer(t) PROVE NotesInv'
      OBVIOUS
    <2>1. editor[t].conflict \in Copy
      BY <1>0 DEF N!LoadServer, Editor, Copies
    <2>2. [N!Shows(editor[t], editor[t].conflict) EXCEPT !.conflict = NoNotes] \in Editor
      BY <1>0, <2>1 DEF N!Shows, Editor, Copies, Copy
    <2>3. QED
      BY <1>0, <2>1, <2>2, RenderFacts, NotesConstants DEF N!LoadServer, NotesInv, Copies
  <1>7. \A s \in saves[t] : N!ServeSave(t, s) \/ N!RefuseSave(t, s) => NotesInv'
    <2> TAKE s \in saves[t]
    <2>1. \A a \in {"saved", "request_failed", "revision_conflict"} : [s EXCEPT !.answer = a] \in Shown
      BY <1>0 DEF SaveRow
    <2>2. s.text \in NoteTexts /\ s.expected + 1 \in Nat
      BY <1>0 DEF SaveRow
    <2>3. \A a \in {"saved", "request_failed", "revision_conflict"} :
            N!Answer(t, s, a) => saves' \in [Tabs -> SUBSET Shown]
      BY <1>0, <2>1 DEF N!Answer, NotesInv
    <2>4. N!ServeSave(t, s) => NotesInv'
      BY <2>2, <2>3 DEF N!ServeSave, NotesInv, Copy
    <2>5. N!RefuseSave(t, s) => NotesInv'
      BY <2>3 DEF N!RefuseSave, NotesInv
    <2>6. QED
      BY <2>4, <2>5
  <1>8. \A s \in saves[t] : N!Saved(t, s) \/ N!SaveFails(t, s) => NotesInv'
    <2> TAKE s \in saves[t]
    <2> DEFINE n == [text |-> s.text, rev |-> s.expected + 1]
    <2>0. n \in Copies
      BY <1>0 DEF SaveRow, Copies, Copy
    <2> HIDE DEF n
    <2>1. n \in Copies /\ [editor[t] EXCEPT !.base = n, !.conflict = NoNotes] \in Editor
      BY <1>0, <2>0 DEF Copies, Editor
    <2>2. N!Saved(t, s) => NotesInv'
      <3> SUFFICES ASSUME N!Saved(t, s) PROVE NotesInv'
        OBVIOUS
      <3>1. PICK e \in Editor : N!Render(t, e, n)
        BY <1>0, <2>1 DEF N!Saved, n
      <3>2. saves' = [saves EXCEPT ![t] = @ \ {s}] /\ UNCHANGED <<notes, load>>
        BY DEF N!Saved
      <3>3. recovery' \in [Tabs -> Reading]
        BY NotesConstants DEF N!Saved, NotesInv
      <3>4. QED
        BY <2>1, <3>1, <3>2, <3>3, RenderFacts DEF NotesInv
    <2>3. N!SaveFails(t, s) => NotesInv'
      BY NotesConstants DEF N!SaveFails, NotesInv
    <2>4. QED
      BY <2>2, <2>3
  <1>9. N!ServeRecovery(t) \/ N!Recovered(t) \/ N!RetryRecovery(t) => NotesInv'
    <2>1. N!ServeRecovery(t) \/ N!RetryRecovery(t) => NotesInv'
      BY NotesConstants DEF N!ServeRecovery, N!RetryRecovery, NotesInv, Copies
    <2>2. N!Recovered(t) => NotesInv'
      <3>1. [editor[t] EXCEPT !.conflict = recovery[t].notes] \in Editor
        BY <1>0 DEF Editor, Reading
      <3>2. N!Recovered(t) => editor' = [editor EXCEPT ![t] = [editor[t] EXCEPT !.conflict = recovery[t].notes]]
        BY DEF N!Recovered
      <3>3. QED
        BY <3>1, <3>2, NotesConstants DEF N!Recovered, NotesInv
    <2>3. QED
      BY <2>1, <2>2
  <1>10. QED
    BY <1>1, <1>2, <1>3, <1>4, <1>5, <1>6, <1>7, <1>8, <1>9

LEMMA NotesInvariant == Spec => []NotesInv
  <1>1. Init => NotesInv
    BY NotesConstants DEF Init, N!Init, NotesInv, Copy, Copies, NoteTexts
  <1>2. NotesInv /\ [Next]_vars => NotesInv'
    <2> SUFFICES ASSUME NotesInv, [Next]_vars PROVE NotesInv'
      OBVIOUS
    <2>1. ASSUME NEW text \in N!Typed, N!SavedElsewhere(text) PROVE NotesInv'
      <3>1. [text |-> text, rev |-> notes.rev + 1] \in Copy
        BY DEF NotesInv, N!Typed, NoteTexts, Copy
      <3>2. QED
        BY <2>1, <3>1 DEF N!SavedElsewhere, NotesInv
    <2>2. CASE N!Next
      BY <2>1, <2>2, NotesStep DEF N!Next
    <2>3. CASE UNCHANGED notesVars
      BY <2>3 DEF notesVars, NotesInv
    <2>4. QED
      BY <2>2, <2>3 DEF Next, vars
  <1>3. QED
    BY <1>1, <1>2, PTL DEF Spec

\* No save overwrites a revision that was not in front of the operator who
\* pressed it, with any number of tabs, saves in flight and lost answers.
THEOREM NothingIsOverwrittenUnseen == Spec => NoSilentOverwrite
  <1>1. NotesInv => \A t \in Tabs : \A s \in saves[t] : N!ServeSave(t, s) => notes.rev \in s.shown
    BY DEF NotesInv, N!ServeSave, N!Current
  <1>2. QED
    BY <1>1, NotesInvariant, PTL DEF NoSilentOverwrite, N!NoSilentOverwrite

\* Whatever arrives, and in whatever order, the text that was typed and not
\* saved stays in its editor.
THEOREM TypedTextStays == Spec => DraftIsKept
  <1> DEFINE Mine(t) == N!LoadServer(t) \/ N!Leave(t) \/ \E text \in N!Typed : N!Edit(t, text)
             Keeps(t) == N!Unsaved(t) /\ editor'[t].draft # editor[t].draft => Mine(t)
  <1>1. ASSUME NotesInv, NEW t \in Tabs, NEW u \in Tabs, N!Unsaved(t), ~Mine(t),
               \/ N!Open(u) \/ N!Leave(u)
               \/ N!Fetch(u) \/ N!Loaded(u)
               \/ \E text \in N!Typed : N!Edit(u, text)
               \/ N!Save(u) \/ N!KeepMine(u) \/ N!LoadServer(u)
               \/ \E s \in saves[u] :
                    N!ServeSave(u, s) \/ N!RefuseSave(u, s) \/ N!Saved(u, s) \/ N!SaveFails(u, s)
               \/ N!ServeRecovery(u) \/ N!Recovered(u) \/ N!RetryRecovery(u)
        PROVE  editor'[t].draft = editor[t].draft
    <2>0. /\ editor \in [Tabs -> Editor]
          /\ \A v \in Tabs : editor[v] \in Editor /\ cache[v] \in Copies
          /\ editor[t].open /\ editor[t].base # NoNotes /\ editor[t].draft # editor[t].base.text
      BY <1>1 DEF NotesInv, N!Unsaved, N!Editing
    <2>1. ASSUME u # t PROVE editor'[t] = editor[t]
      <3>1. N!Fetch(u) \/ N!ServeRecovery(u) \/ N!RetryRecovery(u) \/ N!Save(u) \/ N!KeepMine(u)
            => editor' = editor
        BY DEF N!Fetch, N!ServeRecovery, N!RetryRecovery, N!Save, N!KeepMine
      <3>2. ASSUME NEW s \in saves[u]
            PROVE  /\ N!ServeSave(u, s) \/ N!RefuseSave(u, s) \/ N!SaveFails(u, s) => editor' = editor
                   /\ N!Saved(u, s) => editor'[t] = editor[t]
        BY <2>0, <2>1 DEF N!ServeSave, N!RefuseSave, N!SaveFails, N!Saved, N!Render
      <3>3. N!Open(u) \/ N!Leave(u) \/ N!Loaded(u) \/ N!LoadServer(u) \/ N!Recovered(u)
            => editor'[t] = editor[t]
        BY <2>0, <2>1 DEF N!Open, N!Leave, N!Loaded, N!LoadServer, N!Recovered, N!Render
      <3>4. \A text \in N!Typed : N!Edit(u, text) => editor'[t] = editor[t]
        BY <2>0, <2>1 DEF N!Edit, N!Render
      <3>5. QED
        BY <1>1, <3>1, <3>2, <3>3, <3>4
    <2>2. ASSUME u = t PROVE editor'[t].draft = editor[t].draft
      <3>1. ~N!Open(t)
        BY <2>0 DEF N!Open
      <3>2. CASE N!Loaded(t)
        <4>1. editor'[t] = N!Settled(editor[t], load[t].notes) /\ load[t].notes \in Copies
          BY <1>1, <2>0, <3>2 DEF N!Loaded, N!Render, NotesInv, Reading
        <4>2. QED
          BY <2>0, <4>1, SettledFacts
      <3>3. ASSUME NEW s \in saves[t], N!Saved(t, s) PROVE editor'[t].draft = editor[t].draft
        <4> DEFINE n == [text |-> s.text, rev |-> s.expected + 1]
                   e == [editor[t] EXCEPT !.base = n, !.conflict = NoNotes]
        <4>1. n \in Copies
          BY <1>1 DEF NotesInv, SaveRow, Copies, Copy
        <4>2. editor' = [editor EXCEPT ![t] = N!Settled(IF s.live THEN e ELSE editor[t], n)]
          BY <3>3 DEF N!Saved, N!Render
        <4> HIDE DEF n
        <4>3. e \in Editor /\ e.base = n /\ e.draft = editor[t].draft
          BY <2>0, <4>1 DEF Editor, Copies
        <4> HIDE DEF e
        <4>4. QED
          BY <2>0, <4>1, <4>2, <4>3, SettledFacts
      <3>4. CASE N!Recovered(t)
        BY <2>0, <3>4 DEF N!Recovered, Editor
      <3>5. ASSUME N!Fetch(t) \/ N!Save(t) \/ N!KeepMine(t)
                   \/ (\E s \in saves[t] : N!ServeSave(t, s) \/ N!RefuseSave(t, s) \/ N!SaveFails(t, s))
                   \/ N!ServeRecovery(t) \/ N!RetryRecovery(t)
            PROVE  editor' = editor
        BY <3>5 DEF N!Fetch, N!Save, N!KeepMine, N!ServeSave, N!RefuseSave, N!SaveFails,
           N!ServeRecovery, N!RetryRecovery
      <3>6. QED
        BY <1>1, <2>2, <3>1, <3>2, <3>3, <3>4, <3>5
    <2>3. QED
      BY <2>1, <2>2
  <1>2. NotesInv /\ [Next]_vars => \A t \in Tabs : Keeps(t) \/ UNCHANGED N!vars
    <2> SUFFICES ASSUME NotesInv, [Next]_vars, NEW t \in Tabs PROVE Keeps(t) \/ UNCHANGED N!vars
      OBVIOUS
    <2>1. ASSUME NEW text \in N!Typed, N!SavedElsewhere(text) PROVE Keeps(t)
      BY <2>1 DEF N!SavedElsewhere
    <2>2. CASE N!Next
      BY <1>1, <2>1, <2>2 DEF N!Next
    <2>3. CASE UNCHANGED notesVars
      BY <2>3 DEF notesVars, N!vars
    <2>4. QED
      BY <2>2, <2>3 DEF Next, vars
  <1>3. NotesInv /\ [Next]_vars => [\A t \in Tabs : Keeps(t)]_N!vars
    BY <1>2
  <1>4. QED
    BY <1>3, NotesInvariant, PTL DEF Spec, DraftIsKept, N!DraftIsKept

-----------------------------------------------------------------------------
(* Evidence images.  The records, without the bounds of the model.         *)

Captions == [A!Images -> Nat]
ReadRow == [eng : Engagements, seq : Nat, initial : BOOLEAN, answered : BOOLEAN,
            answer : Captions, since : SUBSET A!Images]
WriteRow == [image : A!Images, served : Nat, heard : BOOLEAN]

\* What a list still under way may not replace is shown, and marked later
\* than the list was asked for.
Newer(q) == \A i \in q.since : rows[i] # A!Absent /\ marks[i] > q.seq

ImagesInv ==
    /\ here \in Engagements /\ opSeq \in Nat
    /\ stored \in Captions /\ rows \in Captions /\ marks \in Captions
    /\ writes \subseteq WriteRow
    /\ reads \subseteq ReadRow
    /\ \A q \in reads : q.seq <= opSeq /\ Newer(q) /\ (q.since # {} => q.eng = here)

LEMMA NoImagesShown == A!NoImages \in Captions /\ A!Absent \in Nat
  BY DEF A!NoImages, A!Absent, Captions

LEMMA AskedRead ==
    ASSUME NEW r \in ReadRow, NEW e \in Engagements
    PROVE  /\ [r EXCEPT !.eng = e] \in ReadRow /\ [r EXCEPT !.eng = e].eng = e
           /\ [r EXCEPT !.eng = e].seq = r.seq /\ [r EXCEPT !.eng = e].since = r.since
  BY DEF ReadRow

LEMMA FreshRead ==
    ASSUME opSeq \in Nat, here \in Engagements, NEW initial \in BOOLEAN
    PROVE  /\ A!Read(initial) \in ReadRow /\ A!Read(initial).seq = opSeq + 1
           /\ A!Read(initial).since = {} /\ A!Read(initial).eng = here
  <1>1. opSeq + 1 \in Nat /\ {} \in SUBSET A!Images
    OBVIOUS
  <1>2. QED
    BY <1>1, NoImagesShown DEF A!Read, ReadRow

LEMMA MergedRows ==
    ASSUME ImagesInv, NEW q \in ReadRow
    PROVE  /\ A!Merged(q.answer, q.seq) \in Captions
           /\ \A i \in A!Images : rows[i] # A!Absent => A!Merged(q.answer, q.seq)[i] # A!Absent
           /\ \A i \in A!Images : rows[i] # A!Absent /\ marks[i] > q.seq =>
                A!Merged(q.answer, q.seq)[i] = rows[i]
  BY DEF ImagesInv, A!Merged, ReadRow, Captions

\* A list in flight loses its claim on a row only when the view that holds
\* both is left: a write marks its row later than every list asked for by
\* then, and a list that lands first leaves the row shown.
LEMMA ImagesStep == ImagesInv /\ A!Next => ImagesInv'
  <1> SUFFICES ASSUME ImagesInv, A!Next PROVE ImagesInv'
    OBVIOUS
  <1>1. ASSUME NEW e \in Engagements, A!Navigate(e) PROVE ImagesInv'
    <2> DEFINE fresh == [A!Read(TRUE) EXCEPT !.eng = e]
    <2>1. fresh \in ReadRow /\ fresh.seq = opSeq + 1 /\ fresh.since = {}
      BY FreshRead, AskedRead DEF ImagesInv
    <2> HIDE DEF fresh
    <2>2. \A r \in reads : [r EXCEPT !.since = {}] \in ReadRow
      BY DEF ImagesInv, ReadRow
    <2>3. reads' = {[q EXCEPT !.since = {}] : q \in {r \in reads : ~r.initial}} \cup {fresh}
      BY <1>1 DEF A!Navigate, fresh
    <2>4. /\ here' = e /\ rows' = A!NoImages /\ marks' = A!NoImages /\ opSeq' = opSeq + 1
          /\ UNCHANGED <<stored, writes>>
      BY <1>1 DEF A!Navigate
    <2>5. reads' \subseteq ReadRow
      BY <2>1, <2>2, <2>3
    <2>6. \A q \in reads' : q.since = {} /\ q.seq <= opSeq + 1
      <3>1. \A r \in reads : r.seq \in Nat /\ r.seq <= opSeq /\ opSeq \in Nat
        BY DEF ImagesInv, ReadRow
      <3>2. \A r \in reads : [r EXCEPT !.since = {}].since = {} /\ [r EXCEPT !.since = {}].seq = r.seq
        BY DEF ImagesInv, ReadRow
      <3>3. QED
        <4>1. ASSUME NEW q \in reads', q # fresh PROVE q.since = {} /\ q.seq <= opSeq + 1
          <5>1. PICK r \in reads : q = [r EXCEPT !.since = {}]
            BY <2>3, <4>1
          <5>2. QED
            BY <3>1, <3>2, <5>1
        <4>2. fresh.seq <= opSeq + 1
          BY <2>1 DEF ImagesInv
        <4>3. QED
          BY <2>1, <4>1, <4>2
    <2>7. QED
      BY <2>4, <2>5, <2>6, NoImagesShown DEF ImagesInv, Newer
  <1>2. CASE A!Reload
    <2> DEFINE fresh == A!Read(FALSE)
    <2>2. fresh \in ReadRow /\ fresh.seq = opSeq + 1 /\ fresh.since = {} /\ fresh.eng = here
      BY FreshRead DEF ImagesInv
    <2>3. /\ opSeq' = opSeq + 1 /\ reads' = reads \cup {fresh}
          /\ UNCHANGED <<stored, here, rows, marks, writes>>
      BY <1>2 DEF A!Reload
    <2> HIDE DEF fresh
    <2>4. \A q \in reads' : q \in ReadRow /\ q.seq <= opSeq' /\ Newer(q)' /\ (q.since # {} => q.eng = here)
      <3>1. ASSUME NEW q \in reads
            PROVE  q \in ReadRow /\ q.seq <= opSeq' /\ Newer(q)' /\ (q.since # {} => q.eng = here)
        <4>1. q.seq \in Nat /\ opSeq \in Nat
          BY DEF ImagesInv, ReadRow
        <4>2. QED
          BY <2>3, <4>1 DEF ImagesInv, Newer
      <3>2. ASSUME NEW q, q = fresh
            PROVE  q \in ReadRow /\ q.seq <= opSeq' /\ Newer(q)' /\ (q.since # {} => q.eng = here)
        BY <2>2, <2>3, <3>2 DEF ImagesInv, Newer
      <3>3. QED
        BY <2>3, <3>1, <3>2
    <2>5. QED
      BY <2>3, <2>4 DEF ImagesInv
  <1>3. ASSUME NEW q \in reads, A!ServeRead(q) PROVE ImagesInv'
    <2> DEFINE a == [i \in A!Images |-> IF i.eng = q.eng THEN stored[i] ELSE A!Absent]
               r == [q EXCEPT !.answered = TRUE, !.answer = a]
    <2>1. a \in Captions
      BY NoImagesShown DEF ImagesInv, Captions
    <2>2. reads' = (reads \ {q}) \cup {r}
      BY <1>3 DEF A!ServeRead
    <2> HIDE DEF a
    <2>3. r \in ReadRow /\ r.seq = q.seq /\ r.since = q.since /\ r.eng = q.eng
      BY <2>1 DEF ImagesInv, ReadRow
    <2> HIDE DEF r
    <2>4. QED
      BY <1>3, <2>2, <2>3 DEF A!ServeRead, ImagesInv, Newer
  <1>4. ASSUME NEW q \in reads, A!ReadFails(q) PROVE ImagesInv'
    BY <1>4 DEF A!ReadFails, ImagesInv, Newer
  <1>5. ASSUME NEW q \in reads, A!ReadLands(q) PROVE ImagesInv'
    <2>1. /\ rows' = A!Merged(q.answer, q.seq) \/ rows' = rows
          /\ reads' = reads \ {q} /\ UNCHANGED <<stored, here, opSeq, marks, writes>>
      BY <1>5 DEF A!ReadLands
    <2>2. rows' \in Captions /\ \A i \in A!Images : rows[i] # A!Absent => rows'[i] # A!Absent
      BY <2>1, MergedRows DEF ImagesInv
    <2>3. \A r \in reads : r.since \subseteq A!Images
      BY DEF ImagesInv, ReadRow
    <2>4. \A r \in reads' : r.seq <= opSeq /\ Newer(r)' /\ (r.since # {} => r.eng = here)
      BY <2>1, <2>2, <2>3 DEF ImagesInv, Newer
    <2>5. QED
      BY <2>1, <2>2, <2>4 DEF ImagesInv
  <1>6. ASSUME NEW i \in A!Images, A!SendImage(i) \/ A!SendCaption(i) \/ A!OtherTabWrites(i)
        PROVE  ImagesInv'
    <2>1. [image |-> i, served |-> A!Absent, heard |-> TRUE] \in WriteRow
      BY NoImagesShown DEF WriteRow
    <2>2. stored[i] + 1 \in Nat /\ [stored EXCEPT ![i] = @ + 1] \in Captions
      BY DEF ImagesInv, Captions
    <2>3. QED
      BY <1>6, <2>1, <2>2 DEF A!SendImage, A!SendCaption, A!OtherTabWrites, ImagesInv, Newer
  <1>7. ASSUME NEW w \in writes, A!ServeWrite(w) PROVE ImagesInv'
    <2>1. w \in WriteRow /\ w.image \in A!Images
      BY DEF ImagesInv, WriteRow
    <2>2. stored[w.image] + 1 \in Nat /\ [stored EXCEPT ![w.image] = @ + 1] \in Captions
      BY <2>1 DEF ImagesInv, Captions
    <2>3. \A h \in BOOLEAN : [w EXCEPT !.served = stored[w.image] + 1, !.heard = h] \in WriteRow
      BY <2>1, <2>2 DEF WriteRow
    <2>4. QED
      BY <1>7, <2>2, <2>3 DEF A!ServeWrite, ImagesInv, Newer
  <1>8. ASSUME NEW w \in writes, A!WriteFails(w) PROVE ImagesInv'
    BY <1>8 DEF A!WriteFails, ImagesInv, Newer
  <1>9. ASSUME NEW w \in writes, A!WriteLands(w) PROVE ImagesInv'
    <2> DEFINE i == w.image
               Since(q) == IF q.eng = here /\ rows'[i] # A!Absent THEN q.since \cup {i} ELSE q.since
               Told(q) == [q EXCEPT !.since = Since(q)]
    <2>1. w \in WriteRow /\ i \in A!Images /\ w.served \in Nat /\ w.served # A!Absent
      BY <1>9 DEF A!WriteLands, ImagesInv, WriteRow
    <2>2. CASE ~A!BelongsHere(w.image.eng)
      BY <1>9, <2>2 DEF A!WriteLands, ImagesInv, Newer
    <2>3. CASE A!BelongsHere(w.image.eng)
      <3>1. /\ opSeq' = opSeq + 1 /\ marks' = [marks EXCEPT ![i] = opSeq + 1]
            /\ rows' = [rows EXCEPT ![i] = IF w.served = 1 \/ @ # A!Absent THEN w.served ELSE @]
            /\ reads' = {Told(q) : q \in reads}
            /\ writes' = writes \ {w} /\ UNCHANGED <<stored, here>>
        BY <1>9, <2>3 DEF A!WriteLands, A!Mark
      <3>2. rows' \in Captions /\ marks' \in Captions /\ opSeq' \in Nat
        BY <2>1, <3>1 DEF ImagesInv, Captions
      <3>3. /\ \A j \in A!Images : rows[j] # A!Absent => rows'[j] # A!Absent
            /\ \A j \in A!Images : j # i => marks'[j] = marks[j]
            /\ marks'[i] = opSeq + 1
        BY <2>1, <3>1 DEF ImagesInv, Captions
      <3>4. ASSUME NEW q \in reads
            PROVE  /\ Told(q) \in ReadRow /\ Told(q).seq <= opSeq'
                   /\ (\A j \in Told(q).since : rows'[j] # A!Absent /\ marks'[j] > Told(q).seq)
                   /\ (Told(q).since # {} => Told(q).eng = here)
        <4>1. /\ q \in ReadRow /\ q.seq \in Nat /\ q.since \subseteq A!Images
              /\ q.seq <= opSeq /\ opSeq \in Nat
              /\ \A j \in q.since : rows[j] # A!Absent /\ marks[j] > q.seq
              /\ q.since # {} => q.eng = here
          BY DEF ImagesInv, ReadRow, Newer
        <4>2. Since(q) \subseteq A!Images
          BY <2>1, <4>1
        <4>3. Told(q) \in ReadRow /\ Told(q).seq = q.seq /\ Told(q).since = Since(q) /\ Told(q).eng = q.eng
          BY <4>1, <4>2 DEF ReadRow
        <4>4. \A j \in Since(q) : rows'[j] # A!Absent /\ marks'[j] > q.seq
          BY <3>3, <4>1
        <4>5. Since(q) # {} => q.eng = here
          BY <4>1
        <4>6. QED
          <5>1. Told(q).seq <= opSeq'
            BY <3>1, <4>1, <4>3
          <5>2. QED
            BY <4>3, <4>4, <4>5, <5>1
      <3> HIDE DEF Told
      <3>5. \A r \in reads' : r \in ReadRow /\ r.seq <= opSeq' /\ Newer(r)' /\ (r.since # {} => r.eng = here)
        <4> TAKE r \in reads'
        <4>1. PICK q \in reads : r = Told(q)
          BY <3>1
        <4>2. QED
          BY <3>4, <4>1 DEF Newer
      <3>6. QED
        BY <3>1, <3>2, <3>5 DEF ImagesInv
    <2>4. QED
      BY <2>2, <2>3
  <1>10. QED
    BY <1>1, <1>2, <1>3, <1>4, <1>5, <1>6, <1>7, <1>8, <1>9 DEF A!Next

LEMMA ImagesInvariant == Spec => []ImagesInv
  <1>1. Init => ImagesInv
    <2> SUFFICES ASSUME A!Init PROVE ImagesInv
      BY DEF Init
    <2>1. here \in Engagements /\ opSeq = 1
          /\ reads = {[A!Read(TRUE) EXCEPT !.eng = here, !.seq = 1]}
      BY DEF A!Init
    <2>2. \A q \in reads : q \in ReadRow /\ q.seq = 1 /\ q.since = {}
      <3> DEFINE r == A!Read(TRUE)
      <3>1. r \in ReadRow /\ r.since = {}
        BY <2>1, FreshRead
      <3>2. reads = {[r EXCEPT !.eng = here, !.seq = 1]}
        BY <2>1
      <3> HIDE DEF r
      <3>3. /\ [r EXCEPT !.eng = here, !.seq = 1] \in ReadRow
            /\ [r EXCEPT !.eng = here, !.seq = 1].seq = 1
            /\ [r EXCEPT !.eng = here, !.seq = 1].since = {}
        BY <2>1, <3>1 DEF ReadRow
      <3>4. QED
        BY <3>2, <3>3
    <2>3. /\ stored = A!NoImages /\ rows = A!NoImages /\ marks = A!NoImages /\ writes = {}
      BY DEF A!Init
    <2>4. reads \subseteq ReadRow /\ \A q \in reads : q.seq <= opSeq /\ Newer(q) /\ (q.since # {} => q.eng = here)
      <3>1. 1 <= 1
        OBVIOUS
      <3>2. QED
        BY <2>1, <2>2, <3>1 DEF Newer
    <2>5. QED
      BY <2>1, <2>3, <2>4, NoImagesShown DEF ImagesInv
  <1>2. ImagesInv /\ [Next]_vars => ImagesInv'
    <2> SUFFICES ASSUME ImagesInv, [Next]_vars PROVE ImagesInv'
      OBVIOUS
    <2>1. CASE A!Next
      BY <2>1, ImagesStep
    <2>2. CASE UNCHANGED imageVars
      BY <2>2 DEF imageVars, ImagesInv, Newer
    <2>3. QED
      BY <2>1, <2>2 DEF Next, vars
  <1>3. QED
    BY <1>1, <1>2, PTL DEF Spec

\* No list that lands replaces a row this view wrote after the list was asked
\* for, with any number of lists and writes in flight.
THEOREM OwnWritesStay == Spec => ReadKeepsOwnWrites
  <1>1. ImagesInv => \A q \in reads :
           A!ReadLands(q) => \A i \in q.since : rows'[i] = rows[i]
    <2> SUFFICES ASSUME ImagesInv, NEW q \in reads, A!ReadLands(q), NEW i \in q.since
                 PROVE  rows'[i] = rows[i]
      OBVIOUS
    <2>1. q \in ReadRow /\ i \in A!Images /\ rows[i] # A!Absent /\ marks[i] > q.seq
      BY DEF ImagesInv, ReadRow, Newer
    <2>2. QED
      BY <2>1, MergedRows DEF A!ReadLands
  <1>2. QED
    BY <1>1, ImagesInvariant, PTL DEF ReadKeepsOwnWrites, A!ReadKeepsOwnWrites

-----------------------------------------------------------------------------
(* The start of an engagement.  The records, without the bounds of the     *)
(* model.                                                                  *)

Lists == Targets \cup {None}
Request == [op : S!Commands, eng : Nat, revision : Nat, scope : Nat, targets : Lists,
            rules : Nat, drop : Nat]
Code == {"ok", "revision_conflict", "engagement_archived", "invalid_request",
         "idempotency_conflict", "archived", "active"}
Reply == [code : Code, eng : Nat, revision : Nat, scope : Nat]
Progress == [eng : Nat, revision : Nat, scope : Nat, scopeDone : BOOLEAN,
             scopeTargets : Lists, rules : Nat]
Run == [phase : S!Commands \cup {"refresh", "notes"}, press : Nat, targets : Lists,
        save : BOOLEAN, progress : Progress \cup {None}, q : Request \cup {None},
        answer : Reply \cup {None}]
Dialog == [open : BOOLEAN, targets : Lists, save : BOOLEAN, started : Progress \cup {None},
           starting : BOOLEAN, creating : S!Slots \cup {0}]

\* The pair of revision and scope is one the Engagement once had.
Real(e, revision, scope) == e \in S!Created /\ <<revision, scope>> \in engagements[e].had

RealProgress(p) == p \in Progress /\ Real(p.eng, p.revision, p.scope)

\* A request names an Engagement that is there.
Named(q) == q \in Request /\ (q.op # "create" => q.eng \in S!Created)

\* What a request may be answered: a scope append tells the revision it made.
Fits(q, a) ==
    /\ a \in Reply
    /\ a.code = "ok" => /\ Real(a.eng, a.revision, a.scope)
                        /\ q.op = "scope" => a.eng = q.eng /\ a.revision = q.revision + 1
    /\ q.op = "create" => a.code \in {"ok", "idempotency_conflict"}

RunFits(r) ==
    /\ r.phase \in S!Commands =>
         /\ Named(r.q) /\ r.q.op = r.phase
         /\ r.phase = "scope" => r.q.eng = r.progress.eng /\ r.q.revision = r.progress.revision
         /\ r.answer # None => Fits(r.q, r.answer)
    /\ r.phase \in {"scope", "action", "refresh"} => RealProgress(r.progress)
    /\ r.phase = "refresh" /\ r.answer # None =>
         r.answer \in Reply /\ Real(r.progress.eng, r.answer.revision, r.answer.scope)

\* The Engagements are numbered in the order of their creation, and each has
\* had the pair it has.
RowsInv ==
    /\ engagements \in [S!Ids -> S!Rows \cup {None}]
    /\ \E k \in Nat : S!Created = 1..k
    /\ \A e \in S!Created : Real(e, engagements[e].revision, engagements[e].scope)

AnswersInv ==
    \A c \in commands : Named(c.q) /\ Fits(c.q, c.answer)

DialogInv ==
    dialog \in Dialog /\ (dialog.started # None => RealProgress(dialog.started))

RunsInv ==
    /\ runs \in [S!Slots -> Run \cup {None}]
    /\ \A s \in S!Slots : runs[s] # None => RunFits(runs[s])

StartInv ==
    /\ RowsInv /\ AnswersInv /\ DialogInv /\ RunsInv
    /\ \A q \in late : Named(q)
    /\ submits \in Nat /\ IsFiniteSet(resets)

\* No Engagement goes, nor a pair it has had.
Grows == \A e \in S!Created : e \in S!Created' /\ engagements[e].had \subseteq engagements'[e].had

LEMMA StaysReal ==
    ASSUME Grows
    PROVE  /\ \A e, r, c : Real(e, r, c) => Real(e, r, c)'
           /\ \A p : RealProgress(p) => RealProgress(p)'
           /\ \A q : Named(q) => Named(q)'
           /\ \A q, a : Fits(q, a) => Fits(q, a)'
           /\ \A r : RunFits(r) => RunFits(r)'
  <1>1. \A e, r, c : Real(e, r, c) => Real(e, r, c)'
    BY DEF Grows, Real
  <1>2. \A p : RealProgress(p) => RealProgress(p)'
    BY <1>1 DEF RealProgress
  <1>3. \A q : Named(q) => Named(q)'
    BY DEF Grows, Named
  <1>4. \A q, a : Fits(q, a) => Fits(q, a)'
    BY <1>1 DEF Fits
  <1>5. \A r : RunFits(r) => RunFits(r)'
    BY <1>1, <1>2, <1>3, <1>4 DEF RunFits
  <1>6. QED
    BY <1>1, <1>2, <1>3, <1>4, <1>5

LEMMA SameRows ==
    ASSUME UNCHANGED engagements PROVE Grows /\ (RowsInv => RowsInv')
  BY DEF Grows, RowsInv, S!Created, Real

\* A row that takes another's place keeps what it has had.
LEMMA RevisedRows ==
    ASSUME RowsInv, NEW e \in S!Created, NEW row \in S!Rows,
           engagements' = [engagements EXCEPT ![e] = row],
           engagements[e].had \subseteq row.had, <<row.revision, row.scope>> \in row.had
    PROVE  RowsInv' /\ Grows
  <1>1. e \in S!Ids /\ engagements[e] # None /\ row # None
    BY RecordsAssumption DEF S!Created
  <1>2. engagements' \in [S!Ids -> S!Rows \cup {None}]
    BY DEF RowsInv
  <1>3. engagements'[e] = row /\ \A d \in S!Ids : d # e => engagements'[d] = engagements[d]
    BY <1>1 DEF RowsInv
  <1>4. S!Created' = S!Created
    BY <1>1, <1>3 DEF S!Created
  <1>5. \A d \in S!Created : Real(d, engagements[d].revision, engagements[d].scope)'
    BY <1>3, <1>4 DEF RowsInv, Real, S!Created
  <1>6. QED
    BY <1>2, <1>3, <1>4, <1>5 DEF RowsInv, Grows, S!Created

LEMMA RevisedRow ==
    ASSUME NEW row \in S!Rows, NEW scope \in Nat, NEW shut \in BOOLEAN
    PROVE  LET new == S!Revised(row, scope)
           IN  /\ new \in S!Rows /\ new.revision = row.revision + 1 /\ new.scope = scope
               /\ new.had = row.had \cup {<<row.revision + 1, scope>>}
               /\ [new EXCEPT !.archived = shut] \in S!Rows
               /\ [new EXCEPT !.archived = shut].revision = row.revision + 1
               /\ [new EXCEPT !.archived = shut].scope = scope
               /\ [new EXCEPT !.archived = shut].had = new.had
  <1>1. <<row.revision + 1, scope>> \in Nat \X Nat
    BY DEF S!Rows
  <1>2. QED
    BY <1>1 DEF S!Revised, S!Rows

LEMMA CreatedRows ==
    ASSUME RowsInv, NEW e \in S!Created
    PROVE  /\ engagements[e] \in S!Rows /\ e \in S!Ids /\ e \in Nat
           /\ engagements[e].revision \in Nat /\ engagements[e].scope \in Nat
           /\ Real(e, engagements[e].revision, engagements[e].scope)
  BY RecordsAssumption DEF RowsInv, S!Created, S!Rows, S!Ids

\* The operator that the instance brings in is the one of the library.
LEMMA SameCardinality == ASSUME NEW T PROVE S!Cardinality(T) = Cardinality(T)
  BY DEF S!Cardinality, Cardinality

LEMMA Refused ==
    ASSUME NEW q, NEW code \in {"revision_conflict", "engagement_archived", "invalid_request",
                                "idempotency_conflict"},
           q.op # "create" \/ code = "idempotency_conflict"
    PROVE  Fits(q, S!Refusal(code)) /\ S!Refusal(code).code # "ok"
  BY DEF S!Refusal, S!Answer, Fits, Reply, Code

\* What a request that is carried out for the first time is answered, and what
\* it changes.
LEMMA FirstTime ==
    ASSUME StartInv, NEW q, Named(q), S!CanExecute(q), S!Execute(q), S!SameKey(q) = {},
           NEW a, a = S!Fresh(q)
    PROVE  RowsInv' /\ Grows /\ Fits(q, a)'
  <1>0. RowsInv /\ q \in Request /\ q.op \in S!Commands
    BY DEF StartInv, Named, Request
  <1>1. CASE q.op = "create"
    <2>1. PICK k \in Nat : S!Created = 1..k
      BY <1>0 DEF RowsInv
    <2>2. S!Cardinality(S!Created) = k
      <3>1. Cardinality(1..k) = k
        BY FS_Interval
      <3>2. QED
        BY <2>1, <3>1, SameCardinality
    <2>3. a = [code |-> "ok", eng |-> k + 1, revision |-> 1, scope |-> 0]
      BY <1>1, <2>2 DEF S!Fresh, S!Answer
    <2>4. k < MaxRevisions /\ k + 1 \in S!Ids /\ MaxRevisions \in Nat
      <3>1. S!Fresh(q).code = "ok"
        BY <2>3
      <3>2. S!Cardinality(S!Created) < MaxRevisions
        BY <1>1, <3>1 DEF S!CanExecute
      <3>3. QED
        BY <2>2, <3>2, RecordsAssumption DEF S!Ids
    <2> DEFINE row == [targets |-> q.targets, revision |-> 1, scope |-> 0,
                       archived |-> FALSE, had |-> {<<1, 0>>}]
    <2>5. engagements' = [engagements EXCEPT ![k + 1] = row]
      BY <1>1, <2>3 DEF S!Execute
    <2>6. row \in S!Rows /\ row # None /\ row.revision = 1 /\ row.scope = 0 /\ row.had = {<<1, 0>>}
      <3>1. {<<1, 0>>} \in SUBSET (Nat \X Nat)
        OBVIOUS
      <3>2. row \in S!Rows
        BY <1>0, <3>1 DEF Request, Lists, S!Rows
      <3>3. QED
        BY <3>2, RecordsAssumption
    <2> HIDE DEF row
    <2>7. engagements' \in [S!Ids -> S!Rows \cup {None}]
      BY <1>0, <2>5, <2>6 DEF RowsInv
    <2>8. engagements'[k + 1] = row /\ \A e \in S!Ids : e # k + 1 => engagements'[e] = engagements[e]
      BY <1>0, <2>4, <2>5 DEF RowsInv
    <2>9. k + 1 \notin 1..k
      BY <2>1
    <2>10. S!Created' = S!Created \cup {k + 1}
      BY <2>4, <2>6, <2>8 DEF S!Created
    <2>11. S!Created' = 1..(k + 1) /\ k + 1 \in Nat
      BY <2>1, <2>10
    <2>12. Grows
      BY <2>1, <2>8, <2>9, <2>10 DEF Grows, S!Created
    <2>13. \A e \in S!Created' : Real(e, engagements[e].revision, engagements[e].scope)'
      BY <1>0, <2>1, <2>6, <2>8, <2>9, <2>10 DEF RowsInv, Real, S!Created
    <2>14. RowsInv'
      BY <2>7, <2>11, <2>13 DEF RowsInv
    <2>15. Real(k + 1, 1, 0)'
      BY <2>6, <2>8, <2>10 DEF Real
    <2>16. Fits(q, a)'
      BY <1>1, <2>1, <2>3, <2>15 DEF Fits, Reply, Code
    <2>17. QED
      BY <2>12, <2>14, <2>16
  <1>2. CASE q.op = "scope" /\ a.code = "ok"
    <2> DEFINE e == q.eng
               new == S!Revised(engagements[e], q.revision + 1)
    <2>1. e \in S!Created /\ q.revision \in Nat /\ q.revision + 1 \in Nat
      BY <1>0, <1>2 DEF Named, Request
    <2>2. /\ engagements[e] \in S!Rows /\ e \in S!Ids /\ e \in Nat
      BY <1>0, <2>1, CreatedRows
    <2>3. a = S!Answer("ok", e, q.revision + 1, q.revision + 1) /\ engagements[e].revision = q.revision
      BY <1>2 DEF S!Fresh, S!Refusal, S!Answer
    <2>4. engagements' = [engagements EXCEPT ![e] = new]
      BY <1>0, <1>2 DEF S!Execute, RowsInv
    <2>5. /\ new \in S!Rows /\ new.revision = q.revision + 1 /\ new.scope = q.revision + 1
          /\ new.had = engagements[e].had \cup {<<q.revision + 1, q.revision + 1>>}
      <3> DEFINE row == engagements[e]
      <3>1. row \in S!Rows /\ row.revision = q.revision /\ q.revision + 1 \in Nat
        BY <2>1, <2>2, <2>3
      <3> HIDE DEF row
      <3>2. S!Revised(row, q.revision + 1) \in S!Rows
            /\ S!Revised(row, q.revision + 1).revision = row.revision + 1
            /\ S!Revised(row, q.revision + 1).scope = q.revision + 1
            /\ S!Revised(row, q.revision + 1).had = row.had \cup {<<row.revision + 1, q.revision + 1>>}
        BY <3>1, RevisedRow
      <3>3. QED
        BY <3>1, <3>2 DEF row
    <2> HIDE DEF new
    <2>6. RowsInv' /\ Grows
      BY <1>0, <2>1, <2>4, <2>5, RevisedRows
    <2>7. engagements'[e] = new /\ e \in S!Created'
      BY <1>0, <2>1, <2>2, <2>4, <2>6 DEF RowsInv, Grows
    <2>8. Real(e, q.revision + 1, q.revision + 1)'
      BY <2>5, <2>7 DEF Real
    <2>9. Fits(q, a)'
      BY <1>2, <2>1, <2>2, <2>3, <2>8 DEF Fits, Reply, Code, S!Answer
    <2>10. QED
      BY <2>6, <2>9
  <1>3. CASE q.op # "create" /\ ~(q.op = "scope" /\ a.code = "ok")
    <2>1. q.op \in {"scope", "action"}
      BY <1>0, <1>3 DEF S!Commands
    <2>2. UNCHANGED engagements
      BY <1>3, <2>1 DEF S!Execute
    <2>3. CASE a.code = "ok"
      <3>1. /\ q.op = "action" /\ a = S!Answer("ok", q.eng, q.revision, q.scope)
            /\ engagements[q.eng].revision = q.revision /\ engagements[q.eng].scope = q.scope
        BY <1>3, <2>1, <2>3 DEF S!Fresh, S!Refusal, S!Answer
      <3>2. Real(q.eng, q.revision, q.scope)
        BY <1>0, <3>1, CreatedRows DEF Named
      <3>3. a \in Reply /\ a.eng = q.eng /\ a.revision = q.revision /\ a.scope = q.scope
        BY <1>0, <3>1 DEF S!Answer, Reply, Code, Request
      <3>4. Fits(q, a)
        BY <3>1, <3>2, <3>3 DEF Fits
      <3>5. QED
        BY <1>0, <2>2, <3>4, SameRows, StaysReal
    <2>4. CASE a.code # "ok"
      <3>1. \E code \in {"revision_conflict", "engagement_archived", "invalid_request"} :
               a = S!Refusal(code)
        BY <1>3, <2>1, <2>4 DEF S!Fresh, S!Answer
      <3>2. Fits(q, a)
        BY <1>3, <3>1, Refused
      <3>3. QED
        BY <1>0, <2>2, <3>2, SameRows, StaysReal
    <2>5. QED
      BY <2>3, <2>4
  <1>4. QED
    BY <1>1, <1>2, <1>3

LEMMA ExecuteStep ==
    ASSUME StartInv, NEW q, Named(q), S!CanExecute(q), S!Execute(q)
    PROVE  /\ RowsInv' /\ Grows /\ AnswersInv'
           /\ \A a : a = S!Outcome(q) => Fits(q, a)'
  <1>1. CASE S!SameKey(q) # {}
    <2>1. UNCHANGED <<engagements, commands>>
      BY <1>1 DEF S!Execute
    <2>2. RowsInv' /\ Grows /\ AnswersInv'
      BY <2>1, SameRows, StaysReal DEF StartInv, AnswersInv
    <2>3. Fits(q, S!Outcome(q))
      <3>1. CASE \E c \in S!SameKey(q) : c.q = q
        <4>1. PICK c \in S!SameKey(q) : c.q = q /\ S!Outcome(q) = c.answer
          BY <1>1, <3>1 DEF S!Outcome
        <4>2. QED
          BY <4>1 DEF StartInv, AnswersInv, S!SameKey
      <3>2. CASE ~\E c \in S!SameKey(q) : c.q = q
        BY <1>1, <3>2, Refused DEF S!Outcome
      <3>3. QED
        BY <3>1, <3>2
    <2>4. QED
      BY <2>2, <2>3, StaysReal
  <1>2. CASE S!SameKey(q) = {}
    <2>1. RowsInv' /\ Grows /\ \A a : a = S!Fresh(q) => Fits(q, a)'
      BY <1>2, FirstTime
    <2>2. commands' = commands \cup {[q |-> q, answer |-> S!Fresh(q)]}
      BY <1>2 DEF S!Execute
    <2>3. S!Outcome(q) = S!Fresh(q)
      BY <1>2 DEF S!Outcome
    <2>4. \A c \in commands : Named(c.q)' /\ Fits(c.q, c.answer)'
      BY <2>1, StaysReal DEF StartInv, AnswersInv
    <2>5. Named(q)'
      BY <2>1, StaysReal
    <2>6. \A c \in commands' : Named(c.q)' /\ Fits(c.q, c.answer)'
      BY <2>1, <2>2, <2>4, <2>5
    <2>7. QED
      BY <2>1, <2>3, <2>6 DEF AnswersInv
  <1>3. QED
    BY <1>1, <1>2

LEMMA KeyOf ==
    ASSUME IsFiniteSet(resets), NEW q \in Request
    PROVE  /\ S!Key(q) \in Request /\ S!Key(q).op = q.op /\ S!Key(q).eng = q.eng
           /\ S!Key(q).revision = q.revision
  <1>1. IsFiniteSet({r \in resets : r.intent = S!Intent(q)})
    BY FS_Subset
  <1>2. S!Drops(q) \in Nat
    BY <1>1, FS_CardinalityType, SameCardinality DEF S!Drops
  <1>3. QED
    BY <1>2 DEF S!Key, Request

LEMMA ResetStays == ASSUME IsFiniteSet(resets), NEW q PROVE IsFiniteSet(S!Reset(q))
  BY FS_AddElement DEF S!Reset

LEMMA DialogForms ==
    ASSUME NEW d \in Dialog
    PROVE  /\ S!Blank \in Dialog /\ S!Blank.started = None
           /\ S!Left(d) \in Dialog /\ S!Left(d).started = d.started
           /\ S!Closed(d) \in Dialog /\ S!Closed(d).started \in {None, d.started}
           /\ \A s \in S!Slots : S!Settled(s, d) \in Dialog /\ S!Settled(s, d).started = d.started
           /\ \A x \in Progress \cup {None} :
                [d EXCEPT !.started = x] \in Dialog /\ [d EXCEPT !.started = x].started = x
  <1>1. S!Blank \in Dialog /\ S!Blank.started = None
    BY DEF S!Blank, Dialog, Lists
  <1>2. S!Left(d) \in Dialog /\ S!Left(d).started = d.started
    BY DEF S!Left, Dialog
  <1>3. S!Closed(d) \in Dialog /\ S!Closed(d).started \in {None, d.started}
    BY <1>1, <1>2 DEF S!Closed
  <1>4. \A s \in S!Slots : S!Settled(s, d) \in Dialog /\ S!Settled(s, d).started = d.started
    BY DEF S!Settled, Dialog
  <1>5. \A x \in Progress \cup {None} :
           [d EXCEPT !.started = x] \in Dialog /\ [d EXCEPT !.started = x].started = x
    BY DEF Dialog
  <1>6. QED
    BY <1>1, <1>2, <1>3, <1>4, <1>5

LEMMA WaitingRun ==
    ASSUME NEW run \in Run, NEW phase \in S!Commands \cup {"refresh", "notes"},
           NEW p \in Progress \cup {None}, NEW q \in Request \cup {None}
    PROVE  LET w == S!Waiting(run, phase, p, q)
           IN  w \in Run /\ w.phase = phase /\ w.progress = p /\ w.q = q /\ w.answer = None
  BY DEF S!Waiting, Run

LEMMA RunSet ==
    ASSUME RunsInv, Grows, NEW s \in S!Slots, NEW r \in Run \cup {None},
           r # None => RunFits(r)', runs' = [runs EXCEPT ![s] = r]
    PROVE  RunsInv'
  BY StaysReal DEF RunsInv

LEMMA DialogSet ==
    ASSUME NEW d \in Dialog, d.started # None => RealProgress(d.started)', dialog' = d
    PROVE  DialogInv'
  BY DEF DialogInv

\* From one await of the submit to the next.
LEMMA ProceedStep ==
    ASSUME RunsInv, Grows, IsFiniteSet(resets), NEW s \in S!Slots, NEW run \in Run,
           NEW p, RealProgress(p)',
           NEW d \in Dialog, d.started # None => RealProgress(d.started)',
           S!Proceed(s, run, p, d)
    PROVE  RunsInv' /\ DialogInv'
  <1>0. p \in Progress /\ Real(p.eng, p.revision, p.scope)' /\ p.eng \in S!Created'
        /\ p.eng \in Nat /\ p.revision \in Nat /\ p.scope \in Nat /\ p.rules \in Nat
    BY DEF RealProgress, Real, Progress
  <1>1. CASE S!ScopePhase(run, p)
    <2> DEFINE rules == S!Draft(run, p)
               kept == [p EXCEPT !.scopeTargets = run.targets, !.rules = rules]
               q0 == S!Request("scope", p.eng, p.revision, 0, run.targets, rules)
               q == S!Key(q0)
               w == S!Waiting(run, "scope", kept, q)
    <2>1. rules \in Nat /\ run.targets \in Lists
      BY <1>0 DEF S!Draft, Run
    <2>2. runs' = [runs EXCEPT ![s] = w]
          /\ dialog' = [d EXCEPT !.started = IF rules = p.rules THEN @ ELSE kept]
      BY <1>1 DEF S!Proceed
    <2> HIDE DEF rules
    <2>3. kept \in Progress /\ kept.eng = p.eng /\ kept.revision = p.revision /\ kept.scope = p.scope
      BY <1>0, <2>1 DEF Progress
    <2>4. q0 \in Request /\ q0.op = "scope" /\ q0.eng = p.eng /\ q0.revision = p.revision
      BY <1>0, <2>1 DEF S!Request, Request, S!Commands
    <2>5. q \in Request /\ q.op = "scope" /\ q.eng = p.eng /\ q.revision = p.revision
      <3> HIDE DEF q0
      <3>1. QED
        BY <2>4, KeyOf
    <2> HIDE DEF kept, q0, q
    <2>6. w \in Run /\ w.phase = "scope" /\ w.progress = kept /\ w.q = q /\ w.answer = None
      BY <2>3, <2>5, WaitingRun DEF S!Commands
    <2> HIDE DEF w
    <2>7. \A x : x = kept => RealProgress(x)'
      BY <1>0, <2>3 DEF RealProgress
    <2>8. \A x : x = q => Named(x)'
      BY <1>0, <2>5 DEF Named
    <2>9. \A x : x = w => RunFits(x)'
      BY <2>3, <2>5, <2>6, <2>7, <2>8 DEF RunFits, S!Commands
    <2>10. RunsInv'
      BY <2>2, <2>6, <2>9, RunSet
    <2>11. PICK x \in Progress \cup {None} : /\ x \in {d.started, kept}
                                            /\ dialog' = [d EXCEPT !.started = x]
      BY <2>2, <2>3 DEF Dialog
    <2>12. DialogInv'
      <3> DEFINE f == [d EXCEPT !.started = x]
      <3>1. f \in Dialog /\ f.started = x
        BY <2>11, DialogForms
      <3>2. x # None => RealProgress(x)'
        BY <2>7, <2>11
      <3>3. dialog' = f
        BY <2>11
      <3> HIDE DEF f
      <3>4. QED
        BY <3>1, <3>2, <3>3 DEF DialogInv
    <2>13. QED
      BY <2>10, <2>12
  <1>2. CASE ~S!ScopePhase(run, p) /\ run.targets # None
    <2> DEFINE q0 == S!Request("action", p.eng, p.revision, p.scope, run.targets, 0)
               q == S!Key(q0)
               w == S!Waiting(run, "action", p, q)
    <2>1. run.targets \in Lists
      BY DEF Run
    <2>2. runs' = [runs EXCEPT ![s] = w] /\ dialog' = d
      BY <1>2 DEF S!Proceed
    <2>3. q0 \in Request /\ q0.op = "action" /\ q0.eng = p.eng
      BY <1>0, <2>1 DEF S!Request, Request, S!Commands
    <2>4. q \in Request /\ q.op = "action" /\ q.eng = p.eng
      <3> HIDE DEF q0
      <3>1. QED
        BY <2>3, KeyOf
    <2> HIDE DEF q0, q
    <2>5. w \in Run /\ w.phase = "action" /\ w.progress = p /\ w.q = q /\ w.answer = None
      BY <1>0, <2>4, WaitingRun DEF S!Commands
    <2> HIDE DEF w
    <2>6. \A x : x = q => Named(x)'
      BY <1>0, <2>4 DEF Named
    <2>7. \A x : x = w => RunFits(x)'
      BY <2>4, <2>5, <2>6 DEF RunFits, S!Commands
    <2>8. QED
      BY <2>2, <2>5, <2>7, RunSet, DialogSet
  <1>3. CASE ~S!ScopePhase(run, p) /\ run.targets = None
    <2> DEFINE r == [run EXCEPT !.progress = p]
               w == S!Waiting(r, "notes", r.progress, None)
    <2>1. \/ runs' = [runs EXCEPT ![s] = w] /\ dialog' = d
          \/ runs' = [runs EXCEPT ![s] = None] /\ dialog' = S!Closed(d)
      BY <1>3 DEF S!Proceed, S!Finish, S!Ended
    <2>2. r \in Run /\ r.progress = p
      BY <1>0 DEF Run
    <2> HIDE DEF r
    <2>3. w \in Run /\ w.phase = "notes"
      BY <1>0, <2>2, WaitingRun
    <2> HIDE DEF w
    <2>4. \A x : x = w => RunFits(x)'
      BY <2>3 DEF RunFits, S!Commands
    <2>5. CASE runs' = [runs EXCEPT ![s] = w] /\ dialog' = d
      BY <2>3, <2>4, <2>5, RunSet, DialogSet
    <2>6. CASE runs' = [runs EXCEPT ![s] = None] /\ dialog' = S!Closed(d)
      BY <2>6, RunSet, DialogForms, DialogSet
    <2>7. QED
      BY <2>1, <2>5, <2>6
  <1>4. QED
    BY <1>1, <1>2, <1>3

\* Nothing but the dialog, or nothing but what the dialog waits for.
LEMMA DialogStep ==
    ASSUME StartInv, UNCHANGED <<engagements, commands, scans, late, runs, resets, submits>>,
           DialogInv'
    PROVE  StartInv'
  <1>1. Grows /\ RowsInv'
    BY SameRows DEF StartInv
  <1>2. AnswersInv' /\ RunsInv' /\ (\A q \in late : Named(q)')
    BY <1>1, StaysReal DEF StartInv, AnswersInv, RunsInv
  <1>3. QED
    BY <1>1, <1>2 DEF StartInv

LEMMA SubmitStep ==
    ASSUME StartInv, Grows, RowsInv', RunsInv', DialogInv', late' \subseteq late,
           UNCHANGED commands, resets' = resets \/ (\E q : resets' = S!Reset(q)),
           submits' \in Nat
    PROVE  StartInv'
  <1>1. AnswersInv' /\ (\A q \in late' : Named(q)')
    BY StaysReal DEF StartInv, AnswersInv
  <1>2. IsFiniteSet(resets')
    BY ResetStays DEF StartInv
  <1>3. QED
    BY <1>1, <1>2 DEF StartInv

\* The dialog's own actions leave the retained pair, or drop it.
LEMMA DialogActs ==
    ASSUME StartInv,
           \/ S!Open \/ S!Cancel \/ S!OpenEngagement \/ S!Discard
           \/ \E t \in Targets \cup {None}, save \in BOOLEAN : S!Edit(t, save)
    PROVE  StartInv'
  <1>1. dialog \in Dialog /\ (dialog.started # None => RealProgress(dialog.started))
    BY DEF StartInv, DialogInv
  <1>2. UNCHANGED <<engagements, commands, scans, late, runs, resets, submits>>
    BY DEF S!Open, S!Cancel, S!OpenEngagement, S!Discard, S!Edit, S!Idle
  <1>3. dialog' \in Dialog /\ dialog'.started \in {None, dialog.started}
    <2>1. ASSUME NEW t \in Targets \cup {None}, NEW save \in BOOLEAN
          PROVE  LET d == [dialog EXCEPT !.targets = t, !.save = save]
                 IN  d \in Dialog /\ d.started = dialog.started
      BY <1>1 DEF Dialog, Lists
    <2>2. LET d == [dialog EXCEPT !.open = TRUE] IN d \in Dialog /\ d.started = dialog.started
      BY <1>1 DEF Dialog
    <2>3. CASE S!Open \/ S!Cancel \/ S!OpenEngagement \/ S!Discard
      <3>1. CASE S!Open
        BY <1>1, <2>2, <3>1 DEF S!Open
      <3>2. CASE S!Cancel \/ S!OpenEngagement
        BY <1>1, <3>2, DialogForms DEF S!Cancel, S!OpenEngagement
      <3>3. CASE S!Discard
        BY <1>1, <3>3, DialogForms DEF S!Discard
      <3>4. QED
        BY <2>3, <3>1, <3>2, <3>3
    <2>4. CASE \E t \in Targets \cup {None}, save \in BOOLEAN : S!Edit(t, save)
      BY <2>1, <2>4 DEF S!Edit
    <2>5. QED
      BY <2>3, <2>4
  <1>4. DialogInv'
    BY <1>1, <1>2, <1>3, SameRows, StaysReal DEF StartInv, DialogInv
  <1>5. QED
    BY <1>2, <1>4, DialogStep

LEMMA OtherTabStep ==
    ASSUME StartInv, NEW e \in S!Ids, NEW change \in {"settings", "scope", "status"},
           S!OtherTab(e, change)
    PROVE  StartInv'
  <1> DEFINE row == engagements[e]
             scope == IF change = "scope" THEN row.revision + 1 ELSE row.scope
             shut == IF change = "status" THEN ~row.archived ELSE row.archived
             new == [S!Revised(row, scope) EXCEPT !.archived = shut]
  <1>1. e \in S!Created /\ row \in S!Rows /\ RowsInv
    BY CreatedRows DEF StartInv, S!OtherTab, S!Created
  <1>2. scope \in Nat /\ shut \in BOOLEAN
    <2>1. row.revision \in Nat /\ row.scope \in Nat /\ row.archived \in BOOLEAN
      BY <1>1 DEF S!Rows
    <2> HIDE DEF row
    <2>2. scope \in Nat
      BY <2>1
    <2>3. shut \in BOOLEAN
      BY <2>1
    <2>4. QED
      BY <2>2, <2>3
  <1>4. engagements' = [engagements EXCEPT ![e] = new]
    BY DEF S!OtherTab
  <1> HIDE DEF scope, shut
  <1>5. /\ new \in S!Rows /\ new.revision = row.revision + 1 /\ new.scope = scope
        /\ new.had = row.had \cup {<<row.revision + 1, scope>>}
    <2> HIDE DEF row
    <2>1. QED
      BY <1>1, <1>2, RevisedRow
  <1> HIDE DEF new
  <1>6. RowsInv' /\ Grows
    BY <1>1, <1>4, <1>5, RevisedRows
  <1>7. RunsInv' /\ DialogInv'
    BY <1>6, StaysReal DEF StartInv, RunsInv, DialogInv, S!OtherTab
  <1>8. QED
    BY <1>6, <1>7, SubmitStep DEF S!OtherTab, StartInv

\* A request is carried out, heard or late.
LEMMA ServeSteps ==
    ASSUME StartInv
    PROVE  /\ \A q \in late : S!ServeLate(q) => StartInv'
           /\ \A s \in S!Slots : S!Serve(s) => StartInv'
  <1>1. ASSUME NEW q \in late, S!ServeLate(q) PROVE StartInv'
    <2>1. RowsInv' /\ Grows /\ AnswersInv'
      BY <1>1, ExecuteStep DEF S!ServeLate, StartInv
    <2>2. RunsInv' /\ DialogInv' /\ (\A r \in late' : Named(r)')
      BY <1>1, <2>1, StaysReal DEF S!ServeLate, StartInv, RunsInv, DialogInv
    <2>3. QED
      BY <1>1, <2>1, <2>2 DEF S!ServeLate, StartInv
  <1>2. ASSUME NEW s \in S!Slots, S!Serve(s) PROVE StartInv'
    <2>1. PICK run : run = runs[s]
      OBVIOUS
    <2>2. PICK q : q = run.q
      OBVIOUS
    <2>3. PICK a : a = S!Outcome(q)
      OBVIOUS
    <2> DEFINE w == [run EXCEPT !.answer = a]
    <2>4. run \in Run /\ run # None /\ run.phase \in S!Commands /\ RunFits(run)
      BY <1>2, <2>1 DEF S!Serve, S!Awaits, StartInv, RunsInv
    <2>5. Named(q)
      BY <2>2, <2>4 DEF RunFits
    <2>6. S!CanExecute(q) /\ S!Execute(q) /\ UNCHANGED <<late, dialog, resets, submits>>
          /\ runs' = [runs EXCEPT ![s] = w]
      BY <1>2, <2>1, <2>2, <2>3 DEF S!Serve, StartInv, RunsInv
    <2>7. RowsInv' /\ Grows /\ AnswersInv' /\ Fits(q, a)'
      BY <2>3, <2>5, <2>6, ExecuteStep
    <2>8. a \in Reply
      BY <2>7 DEF Fits
    <2>9. w \in Run /\ w.phase = run.phase /\ w.q = q /\ w.progress = run.progress /\ w.answer = a
      BY <2>2, <2>4, <2>8 DEF Run
    <2> HIDE DEF w
    <2>10. RunFits(run)'
      BY <2>4, <2>7, StaysReal
    <2>11. \A x : x = w => RunFits(x)'
      BY <2>2, <2>4, <2>7, <2>9, <2>10 DEF RunFits, S!Commands
    <2>12. RunsInv'
      BY <2>6, <2>7, <2>9, <2>11, RunSet DEF StartInv
    <2>13. DialogInv' /\ \A r \in late' : Named(r)'
      BY <2>6, <2>7, StaysReal DEF StartInv, DialogInv
    <2>14. QED
      BY <2>6, <2>7, <2>12, <2>13 DEF StartInv
  <1>3. QED
    BY <1>1, <1>2

\* An answer that is applied leaves the dialog a pair that is real: the scope
\* append answers with the revision it made, the refresh with what it read.
LEMMA AnswerSteps ==
    ASSUME StartInv, NEW s \in S!Slots,
           \/ S!CreateLands(s) \/ S!ScopeLands(s) \/ S!ActionLands(s) \/ S!NotesEnd(s)
           \/ S!RefusalLands(s) \/ S!ServeRefresh(s) \/ S!RefreshLands(s)
    PROVE  StartInv'
  <1> USE DEF S!Commands
  <1>1. PICK run : run = runs[s]
    OBVIOUS
  <1>2. PICK d : d = dialog
    OBVIOUS
  <1>3. /\ RowsInv /\ AnswersInv /\ DialogInv /\ RunsInv /\ d \in Dialog
        /\ (d.started # None => RealProgress(d.started))
        /\ run \in Run /\ run # None /\ RunFits(run) /\ submits \in Nat /\ IsFiniteSet(resets)
        /\ runs \in [S!Slots -> Run \cup {None}]
    BY <1>1, <1>2 DEF StartInv, DialogInv, RunsInv, S!CreateLands, S!ScopeLands, S!ActionLands,
       S!NotesEnd, S!RefusalLands, S!ServeRefresh, S!RefreshLands, S!Good, S!Landed, S!Awaits
  <1>4. ASSUME UNCHANGED engagements
        PROVE  /\ Grows /\ RowsInv' /\ (d.started # None => RealProgress(d.started)')
               /\ \A p : RealProgress(p) => RealProgress(p)'
    BY <1>3, <1>4, SameRows, StaysReal
  <1>5. CASE S!CreateLands(s)
    <2>1. PICK a : a = run.answer
      OBVIOUS
    <2>2. /\ a # None /\ a.code = "ok" /\ run.phase = "create"
          /\ resets' = S!Reset(run.q) /\ UNCHANGED <<engagements, commands, scans, late, submits>>
      BY <1>1, <1>5, <2>1 DEF S!CreateLands, S!Good, S!Landed
    <2>3. Fits(run.q, a)
      BY <1>3, <2>1, <2>2 DEF RunFits
    <2>4. a \in Reply /\ Real(a.eng, a.revision, a.scope)
      BY <2>2, <2>3 DEF Fits
    <2> DEFINE p == [eng |-> a.eng, revision |-> a.revision, scope |-> a.scope,
                     scopeDone |-> ~(run.save /\ run.targets # None), scopeTargets |-> None, rules |-> 0]
               f == [S!Settled(s, d) EXCEPT !.started = p]
    <2>5. p \in Progress /\ p.eng = a.eng /\ p.revision = a.revision /\ p.scope = a.scope
      BY <1>3, <2>4 DEF Reply, Progress, Lists, Run
    <2>6. S!Proceed(s, run, p, f)
      BY <1>1, <1>2, <1>5, <2>1 DEF S!CreateLands
    <2> HIDE DEF p
    <2>7. RealProgress(p)
      BY <2>4, <2>5 DEF RealProgress
    <2>8. \A x : x = p => RealProgress(x)'
      BY <1>4, <2>2, <2>7
    <2>9. f \in Dialog /\ f.started = p
      BY <1>3, <2>5, DialogForms
    <2> HIDE DEF f
    <2>10. RunsInv' /\ DialogInv'
      BY <1>3, <1>4, <2>2, <2>6, <2>8, <2>9, ProceedStep
    <2>11. QED
      BY <1>3, <1>4, <2>2, <2>10, SubmitStep
  <1>6. CASE S!ScopeLands(s)
    <2>1. PICK a : a = run.answer
      OBVIOUS
    <2>2. /\ a # None /\ a.code = "ok" /\ run.phase = "scope"
          /\ resets' = S!Reset(run.q) /\ UNCHANGED <<engagements, commands, scans, late, submits>>
      BY <1>1, <1>6, <2>1 DEF S!ScopeLands, S!Good, S!Landed
    <2>3. Fits(run.q, a) /\ run.q.op = "scope" /\ run.q.eng = run.progress.eng
          /\ run.q.revision = run.progress.revision /\ RealProgress(run.progress)
      BY <1>3, <2>1, <2>2 DEF RunFits
    <2>4. a \in Reply /\ Real(run.progress.eng, run.progress.revision + 1, a.scope)
      BY <2>2, <2>3 DEF Fits
    <2> DEFINE p == S!ScopeSaved(run.progress, a)
               f == [d EXCEPT !.started = p]
    <2>5. /\ p \in Progress /\ p.eng = run.progress.eng
          /\ p.revision = run.progress.revision + 1 /\ p.scope = a.scope
      <3>1. PICK old \in Progress : old = run.progress
        BY <2>3 DEF RealProgress
      <3>2. S!ScopeSaved(old, a) \in Progress /\ S!ScopeSaved(old, a).eng = old.eng
            /\ S!ScopeSaved(old, a).revision = old.revision + 1
            /\ S!ScopeSaved(old, a).scope = a.scope
        <4>1. old \in Progress /\ old.revision + 1 \in Nat /\ a.scope \in Nat
          BY <2>4, <3>1 DEF Progress, Reply
        <4>2. S!ScopeSaved(old, a) =
                [old EXCEPT !.revision = old.revision + 1, !.scope = a.scope, !.scopeDone = TRUE]
          BY DEF S!ScopeSaved
        <4>3. QED
          BY <4>1, <4>2 DEF Progress
      <3>3. QED
        BY <3>1, <3>2
    <2>6. S!Proceed(s, run, p, f)
      BY <1>1, <1>2, <1>6, <2>1 DEF S!ScopeLands
    <2> HIDE DEF p
    <2>7. RealProgress(p)
      BY <2>4, <2>5 DEF RealProgress
    <2>8. \A x : x = p => RealProgress(x)'
      BY <1>4, <2>2, <2>7
    <2>9. f \in Dialog /\ f.started = p
      BY <1>3, <2>5, DialogForms
    <2> HIDE DEF f
    <2>10. RunsInv' /\ DialogInv'
      BY <1>3, <1>4, <2>2, <2>6, <2>8, <2>9, ProceedStep
    <2>11. QED
      BY <1>3, <1>4, <2>2, <2>10, SubmitStep
  <1>7. CASE S!ActionLands(s)
    <2>1. /\ resets' = S!Reset(run.q) /\ UNCHANGED <<engagements, commands, late, submits>>
          /\ S!Finish(s, run, d)
      BY <1>1, <1>2, <1>7 DEF S!ActionLands
    <2> DEFINE w == S!Waiting(run, "notes", run.progress, None)
    <2>2. w \in Run /\ w.phase = "notes"
      <3>1. run.progress \in Progress \cup {None}
        BY <1>3 DEF Run
      <3>2. QED
        BY <1>3, <3>1, WaitingRun
    <2>3. \/ runs' = [runs EXCEPT ![s] = w] /\ dialog' = d
          \/ runs' = [runs EXCEPT ![s] = None] /\ dialog' = S!Closed(d)
      BY <2>1 DEF S!Finish, S!Ended
    <2> HIDE DEF w
    <2>4. \A x : x = w => RunFits(x)'
      BY <2>2 DEF RunFits
    <2>5. RunsInv'
      BY <1>3, <1>4, <2>1, <2>2, <2>3, <2>4, RunSet
    <2>6. DialogInv'
      BY <1>3, <1>4, <2>1, <2>3, DialogForms, DialogSet
    <2>7. QED
      BY <1>3, <1>4, <2>1, <2>5, <2>6, SubmitStep
  <1>8. CASE S!NotesEnd(s)
    <2>1. UNCHANGED <<engagements, commands, late, resets, submits>>
          /\ runs' = [runs EXCEPT ![s] = None] /\ dialog' = S!Closed(d)
      BY <1>2, <1>8 DEF S!NotesEnd, S!Ended
    <2>2. RunsInv'
      BY <1>3, <1>4, <2>1, RunSet
    <2>3. DialogInv'
      BY <1>3, <1>4, <2>1, DialogForms, DialogSet
    <2>4. QED
      BY <1>3, <1>4, <2>1, <2>2, <2>3, SubmitStep
  <1>9. CASE S!RefusalLands(s)
    <2>1. PICK a : a = run.answer
      OBVIOUS
    <2> DEFINE w == S!Waiting(run, "refresh", run.progress, None)
    <2>2. UNCHANGED <<engagements, commands, late, resets, submits>>
      BY <1>9 DEF S!RefusalLands
    <2>3. run.phase \in S!Commands /\ a # None
      BY <1>1, <1>9, <2>1 DEF S!RefusalLands, S!Landed, S!Awaits
    <2>4. CASE a.code = "revision_conflict"
      <3>1. run.phase # "create"
        BY <1>3, <2>1, <2>3, <2>4 DEF RunFits, Fits
      <3>2. RealProgress(run.progress) /\ run.progress \in Progress
        BY <1>3, <2>3, <3>1 DEF RunFits, RealProgress
      <3>3. w \in Run /\ w.phase = "refresh" /\ w.progress = run.progress /\ w.answer = None
        BY <1>3, <3>2, WaitingRun
      <3>4. runs' = [runs EXCEPT ![s] = w] /\ dialog' = d
        BY <1>1, <1>2, <1>9, <2>1, <2>4 DEF S!RefusalLands
      <3> HIDE DEF w
      <3>5. \A x : x = w => RunFits(x)'
        BY <1>4, <2>2, <3>2, <3>3 DEF RunFits
      <3>6. RunsInv'
        BY <1>3, <1>4, <2>2, <3>3, <3>4, <3>5, RunSet
      <3>7. DialogInv'
        BY <1>3, <1>4, <2>2, <3>4, DialogSet
      <3>8. QED
        BY <1>3, <1>4, <2>2, <3>6, <3>7, SubmitStep
    <2>5. CASE a.code # "revision_conflict"
      <3>1. PICK f : /\ f \in {[S!Left(d) EXCEPT !.started = None], S!Left(S!Settled(s, d))}
                     /\ dialog' = f /\ runs' = [runs EXCEPT ![s] = None]
        BY <1>1, <1>2, <1>9, <2>1, <2>5 DEF S!RefusalLands, S!Ended
      <3>2. f \in Dialog /\ f.started \in {None, d.started}
        <4>1. CASE f = [S!Left(d) EXCEPT !.started = None]
          <5>1. S!Left(d) \in Dialog
            BY <1>3, DialogForms
          <5>2. QED
            BY <4>1, <5>1, DialogForms
        <4>2. CASE f = S!Left(S!Settled(s, d))
          <5>1. S!Settled(s, d) \in Dialog /\ S!Settled(s, d).started = d.started
            BY <1>3, DialogForms
          <5>2. QED
            BY <4>2, <5>1, DialogForms
        <4>3. QED
          BY <3>1, <4>1, <4>2
      <3>3. RunsInv'
        BY <1>3, <1>4, <2>2, <3>1, RunSet
      <3>4. DialogInv'
        BY <1>4, <2>2, <3>1, <3>2 DEF DialogInv
      <3>5. QED
        BY <1>3, <1>4, <2>2, <3>3, <3>4, SubmitStep
    <2>6. QED
      BY <2>4, <2>5
  <1>10. CASE S!ServeRefresh(s)
    <2>1. PICK e : e = run.progress.eng
      OBVIOUS
    <2> DEFINE a == S!Answer(IF engagements[e].archived THEN "archived" ELSE "active", e,
                             engagements[e].revision, engagements[e].scope)
               w == [run EXCEPT !.answer = a]
    <2>2. /\ UNCHANGED <<engagements, commands, late, dialog, resets, submits>>
          /\ run.phase = "refresh" /\ runs' = [runs EXCEPT ![s] = w]
      BY <1>1, <1>3, <1>10, <2>1 DEF S!ServeRefresh, S!Awaits
    <2>3. RealProgress(run.progress) /\ e \in S!Created
      BY <1>3, <2>1, <2>2 DEF RunFits, RealProgress, Real
    <2>4. /\ engagements[e].revision \in Nat /\ engagements[e].scope \in Nat /\ e \in Nat
          /\ Real(e, engagements[e].revision, engagements[e].scope)
      BY <1>3, <2>3, CreatedRows
    <2>5. a \in Reply /\ Real(e, a.revision, a.scope)
      BY <2>4 DEF S!Answer, Reply, Code
    <2> HIDE DEF a
    <2>6. w \in Run /\ w.phase = "refresh" /\ w.progress = run.progress /\ w.answer = a
      BY <1>3, <2>2, <2>5 DEF Run
    <2> HIDE DEF w
    <2>7. RunFits(w)
      BY <2>1, <2>3, <2>5, <2>6 DEF RunFits
    <2>8. \A x : x = w => RunFits(x)'
      BY <1>4, <2>2, <2>7, StaysReal
    <2>9. RunsInv'
      BY <1>3, <1>4, <2>2, <2>6, <2>8, RunSet
    <2>10. DialogInv'
      BY <1>2, <1>3, <1>4, <2>2, DialogSet
    <2>11. QED
      BY <1>3, <1>4, <2>2, <2>9, <2>10, SubmitStep
  <1>11. CASE S!RefreshLands(s)
    <2>1. PICK a : a = run.answer
      OBVIOUS
    <2> DEFINE p == S!Refreshed(d.started, a)
    <2>2. /\ UNCHANGED <<engagements, commands, late, resets, submits>>
          /\ run.phase = "refresh" /\ a # None /\ runs' = [runs EXCEPT ![s] = None]
      BY <1>1, <1>11, <2>1 DEF S!RefreshLands, S!Awaits, S!Ended
    <2>3. PICK x : /\ dialog' = [S!Left(d) EXCEPT !.started = x]
                   /\ \/ x = d.started \/ x = None
                      \/ x = p /\ d.started # None /\ run.progress.eng = d.started.eng
      <3>1. dialog' = [S!Left(d) EXCEPT !.started =
                         IF s \notin S!Retained THEN S!Left(d).started
                         ELSE IF a.code = "archived" THEN None ELSE S!Refreshed(S!Left(d).started, a)]
        BY <1>1, <1>2, <1>11, <2>1 DEF S!RefreshLands
      <3>2. S!Left(d).started = d.started
        BY <1>3, DialogForms
      <3>3. s \in S!Retained => d.started # None /\ run.progress.eng = d.started.eng
        BY <1>1, <1>2 DEF S!Retained
      <3> HIDE DEF p
      <3>4. QED
        BY <3>1, <3>2, <3>3 DEF p
    <2>4. a \in Reply /\ Real(run.progress.eng, a.revision, a.scope)
      BY <1>3, <2>1, <2>2 DEF RunFits
    <2>5. ASSUME d.started # None, run.progress.eng = d.started.eng PROVE RealProgress(p)
      <3>1. d.started \in Progress
        BY <1>3, <2>5 DEF RealProgress
      <3>2. p \in Progress /\ p.eng = d.started.eng /\ p.revision = a.revision /\ p.scope = a.scope
        BY <2>4, <3>1 DEF S!Refreshed, Progress, Reply
      <3> HIDE DEF p
      <3>3. QED
        BY <2>4, <2>5, <3>2 DEF RealProgress
    <2> HIDE DEF p
    <2>6. x = None \/ RealProgress(x)
      BY <1>3, <2>3, <2>5
    <2>7. x \in Progress \cup {None} /\ (x # None => RealProgress(x)')
      BY <1>4, <2>2, <2>6 DEF RealProgress
    <2>8. RunsInv'
      BY <1>3, <1>4, <2>2, RunSet
    <2>9. DialogInv'
      <3> DEFINE f == [S!Left(d) EXCEPT !.started = x]
      <3>1. f \in Dialog /\ f.started = x
        BY <1>3, <2>7, DialogForms
      <3> HIDE DEF f
      <3>2. QED
        BY <2>3, <2>7, <3>1 DEF DialogInv, f
    <2>10. QED
      BY <1>3, <1>4, <2>2, <2>8, <2>9, SubmitStep
  <1>12. QED
    BY <1>5, <1>6, <1>7, <1>8, <1>9, <1>10, <1>11

\* A request given up names an Engagement, like one that is awaited.
LEMMA FailsStep == ASSUME StartInv, NEW s \in S!Slots, S!Fails(s) PROVE StartInv'
  <1> USE DEF S!Commands
  <1>1. PICK run : run = runs[s]
    OBVIOUS
  <1>2. PICK d : d = dialog
    OBVIOUS
  <1>3. /\ RowsInv /\ AnswersInv /\ RunsInv /\ d \in Dialog
        /\ (d.started # None => RealProgress(d.started)) /\ RunFits(run)
    BY <1>1, <1>2 DEF StartInv, DialogInv, RunsInv, S!Fails, S!Awaits
  <1>4. /\ UNCHANGED <<engagements, commands, resets, submits>>
        /\ runs' = [runs EXCEPT ![s] = None] /\ dialog' = S!Left(S!Settled(s, d))
        /\ \/ late' = late
           \/ run.phase \in S!Commands /\ late' = late \cup {run.q}
    BY <1>1, <1>2 DEF S!Fails, S!Ended, S!Awaits
  <1>5. Grows /\ RowsInv' /\ AnswersInv'
    BY <1>3, <1>4, SameRows, StaysReal DEF AnswersInv
  <1>6. RunsInv'
    BY <1>3, <1>4, <1>5, RunSet
  <1>7. DialogInv'
    <2>1. S!Settled(s, d) \in Dialog /\ S!Settled(s, d).started = d.started
      BY <1>3, DialogForms
    <2>2. dialog' \in Dialog /\ dialog'.started = d.started
      BY <1>4, <2>1, DialogForms
    <2>3. d.started # None => RealProgress(d.started)'
      BY <1>3, <1>5, StaysReal
    <2>4. QED
      BY <2>2, <2>3 DEF DialogInv
  <1>8. \A q \in late' : Named(q)'
    <2>1. run.phase \in S!Commands => Named(run.q)
      BY <1>3 DEF RunFits
    <2>2. \A q \in late' : Named(q)
      BY <1>4, <2>1 DEF StartInv
    <2>3. QED
      BY <1>5, <2>2, StaysReal
  <1>9. QED
    BY <1>4, <1>5, <1>6, <1>7, <1>8 DEF StartInv

\* A press of Start goes on from the retained pair, or asks for an Engagement.
LEMMA PressStep == ASSUME StartInv, NEW s \in S!Slots, S!Submit(s) PROVE StartInv'
  <1>1. PICK d : d = dialog
    OBVIOUS
  <1> DEFINE run == [phase |-> "create", press |-> submits + 1, targets |-> d.targets,
                     save |-> d.save, progress |-> None, q |-> None, answer |-> None]
             q0 == S!Creation(d.targets)
             q == S!Key(q0)
             w == S!Waiting(run, "create", None, q)
  <1>2. /\ RunsInv /\ RowsInv /\ d \in Dialog /\ IsFiniteSet(resets) /\ submits \in Nat
        /\ (d.started # None => RealProgress(d.started))
    BY <1>1 DEF StartInv, DialogInv
  <1>3. UNCHANGED <<engagements, commands, scans, late, resets>> /\ submits' = submits + 1
    BY DEF S!Submit
  <1>4. Grows /\ RowsInv' /\ (d.started # None => RealProgress(d.started)')
    BY <1>2, <1>3, SameRows, StaysReal
  <1>5. run \in Run /\ d.targets \in Lists
    BY <1>2 DEF Run, Dialog, S!Commands
  <1>6. CASE d.started = None
    <2>1. q0 \in Request /\ q0.op = "create"
      BY <1>5 DEF S!Creation, S!Request, Request, S!Commands
    <2>2. q \in Request /\ q.op = "create"
      <3> HIDE DEF q0
      <3>1. QED
        BY <1>2, <2>1, KeyOf
    <2>3. /\ runs' = [runs EXCEPT ![s] = w]
          /\ dialog' = [d EXCEPT !.starting = TRUE, !.creating = s]
      BY <1>1, <1>6 DEF S!Submit
    <2> HIDE DEF q0, q, run
    <2>4. w \in Run /\ w.phase = "create" /\ w.q = q /\ w.answer = None
      BY <1>5, <2>2, WaitingRun DEF S!Commands
    <2> HIDE DEF w
    <2>5. \A x : x = w => RunFits(x)'
      BY <2>2, <2>4 DEF RunFits, Named, S!Commands
    <2>6. RunsInv'
      BY <1>2, <1>4, <2>3, <2>4, <2>5, RunSet
    <2>7. dialog' \in Dialog /\ dialog'.started = d.started
      BY <1>2, <2>3 DEF Dialog
    <2>8. DialogInv'
      BY <1>6, <2>7 DEF DialogInv
    <2>9. QED
      BY <1>2, <1>3, <1>4, <2>6, <2>8, SubmitStep
  <1>7. CASE d.started # None
    <2> DEFINE f == [d EXCEPT !.starting = TRUE]
    <2>1. S!Proceed(s, run, d.started, f)
      BY <1>1, <1>7 DEF S!Submit
    <2>2. f \in Dialog /\ f.started = d.started
      BY <1>2 DEF Dialog
    <2> HIDE DEF f, run
    <2>3. PICK p : p = d.started
      OBVIOUS
    <2>4. RealProgress(p)' /\ S!Proceed(s, run, p, f)
      BY <1>4, <1>7, <2>1, <2>3
    <2>5. \A x : x = f /\ x.started # None => RealProgress(x.started)'
      BY <1>4, <2>2
    <2>6. RunsInv' /\ DialogInv'
      BY <1>2, <1>4, <1>5, <2>2, <2>4, <2>5, ProceedStep
    <2>7. QED
      BY <1>2, <1>3, <1>4, <2>6, SubmitStep
  <1>8. QED
    BY <1>6, <1>7

LEMMA StartInvariant == Spec => []StartInv
  <1>1. Init => StartInv
    <2> SUFFICES ASSUME S!Init PROVE StartInv
      BY DEF Init
    <2>1. S!Created = {} /\ {} = 1..0
      BY DEF S!Init, S!Created
    <2>2. RowsInv
      BY <2>1 DEF S!Init, RowsInv
    <2>3. DialogInv
      BY DEF S!Init, DialogInv, S!Blank, Dialog, Lists
    <2>4. QED
      BY <2>2, <2>3, FS_EmptySet DEF S!Init, StartInv, AnswersInv, RunsInv
  <1>2. StartInv /\ [Next]_vars => StartInv'
    <2> SUFFICES ASSUME StartInv, [Next]_vars PROVE StartInv'
      OBVIOUS
    <2>1. CASE S!Next
      BY <2>1, DialogActs, OtherTabStep, ServeSteps, PressStep, AnswerSteps, FailsStep DEF S!Next
    <2>2. CASE UNCHANGED startVars
      BY <2>2, SameRows, DialogStep DEF startVars, StartInv, DialogInv, RealProgress, Real, S!Created
    <2>3. QED
      BY <2>1, <2>2 DEF Next, vars
  <1>3. QED
    BY <1>1, <1>2, PTL DEF Spec

\* The pair of revision and scope that the dialog retains is one that its
\* Engagement has had, whatever other tabs, lost answers, late requests and
\* stale submits do.
THEOREM RetainedPairIsReal == Spec => []RetainedPairWasReal
  <1>1. StartInv => RetainedPairWasReal
    BY DEF StartInv, DialogInv, RealProgress, Real, RetainedPairWasReal, S!RetainedPairWasReal
  <1>2. QED
    BY <1>1, StartInvariant, PTL

-----------------------------------------------------------------------------
(* Keys of the start: what was done under one intent was done under        *)
(* different keys of it, and it has had one key more than the dialog heard *)
(* successes.                                                              *)

DropsOf(intent) == Cardinality({r \in resets : r.intent = intent})

\* The key of a request is one that its intent has had, and the intent tells
\* everything else of a creation or a scan.
Drawn(q) ==
    /\ q.drop \in Nat /\ q.drop <= DropsOf(S!Intent(q))
    /\ q.op = "create" => S!Intent(q) = S!Creation(q.targets)
    /\ q.op # "scope" => q.rules = 0

DrawnRun(r) == r # None /\ r.phase \in S!Commands => Drawn(r.q)

DrawnInv ==
    /\ \A r \in resets : r.drop \in Nat /\ r.drop < DropsOf(r.intent)
    /\ \A q \in late : Drawn(q)
    /\ \A s \in S!Slots : DrawnRun(runs[s])
    /\ \A c \in commands : Drawn(c.q)

\* The command that made an Engagement.
Made(c, e) ==
    /\ c.q.op = "create" /\ c.q.targets = engagements[e].targets
    /\ c.answer.eng = e

\* A key is stored once, and whatever was done has its command.
OnceInv ==
    /\ \A c, d \in commands : [c.q EXCEPT !.rules = 0] = [d.q EXCEPT !.rules = 0] => c = d
    /\ \A e \in S!Created : \E c \in commands : Made(c, e)
    /\ \A q \in scans : q \in Request /\ q.op = "action" /\ \E c \in commands : c.q = q

KeysInv == StartInv /\ DrawnInv /\ OnceInv

LEMMA SameRequest ==
    ASSUME NEW p \in Request, NEW q \in Request,
           p.op = q.op, p.eng = q.eng, p.revision = q.revision, p.scope = q.scope,
           p.targets = q.targets, p.rules = q.rules, p.drop = q.drop
    PROVE  p = q
  BY DEF Request

LEMMA IntentOf ==
    ASSUME NEW q \in Request
    PROVE  /\ S!Intent(q) \in Request /\ S!Intent(q).rules = 0 /\ S!Intent(q).drop = 0
           /\ S!Intent(q).op = q.op /\ S!Intent(q).eng = q.eng /\ S!Intent(q).scope = q.scope
           /\ S!Intent(q).revision = q.revision /\ S!Intent(q).targets = q.targets
  BY DEF S!Intent, Request

LEMMA CreationOf ==
    ASSUME NEW t \in Lists
    PROVE  /\ S!Creation(t) \in Request /\ S!Creation(t).op = "create"
           /\ S!Creation(t).targets = t /\ S!Creation(t).rules = 0
           /\ S!Intent(S!Creation(t)) = S!Creation(t)
  <1> DEFINE c == S!Creation(t)
  <1>1. /\ c \in Request /\ c.op = "create" /\ c.targets = t /\ c.rules = 0 /\ c.drop = 0
        /\ c.eng = 0 /\ c.revision = 0 /\ c.scope = 0
    BY DEF S!Creation, S!Request, Request, S!Commands
  <1> HIDE DEF c
  <1>2. S!Intent(c) = c
    BY <1>1, IntentOf, SameRequest
  <1>3. QED
    BY <1>1, <1>2 DEF c

LEMMA DropsFacts ==
    ASSUME IsFiniteSet(resets), NEW i
    PROVE  DropsOf(i) \in Nat /\ \A q : S!Intent(q) = i => S!Drops(q) = DropsOf(i)
  <1>1. IsFiniteSet({r \in resets : r.intent = i})
    BY FS_Subset
  <1>2. DropsOf(i) \in Nat
    BY <1>1, FS_CardinalityType DEF DropsOf
  <1>3. QED
    BY <1>2, SameCardinality DEF DropsOf, S!Drops

\* A key that the holder gives is one of its intent's.
LEMMA KeyDrawn ==
    ASSUME IsFiniteSet(resets), NEW q \in Request,
           q.op = "create" => S!Intent(q) = S!Creation(q.targets),
           q.op # "scope" => q.rules = 0
    PROVE  Drawn(S!Key(q))
  <1> DEFINE k == S!Key(q)
  <1>1. S!Drops(q) \in Nat /\ S!Drops(q) = DropsOf(S!Intent(q))
    BY DropsFacts
  <1>2. /\ k \in Request /\ k.op = q.op /\ k.eng = q.eng /\ k.revision = q.revision
        /\ k.scope = q.scope /\ k.targets = q.targets /\ k.rules = q.rules
        /\ k.drop = S!Drops(q)
    BY <1>1 DEF S!Key, Request
  <1> HIDE DEF k
  <1>3. S!Intent(k) = S!Intent(q)
    BY <1>2, IntentOf, SameRequest
  <1>4. QED
    BY <1>1, <1>2, <1>3 DEF Drawn, k

\* A reset is one more success heard, for its intent.
LEMMA DropsGrow ==
    ASSUME IsFiniteSet(resets), DrawnInv,
           resets' = resets \/ \E q \in Request : resets' = S!Reset(q)
    PROVE  /\ \A q : Drawn(q) => Drawn(q)'
           /\ \A r \in resets' : r.drop \in Nat /\ r.drop < DropsOf(r.intent)'
  <1>1. CASE resets' = resets
    BY <1>1 DEF DrawnInv, Drawn, DropsOf
  <1>2. ASSUME NEW q \in Request, resets' = S!Reset(q)
        PROVE  /\ \A p : Drawn(p) => Drawn(p)'
               /\ \A r \in resets' : r.drop \in Nat /\ r.drop < DropsOf(r.intent)'
    <2> DEFINE n == [intent |-> S!Intent(q), drop |-> S!Drops(q)]
               At(i) == {r \in resets : r.intent = i}
    <2>1. /\ S!Drops(q) \in Nat /\ S!Drops(q) = DropsOf(S!Intent(q))
          /\ resets' = resets \cup {n} /\ n.intent = S!Intent(q) /\ n.drop = S!Drops(q)
      BY <1>2, DropsFacts DEF S!Reset
    <2>2. n \notin resets
      BY <2>1 DEF DrawnInv
    <2>3. \A i : IsFiniteSet(At(i)) /\ DropsOf(i) = Cardinality(At(i)) /\ DropsOf(i) \in Nat
      BY FS_Subset, DropsFacts DEF DropsOf
    <2> HIDE DEF n
    <2>4. ASSUME NEW i, i # S!Intent(q) PROVE DropsOf(i)' = DropsOf(i)
      <3>1. {r \in resets' : r.intent = i} = At(i)
        BY <2>1, <2>4
      <3>2. QED
        BY <3>1 DEF DropsOf
    <2>5. ASSUME NEW i, i = S!Intent(q) PROVE DropsOf(i)' = DropsOf(i) + 1
      <3>1. {r \in resets' : r.intent = i} = At(i) \cup {n}
        BY <2>1, <2>5
      <3>2. n \notin At(i)
        BY <2>2
      <3>3. IsFiniteSet(At(i)) /\ Cardinality(At(i)) = DropsOf(i)
        BY <2>3
      <3> HIDE DEF At
      <3>4. Cardinality(At(i) \cup {n}) = DropsOf(i) + 1
        BY <3>2, <3>3, FS_AddElement
      <3>5. QED
        BY <3>1, <3>4 DEF DropsOf
    <2>6. ASSUME NEW i PROVE DropsOf(i) \in Nat /\ DropsOf(i)' \in Nat /\ DropsOf(i) <= DropsOf(i)'
      <3>1. DropsOf(i) \in Nat
        BY <2>3
      <3>2. DropsOf(i)' = DropsOf(i) \/ DropsOf(i)' = DropsOf(i) + 1
        BY <2>4, <2>5
      <3>3. QED
        BY <3>1, <3>2
    <2>7. ASSUME NEW p, Drawn(p) PROVE Drawn(p)'
      <3>1. PICK i : i = S!Intent(p)
        OBVIOUS
      <3>2. p.drop \in Nat /\ p.drop <= DropsOf(i)
        BY <2>7, <3>1 DEF Drawn
      <3>3. p.drop <= DropsOf(i)'
        BY <2>6, <3>2
      <3>4. QED
        BY <2>7, <3>1, <3>3 DEF Drawn, DropsOf
    <2>8. ASSUME NEW r \in resets' PROVE r.drop \in Nat /\ r.drop < DropsOf(r.intent)'
      <3>1. CASE r = n
        <4>1. DropsOf(r.intent)' = DropsOf(r.intent) + 1 /\ r.drop = DropsOf(r.intent)
          BY <2>1, <2>5, <3>1
        <4>2. QED
          BY <2>1, <3>1, <4>1
      <3>2. CASE r \in resets
        <4>1. r.drop \in Nat /\ r.drop < DropsOf(r.intent)
          BY <3>2 DEF DrawnInv
        <4>2. QED
          BY <2>6, <4>1
      <3>3. QED
        BY <2>1, <2>8, <3>1, <3>2
    <2>9. QED
      BY <2>7, <2>8
  <1>3. QED
    BY <1>1, <1>2

LEMMA DrawnKept ==
    ASSUME StartInv, DrawnInv,
           resets' = resets \/ \E q \in Request : resets' = S!Reset(q),
           \A q \in late' : Drawn(q), \A c \in commands' : Drawn(c.q),
           \A s \in S!Slots : DrawnRun(runs'[s])
    PROVE  DrawnInv'
  <1>1. /\ \A q : Drawn(q) => Drawn(q)'
        /\ \A r \in resets' : r.drop \in Nat /\ r.drop < DropsOf(r.intent)'
    BY DropsGrow DEF StartInv
  <1>2. \A r : DrawnRun(r) => DrawnRun(r)'
    BY <1>1 DEF DrawnRun
  <1>3. \A q \in late' : Drawn(q)'
    BY <1>1
  <1>4. \A c \in commands' : Drawn(c.q)'
    BY <1>1
  <1>5. \A s \in S!Slots : DrawnRun(runs[s])'
    <2> SUFFICES ASSUME NEW s \in S!Slots PROVE DrawnRun(runs[s])'
      OBVIOUS
    <2>1. PICK r : r = runs'[s]
      OBVIOUS
    <2>2. DrawnRun(r)
      BY <2>1
    <2>3. DrawnRun(r)'
      BY <1>2, <2>2
    <2>4. QED
      BY <2>1, <2>3 DEF DrawnRun, Drawn, DropsOf
  <1>6. QED
    BY <1>1, <1>3, <1>4, <1>5 DEF DrawnInv

LEMMA OneRun ==
    ASSUME RunsInv, DrawnInv, NEW s \in S!Slots, NEW r, DrawnRun(r),
           runs' = [runs EXCEPT ![s] = r]
    PROVE  \A t \in S!Slots : DrawnRun(runs'[t])
  <1>1. \A t \in S!Slots : runs'[t] = IF t = s THEN r ELSE runs[t]
    BY DEF RunsInv
  <1>2. QED
    BY <1>1 DEF DrawnInv

\* What the submit asks for next is asked under a key that was drawn for it.
LEMMA ProceedDrawn ==
    ASSUME RunsInv, DrawnInv, IsFiniteSet(resets), NEW s \in S!Slots, NEW run \in Run,
           NEW p \in Progress, NEW d, S!Proceed(s, run, p, d)
    PROVE  \A t \in S!Slots : DrawnRun(runs'[t])
  <1>0. run.targets \in Lists /\ run.press \in Nat /\ p.eng \in Nat /\ p.revision \in Nat
        /\ p.scope \in Nat /\ p.rules \in Nat
    BY DEF Run, Progress
  <1>1. CASE S!ScopePhase(run, p)
    <2> DEFINE rules == S!Draft(run, p)
               kept == [p EXCEPT !.scopeTargets = run.targets, !.rules = rules]
               q0 == S!Request("scope", p.eng, p.revision, 0, run.targets, rules)
               w == S!Waiting(run, "scope", kept, S!Key(q0))
    <2>1. runs' = [runs EXCEPT ![s] = w]
      BY <1>1 DEF S!Proceed
    <2>2. rules \in Nat
      BY <1>0 DEF S!Draft
    <2> HIDE DEF rules
    <2>3. q0 \in Request /\ q0.op = "scope" /\ w.q = S!Key(q0)
      BY <1>0, <2>2 DEF S!Request, Request, S!Commands, S!Waiting, Run
    <2> HIDE DEF q0
    <2>4. Drawn(S!Key(q0))
      BY <2>3, KeyDrawn
    <2>5. DrawnRun(w)
      BY <2>3, <2>4 DEF DrawnRun
    <2> HIDE DEF w
    <2>6. QED
      BY <2>1, <2>5, OneRun
  <1>2. CASE ~S!ScopePhase(run, p) /\ run.targets # None
    <2> DEFINE q0 == S!Request("action", p.eng, p.revision, p.scope, run.targets, 0)
               w == S!Waiting(run, "action", p, S!Key(q0))
    <2>1. runs' = [runs EXCEPT ![s] = w]
      BY <1>2 DEF S!Proceed
    <2>2. q0 \in Request /\ q0.op = "action" /\ q0.rules = 0 /\ w.q = S!Key(q0)
      BY <1>0 DEF S!Request, Request, S!Commands, S!Waiting, Run
    <2> HIDE DEF q0
    <2>3. Drawn(S!Key(q0))
      BY <2>2, KeyDrawn
    <2>4. DrawnRun(w)
      BY <2>2, <2>3 DEF DrawnRun
    <2> HIDE DEF w
    <2>5. QED
      BY <2>1, <2>4, OneRun
  <1>3. CASE ~S!ScopePhase(run, p) /\ run.targets = None
    <2> DEFINE r == [run EXCEPT !.progress = p]
               w == S!Waiting(r, "notes", r.progress, None)
    <2>1. runs' = [runs EXCEPT ![s] = w] \/ runs' = [runs EXCEPT ![s] = None]
      BY <1>3 DEF S!Proceed, S!Finish, S!Ended
    <2>2. w.phase = "notes"
      BY DEF S!Waiting, Run
    <2>3. DrawnRun(w) /\ DrawnRun(None)
      BY <2>2 DEF DrawnRun, S!Commands
    <2> HIDE DEF w
    <2>4. QED
      BY <2>1, <2>3, OneRun
  <1>4. QED
    BY <1>1, <1>2, <1>3

\* Every await of a submit keeps its key, and every key it draws is drawn.
LEMMA DrawnStep ==
    ASSUME StartInv, DrawnInv, NEW s \in S!Slots,
           S!Submit(s) \/ S!Serve(s) \/ S!CreateLands(s) \/ S!ScopeLands(s) \/ S!ActionLands(s)
           \/ S!NotesEnd(s) \/ S!RefusalLands(s) \/ S!Fails(s) \/ S!ServeRefresh(s)
           \/ S!RefreshLands(s)
    PROVE  DrawnInv'
  <1> USE DEF S!Commands
  <1>1. PICK run : run = runs[s]
    OBVIOUS
  <1>2. /\ RunsInv /\ IsFiniteSet(resets) /\ submits \in Nat /\ dialog \in Dialog
        /\ (run # None => run \in Run /\ RunFits(run)) /\ DrawnRun(run) /\ DrawnRun(None)
    BY <1>1 DEF StartInv, RunsInv, DrawnInv, DialogInv, DrawnRun
  <1>3. /\ \A q \in late : Drawn(q)
        /\ \A c \in commands : Drawn(c.q)
        /\ \A t \in S!Slots : DrawnRun(runs[t])
    BY DEF DrawnInv
  <1>4. run # None /\ run.phase \in S!Commands => run.q \in Request /\ Drawn(run.q)
    BY <1>2 DEF RunFits, Named, DrawnRun
  <1>5. ASSUME S!Submit(s) PROVE DrawnInv'
    <2>1. PICK d : d = dialog
      OBVIOUS
    <2> DEFINE r == [phase |-> "create", press |-> submits + 1, targets |-> d.targets,
                     save |-> d.save, progress |-> None, q |-> None, answer |-> None]
               q0 == S!Creation(d.targets)
               w == S!Waiting(r, "create", None, S!Key(q0))
    <2>2. UNCHANGED <<commands, late, resets>>
      BY <1>5 DEF S!Submit
    <2>3. r \in Run /\ d.targets \in Lists
      BY <1>2, <2>1 DEF Run, Dialog
    <2>4. \A t \in S!Slots : DrawnRun(runs'[t])
      <3>1. CASE d.started = None
        <4>1. runs' = [runs EXCEPT ![s] = w]
          BY <1>5, <2>1, <3>1 DEF S!Submit
        <4>2. q0 \in Request /\ q0.op = "create" /\ q0.rules = 0 /\ q0.targets = d.targets
              /\ S!Intent(q0) = q0
          BY <2>3, CreationOf
        <4>3. Drawn(S!Key(q0))
          <5>1. S!Intent(q0) = S!Creation(q0.targets)
            BY <4>2
          <5> HIDE DEF q0
          <5>2. QED
            BY <1>2, <4>2, <5>1, KeyDrawn
        <4>4. w.q = S!Key(q0)
          BY DEF S!Waiting
        <4>5. DrawnRun(w)
          BY <4>3, <4>4 DEF DrawnRun
        <4> HIDE DEF w
        <4>6. QED
          BY <1>2, <4>1, <4>5, OneRun
      <3>2. CASE d.started # None
        <4>1. \E f : S!Proceed(s, r, d.started, f) /\ d.started \in Progress
          BY <1>2, <1>5, <2>1, <3>2 DEF S!Submit, Dialog
        <4> HIDE DEF r
        <4>2. QED
          BY <1>2, <2>3, <4>1, ProceedDrawn
      <3>3. QED
        BY <3>1, <3>2
    <2>5. QED
      BY <1>3, <2>2, <2>4, DrawnKept
  <1>6. ASSUME S!Serve(s) PROVE DrawnInv'
    <2>1. /\ run # None /\ run.phase \in S!Commands /\ S!Execute(run.q)
          /\ UNCHANGED <<late, resets>>
      BY <1>1, <1>6 DEF S!Serve, S!Awaits
    <2> DEFINE w == [run EXCEPT !.answer = S!Outcome(run.q)]
    <2>2. runs' = [runs EXCEPT ![s] = w]
      BY <1>1, <1>6 DEF S!Serve
    <2>3. w.q = run.q
      BY <1>2, <2>1 DEF Run
    <2>4. DrawnRun(w)
      BY <1>4, <2>1, <2>3 DEF DrawnRun
    <2> HIDE DEF w
    <2>5. commands' = commands \/ commands' = commands \cup {[q |-> run.q, answer |-> S!Fresh(run.q)]}
      BY <2>1 DEF S!Execute
    <2>6. \A c \in commands' : Drawn(c.q)
      BY <1>3, <1>4, <2>1, <2>5
    <2>7. \A t \in S!Slots : DrawnRun(runs'[t])
      BY <1>2, <2>2, <2>4, OneRun
    <2>8. QED
      BY <1>3, <2>1, <2>6, <2>7, DrawnKept
  <1>7. ASSUME S!CreateLands(s) \/ S!ScopeLands(s) PROVE DrawnInv'
    <2>1. /\ run # None /\ run.phase \in S!Commands /\ resets' = S!Reset(run.q)
          /\ UNCHANGED <<late, commands>> /\ run.answer # None /\ run.answer.code = "ok"
      BY <1>1, <1>7 DEF S!CreateLands, S!ScopeLands, S!Good, S!Landed, S!Awaits
    <2>2. run \in Run /\ run.answer \in Reply
      BY <1>2, <2>1 DEF RunFits, Fits
    <2>3. \E p \in Progress : \E f : S!Proceed(s, run, p, f)
      <3>1. CASE S!CreateLands(s)
        <4> DEFINE p == [eng |-> run.answer.eng, revision |-> run.answer.revision,
                         scope |-> run.answer.scope,
                         scopeDone |-> ~(run.save /\ run.targets # None),
                         scopeTargets |-> None, rules |-> 0]
        <4>1. p \in Progress
          BY <2>2 DEF Progress, Reply, Lists
        <4>2. S!Proceed(s, run, p, [S!Settled(s, dialog) EXCEPT !.started = p])
          BY <1>1, <3>1 DEF S!CreateLands
        <4>3. QED
          BY <4>1, <4>2
      <3>2. CASE S!ScopeLands(s)
        <4>1. run.phase = "scope"
          BY <1>1, <3>2 DEF S!ScopeLands
        <4>2. run.progress \in Progress
          BY <1>2, <2>1, <4>1 DEF RunFits, RealProgress
        <4> DEFINE p == S!ScopeSaved(run.progress, run.answer)
        <4>3. p \in Progress
          <5>1. run.answer.scope \in Nat /\ run.progress.revision + 1 \in Nat
            BY <2>2, <4>2 DEF Progress, Reply
          <5>2. QED
            BY <4>2, <5>1 DEF S!ScopeSaved, Progress
        <4>4. S!Proceed(s, run, p, [dialog EXCEPT !.started = p])
          BY <1>1, <3>2 DEF S!ScopeLands
        <4>5. QED
          BY <4>3, <4>4
      <3>3. QED
        BY <1>7, <3>1, <3>2
    <2>4. \A t \in S!Slots : DrawnRun(runs'[t])
      BY <1>2, <2>2, <2>3, ProceedDrawn
    <2>5. QED
      BY <1>3, <1>4, <2>1, <2>4, DrawnKept
  <1>8. ASSUME S!ActionLands(s) PROVE DrawnInv'
    <2>1. /\ run # None /\ run.phase \in S!Commands /\ resets' = S!Reset(run.q)
          /\ UNCHANGED <<late, commands>>
      BY <1>1, <1>8 DEF S!ActionLands, S!Good, S!Landed, S!Awaits
    <2> DEFINE w == S!Waiting(run, "notes", run.progress, None)
    <2>2. runs' = [runs EXCEPT ![s] = w] \/ runs' = [runs EXCEPT ![s] = None]
      BY <1>1, <1>8 DEF S!ActionLands, S!Finish, S!Ended
    <2>3. w.phase = "notes"
      BY <1>2, <2>1 DEF S!Waiting, Run
    <2>4. DrawnRun(w)
      BY <2>3 DEF DrawnRun
    <2> HIDE DEF w
    <2>5. \A t \in S!Slots : DrawnRun(runs'[t])
      BY <1>2, <2>2, <2>4, OneRun
    <2>6. QED
      BY <1>3, <1>4, <2>1, <2>5, DrawnKept
  <1>9. ASSUME S!NotesEnd(s) \/ S!RefreshLands(s) \/ S!Fails(s) PROVE DrawnInv'
    <2>1. UNCHANGED <<commands, resets>> /\ runs' = [runs EXCEPT ![s] = None]
      BY <1>9 DEF S!NotesEnd, S!RefreshLands, S!Fails, S!Ended
    <2>2. \/ late' = late
          \/ run # None /\ run.phase \in S!Commands /\ late' = late \cup {run.q}
      BY <1>1, <1>9 DEF S!NotesEnd, S!RefreshLands, S!Fails, S!Awaits
    <2>3. \A q \in late' : Drawn(q)
      BY <1>3, <1>4, <2>2
    <2>4. \A t \in S!Slots : DrawnRun(runs'[t])
      BY <1>2, <2>1, OneRun
    <2>5. QED
      BY <1>3, <2>1, <2>3, <2>4, DrawnKept
  <1>10. ASSUME S!RefusalLands(s) \/ S!ServeRefresh(s) PROVE DrawnInv'
    <2>1. UNCHANGED <<commands, late, resets>> /\ run # None
      BY <1>1, <1>10 DEF S!RefusalLands, S!ServeRefresh, S!Landed, S!Awaits
    <2>2. \E w : runs' = [runs EXCEPT ![s] = w] /\ (w = None \/ w.phase = "refresh")
      <3>1. CASE S!RefusalLands(s)
        <4> DEFINE w == S!Waiting(run, "refresh", run.progress, None)
        <4>1. runs' = [runs EXCEPT ![s] = w] \/ runs' = [runs EXCEPT ![s] = None]
          BY <1>1, <3>1 DEF S!RefusalLands, S!Ended
        <4>2. w.phase = "refresh"
          BY <1>2, <2>1 DEF S!Waiting, Run
        <4> HIDE DEF w
        <4>3. QED
          BY <4>1, <4>2
      <3>2. CASE S!ServeRefresh(s)
        <4>1. PICK a : runs' = [runs EXCEPT ![s].answer = a]
          BY <3>2 DEF S!ServeRefresh
        <4> DEFINE w == [run EXCEPT !.answer = a]
        <4>2. runs' = [runs EXCEPT ![s] = w]
          BY <1>1, <4>1
        <4>3. run.phase = "refresh"
          BY <1>1, <3>2 DEF S!ServeRefresh, S!Awaits
        <4>4. w.phase = "refresh"
          BY <1>2, <2>1, <4>3 DEF Run
        <4> HIDE DEF w
        <4>5. QED
          BY <4>2, <4>4
      <3>3. QED
        BY <1>10, <3>1, <3>2
    <2>3. \A t \in S!Slots : DrawnRun(runs'[t])
      <3>1. PICK w : runs' = [runs EXCEPT ![s] = w] /\ (w = None \/ w.phase = "refresh")
        BY <2>2
      <3>2. DrawnRun(w)
        BY <3>1 DEF DrawnRun
      <3>3. QED
        BY <1>2, <3>1, <3>2, OneRun
    <2>4. QED
      BY <1>3, <2>1, <2>3, DrawnKept
  <1>11. QED
    BY <1>5, <1>6, <1>7, <1>8, <1>9, <1>10

LEMMA OnceKept ==
    ASSUME OnceInv, UNCHANGED commands, S!Created' = S!Created,
           \A e \in S!Created : engagements'[e].targets = engagements[e].targets,
           UNCHANGED scans
    PROVE  OnceInv'
  <1>1. \A c, d \in commands' : [c.q EXCEPT !.rules = 0] = [d.q EXCEPT !.rules = 0] => c = d
    BY DEF OnceInv
  <1>2. ASSUME NEW e \in S!Created' PROVE (\E c \in commands : Made(c, e))'
    <2>1. PICK c \in commands : Made(c, e)
      BY <1>2 DEF OnceInv
    <2>2. Made(c, e)'
      BY <1>2, <2>1 DEF Made
    <2>3. QED
      BY <2>2
  <1>3. QED
    BY <1>1, <1>2 DEF OnceInv

\* What is done is done under a key that was not stored, and stores it.
LEMMA OnceExecute ==
    ASSUME StartInv, OnceInv, NEW q, Named(q), q.op # "scope" => q.rules = 0,
           S!CanExecute(q), S!Execute(q)
    PROVE  OnceInv'
  <1>0. RowsInv /\ q \in Request /\ q.op \in S!Commands
    BY DEF StartInv, Named, Request
  <1>1. CASE S!SameKey(q) # {}
    <2>1. UNCHANGED <<engagements, commands, scans>>
      BY <1>1 DEF S!Execute
    <2>2. S!Created' = S!Created
      BY <2>1 DEF S!Created
    <2>3. QED
      BY <2>1, <2>2, OnceKept
  <1>2. CASE S!SameKey(q) = {}
    <2>0. PICK a, n : a = S!Fresh(q) /\ n = [q |-> q, answer |-> a]
      OBVIOUS
    <2>1. commands' = commands \cup {n} /\ n.q = q /\ n.answer = a
      BY <1>2, <2>0 DEF S!Execute
    <2>2. \A c \in commands : [c.q EXCEPT !.rules = 0] # [q EXCEPT !.rules = 0]
      BY <1>2 DEF S!SameKey
    <2>3. \A c, d \in commands' : [c.q EXCEPT !.rules = 0] = [d.q EXCEPT !.rules = 0] => c = d
      BY <2>1, <2>2 DEF OnceInv
    <2>4. \A p \in scans' : p \in Request /\ p.op = "action" /\ \E c \in commands' : c.q = p
      <3>1. scans' = scans \/ (scans' = scans \cup {q} /\ q.op = "action")
        BY <1>2 DEF S!Execute
      <3>2. \A p \in scans : p \in Request /\ p.op = "action" /\ \E c \in commands : c.q = p
        BY DEF OnceInv
      <3>3. QED
        BY <1>0, <2>1, <3>1, <3>2
    <2>5. \A e \in S!Created' : (\E c \in commands : Made(c, e))'
      <3>0. \A e \in S!Created : \E c \in commands : Made(c, e)
        BY DEF OnceInv
      <3>1. CASE q.op = "create"
        <4>1. PICK k \in Nat : S!Created = 1..k
          BY <1>0 DEF RowsInv
        <4>2. S!Cardinality(S!Created) = k
          BY <4>1, FS_Interval, SameCardinality
        <4>3. a = S!Answer("ok", k + 1, 1, 0) /\ a.eng = k + 1 /\ a.code = "ok"
          BY <3>1, <4>2, <2>0 DEF S!Fresh, S!Answer
        <4>4. k + 1 \in S!Ids
          <5>1. S!Fresh(q).code = "ok"
            BY <4>3, <2>0
          <5>2. S!Cardinality(S!Created) < MaxRevisions
            BY <1>2, <3>1, <5>1 DEF S!CanExecute
          <5>3. QED
            BY <4>2, <5>2, RecordsAssumption DEF S!Ids
        <4> DEFINE row == [targets |-> q.targets, revision |-> 1, scope |-> 0,
                           archived |-> FALSE, had |-> {<<1, 0>>}]
        <4>5. engagements' = [engagements EXCEPT ![k + 1] = row] /\ row.targets = q.targets
          BY <1>2, <3>1, <4>3, <2>0 DEF S!Execute
        <4> HIDE DEF row
        <4>6. engagements'[k + 1] = row /\ \A e \in S!Ids : e # k + 1 => engagements'[e] = engagements[e]
          BY <1>0, <4>4, <4>5 DEF RowsInv
        <4>7. ASSUME NEW e \in S!Created', e # k + 1
              PROVE  e \in S!Created /\ engagements'[e] = engagements[e]
          <5>1. e \in S!Ids /\ engagements'[e] # None
            BY <4>7 DEF S!Created
          <5>2. engagements'[e] = engagements[e]
            BY <4>6, <4>7, <5>1
          <5>3. QED
            BY <5>1, <5>2 DEF S!Created
        <4>8. ASSUME NEW e \in S!Created' PROVE (\E c \in commands : Made(c, e))'
          <5>1. CASE e = k + 1
            <6>1. Made(n, e)'
              BY <2>1, <3>1, <4>3, <4>5, <4>6, <5>1 DEF Made
            <6>2. QED
              BY <2>1, <6>1
          <5>2. CASE e # k + 1
            <6>0. e \in S!Created /\ engagements'[e] = engagements[e]
              BY <4>7, <4>8, <5>2
            <6>1. PICK c \in commands : Made(c, e)
              BY <3>0, <6>0
            <6>2. Made(c, e)'
              BY <6>0, <6>1 DEF Made
            <6>3. QED
              BY <2>1, <6>2
          <5>3. QED
            BY <5>1, <5>2
        <4>9. QED
          BY <4>8
      <3>2. CASE q.op # "create"
        <4>1. q.eng \in S!Created /\ engagements[q.eng] \in S!Rows
          BY <1>0, <3>2, CreatedRows DEF Named
        <4>2. \A e \in S!Ids : /\ engagements'[e] = None <=> engagements[e] = None
                               /\ engagements'[e].targets = engagements[e].targets
          <5>1. CASE engagements' = engagements
            BY <5>1
          <5>2. CASE q.op = "scope" /\ a.code = "ok"
            <6> DEFINE new == S!Revised(engagements[q.eng], q.revision + 1)
            <6>1. engagements' = [engagements EXCEPT ![q.eng] = new]
              BY <1>0, <1>2, <4>1, <5>2, <2>0 DEF S!Execute, RowsInv
            <6>2. q.revision + 1 \in Nat
              BY <1>0 DEF Request
            <6>3. new \in S!Rows
              BY <4>1, <6>2, RevisedRow
            <6>4. new # None /\ new.targets = engagements[q.eng].targets
              <7>1. new.targets = engagements[q.eng].targets
                BY <4>1 DEF S!Revised, S!Rows
              <7>2. QED
                BY <6>3, <7>1, RecordsAssumption
            <6> HIDE DEF new
            <6>5. engagements[q.eng] # None
              BY <4>1 DEF S!Created
            <6>6. QED
              BY <1>0, <6>1, <6>4, <6>5 DEF RowsInv
          <5>3. QED
            BY <1>0, <1>2, <3>2, <5>1, <5>2, <2>0 DEF S!Execute, S!Commands
        <4>3. S!Created' = S!Created
          BY <4>2 DEF S!Created
        <4>4. ASSUME NEW e \in S!Created' PROVE (\E c \in commands : Made(c, e))'
          <5>1. PICK c \in commands : Made(c, e)
            BY <3>0, <4>3, <4>4
          <5>2. engagements'[e].targets = engagements[e].targets
            BY <4>2, <4>4 DEF S!Created
          <5>3. Made(c, e)'
            BY <5>1, <5>2 DEF Made
          <5>4. QED
            BY <2>1, <5>3
        <4>5. QED
          BY <4>4
      <3>3. QED
        BY <3>1, <3>2
    <2>6. QED
      BY <2>3, <2>4, <2>5 DEF OnceInv
  <1>3. QED
    BY <1>1, <1>2

\* A step from one await to the next, of another tab or of the dialog.
LEMMA OnceStep ==
    ASSUME KeysInv, S!Next
    PROVE  OnceInv'
  <1>0. /\ StartInv /\ DrawnInv /\ OnceInv /\ RowsInv
        /\ \A q \in late : Named(q) /\ (q.op # "scope" => q.rules = 0)
    BY DEF KeysInv, StartInv, DrawnInv, Drawn
  <1>1. ASSUME UNCHANGED <<engagements, commands, scans>> PROVE OnceInv'
    <2>1. S!Created' = S!Created
      BY <1>1 DEF S!Created
    <2>2. QED
      BY <1>0, <1>1, <2>1, OnceKept
  <1>2. CASE \/ S!Open \/ S!Cancel \/ S!OpenEngagement \/ S!Discard
             \/ \E t \in Targets \cup {None}, save \in BOOLEAN : S!Edit(t, save)
    BY <1>1, <1>2 DEF S!Open, S!Cancel, S!OpenEngagement, S!Discard, S!Edit, S!Idle
  <1>3. ASSUME NEW e \in S!Ids, NEW change \in {"settings", "scope", "status"},
               S!OtherTab(e, change)
        PROVE  OnceInv'
    <2>1. PICK row : row = engagements[e]
      OBVIOUS
    <2>2. row # None /\ e \in S!Created /\ row \in S!Rows
      BY <1>0, <1>3, <2>1, CreatedRows DEF S!OtherTab, S!Created
    <2> DEFINE scope == IF change = "scope" THEN row.revision + 1 ELSE row.scope
               shut == IF change = "status" THEN ~row.archived ELSE row.archived
               new == [S!Revised(row, scope) EXCEPT !.archived = shut]
    <2>3. engagements' = [engagements EXCEPT ![e] = new] /\ UNCHANGED <<commands, scans>>
      BY <1>3, <2>1 DEF S!OtherTab
    <2>4. scope \in Nat /\ shut \in BOOLEAN
      <3>1. row.revision + 1 \in Nat /\ row.scope \in Nat /\ row.archived \in BOOLEAN
        BY <2>2 DEF S!Rows
      <3>2. shut \in BOOLEAN
        BY <3>1, Zenon
      <3>3. QED
        BY <3>1, <3>2
    <2> HIDE DEF scope, shut
    <2>5. new \in S!Rows
      BY <2>2, <2>4, RevisedRow
    <2>6. new # None /\ new.targets = row.targets
      <3>1. new.targets = row.targets
        BY <2>2 DEF S!Revised, S!Rows
      <3>2. QED
        BY <2>5, <3>1, RecordsAssumption
    <2> HIDE DEF new
    <2>7. \A d \in S!Ids : /\ engagements'[d] = None <=> engagements[d] = None
                           /\ engagements'[d].targets = engagements[d].targets
      BY <1>0, <2>1, <2>2, <2>3, <2>6 DEF RowsInv
    <2>8. S!Created' = S!Created
      BY <2>7 DEF S!Created
    <2>9. \A d \in S!Created : engagements'[d].targets = engagements[d].targets
      BY <2>7 DEF S!Created
    <2>10. QED
      BY <1>0, <2>3, <2>8, <2>9, OnceKept
  <1>4. ASSUME NEW q \in late, S!ServeLate(q) PROVE OnceInv'
    BY <1>0, <1>4, OnceExecute DEF S!ServeLate
  <1>5. ASSUME NEW s \in S!Slots, S!Serve(s) PROVE OnceInv'
    <2>1. PICK q : q = runs[s].q
      OBVIOUS
    <2>2. runs[s] # None /\ runs[s].phase \in S!Commands /\ S!CanExecute(q) /\ S!Execute(q)
      BY <1>5, <2>1 DEF S!Serve, S!Awaits
    <2>3. Named(q)
      BY <1>0, <2>1, <2>2 DEF StartInv, RunsInv, RunFits
    <2>4. Drawn(q)
      BY <1>0, <2>1, <2>2 DEF DrawnInv, DrawnRun
    <2>5. QED
      BY <1>0, <2>2, <2>3, <2>4, OnceExecute DEF Drawn
  <1>6. ASSUME NEW s \in S!Slots,
               \/ S!Submit(s) \/ S!CreateLands(s) \/ S!ScopeLands(s) \/ S!ActionLands(s)
               \/ S!NotesEnd(s) \/ S!RefusalLands(s) \/ S!Fails(s) \/ S!ServeRefresh(s)
               \/ S!RefreshLands(s)
        PROVE  OnceInv'
    BY <1>1, <1>6 DEF S!Submit, S!CreateLands, S!ScopeLands, S!ActionLands, S!NotesEnd,
                      S!RefusalLands, S!Fails, S!ServeRefresh, S!RefreshLands
  <1>7. QED
    BY <1>2, <1>3, <1>4, <1>5, <1>6 DEF S!Next

\* What else moves leaves the keys alone.
LEMMA DrawnNext == ASSUME KeysInv, S!Next PROVE DrawnInv'
  <1>0. /\ StartInv /\ DrawnInv /\ \A q \in late : Drawn(q)
        /\ \A c \in commands : Drawn(c.q)
        /\ \A s \in S!Slots : DrawnRun(runs[s])
    BY DEF KeysInv, DrawnInv
  <1>1. ASSUME UNCHANGED <<commands, late, runs, resets>> PROVE DrawnInv'
    BY <1>0, <1>1, DrawnKept
  <1>2. CASE \/ S!Open \/ S!Cancel \/ S!OpenEngagement \/ S!Discard
             \/ \E t \in Targets \cup {None}, save \in BOOLEAN : S!Edit(t, save)
             \/ \E e \in S!Ids, change \in {"settings", "scope", "status"} : S!OtherTab(e, change)
    BY <1>1, <1>2 DEF S!Open, S!Cancel, S!OpenEngagement, S!Discard, S!Edit, S!Idle, S!OtherTab
  <1>3. ASSUME NEW q \in late, S!ServeLate(q) PROVE DrawnInv'
    <2>1. /\ commands' = commands \/ commands' = commands \cup {[q |-> q, answer |-> S!Fresh(q)]}
          /\ late' = late \ {q} /\ UNCHANGED <<runs, resets>>
      BY <1>3 DEF S!ServeLate, S!Execute
    <2>2. \A c \in commands' : Drawn(c.q)
      BY <1>0, <2>1
    <2>3. QED
      BY <1>0, <2>1, <2>2, DrawnKept
  <1>4. QED
    BY <1>0, <1>2, <1>3, DrawnStep DEF S!Next

LEMMA KeysInvariant == Spec => []KeysInv
  <1>1. Init => DrawnInv /\ OnceInv
    <2> SUFFICES ASSUME S!Init PROVE DrawnInv /\ OnceInv
      BY DEF Init
    <2>1. S!Created = {}
      BY DEF S!Init, S!Created
    <2>2. QED
      BY <2>1 DEF S!Init, DrawnInv, DrawnRun, OnceInv
  <1>2. StartInv /\ DrawnInv /\ OnceInv /\ [Next]_vars => DrawnInv' /\ OnceInv'
    <2> SUFFICES ASSUME KeysInv, [Next]_vars PROVE DrawnInv' /\ OnceInv'
      BY DEF KeysInv
    <2>1. CASE S!Next
      BY <2>1, DrawnNext, OnceStep
    <2>2. CASE UNCHANGED startVars
      <3>1. UNCHANGED <<engagements, commands, scans, late, runs, resets>>
        BY <2>2 DEF startVars
      <3>2. S!Created' = S!Created
        BY <3>1 DEF S!Created
      <3>3. OnceInv'
        BY <3>1, <3>2, OnceKept DEF KeysInv
      <3>4. DrawnInv'
        BY <3>1, DrawnKept DEF KeysInv, DrawnInv
      <3>5. QED
        BY <3>3, <3>4
    <2>3. QED
      BY <2>1, <2>2 DEF Next, vars
  <1>3. QED
    BY <1>1, <1>2, StartInvariant, PTL DEF Spec, KeysInv

\* Two Engagements for one target list were made under two keys of its intent,
\* and so were two scans of one intent: there is one key more than successes
\* that the dialog heard.
LEMMA KeysBound ==
    ASSUME KeysInv, NEW i, NEW T, NEW f \in [T -> Nat], \A d \in T : f[d] <= DropsOf(i),
           \A d, e \in T : f[d] = f[e] => d = e
    PROVE  Cardinality(T) <= DropsOf(i) + 1
  <1>1. DropsOf(i) \in Nat
    BY DropsFacts DEF KeysInv, StartInv
  <1>2. IsFiniteSet(0..DropsOf(i)) /\ Cardinality(0..DropsOf(i)) = DropsOf(i) + 1
    BY <1>1, FS_Interval
  <1> DEFINE U == 0..DropsOf(i)
  <1>3. f \in [T -> U]
    BY <1>1
  <1>4. f \in Injection(T, U)
    BY <1>3 DEF Injection, IsInjective
  <1> HIDE DEF U
  <1>5. IsFiniteSet(U) /\ Cardinality(U) = DropsOf(i) + 1
    BY <1>2 DEF U
  <1>6. Cardinality(T) <= Cardinality(U)
    BY <1>4, <1>5, FS_Injection
  <1>7. QED
    BY <1>5, <1>6

\* For every time but one that an intent was carried out, the dialog heard of
\* a success, whatever requests were lost or late and however many submits were
\* under way.
THEOREM RepeatsAreHeard == Spec => []RepeatsWereHeard
  <1>1. KeysInv => RepeatsWereHeard
    <2> SUFFICES ASSUME KeysInv PROVE RepeatsWereHeard
      OBVIOUS
    <2>0. /\ StartInv /\ RowsInv /\ IsFiniteSet(resets)
          /\ \A c \in commands : Named(c.q) /\ Drawn(c.q)
          /\ \A c, d \in commands : [c.q EXCEPT !.rules = 0] = [d.q EXCEPT !.rules = 0] => c = d
          /\ \A e \in S!Created : \E c \in commands : Made(c, e)
          /\ \A q \in scans : q \in Request /\ q.op = "action" /\ \E c \in commands : c.q = q
      BY DEF KeysInv, StartInv, DrawnInv, OnceInv, AnswersInv
    <2>1. ASSUME NEW e \in S!Created, NEW t, t = engagements[e].targets
          PROVE  S!Cardinality({d \in S!Created : engagements[d].targets = t})
                   <= S!Drops(S!Creation(t)) + 1
      <3> DEFINE T == {d \in S!Created : engagements[d].targets = t}
                 By(d) == CHOOSE c \in commands : Made(c, d)
                 f == [d \in T |-> By(d).q.drop]
                 i == S!Creation(t)
      <3>1. t \in Lists
        BY <2>0, <2>1, CreatedRows DEF S!Rows, Lists
      <3>2. i \in Request /\ S!Intent(i) = i
        BY <3>1, CreationOf
      <3>3. ASSUME NEW d \in T
            PROVE  /\ By(d) \in commands /\ Made(By(d), d) /\ By(d).q \in Request
                   /\ By(d).q.op = "create" /\ By(d).q.targets = t /\ By(d).q.rules = 0
                   /\ By(d).answer.eng = d /\ S!Intent(By(d).q) = i
                   /\ By(d).q.drop \in Nat /\ By(d).q.drop <= DropsOf(i)
        <4>1. By(d) \in commands /\ Made(By(d), d)
          BY <2>0, <3>3
        <4>2. PICK c : c = By(d)
          OBVIOUS
        <4> HIDE DEF By, i
        <4>3. c.q.op = "create" /\ c.q.targets = t /\ c.answer.eng = d
          BY <3>3, <4>1, <4>2 DEF Made
        <4>4. c.q \in Request /\ Drawn(c.q)
          BY <2>0, <4>1, <4>2 DEF Named
        <4>5. c.q.rules = 0 /\ S!Intent(c.q) = i
          BY <4>3, <4>4 DEF Drawn, i
        <4>6. c.q.drop \in Nat /\ c.q.drop <= DropsOf(i)
          BY <4>4, <4>5 DEF Drawn
        <4>7. QED
          BY <4>1, <4>2, <4>3, <4>4, <4>5, <4>6
      <3> HIDE DEF By, i
      <3>4. f \in [T -> Nat] /\ \A d \in T : f[d] <= DropsOf(i)
        BY <3>3
      <3>5. ASSUME NEW d \in T, NEW g \in T, f[d] = f[g] PROVE d = g
        <4>1. PICK c, b : c = By(d) /\ b = By(g)
          OBVIOUS
        <4>2. /\ c \in commands /\ c.q \in Request /\ c.answer.eng = d /\ S!Intent(c.q) = i
              /\ b \in commands /\ b.q \in Request /\ b.answer.eng = g /\ S!Intent(b.q) = i
              /\ c.q.rules = b.q.rules /\ c.q.drop = b.q.drop
          BY <3>3, <3>5, <4>1
        <4>3. c.q = b.q
          BY <4>2, IntentOf, SameRequest
        <4>4. c = b
          BY <2>0, <4>2, <4>3
        <4>5. QED
          BY <4>2, <4>4
      <3> HIDE DEF f
      <3>6. Cardinality(T) <= DropsOf(i) + 1
        BY <3>4, <3>5, KeysBound
      <3>7. S!Drops(i) = DropsOf(i)
        BY <2>0, <3>2, DropsFacts
      <3>8. QED
        BY <3>6, <3>7, SameCardinality DEF i
    <2>2. ASSUME NEW q \in scans
          PROVE  S!Cardinality({p \in scans : S!Intent(p) = S!Intent(q)}) <= S!Drops(q) + 1
      <3> DEFINE i == S!Intent(q)
                 T == {p \in scans : S!Intent(p) = i}
                 f == [p \in T |-> p.drop]
      <3> HIDE DEF i
      <3>1. ASSUME NEW p \in T
            PROVE  /\ p \in scans /\ p \in Request /\ p.rules = 0 /\ S!Intent(p) = i
                   /\ p.drop \in Nat /\ p.drop <= DropsOf(i)
        <4>1. p \in scans /\ p \in Request /\ Drawn(p) /\ p.op = "action" /\ S!Intent(p) = i
          BY <2>0
        <4>2. QED
          BY <4>1 DEF Drawn
      <3>2. f \in [T -> Nat] /\ \A p \in T : f[p] <= DropsOf(i)
        BY <3>1
      <3>3. ASSUME NEW p \in T, NEW g \in T, f[p] = f[g] PROVE p = g
        <4>1. p.drop = g.drop
          BY <3>3
        <4>2. QED
          BY <3>1, <4>1, IntentOf, SameRequest
      <3> HIDE DEF f
      <3>4. Cardinality(T) <= DropsOf(i) + 1
        BY <3>2, <3>3, KeysBound
      <3>5. S!Drops(q) = DropsOf(i)
        BY <2>0, DropsFacts DEF i
      <3>6. QED
        BY <3>4, <3>5, SameCardinality DEF i
    <2>3. QED
      BY <2>1, <2>2 DEF RepeatsWereHeard, S!RepeatsWereHeard
  <1>2. QED
    BY <1>1, KeysInvariant, PTL
=============================================================================
