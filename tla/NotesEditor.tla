---------------------------- MODULE NotesEditor ----------------------------
(***************************************************************************)
(* The notes of one engagement and the editors that several browser tabs   *)
(* hold open on them (apps/web notes-query.ts and notes.tsx over           *)
(* packages/db repository.ts).  A tab keeps one cached copy that outlives  *)
(* the editor, and the editor keeps a draft over the revision it was based *)
(* on; the server accepts a text only over the revision it names.  What a  *)
(* tab sends is one message from the moment it is sent until its answer is *)
(* applied, and a request may die before or after the server served it.    *)
(***************************************************************************)
EXTENDS Naturals, FiniteSets

CONSTANTS Tabs, Texts, Empty, NoNotes, NoText, MaxRevision, MaxInFlight

Notes == [text : Texts \cup {Empty}, rev : 0..MaxRevision]

\* A tab that shows no editor.
Closed == [open |-> FALSE, draft |-> NoText, base |-> NoNotes, conflict |-> NoNotes]

VARIABLES
    notes,      \* the row, revision 0 when there is none
    cache,      \* per tab: the query cache's copy
    editor,     \* per tab: draft, base and the server version a conflict shows
    load,       \* per tab: the answer to the cache's own read, while it is on its way
    recovery,   \* per tab: the recovery read that still counts
    saves       \* per tab: the saves in flight

vars == <<notes, cache, editor, load, recovery, saves>>

\* A read: not asked for, under way, failed, or answered with what it read.
Read(at) == [at |-> at, notes |-> NoNotes]
ReadOf(n) == [at |-> "answered", notes |-> n]

Init ==
    /\ notes = [text |-> Empty, rev |-> 0]
    /\ cache = [t \in Tabs |-> NoNotes]
    /\ editor = [t \in Tabs |-> Closed]
    /\ load = [t \in Tabs |-> Read("idle")]
    /\ recovery = [t \in Tabs |-> Read("idle")]
    /\ saves = [t \in Tabs |-> {}]

-----------------------------------------------------------------------------
\* The editor shows a text based on a revision.
Shows(e, n) == [e EXCEPT !.draft = n.text, !.base = n]

\* The revisions in front of the operator: the one the draft was based on, as
\* its text or a text equal to it, and the server's version of a conflict.
OnScreen(e) == {n.rev : n \in {e.base, e.conflict} \ {NoNotes}}

\* How a mistaken effect would follow the cache over unsaved text.
SettledSlip(e, c) ==
    IF ~e.open \/ c = NoNotes \/ e.base = c THEN e ELSE Shows(e, c)

\* The effect that follows every render: a new editor and a clean one take
\* the cached copy, a draft that already equals it only moves its base.
Settled(e, c) ==
    IF ~e.open \/ c = NoNotes \/ c = e.base THEN e
    ELSE IF e.base = NoNotes \/ e.draft = e.base.text THEN Shows(e, c)
    ELSE IF e.draft = c.text THEN [e EXCEPT !.base = c]
    ELSE e

Render(t, e, c) ==
    /\ cache' = [cache EXCEPT ![t] = c]
    /\ editor' = [editor EXCEPT ![t] = Settled(e, c)]

Editing(t) == editor[t].open /\ editor[t].base # NoNotes

Unsaved(t) == Editing(t) /\ editor[t].draft # editor[t].base.text

Saving(t) == \E s \in saves[t] : s.live

\* Bound: messages on their way at a time, of all tabs.
Room ==
    Cardinality(UNION {{t} \X saves[t] : t \in Tabs})
      + Cardinality({t \in Tabs : load[t].at # "idle"})
      + Cardinality({t \in Tabs : recovery[t].at \in {"asked", "answered"}}) < MaxInFlight

\* The revision a save from the editor names.
BaseRevisionSlip(t) == cache[t].rev
BaseRevision(t) == editor[t].base.rev

-----------------------------------------------------------------------------
Open(t) ==
    /\ ~editor[t].open
    /\ Render(t, [Closed EXCEPT !.open = TRUE], cache[t])
    /\ UNCHANGED <<notes, load, recovery, saves>>

\* Leaving is the operator's choice, also over unsaved text; the mutation in
\* flight goes on without its editor.
Leave(t) ==
    /\ editor[t].open
    /\ editor' = [editor EXCEPT ![t] = Closed]
    /\ load' = [load EXCEPT ![t] = Read("idle")]
    /\ recovery' = [recovery EXCEPT ![t] = Read("idle")]
    /\ saves' = [saves EXCEPT ![t] = {[s EXCEPT !.live = FALSE] : s \in @}]
    /\ UNCHANGED <<notes, cache>>

\* The mounted query is read when the editor opens over an empty cache, and
\* again whenever anything of its engagement is invalidated, over a draft or
\* a save in flight too: the new read replaces one under way unless that is
\* the first.  Asking changes nothing, nor does a read that fails, so a step
\* is the serving of the read.
Fetch(t) ==
    /\ editor[t].open
    /\ IF load[t].at = "idle" THEN Room ELSE cache[t] # NoNotes
    /\ load' = [load EXCEPT ![t] = ReadOf(notes)]
    /\ UNCHANGED <<notes, cache, editor, recovery, saves>>

Loaded(t) ==
    /\ load[t].at = "answered"
    /\ Render(t, editor[t], load[t].notes)
    /\ load' = [load EXCEPT ![t] = Read("idle")]
    /\ UNCHANGED <<notes, recovery, saves>>

\* What the operator may leave in the text area.
Typed == Texts \cup {Empty}

\* Typing, and inserting a reference to an uploaded image: the second also
\* happens while a save is pending and the text area is disabled.
Edit(t, text) ==
    /\ Editing(t)
    /\ text # editor[t].draft
    /\ Render(t, [editor[t] EXCEPT !.draft = text], cache[t])
    /\ UNCHANGED <<notes, load, recovery, saves>>

Send(t, expected) ==
    /\ ~Saving(t)
    /\ expected < MaxRevision
    /\ Room
    /\ saves' = [saves EXCEPT ![t] = @ \cup
          {[text |-> editor[t].draft, expected |-> expected, live |-> TRUE,
            shown |-> OnScreen(editor[t]), answer |-> "none"]}]

Save(t) ==
    /\ Editing(t)
    /\ editor[t].draft # cache[t].text
    /\ Send(t, BaseRevision(t))
    /\ UNCHANGED <<notes, cache, editor, load, recovery>>

\* "Keep mine": the draft again, over the revision the conflict shows.
KeepMine(t) ==
    /\ Editing(t)
    /\ editor[t].conflict # NoNotes
    /\ recovery[t].at \in {"idle", "failed"}
    /\ Send(t, editor[t].conflict.rev)
    /\ UNCHANGED <<notes, cache, editor, load, recovery>>

LoadServer(t) ==
    /\ Editing(t)
    /\ editor[t].conflict # NoNotes
    /\ recovery[t].at \in {"idle", "failed"}
    /\ ~Saving(t)
    /\ LET n == editor[t].conflict IN
       Render(t, [Shows(editor[t], n) EXCEPT !.conflict = NoNotes], n)
    /\ recovery' = [recovery EXCEPT ![t] = Read("idle")]
    /\ UNCHANGED <<notes, load, saves>>

-----------------------------------------------------------------------------
\* Whether the control plane takes a save over the stored revision.
Current(s) == s.expected = notes.rev

Answer(t, s, a) == saves' = [saves EXCEPT ![t] = (@ \ {s}) \cup {[s EXCEPT !.answer = a]}]

ServeSave(t, s) ==
    /\ s.answer = "none"
    /\ Current(s)
    /\ notes' = [text |-> s.text, rev |-> s.expected + 1]
    /\ \E heard \in BOOLEAN :
         Answer(t, s, IF heard THEN "saved" ELSE "request_failed")
    /\ UNCHANGED <<cache, editor, load, recovery>>

\* A save of a tab that is not among Tabs, which reaches these only through
\* the row.
SavedElsewhere(text) ==
    /\ notes.rev < MaxRevision
    /\ notes' = [text |-> text, rev |-> notes.rev + 1]
    /\ UNCHANGED <<cache, editor, load, recovery, saves>>

\* A refusal for any other reason (the engagement is archived, the store is
\* busy) and a request that never arrived look alike to the editor.
RefuseSave(t, s) ==
    /\ s.answer = "none"
    /\ \E a \in {"revision_conflict", "request_failed"} :
         /\ a = "revision_conflict" => ~Current(s)
         /\ Answer(t, s, a)
    /\ UNCHANGED <<notes, cache, editor, load, recovery>>

\* The answer to a save: the cache always takes it, the editor only while it
\* is the one that sent it.
Saved(t, s) ==
    LET n == [text |-> s.text, rev |-> s.expected + 1] IN
    /\ s.answer = "saved"
    /\ saves' = [saves EXCEPT ![t] = @ \ {s}]
    /\ Render(t, IF s.live THEN [editor[t] EXCEPT !.base = n, !.conflict = NoNotes]
                           ELSE editor[t], n)
    /\ recovery' = [recovery EXCEPT ![t] = IF s.live /\ @.at = "failed" THEN Read("idle") ELSE @]
    /\ UNCHANGED <<notes, load>>

SaveFails(t, s) ==
    /\ s.answer \notin {"none", "saved"}
    /\ saves' = [saves EXCEPT ![t] = @ \ {s}]
    /\ recovery' = [recovery EXCEPT ![t] =
          IF s.live /\ s.answer = "revision_conflict" THEN Read("asked") ELSE @]
    /\ UNCHANGED <<notes, cache, editor, load>>

\* The read that follows a conflict; a later one makes an earlier one void.
ServeRecovery(t) ==
    /\ recovery[t].at = "asked"
    /\ \E answer \in {ReadOf(notes), Read("failed")} : recovery' = [recovery EXCEPT ![t] = answer]
    /\ UNCHANGED <<notes, cache, editor, load, saves>>

Recovered(t) ==
    /\ recovery[t].at = "answered"
    /\ editor' = [editor EXCEPT ![t].conflict = recovery[t].notes]
    /\ recovery' = [recovery EXCEPT ![t] = Read("idle")]
    /\ UNCHANGED <<notes, cache, load, saves>>

RetryRecovery(t) ==
    /\ recovery[t].at = "failed"
    /\ Room
    /\ recovery' = [recovery EXCEPT ![t] = Read("asked")]
    /\ UNCHANGED <<notes, cache, editor, load, saves>>

Next ==
    \/ \E t \in Tabs :
         \/ Open(t) \/ Leave(t)
         \/ Fetch(t) \/ Loaded(t)
         \/ \E text \in Typed : Edit(t, text)
         \/ Save(t) \/ KeepMine(t) \/ LoadServer(t)
         \/ \E s \in saves[t] :
              ServeSave(t, s) \/ RefuseSave(t, s) \/ Saved(t, s) \/ SaveFails(t, s)
         \/ ServeRecovery(t) \/ Recovered(t) \/ RetryRecovery(t)
    \/ \E text \in Typed : SavedElsewhere(text)

Spec == Init /\ [][Next]_vars

-----------------------------------------------------------------------------
\* A save replaces only a revision that the editor that sent it had put in
\* front of the operator, as its text or as the conflicting server version:
\* notes written in another tab, or by an earlier editor of this one, are
\* never overwritten unseen (notes-query.ts:177, repository.ts:787).
NoSilentOverwrite ==
    [][\A t \in Tabs : \A s \in saves[t] : ServeSave(t, s) => notes.rev \in s.shown]_vars

\* Text typed and not yet saved leaves the editor only by the operator's own
\* hand: by more typing, by loading the server's version or by leaving; no
\* answer that arrives, in whatever order, replaces it (notes-query.ts:149).
DraftIsKept ==
    [][\A t \in Tabs :
         Unsaved(t) /\ editor'[t].draft # editor[t].draft =>
            LoadServer(t) \/ Leave(t) \/ \E text \in Typed : Edit(t, text)]_vars
=============================================================================
