---------------------------- MODULE Attachments ----------------------------
(***************************************************************************)
(* The evidence images one browser tab shows under the notes               *)
(* (NoteAttachmentsSection and AttachmentCard of apps/web notes.tsx, over  *)
(* packages/db excerpts.ts).  The rows are component state, filled by reads*)
(* of the whole list and by the answers to uploads, crops and caption      *)
(* saves, which all resolve in whatever order while the operator moves     *)
(* between engagements.  A caption is the number of times it was written.  *)
(***************************************************************************)
EXTENDS Naturals, FiniteSets

CONSTANTS
    Engagements,
    Numbers,        \* an engagement's images, by number
    MaxVersion,     \* bound: writes of one caption
    MaxOps,         \* bound: the section's operation counter
    MaxReads        \* bound: list reads in flight at once

Images == [eng : Engagements, n : Numbers]
Absent == 0

VARIABLES
    stored,     \* the captions of the control plane; Absent is no such image
    here,       \* the engagement the section shows
    rows,       \* the rows the section holds
    loadError,  \* whether it offers to load them again
    opSeq,      \* the section's operation counter (opSeqRef)
    marks,      \* when this tab last wrote a row (savedSeqRef)
    reads,      \* list reads in flight
    writes      \* uploads, derived copies and caption saves in flight

vars == <<stored, here, rows, loadError, opSeq, marks, reads, writes>>

NoImages == [i \in Images |-> Absent]

\* A list read in flight: when it started, whether leaving cancels it, its
\* answer, and the rows this view wrote and showed since it started.
Read(initial) == [eng |-> here, seq |-> opSeq + 1, initial |-> initial,
                  answered |-> FALSE, answer |-> NoImages, since |-> {}]

Init ==
    /\ stored = NoImages
    /\ here \in Engagements
    /\ rows = NoImages
    /\ loadError = FALSE
    /\ opSeq = 1
    /\ marks = NoImages
    /\ reads = {[Read(TRUE) EXCEPT !.eng = here, !.seq = 1]}
    /\ writes = {}

-----------------------------------------------------------------------------
\* Every navigation starts over: no rows, no marks, a fresh read; the
\* previous view's first read is cancelled, its retries and writes go on.
Navigate(e) ==
    /\ e # here
    /\ opSeq < MaxOps
    /\ here' = e
    /\ rows' = NoImages
    /\ loadError' = FALSE
    /\ marks' = NoImages
    /\ opSeq' = opSeq + 1
    /\ reads' = {[q EXCEPT !.since = {}] : q \in {r \in reads : ~r.initial}}
                  \cup {[Read(TRUE) EXCEPT !.eng = e]}
    /\ UNCHANGED <<stored, writes>>

\* "Retry" beside a failed load.
Reload ==
    /\ opSeq < MaxOps
    /\ Cardinality(reads) < MaxReads
    /\ loadError
    /\ loadError' = FALSE
    /\ opSeq' = opSeq + 1
    /\ reads' = reads \cup {Read(FALSE)}
    /\ UNCHANGED <<stored, here, rows, marks, writes>>

ServeRead(q) ==
    /\ ~q.answered
    /\ reads' = (reads \ {q}) \cup {[q EXCEPT !.answered = TRUE,
          !.answer = [i \in Images |-> IF i.eng = q.eng THEN stored[i] ELSE Absent]]}
    /\ UNCHANGED <<loadError, stored, here, rows, opSeq, marks, writes>>

ReadFails(q) ==
    /\ reads' = reads \ {q}
    /\ loadError' = (loadError \/ q.eng = here)
    /\ UNCHANGED <<stored, here, rows, opSeq, marks, writes>>

\* The union by id: a row on one side survives, a row on both is the local
\* one only when this tab wrote it after the read began.
Merged(incoming, began) ==
    [i \in Images |->
       IF incoming[i] = Absent \/ (rows[i] # Absent /\ marks[i] > began)
       THEN rows[i] ELSE incoming[i]]

BelongsHere(e) == e = here

ReadLands(q) ==
    /\ q.answered
    /\ reads' = reads \ {q}
    /\ rows' = IF BelongsHere(q.eng) THEN Merged(q.answer, q.seq) ELSE rows
    /\ UNCHANGED <<loadError, stored, here, opSeq, marks, writes>>

-----------------------------------------------------------------------------
\* An upload or a derived copy of an image not stored yet, and a caption
\* save from the card of a row shown; a card saves once at a time.
SendImage(i) ==
    /\ i.eng = here
    /\ stored[i] = Absent
    /\ \A w \in writes : w.image # i
    /\ writes' = writes \cup {[image |-> i, served |-> Absent, heard |-> TRUE]}
    /\ UNCHANGED <<loadError, stored, here, rows, opSeq, marks, reads>>

SendCaption(i) ==
    /\ rows[i] # Absent
    /\ \A w \in writes : w.image # i
    /\ writes' = writes \cup {[image |-> i, served |-> Absent, heard |-> TRUE]}
    /\ UNCHANGED <<loadError, stored, here, rows, opSeq, marks, reads>>

ServeWrite(w) ==
    /\ w.served = Absent
    /\ w.heard
    /\ stored[w.image] < MaxVersion
    /\ stored' = [stored EXCEPT ![w.image] = @ + 1]
    /\ \E heard \in BOOLEAN :
         writes' = (writes \ {w}) \cup
            {[w EXCEPT !.served = stored[w.image] + 1, !.heard = heard]}
    /\ UNCHANGED <<loadError, here, rows, opSeq, marks, reads>>

\* Refused (the engagement is archived, the store busy), or the answer lost:
\* the card or the pending image offers a retry.
WriteFails(w) ==
    /\ w.served = Absent \/ ~w.heard
    /\ writes' = writes \ {w}
    /\ UNCHANGED <<loadError, stored, here, rows, opSeq, marks, reads>>

\* The mark a write leaves on its row, and a slip that does not count it.
MarkSlip == opSeq - 1
Mark == opSeq + 1

\* The answer: an upload or a copy adds its row, a caption save replaces a
\* row that is still shown; either marks the row as written now.
WriteLands(w) ==
    /\ w.served # Absent /\ w.heard
    /\ opSeq < MaxOps
    /\ writes' = writes \ {w}
    /\ IF BelongsHere(w.image.eng)
       THEN /\ opSeq' = opSeq + 1
            /\ marks' = [marks EXCEPT ![w.image] = Mark]
            /\ rows' = [rows EXCEPT ![w.image] =
                  IF w.served = 1 \/ @ # Absent THEN w.served ELSE @]
            /\ reads' = {[q EXCEPT !.since =
                  IF q.eng = here /\ rows'[w.image] # Absent THEN @ \cup {w.image} ELSE @]
                  : q \in reads}
       ELSE UNCHANGED <<rows, opSeq, marks, reads>>
    /\ UNCHANGED <<loadError, stored, here>>

\* Another tab writes a caption or adds an image.
OtherTabWrites(i) ==
    /\ stored[i] < MaxVersion
    /\ stored[i] = Absent => \A w \in writes : w.image # i
    /\ stored' = [stored EXCEPT ![i] = @ + 1]
    /\ UNCHANGED <<loadError, here, rows, opSeq, marks, reads, writes>>

Next ==
    \/ \E e \in Engagements : Navigate(e)
    \/ Reload
    \/ \E q \in reads : ServeRead(q) \/ ReadFails(q) \/ ReadLands(q)
    \/ \E i \in Images : SendImage(i) \/ SendCaption(i) \/ OtherTabWrites(i)
    \/ \E w \in writes : ServeWrite(w) \/ WriteFails(w) \/ WriteLands(w)

Spec == Init /\ [][Next]_vars

-----------------------------------------------------------------------------
\* A list that lands never replaces a row this view wrote, and was answered,
\* after the list was asked for: it predates the write (notes.tsx:582).
ReadKeepsOwnWrites ==
    [][\A q \in reads :
         ReadLands(q) => \A i \in q.since : rows'[i] = rows[i]]_vars
=============================================================================
