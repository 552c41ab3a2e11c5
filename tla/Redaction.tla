----------------------------- MODULE Redaction -----------------------------
(***************************************************************************)
(* What the runner keeps of one output stream of its child: the pipe       *)
(* hands over the stream in chunks, the redactor replaces declared secrets *)
(* and credential values, and the collector keeps the first Limit bytes of *)
(* what the redactor lets through.  A byte is a member of Bytes; letter    *)
(* case, which the redactor ignores in credential prefixes, is left out.   *)
(***************************************************************************)
EXTENDS Integers, Sequences, SequencesExt, FiniteSets

CONSTANTS
    Bytes,               \* the alphabet of the stream
    Secrets,             \* the exact byte strings to redact
    CredentialPrefixes,  \* "--token=" and the like
    Delimiters, Quotes,  \* what ends an unquoted, and encloses a quoted, value
    Mark,                \* "[REDACTED]"
    MaxValue,            \* MAX_CREDENTIAL_VALUE_BYTES
    MaxChunk,            \* the size of a pipe read
    Limits,              \* the retention limits to try
    MaxInput             \* bound: the length of the stream

(***************************************************************************)
(* None of the four prefixes is a prefix of another; the runner passes one *)
(* secret, a random token, and a longer one than MaxValue is not taken.  A *)
(* read of a pipe returns at most 64 KiB, which is MaxValue.               *)
(***************************************************************************)
ASSUME RedactionAssumption ==
    /\ Secrets \cup CredentialPrefixes \subseteq Seq(Bytes) \ {<<>>}
    /\ \A p \in Secrets \cup CredentialPrefixes :
         Len(p) <= MaxValue + 1 /\ \A q \in Secrets : IsPrefix(q, p) => q = p
    /\ \A p, q \in CredentialPrefixes : IsPrefix(q, p) => q = p
    /\ Mark \in Seq(ToSet(Mark))
    /\ {"no", "unquoted"} \cap Quotes = {}
    /\ MaxValue \in Nat /\ MaxChunk \in 0..MaxValue
    /\ Limits \subseteq Nat /\ MaxInput \in Nat

VARIABLES
    seen,        \* what the pipe has delivered
    stash,       \* the bytes withheld until more are known
    discarding,  \* "no", "unquoted", or the quote an oversize value waits for
    retained, produced, firstDropped,   \* the collector; firstDropped -1 is null
    limit, closed

streamVars == <<seen, stash, discarding, retained, produced, firstDropped, limit, closed>>

Drop(s, n) == SubSeq(s, n + 1, Len(s))
StartingAt(s, S) == {p \in S : IsPrefix(p, s)}
FirstIn(s, S) == SelectInSeq(s, LAMBDA b : b \in S)
UpTo(s, n) == SubSeq(s, 1, IF Len(s) < n THEN Len(s) ELSE n)

(***************************************************************************)
(* One turn of the loop, at the head of what is left of the stash: what it *)
(* emits, how many bytes it consumes, and whether the loop goes on.        *)
(***************************************************************************)
Go(emit, take) == [emit |-> emit, take |-> take, stop |-> FALSE, mode |-> "no"]
Stop(emit, take, mode) == [emit |-> emit, take |-> take, stop |-> TRUE, mode |-> mode]
Wait == Stop(<<>>, 0, "no")

(***************************************************************************)
(* A value that starts after the first `from` bytes of s and ends at one   *)
(* of `ends`: replaced when its end is in sight, withheld while the end    *)
(* may still be within MaxValue, and thrown away to the end when it is     *)
(* longer than that or the stream is over.                                 *)
(***************************************************************************)
ValueSlip(s, from, ends, oversize, final) ==   \* a slip: what is over is not skipped
    LET value == Drop(s, from)
        end == FirstIn(UpTo(value, MaxValue + 1), ends)
        kept == SubSeq(s, 1, from) \o Mark
    IN  IF end # 0
          THEN Go(kept \o <<value[end]>>, from + end)
        ELSE IF ~final /\ Len(value) < MaxValue + 1
          THEN Wait
        ELSE IF Len(value) > MaxValue /\ ~final
          THEN Stop(kept, from + MaxValue, "no")
        ELSE Stop(kept, Len(s), "no")

Value(s, from, ends, oversize, final) ==
    LET value == Drop(s, from)
        end == FirstIn(UpTo(value, MaxValue + 1), ends)
        kept == SubSeq(s, 1, from) \o Mark
    IN  IF end # 0
          THEN Go(kept \o <<value[end]>>, from + end)
        ELSE IF ~final /\ Len(value) < MaxValue + 1
          THEN Wait
        ELSE IF Len(value) > MaxValue /\ (~final \/ oversize = "unquoted")
          THEN Stop(kept, from + MaxValue, oversize)
        ELSE Stop(kept, Len(s), "no")

Credential(s, prefix, final) ==
    LET n == Len(prefix)
    IN  IF Len(s) = n
          THEN IF final THEN Stop(s \o Mark, n, "no") ELSE Wait
        ELSE IF s[n + 1] \in Quotes
          THEN Value(s, n + 1, {s[n + 1]}, s[n + 1], final)
        ELSE Value(s, n, Delimiters, "unquoted", final)

(* findLongestSecretAtStart *)
Longest(S) == CHOOSE p \in S : \A q \in S : Len(q) <= Len(p)
IsPrefixOfAny(s, S) == \E p \in S : IsStrictPrefix(s, p)

Turn(s, final) ==
    LET prefixes == StartingAt(s, CredentialPrefixes)
        secrets == StartingAt(s, Secrets)
    IN  IF prefixes # {}
          THEN Credential(s, CHOOSE p \in prefixes : TRUE, final)
        ELSE IF secrets # {}
          THEN Go(Mark, Len(Longest(secrets)))
        ELSE IF ~final /\ IsPrefixOfAny(s, Secrets \cup CredentialPrefixes)
          THEN Wait
        ELSE Go(<<Head(s)>>, 1)

Loop(final) ==
    LET loop[s \in Seq(Bytes)] ==
          LET t == Turn(s, final)
              rest == Drop(s, t.take)
          IN  IF s = <<>> THEN [out |-> <<>>, stash |-> <<>>, mode |-> "no"]
              ELSE IF t.stop THEN [out |-> t.emit, stash |-> rest, mode |-> t.mode]
              ELSE [loop[rest] EXCEPT !.out = t.emit \o @]
    IN  loop

(* The end of an oversize value is looked for first.                       *)
ProcessChunk(s, mode, final) ==
    LET end == FirstIn(s, IF mode = "unquoted" THEN Delimiters ELSE {mode})
    IN  IF mode = "no" THEN Loop(final)[s]
        ELSE IF end # 0
          THEN [Loop(final)[Drop(s, end)] EXCEPT !.out = <<s[end]>> \o @]
        ELSE [out |-> <<>>, stash |-> <<>>, mode |-> IF final THEN "no" ELSE mode]

(***************************************************************************)
(* BoundedCollector.push                                                   *)
(***************************************************************************)
Collect(out) ==
    LET room == limit - Len(retained)
    IN  /\ produced' = produced + Len(out)
        /\ retained' = retained \o UpTo(out, room)
        /\ firstDropped' = IF Len(out) > room /\ firstDropped = -1
                             THEN limit ELSE firstDropped

StreamInit ==
    /\ seen = <<>> /\ stash = <<>> /\ discarding = "no"
    /\ retained = <<>> /\ produced = 0 /\ firstDropped = -1
    /\ limit \in Limits
    /\ closed = FALSE

(* The pipe delivers a chunk: the redactor's push and the collector's.     *)
Read(chunk) ==
    /\ ~closed
    /\ Len(seen) + Len(chunk) <= MaxInput
    /\ LET r == ProcessChunk(stash \o chunk, discarding, FALSE)
       IN  /\ stash' = r.stash
           /\ discarding' = r.mode
           /\ Collect(r.out)
    /\ seen' = seen \o chunk
    /\ UNCHANGED <<limit, closed>>

(* The stream is over: flush.  What processChunk leaves goes out as it is. *)
Flush(s, mode) == LET r == ProcessChunk(s, mode, TRUE) IN r.out \o r.stash
Close ==
    /\ ~closed
    /\ closed' = TRUE
    /\ stash' = <<>> /\ discarding' = "no"
    /\ Collect(Flush(stash, discarding))
    /\ UNCHANGED <<seen, limit>>

Chunks == UNION {[1..n -> Bytes] : n \in 1..MaxChunk}
StreamNext == (\E chunk \in Chunks : Read(chunk)) \/ Close
StreamSpec == StreamInit /\ [][StreamNext]_streamVars

-----------------------------------------------------------------------------
(***************************************************************************)
(* The redaction of a whole stream, read off ADR 0002: no chunk, no limit  *)
(* on a value, nothing withheld.                                           *)
(***************************************************************************)
ValueTo(s, from, ends) ==
    LET end == FirstIn(Drop(s, from), ends)
        kept == SubSeq(s, 1, from) \o Mark
    IN  IF end = 0 THEN [emit |-> kept, take |-> Len(s)]
        ELSE [emit |-> kept \o <<s[from + end]>>, take |-> from + end]
Piece(s) ==
    LET prefixes == StartingAt(s, CredentialPrefixes)
        secrets == StartingAt(s, Secrets)
        n == Len(CHOOSE p \in prefixes : TRUE)
    IN  IF prefixes # {}
          THEN IF Len(s) > n /\ s[n + 1] \in Quotes
                 THEN ValueTo(s, n + 1, {s[n + 1]})
                 ELSE ValueTo(s, n, Delimiters)
        ELSE IF secrets # {} THEN [emit |-> Mark, take |-> Len(Longest(secrets))]
        ELSE [emit |-> <<Head(s)>>, take |-> 1]
Redacted[s \in Seq(Bytes)] ==
    IF s = <<>> THEN <<>>
    ELSE Piece(s).emit \o Redacted[Drop(s, Piece(s).take)]

(***************************************************************************)
(* What a stream leaves behind is the first Limit bytes of the redaction   *)
(* of the whole stream, in whatever chunks the pipe cut it, also where a   *)
(* value is longer than the redactor holds back and where a cut falls into *)
(* a prefix, a quote or a secret; and the truncation counters say exactly  *)
(* how much of that redaction is missing and from which byte.              *)
(***************************************************************************)
KeptIsRedactedPrefix ==
    closed => LET whole == Redacted[seen]
              IN  /\ retained = UpTo(whole, limit)
                  /\ produced = Len(whole)
                  /\ firstDropped = IF Len(whole) > limit THEN limit ELSE -1
=============================================================================
