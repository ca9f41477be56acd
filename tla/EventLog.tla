------------------------------ MODULE EventLog ------------------------------
(***************************************************************************)
(* unoq_ota/events.py: the append-only journal and the best-effort posting *)
(* of its lines.  Several processes (the poller, the jobs service, the     *)
(* boot unit) record into one journal.ndjson with one sibling offset file  *)
(* and no lock between them.                                               *)
(*                                                                         *)
(* The file is a sequence of what each append left in it: a whole line, or *)
(* a fragment without its newline.  An event is named by its place there.  *)
(* Bytes become pieces, so an offset counts pieces.  Every offset that is  *)
(* stored is the end of a line, but the file holds its decimal text, and   *)
(* two writers can leave a number there that neither of them stored: that  *)
(* one may fall anywhere, and inside a piece it counts as its end, for     *)
(* what is left of that piece parses as nothing.                           *)
(***************************************************************************)
EXTENDS Naturals, Sequences

CONSTANTS
  Writers,      \* the processes that record
  Room          \* pieces the disk has room for

ASSUME RoomAssumption == Room \in Nat

VARIABLES
  journal,      \* journal.ndjson
  offset,       \* journal.ndjson.offset; an empty or missing file reads as 0
  wpc,          \* where each writer is in record()
  len,          \* how much of the journal its flush has read
  at,           \* up to where its flush has come
  sent,         \* history: events the server has received
  garbled,      \* history: the offset file holds one number over another
  misled        \* history: a flush has started from such a number

logvars == <<journal, offset, wpc, len, at, sent, garbled, misled>>
marks == <<garbled, misled>>

Piece == {"line", "fragment"}

LogTypeOK ==
  /\ journal \in Seq(Piece)
  /\ offset \in 0..(Room + 1)
  /\ wpc \in [Writers -> {"idle", "read", "seek", "scan", "truncate", "store"}]
  /\ len \in [Writers -> 0..Len(journal)]
  /\ at \in [Writers -> 0..Len(journal)]
  /\ sent \in SUBSET (1..Len(journal))
  /\ garbled \in BOOLEAN /\ misled \in BOOLEAN

LogInit ==
  /\ journal = <<>> /\ offset = 0 /\ sent = {}
  /\ wpc = [w \in Writers |-> "idle"]
  /\ len = [w \in Writers |-> 0] /\ at = [w \in Writers |-> 0]
  /\ garbled = FALSE /\ misled = FALSE

-----------------------------------------------------------------------------
\* json.loads accepts a line that is one whole event.  An event appended
\* behind a fragment shares the fragment's line, which parses as nothing.
Parses(i) == journal[i] = "line" /\ (i > 1 => journal[i-1] = "line")

Put(piece) == Len(journal) < Room /\ journal' = Append(journal, piece)

Go(w, where) == wpc' = [wpc EXCEPT ![w] = where]

\* record returns, or its process is gone: nothing of it is left in memory.
Forget(w) ==
  /\ wpc' = [wpc EXCEPT ![w] = "idle"]
  /\ len' = [len EXCEPT ![w] = 0] /\ at' = [at EXCEPT ![w] = 0]

\* _append: one write to a file opened for appending, then fsync.
Record(w) ==
  /\ wpc[w] = "idle"
  /\ Put("line") /\ Go(w, "read")
  /\ UNCHANGED <<offset, len, at, sent, marks>>

\* The append raises, or the process dies in it: the write may have left
\* nothing, a part, or everything (when only the fsync failed).
AppendFails(w) ==
  /\ wpc[w] = "idle"
  /\ Put("fragment") \/ Put("line") \/ UNCHANGED journal
  /\ UNCHANGED <<offset, wpc, len, at, sent, marks>>

\* flush_unsent reads the journal...
ReadJournal(w) ==
  /\ wpc[w] = "read"
  /\ len' = [len EXCEPT ![w] = Len(journal)] /\ Go(w, "seek")
  /\ UNCHANGED <<journal, offset, at, sent, marks>>

ReadOffset_mut(w) ==
  /\ wpc[w] = "seek"
  /\ at' = [at EXCEPT ![w] = offset] /\ Go(w, "scan")
  /\ misled' = (misled \/ garbled)
  /\ UNCHANGED <<journal, offset, len, sent, garbled>>

\* ...and then the offset, which another process may be rewriting or may have
\* moved beyond what was just read; then everything is sent again.
ReadOffset(w) ==
  /\ wpc[w] = "seek"
  /\ at' = [at EXCEPT ![w] = IF offset > len[w] THEN 0 ELSE offset] /\ Go(w, "scan")
  /\ misled' = (misled \/ (garbled /\ offset <= len[w]))
  /\ UNCHANGED <<journal, offset, len, sent, garbled>>

\* rest.find(newline): the end of the next complete line, none after the last.
LineEnds(w) == {i \in (at[w] + 1)..len[w] : journal[i] = "line"}
IsNextLine(w, n) == n \in LineEnds(w) /\ \A i \in LineEnds(w) : n <= i

CaughtUp(w) ==
  /\ wpc[w] = "scan" /\ LineEnds(w) = {}
  /\ Forget(w)
  /\ UNCHANGED <<journal, offset, sent, marks>>

Past(w, n) == at' = [at EXCEPT ![w] = n] /\ Go(w, "truncate") /\ UNCHANGED <<journal, offset, len, marks>>

\* A line that does not parse is passed over.
SkipLine(w) ==
  /\ wpc[w] = "scan"
  /\ \E n \in LineEnds(w) : IsNextLine(w, n) /\ ~Parses(n) /\ Past(w, n)
  /\ UNCHANGED sent

Post(w) ==
  /\ wpc[w] = "scan"
  /\ \E n \in LineEnds(w) : IsNextLine(w, n) /\ Parses(n) /\ Past(w, n) /\ sent' = sent \cup {n}

PostFails_mut(w) ==
  /\ wpc[w] = "scan"
  /\ \E n \in LineEnds(w) : IsNextLine(w, n) /\ Parses(n) /\ Past(w, n)
  /\ UNCHANGED sent

\* A refused or unanswered POST ends the flush; the server may have got it.
PostFails(w) ==
  /\ wpc[w] = "scan"
  /\ \E n \in LineEnds(w) :
       IsNextLine(w, n) /\ Parses(n) /\ (sent' = sent \cup {n} \/ UNCHANGED sent)
  /\ Forget(w)
  /\ UNCHANGED <<journal, offset, marks>>

\* _write_offset is write_text: the file is emptied when it is opened...
TruncateOffset(w) ==
  /\ wpc[w] = "truncate"
  /\ offset' = 0 /\ garbled' = FALSE /\ Go(w, "store")
  /\ UNCHANGED <<journal, len, at, sent, misled>>

\* ...and the digits go to its beginning.  If another process has written a
\* larger number since, it may be longer, and its last digits stay behind the
\* new ones: some number above the one stored, as long as the larger one.
Overlaid(w) == IF offset > at[w] THEN (at[w] + 1)..(Room + 1) ELSE {}

StoreOffset_mut(w) ==
  /\ wpc[w] = "store"
  /\ offset' = Len(journal) /\ UNCHANGED garbled
  /\ Go(w, "scan")
  /\ UNCHANGED <<journal, len, at, sent, misled>>

StoreOffset(w) ==
  /\ wpc[w] = "store"
  /\ \/ offset' = at[w] /\ garbled' = FALSE
     \/ offset' \in Overlaid(w) /\ garbled' = TRUE
  /\ Go(w, "scan")
  /\ UNCHANGED <<journal, len, at, sent, misled>>

\* Reading the journal, or writing the offset, raises and record swallows it;
\* without a report_url nothing is read at all.
FlushFails(w) ==
  /\ wpc[w] \in {"read", "truncate", "store"}
  /\ Forget(w)
  /\ UNCHANGED <<journal, offset, sent, marks>>

\* One step of a flush that has begun.
Flush(w) ==
  \/ ReadJournal(w) \/ ReadOffset(w) \/ CaughtUp(w) \/ SkipLine(w) \/ Post(w)
  \/ PostFails(w) \/ TruncateOffset(w) \/ StoreOffset(w) \/ FlushFails(w)

WriterDies(w) == Forget(w) /\ UNCHANGED <<journal, offset, sent, marks>>

\* The journal was synced and the offset was not: a power cut may empty it.
PowerCut ==
  /\ wpc' = [w \in Writers |-> "idle"]
  /\ len' = [w \in Writers |-> 0] /\ at' = [w \in Writers |-> 0]
  /\ \/ UNCHANGED <<offset, garbled>>
     \/ offset' = 0 /\ garbled' = FALSE
  /\ UNCHANGED <<journal, sent, misled>>

LogNext ==
  \/ \E w \in Writers : Record(w) \/ AppendFails(w) \/ Flush(w) \/ WriterDies(w)
  \/ PowerCut

LogSpec == LogInit /\ [][LogNext]_logvars

-----------------------------------------------------------------------------
\* events.py:8: "Unsent lines are tracked by a sibling offset file".  Whatever
\* lies below the stored offset has reached the server, although two
\* processes move it back and forth and either may die half way.  The one
\* thing that breaks it is a flush started from the digits of two numbers; a
\* garbled file that is emptied again, or points beyond the end of what was
\* read, does no harm.
NothingSkipped == (~garbled /\ ~misled) => \A i \in 1..offset : Parses(i) => i \in sent

\* The server learns of events in the order of the journal: unless a flush was
\* misled, it never has one without all the readable ones before it, though
\* it may get some twice.
InOrder == ~misled => \A i \in sent : \A j \in 1..i : Parses(j) => j \in sent

\* A record that comes to its end without a failure has delivered its own
\* event, unless a fragment spoilt the line, and, if no flush was misled, the
\* whole backlog with it.
BacklogGone ==
  [][\A w \in Writers : (CaughtUp(w) /\ ~misled) =>
       \A i \in 1..len[w] : Parses(i) => i \in sent]_logvars
=============================================================================
