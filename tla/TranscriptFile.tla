---------------------------- MODULE TranscriptFile ----------------------------
(***************************************************************************)
(* The transcript of one conversation (utils/transcripts.py): a file of    *)
(* JSON lines, appended to under a lock, pruned when it is old, and read   *)
(* (utils/transcript_reader.py) under the same lock.  An append writes its *)
(* bytes in any number of pieces; it can fail in between, and so can the   *)
(* truncation that undoes it; the process can crash at any point and start *)
(* again.  An event is two bytes of JSON, neither of them valid alone, and *)
(* a newline.                                                              *)
(***************************************************************************)
EXTENDS Naturals, Sequences, FiniteSets, SequencesExt

CONSTANTS MaxEvents,       \* bound: the events submitted, numbered from 1
          MaxReadBytes,    \* MAX_READ_BYTES
          MaxReadRecords   \* MAX_READ_RECORDS

ASSUME LimitsAssumption == MaxEvents \in Nat /\ MaxReadBytes \in Nat /\ MaxReadRecords \in Nat

VARIABLES file,       \* its bytes, or Absent
          old,        \* has it not been written for the retention time?
          writer,     \* the append in progress, or Idle
          submitted,  \* how many events have been submitted
          stored      \* the events whose append returned, since the last pruning

vars == <<file, old, writer, submitted, stored>>

NL     == <<0, 0>>
Byte(e, i) == <<e, i>>
Event(e) == <<Byte(e, 1), Byte(e, 2), NL>>
Absent == <<NL, NL>>   \* no file the appends can leave behind starts so
Idle   == [busy |-> FALSE]

Bytes(f) == IF f = Absent THEN <<>> ELSE f

Init == /\ file = Absent /\ old = FALSE
        /\ writer = Idle /\ submitted = 0 /\ stored = {}

----------------------------------------------------------------------------
(* Reading.                                                                *)

(* A line goes to its newline, the last maybe without.  It is named by the *)
(* position before its first byte.                                         *)
Lines(f) == {i \in 0..Len(f) : i < Len(f) /\ (i = 0 \/ f[i] = NL)}

Ended(f, i) == \E j \in DOMAIN f : i < j /\ f[j] = NL
IsRecord(f, i) == /\ i + 3 <= Len(f)
                  /\ \E e \in 1..MaxEvents : SubSeq(f, i + 1, i + 3) = Event(e)
EventOf(f, i) == f[i + 1][1]

(* The members of a finite set of numbers, as they follow each other.      *)
InOrder(S) == [n \in 1..Cardinality(S) |->
                  CHOOSE i \in S : Cardinality({j \in S : j < i}) = n - 1]

(* What the lines in S say.                                                *)
EventsOf(f, S) == [n \in 1..Cardinality(S) |-> EventOf(f, InOrder(S)[n])]

(* lines[:MAX_READ_RECORDS] *)
Examined(f) == {i \in Lines(f) : Cardinality({j \in Lines(f) : j < i}) < MaxReadRecords}

(* read_thread: a bounded prefix of the file, its complete and valid lines *)
(* as records, and what was skipped.                                       *)
(* Records beyond the limit are dropped silently.                          *)
ReadThreadSilently(f) ==
  LET limited == Len(f) > MaxReadBytes
      data    == SubSeq(f, 1, IF limited THEN MaxReadBytes ELSE Len(f))
      valid   == {i \in Examined(data) : IsRecord(data, i)}
  IN [records     |-> EventsOf(data, valid),
      malformed   |-> Cardinality({i \in Examined(data) \ valid : Ended(data, i)}),
      interrupted |-> IF limited THEN 0 ELSE Cardinality({i \in Examined(data) : ~Ended(data, i)}),
      truncated   |-> limited]

ReadThread(f) ==
  LET limited == Len(f) > MaxReadBytes
      data    == SubSeq(f, 1, IF limited THEN MaxReadBytes ELSE Len(f))
      valid   == {i \in Examined(data) : IsRecord(data, i)}
  IN [records     |-> EventsOf(data, valid),
      malformed   |-> Cardinality({i \in Examined(data) \ valid : Ended(data, i)}),
      interrupted |-> IF limited THEN 0 ELSE Cardinality({i \in Examined(data) : ~Ended(data, i)}),
      truncated   |-> limited \/ Cardinality(Lines(data)) > MaxReadRecords]

----------------------------------------------------------------------------
(* append_event                                                            *)

(* An event is appended to a fragment.                                     *)
NoSeparator == <<>>

(* A last line without newline is left as a line of its own.               *)
Separator == IF Bytes(file) = <<>> \/ Bytes(file)[Len(file)] = NL THEN <<>> ELSE <<NL>>

Open ==
  /\ ~writer.busy /\ submitted < MaxEvents
  /\ submitted' = submitted + 1
  /\ file' = Bytes(file)
  /\ writer' = [busy |-> TRUE, event |-> submitted', size |-> Len(file'),
                rest |-> Separator \o Event(submitted')]
  /\ UNCHANGED <<old, stored>>

(* One os.write may take fewer bytes than it is given.                     *)
Write(n) ==
  /\ writer.busy /\ n <= Len(writer.rest)
  /\ file' = file \o SubSeq(writer.rest, 1, n)
  /\ old' = FALSE
  /\ writer' = [writer EXCEPT !.rest = SubSeq(@, n + 1, Len(@))]
  /\ UNCHANGED <<submitted, stored>>

Finish ==
  /\ writer.busy /\ writer.rest = <<>>
  /\ stored' = stored \cup {writer.event}
  /\ writer' = Idle
  /\ UNCHANGED <<file, old, submitted>>

(* The last newline goes with the undone write.                            *)
WriteFailsShort ==
  /\ writer.busy /\ writer.rest # <<>>
  /\ file' = SubSeq(file, 1, IF writer.size = 0 THEN 0 ELSE writer.size - 1)
  /\ old' = FALSE
  /\ writer' = Idle
  /\ UNCHANGED <<submitted, stored>>

(* A write fails or makes no progress; record_event only warns.            *)
WriteFails ==
  /\ writer.busy /\ writer.rest # <<>>
  /\ file' = SubSeq(file, 1, writer.size)
  /\ old' = FALSE
  /\ writer' = Idle
  /\ UNCHANGED <<submitted, stored>>

TruncationFails ==
  /\ writer.busy /\ writer.rest # <<>>
  /\ writer' = Idle
  /\ UNCHANGED <<file, old, submitted, stored>>

(* The process dies and another one takes the directory over.              *)
Crash ==
  /\ writer.busy
  /\ writer' = Idle
  /\ UNCHANGED <<file, old, submitted, stored>>

----------------------------------------------------------------------------
(* prune_transcripts                                                       *)

Prune ==
  /\ ~writer.busy /\ file # Absent /\ old
  /\ file' = Absent /\ old' = FALSE /\ stored' = {}
  /\ UNCHANGED <<writer, submitted>>

Age ==
  /\ file # Absent /\ ~old /\ ~writer.busy
  /\ old' = TRUE
  /\ UNCHANGED <<file, writer, submitted, stored>>

Next == \/ Open \/ (\E n \in 1..4 : Write(n)) \/ Finish
        \/ WriteFails \/ TruncationFails \/ Crash \/ Prune \/ Age

Spec == Init /\ [][Next]_vars

----------------------------------------------------------------------------
(* Properties.                                                             *)

(* All the records of a file, however long.                                *)
Records(f) == EventsOf(f, {i \in Lines(f) : IsRecord(f, i)})

(* What a reader can find once it has the lock.                            *)
Readable == IF writer.busy THEN Records(SubSeq(file, 1, writer.size)) ELSE Records(Bytes(file))

(* The file implements the audit log: fragments of crashes and failures    *)
(* are never read as events and never joined with the next one.            *)
Audit == INSTANCE AuditLog WITH log <- Readable
ImplementsAuditLog == Audit!Spec

(* An event whose append returned can be read until it is pruned.          *)
StoredIsReadable == \A e \in stored : \E i \in DOMAIN Readable : Readable[i] = e

(* A bounded read shows a prefix of the records, says so when that is not  *)
(* all, and otherwise accounts for every line of the file.                 *)
ReaderIsHonest ==
  ~writer.busy =>
    LET r == ReadThread(Bytes(file))
    IN /\ IsPrefix(r.records, Records(Bytes(file)))
       /\ ~r.truncated =>
            /\ r.records = Records(Bytes(file))
            /\ Len(r.records) + r.malformed + r.interrupted = Cardinality(Lines(Bytes(file)))
       /\ (r.malformed + r.interrupted = 0 /\ ~r.truncated) =>
            Len(Bytes(file)) = 3 * Len(r.records)
=============================================================================
