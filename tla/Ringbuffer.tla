----------------------------- MODULE Ringbuffer -----------------------------
(***************************************************************************)
(* Class ringbuffer_packer, which keeps the newest part of a log in        *)
(* memory.  A write that does not fit drops whole log entries from the     *)
(* front, using a queue of the offsets at which entries start.  The index  *)
(* and the runlength buffers drop nothing: the program aborts when one is  *)
(* full.  The run-length encoding is that of class packer (module          *)
(* RunLength), repeated in the code and here.                              *)
(*                                                                         *)
(* A call is two steps, as in binary_log::log: pack_format_string_index,   *)
(* and update_log_file with the values of its arguments.  The values are   *)
(* one write here, however many they are: making room for them one after   *)
(* the other drops the same entries as making room for all of them.        *)
(***************************************************************************)
EXTENDS Integers, Sequences

CONSTANTS
  NumFormats,           \* format strings of the program
  ArgBytes,             \* [Index -> SUBSET Nat]: bytes its calls' values take
  EntryBytes,           \* [Index -> Nat]: bytes of an index file entry
  IndexBytes,           \* sizeof(uint16_t)
  RecordBytes,          \* sizeof(uint16_t) + sizeof(uint64_t)
  LogBufferSize,        \* log_buffer_size
  IndexBufferSize,      \* index_buffer_size
  RunlengthBufferSize,  \* runlength_buffer_size
  MaxCalls              \* bound: calls of log in one behaviour

Index == 0 .. NumFormats - 1

ASSUME RingAssumption ==
  /\ NumFormats \in Nat \ {0}
  /\ ArgBytes \in [Index -> SUBSET Nat]
  /\ EntryBytes \in [Index -> Nat \ {0}]
  /\ IndexBytes \in Nat \ {0}
  /\ RecordBytes \in Nat \ {0}
  /\ LogBufferSize \in Nat
  /\ IndexBufferSize \in Nat
  /\ RunlengthBufferSize \in Nat
  /\ MaxCalls \in Nat

VARIABLES
  m_buffer,             \* the deque of bytes
  m_buffer_index,       \* bytes ever written to it
  log_buffer_indices,   \* where the entries in m_buffer start
  m_index_buffer_index, \* bytes of the index buffer in use
  sites,                \* call sites that have run
  m_runlength_index,    \* index of the current run
  m_current_runlength,  \* its calls not yet recorded
  records,              \* records in the runlength buffer
  state,                \* "idle", "logging" between the two steps of a call,
                        \* "closed", "aborted", or "undefined"
  stream,               \* history: every byte ever written
  calls,                \* history: the index of every call
  starts                \* history: where in stream each call's entry starts

ring == <<m_buffer, m_buffer_index, log_buffer_indices, stream>>
encoding == <<m_runlength_index, m_current_runlength, records>>
registry == <<m_index_buffer_index, sites>>
history == <<calls, starts>>
vars == <<ring, encoding, registry, history, state>>

Byte == [kind : {"index", "args"}, index : Index, call : Nat]

Bytes(kind, i, n, size) ==
  [k \in 1 .. size |-> [kind |-> kind, index |-> i, call |-> n]]

Init ==
  /\ m_buffer = <<>>
  /\ m_buffer_index = 0
  /\ log_buffer_indices = <<>>
  /\ m_index_buffer_index = 0
  /\ sites = 0
  /\ m_runlength_index = 0
  /\ m_current_runlength = 0
  /\ records = 0
  /\ state = "idle"
  /\ stream = <<>>
  /\ calls = <<>>
  /\ starts = <<>>

-----------------------------------------------------------------------------

\* The bytes that go when the first k of the entries starting at q are dropped.
Dropped(q, k) == q[k + 1] - q[1]

\* Slip: a write may fill the buffer to the last byte.
FitsExactly(q, k, size) ==
  Len(m_buffer) - Dropped(q, k) + size <= LogBufferSize

\* Is there room for size bytes after k rounds of the loop?
Fits(q, k, size) ==
  Len(m_buffer) - Dropped(q, k) + size < LogBufferSize

\* The loop stops as soon as there is room.
FirstFit(q, k, size) ==
  /\ Fits(q, k, size)
  /\ \A j \in 0 .. k - 1 : ~ Fits(q, j, size)

\* Slip: the bytes go, but the queue keeps its front.
MakeRoomKeepingQueue(q, bytes) ==
  \E k \in 0 .. Len(q) - 1 :
    /\ FirstFit(q, k, Len(bytes))
    /\ m_buffer' = SubSeq(m_buffer, Dropped(q, k) + 1, Len(m_buffer)) \o bytes
    /\ log_buffer_indices' = q

\* buffer_or_write, when it finds room.
MakeRoomAndWrite(q, bytes) ==
  \E k \in 0 .. Len(q) - 1 :
    /\ FirstFit(q, k, Len(bytes))
    /\ m_buffer' = SubSeq(m_buffer, Dropped(q, k) + 1, Len(m_buffer)) \o bytes
    /\ log_buffer_indices' = SubSeq(q, k + 1, Len(q))

\* buffer_or_write(input, size), where q is the queue of entry starts.  If no
\* entry is left to drop, it takes the front of an empty queue and removes a
\* number of bytes that nothing in the program determines.
BufferOrWrite(q, bytes, next) ==
  \/ /\ MakeRoomAndWrite(q, bytes)
     /\ m_buffer_index' = m_buffer_index + Len(bytes)
     /\ stream' = stream \o bytes
     /\ state' = next
  \/ /\ \A k \in 0 .. Len(q) - 1 : ~ Fits(q, k, Len(bytes))
     /\ state' = "undefined"
     /\ log_buffer_indices' = <<>>
     /\ UNCHANGED <<m_buffer, m_buffer_index, stream>>

-----------------------------------------------------------------------------

\* Slip: the offset of the byte after the entry's first.
PushedAfterFirstByte == Append(log_buffer_indices, m_buffer_index + 1)

\* log_buffer_indices.push(m_buffer_index)
Pushed == Append(log_buffer_indices, m_buffer_index)

\* Does this call write its index?
WritesIndex(i) ==
  IF m_runlength_index = 0 /\ i = 0
  THEN m_current_runlength = 0
  ELSE m_runlength_index # i

\* Slip: single calls are recorded too.
RepeatedFromOne == m_current_runlength >= 1

Repeated == m_current_runlength > 1

RecordFits == records * RecordBytes + RecordBytes < RunlengthBufferSize

\* write_current_runlength_to_runlength_file, when there is room.
WriteRecord ==
  /\ records' = IF Repeated THEN records + 1 ELSE records
  /\ m_current_runlength' = IF Repeated THEN 0 ELSE m_current_runlength

\* The entry of a site that runs for the first time, byte for byte.
EntryFits(i) == m_index_buffer_index + EntryBytes[i] < IndexBufferSize

Register(i) ==
  IF i = sites
  THEN sites' = sites + 1 /\ m_index_buffer_index' = m_index_buffer_index + EntryBytes[i]
  ELSE UNCHANGED registry

\* Sites are numbered in the order in which they first run.
Callable(i) == state = "idle" /\ i <= sites /\ Len(calls) < MaxCalls

\* log_index of a site that runs for the first time meets a full index buffer.
IndexBufferFull(i) == i = sites /\ ~ EntryFits(i)

\* A call that ends a run whose record is due meets a full runlength buffer.
RunlengthBufferFull(i) == m_runlength_index # i /\ Repeated /\ ~ RecordFits

Remember(i) ==
  /\ calls' = Append(calls, i)
  /\ starts' = Append(starts, m_buffer_index)

\* log_index if the site is new, and pack_format_string_index of a call that
\* starts a run.
StartRun(i) ==
  /\ Callable(i)
  /\ ~ IndexBufferFull(i)
  /\ ~ RunlengthBufferFull(i)
  /\ WritesIndex(i)
  /\ Register(i)
  /\ IF m_runlength_index # i
     THEN /\ records' = IF Repeated THEN records + 1 ELSE records
          /\ m_current_runlength' = 1
     ELSE /\ records' = records
          /\ m_current_runlength' = m_current_runlength + 1
  /\ m_runlength_index' = i
  /\ BufferOrWrite(Pushed, Bytes("index", i, Len(calls) + 1, IndexBytes), "logging")
  /\ Remember(i)

\* pack_format_string_index of a call that goes on with the current run.
ContinueRun(i) ==
  /\ Callable(i)
  /\ ~ WritesIndex(i)
  /\ log_buffer_indices' = Pushed
  /\ m_current_runlength' = m_current_runlength + 1
  /\ state' = "logging"
  /\ Remember(i)
  /\ UNCHANGED <<m_buffer, m_buffer_index, stream, m_runlength_index, records, registry>>

\* update_log_file, with the values of the call just packed.
UpdateLogFile ==
  /\ state = "logging"
  /\ \E size \in ArgBytes[m_runlength_index] :
       IF size = 0
       THEN state' = "idle" /\ UNCHANGED ring
       ELSE BufferOrWrite(log_buffer_indices,
                          Bytes("args", m_runlength_index, Len(calls), size), "idle")
  /\ UNCHANGED <<encoding, registry, history>>

\* The index or the runlength buffer is full: abort().
Abort(i) ==
  /\ Callable(i)
  /\ IndexBufferFull(i) \/ RunlengthBufferFull(i)
  /\ state' = "aborted"
  /\ UNCHANGED <<ring, encoding, registry, history>>

\* binary_log::flush, and ~binary_log with next = "closed".
Flush(next) ==
  /\ state = "idle"
  /\ IF Repeated /\ ~ RecordFits
     THEN state' = "aborted" /\ UNCHANGED encoding
     ELSE state' = next /\ WriteRecord /\ UNCHANGED m_runlength_index
  /\ UNCHANGED <<ring, registry, history>>

Terminated == state \in {"closed", "aborted", "undefined"} /\ UNCHANGED vars

Next ==
  \/ \E i \in Index : StartRun(i) \/ ContinueRun(i) \/ Abort(i)
  \/ UpdateLogFile
  \/ \E next \in {"idle", "closed"} : Flush(next)
  \/ Terminated

Spec == Init /\ [][Next]_vars

-----------------------------------------------------------------------------

Alive == state \in {"idle", "logging", "closed"}

TypeOK ==
  /\ m_buffer \in Seq(Byte)
  /\ m_buffer_index \in Nat
  /\ log_buffer_indices \in Seq(0 .. m_buffer_index)
  /\ m_index_buffer_index \in Nat
  /\ sites \in 0 .. NumFormats
  /\ m_runlength_index \in Index
  /\ m_current_runlength \in Nat
  /\ records \in Nat
  /\ state \in {"idle", "logging", "closed", "aborted", "undefined"}
  /\ stream \in Seq(Byte)
  /\ calls \in Seq(Index)
  /\ starts \in Seq(0 .. m_buffer_index)

\* How many entries have been dropped.
Gone == Len(starts) - Len(log_buffer_indices)

\* The buffer is the bytes of the newest entries, each of them whole, and of as
\* many as fit: it has no byte of a dropped entry, has lost none of a kept
\* one, and the newest dropped entry would not fit any more.
RingHoldsNewestEntries ==
  Alive /\ starts # <<>> =>
    /\ Gone \in 0 .. Len(starts) - 1
    /\ log_buffer_indices = SubSeq(starts, Gone + 1, Len(starts))
    /\ m_buffer = SubSeq(stream, starts[Gone + 1] + 1, Len(stream))
    /\ Len(m_buffer) < LogBufferSize
    /\ Gone > 0 => Len(stream) - starts[Gone] >= LogBufferSize

\* The queue of entries runs empty exactly on an entry that would not fit an
\* empty buffer.
EndOf(n) == IF n = Len(starts) THEN Len(stream) ELSE starts[n + 1]

OnlyOversizedEntriesOverflow ==
  /\ state = "undefined" =>
       \E size \in ArgBytes[calls[Len(calls)]] \cup {IndexBytes} :
         Len(stream) - starts[Len(starts)] + size >= LogBufferSize
  /\ state \in {"idle", "closed"} =>
       \A n \in 1 .. Len(starts) : EndOf(n) - starts[n] < LogBufferSize

\* The comments on log_buffer_indices ("discard bytes from the buffer up to
\* the start of the next log entry") and on binary_log::log ("<format-string-
\* index> <arg1> <arg2> ... <argN>"): what is left starts with an index.
BufferStartsWithIndex ==
  state = "idle" /\ m_buffer # <<>> => m_buffer[1].kind = "index"
=============================================================================
