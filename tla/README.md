# A TLA+ model of binary_log

binary_log is a header-only C++20 logger.  A call of the macro `BINARY_LOG`
stores the index of its format string and the raw bytes of its arguments; the
format strings go to a second file, the lengths of runs of equal calls to a
third, and a separate program, the unpacker, deflates the three files into
text.  A second packer keeps the newest part of the log in memory instead.

Nothing in it runs concurrently (src/README.md: "not thread safe").  What is
hard here is what long sequences of legal calls do to state that several
operations share (a run in progress, an index cached in a static, a queue of
offsets), what buffers do at their limits, what is left of a write when the
process dies inside it, and a decoder without framing that must recover what
the encoder left out.

## The system

| part | source | state | operations |
|---|---|---|---|
| file buffering of `packer` | detail/packer.hpp:48-87, 164-206 | three arrays with their fill counts, three FILEs | `buffer_or_write`, `buffer_or_write_index_file`, the flushes, the destructor |
| run-length encoder of `packer` | detail/packer.hpp:300-374 | `m_runlength_index`, `m_current_runlength` | `pack_format_string_index`, `update_log_file`, `write_current_runlength_to_runlength_file` |
| call sites | binary_log.hpp:45-72, 103-113 | a static index per call site, `m_format_string_index` per logger | `BINARY_LOG`, `log_index` |
| `ringbuffer_packer` | detail/ringbuffer_packer.hpp | a deque of bytes, a queue of entry offsets, two arrays, the encoder's state | the same interface; aborts instead of writing files |
| index file | detail/packer.hpp:376-452, tools/unpacker/index_file_parser.hpp | the file's bytes | `update_index_file`, `parse_entry` |
| log parser of the unpacker | tools/unpacker/log_file_parser.hpp, unpacker.cpp | two read positions | the constructors, `parse_and_print`, `parse_and_print_log_entry` |

How they interact: `BINARY_LOG` calls `log_index` once per call site, which
writes an entry of the index file through the packer, and `log` at every pass,
which goes through the encoder and then writes argument bytes.  The encoder
writes the log file and the runlength file, each through an array of its own.
The unpacker reads the index file first, then walks the log file and the
runlength file side by side; nothing but the order of the records ties one to
the other.

What is hard about each part, and what makes it correct:

* Buffering.  A write can be empty, fill the array exactly, or be several
  times as long; the process can die between two iterations of the loop; nobody
  looks at what `fwrite` returns.  The arrays must never be overrun, and the file
  must at every instant be a prefix of what was written and hold all of it after
  a flush; a write that fails must cost no more than itself.
* Three files.  Each is written when its own array is full, the runlength file
  also when the C library pleases, so that after a crash each can be ahead of the
  others.  What was flushed should still be readable.
* Encoder.  Index 0 doubles as "no run yet", the count is reset at two places,
  a flush can fall inside a run.  The two streams must describe the calls.
* Parser.  A record belongs to an entry if their indices agree and nothing
  else says so; one wrong length derails everything after it.  What is printed
  should be what was logged.
* Index file.  An entry is types, then constness and constants mixed, with
  lengths of 16 bits and a count of 8; nothing separates two entries.  The parser
  must find the start of each, and a value in the log file is found by the size
  of the types before it.
* Call sites.  The static is shared by all loggers and outlives them; the
  index has eight bits.  An entry should lead to its own format string.
* Ring.  Bytes are dropped by a queue of offsets kept beside them, and room is
  made by dropping whole entries until the new bytes fit.  What is left must be
  whole entries, the newest, and the unpacker should be able to read it.

PROJECT.json lists these hazards line by line with the property that covers
each.

## Modules

| module | models | extends or instantiates |
|---|---|---|
| AppendOnlyFile | abstract: a file that only grows, and keeps what was flushed | |
| BufferedFile | one file of `packer` with its array, its FILE, short writes and a crash | AppendOnlyFile |
| RunLength | the encoder, on streams of tokens | |
| LogFileParser | the unpacker's walk over the two streams | |
| RoundTrip | a program, its three files, its end or its crash, and the unpacker | RunLength, LogFileParser |
| IndexFile | the bytes of entries and values, written and read | |
| CallSites | statics, loggers and index files | |
| Ringbuffer | the in-memory packer | |
| RingUnpacked | the ring saved to files and deflated | Ringbuffer, LogFileParser |
| MCBufferedFile, MCCallSites, MCIndexFile, MCRingbuffer | values of constants for TLC | |
| SequenceInduction | lemmas: induction over numbers and sequences, what FlattenSeq makes of its parts, and what a file has ahead of a position | |
| BufferedFileProofs, RunLengthProofs, RoundTripProofs, IndexFileProofs, CallSitesProofs, RingbufferProofs, RingUnpackedProofs | theorems | the module they are about |

**BufferedFile** is written once for the three copies of the loop; constants
say how the copies differ (size of the array, the most one iteration copies,
whether the source pointer advances, whether `setvbuf` switched off the C
library's buffer).  `Call` is the entry of `buffer_or_write`, `Iterate` one
iteration of its loop, `Flush` and `Close` the flush functions and the
destructor.  `StdioDrain` (the C library writes some of its buffer) and `Crash`
(the process is killed) are the environment, and so is the choice of
`ShortWrite`: an `fwrite` to an unbuffered FILE may write fewer bytes than it is
given, and the code goes on as if it had written all.  `accepted`, `durable`,
`failures` and `lost` are history: every byte handed over, how many at the last
flush, how many short writes there were, and which bytes they did not write.
AppendOnlyFile promises order and durability until the first failure, and that
the file only grows after it.

**RunLength** works on streams of tokens: an index, or the values of one call,
which carry the number of the call so that a reader of the wrong bytes can be
told from one of the right bytes.  `Log`, `Flush` and `Close` are
`binary_log::log`, `binary_log::flush` and the two destructors.  The history
`runs` says where each run starts in the calls and in both streams (of a run that
goes on after a flush, the record is the first, the one that flush wrote);
`orphaned` says that a call was counted towards a run whose length had already
been written.

**LogFileParser** starts with `Open`, the two constructors of unpacker.cpp: an
index or log file without bytes cannot be mapped and the program throws
(`"failed"`).  `ParseIndex` reads an entry's index and takes its runlength, if
the next record has the same index; `PrintLine` is one round of the loop that
reads values and prints.  `Derail` is a step in which the code would take
values for an index, an index for values, a half-written token or record for a
whole one, or read past the end of a file or of the table.  The code cannot
tell, and what it prints from there on depends on the bytes; the model stops
there.

**RoundTrip** is a program with its logger, and the unpacker after it.
`Call` is one `BINARY_LOG`.  A flush is four steps in the order of
`packer::flush` (`FlushOrder`): the index file, the log file, the record of the
current run (`FlushRecord`), the runlength file (`FlushFile`); `stage` says how
many are done, and `durable` how much of each file they have secured.  The
destructor is the same four steps and ends in `"exited"`, with everything
`Written` on disk.  `Crash` kills the process after any step, and inside one: a
new format string may be registered whose call is not logged yet.  Each file
then has what was durable, and of the rest as much as the arrays and the C
library happened to have passed on (`Remains`): whole entries up to any point,
perhaps with a torn one behind them.  This is what AppendOnlyFile allows, for the
three files independently.  A torn record is taken by the parser if its index
is there and agrees; its count reads past the file.  `safe` is history: the
calls made before the last flush that ended, as long as none fell outside every
run.

**IndexFile** works on bytes.  A byte knows the field it belongs to and its place
in it, so that the model can tell a parser that reads the right bytes from one
that reads others (`"derailed"`).  `Call` is one pass through a site: in the
first, `log_index` writes the entry with its types, constness and constants; in
each, `log` writes index and values.  `ParseFormat`, `ParseType` and `ParseArg`
are the parts of `parse_entry`, `ParseIndex`, `ParseValue` and `PrintLine` those of
`parse_and_print_log_entry`.  The cut of a length to `uint16_t` and of the number of
arguments to `uint8_t` are `% LengthMod` and `% CountMod`.

**CallSites** keeps, for every logger, its counter, the format strings in its
index file and the entries of its log, and for every site the static.
`FirstCall` and `LaterCall` are the two ways through the macro.  A logger's
`uint8_t` is a number below `IndexMod`.

**Ringbuffer** has the deque, the queue of offsets and how full the two arrays
are; the runlength buffer is a count of records since nothing reads it here.  A
call is two steps as in `binary_log::log`: `StartRun` or `ContinueRun` for
`pack_format_string_index`, then `UpdateLogFile`.  The bytes of one call are
one write, since making room for several in turn drops the same entries as
making room for all.  Two outcomes end the program: `"aborted"`, and
`"undefined"` for the read of an empty queue.  `stream` and `starts` are history: all
bytes ever written, and where each call's entry starts in them.

**RingUnpacked** adds what examples/ringbuffer does: after a flush it saves the
three buffers to files (`Save`) and the unpacker deflates them.  It keeps the
records that Ringbuffer only counts.  Three histories say what they should lead
to: `begins`, the calls that were logged with their index; `due`, the records
of all calls that were counted together, in the ring or not; and `asked`, the call
or `flush()` that came last, against which an abort is held.

Definitions whose comment starts with "Slip" are plausible mistakes in the code
next to them (an off-by-one, a forgotten reset, a wrong offset).  No
specification uses them.  PROJECT.json pairs each property with a slip that
violates it when it takes the place of the correct definition.

## Runs

| run | configuration | result |
|---|---|---|
| BufferedLog | array of 3, writes of 0 to 7 bytes, 8 bytes in all, two byte values, one short write | passes |
| BufferedIndex | array of 3, at most 2 copied at a time, writes of 1 to 6, 7 bytes in all, two short writes | passes |
| BufferedRunlength | records of 3 in an array of 7, buffered FILE | passes |
| SmallRunlengthBuffer | records of 3 in an array of 2 | StreamIntact violated |
| RoundTrip | three formats, one without values, 8 calls, flushes anywhere, killed anywhere up to the 5th call | passes |
| AmbiguousRunlength | two formats, 5 calls, no flush | DeflatesToTheCalls violated |
| FlushedRun | two formats, 5 calls, flushes | ZeroRunlengthWritesIndex violated |
| IndexFile | eight sites, 3 calls, lengths below 3 and fewer than 13 arguments representable | passes |
| CallSites | two loggers, four sites, an index of three values, 5 entries per log | passes |
| SharedSite | two loggers, two sites, an index of 256 values | IndexIsOfTheFormatString violated |
| Ringbuffer | ring of 8 bytes, four formats, 9 calls, saved and deflated at any flush | passes |
| RingLostIndex | ring of 8 bytes, one format, 7 calls | BufferStartsWithIndex violated |

What they show, property by property:

* `BufferInBounds`, `StreamIntact`: no memcpy passes the end of the array, and
  until a write fails file, FILE, array and the rest of the current write are
  together the bytes handed over.  `ImplementsAppendOnlyFile`: the buffering is
  invisible from outside, crashes included.  `WritesReturn`: each write ends.
  `ShortWritesLoseAtMostTheArray`: a short write costs the bytes it did not
  write, at most an array's worth; the file goes on behind the gap with all
  other bytes, once and in order.
* `StreamsDescribeCalls`: the runs cut the calls into consecutive pieces, the
  log is those runs, the records are their lengths.
  `RoundTripExactlyWhenDecodable`: of a program that ran to its end, deflating
  prints the calls if and only if no run went on after a flush and no single call
  takes the record of a later run of its format.  `PrintsCallsInOrder`: after a
  crash too, if the three files end with the same run of such a program the
  parser never loses its place, is right at every step, and prints all of that
  run.  `IntactLogIsUnpackedToItsEnd`: on such files it does come to the end of
  the log file, also if the runlength file is empty.
* `FlushedCallsSurvive`: whatever part of the rest reached each file, the calls
  made before the last flush are printed first.  Two things void this, and the
  property names them: an index file that ends inside an entry (the
  unpacker reads all of it before it prints), and a record, whole or torn, that
  an earlier single call takes.  `DurableLogHasItsFormats`: `flush()` secures the
  index file before the log file, so between the two no durable call is
  without its format string.
* `IndexParsedExactlyWhenRepresentable`: the table the unpacker builds is what was
  registered if and only if no site has more arguments than a `uint8_t` counts
  and no constant `std::string` or `std::string_view` is longer than a `uint16_t`
  counts.  How much is lost otherwise depends on the site: a multiple of 256
  arguments spoils only its own entry, which then says it has none (the values its
  calls write to the log file are misread later); another number of too many, or a
  constant that is too long, can make the parser lose its place in the index file.
  `NothingMisread`: if every entry is right no value's bytes are taken for another's.
  `PrintsCallsInFullExactlyWhenFaithful`: the lines are the calls as they were made
  exactly when also no text was cut and no constant changed after the first pass
  of its site.
* `ResolvesExactlyWhenAddressable`: an entry leads to its format string exactly
  if its own logger was the first through the site, among the first 256 it
  registered.  `IndicesInOrderOfFirstUse`: for a logger with only its own
  sites, what the encoder relies on.
* `RingHoldsNewestEntries`: the ring is whole entries, the newest, and the
  newest one dropped would not fit.  `OnlyOversizedEntriesOverflow`: the queue
  is read when empty only for an entry at least as large as the ring, and every
  entry completed is smaller.  `AbortsExactlyWhenFull`: a call or a `flush()`
  aborts the program if and only if it needs room for a new site's entry in the
  index buffer, or for the record of the calls counted together until then behind
  those of all repeated runs before, and there is none.
  `RingDeflatesExactlyWhenLengthsAgree`: a saved ring prints the calls it holds
  exactly if the oldest of them carries its index and every run, taking records
  in order from those of all runs ever, finds its own length.  A program of equal
  rounds, like the example, can be lucky: the records of the rounds that are gone
  say the same as those of the rounds that are left.

Why the bounds are enough.  The buffering loop compares three numbers: how full
the array is, how much is left, and its size.  With an array of 3 and writes of
up to 7 all their orders occur, an exact fit and two whole arrays in one write
among them; two byte values tell a byte from its neighbour.  The encoder
compares an index with one other and with 0, so three formats have every case;
five calls are the shortest ambiguous program, and eight leave room for two
runs of three formats with flushes inside.  A crash adds the choice of how much
of three files is left, which is why it is bounded by five calls: enough for
two flushes with calls after each, for each file to be ahead of or behind the
other two by an entry, and for a late record to meet an early call.  A short write
is met in every state of the array, one in the log file's loop and two, the second
behind the gap of the first, in the index file's.  The eight sites of IndexFile
have an argument of every type, constant and not; strings that are empty, fit,
and exceed `LengthMod` by a little and by a lot; and 12, 13 and 14 arguments
against a `CountMod` of 13, so that an entry says none, or one, where there are
more.  Three calls are one of a site that upsets the parser, one of a site
behind it in the index file, and a second pass of the first.  Four sites and an index of three
values make the counter wrap.  In the ring the entries are 0 to 8 bytes long,
so that none, one or several go to make room for the next and one is too large;
nine calls fill the runlength buffer, four formats the index buffer.  Saving may
happen after any flush, so the ring is deflated with every mix of kept and
dropped runs that nine calls give.  All of these properties but the
two of liveness are also proved without the bounds, see below.

Fairness is assumed in two places.  `WF_vars(Iterate)` in BufferedFile: a
sequential program that has entered a loop keeps executing it.  It is weak
fairness of the loop alone, nothing obliges the program to log, flush or end,
and a crash disables it.  `WF_vars(Unpacking)` in RoundTrip: an unpacker that
was started is left to run.  Nothing is promised of a log that makes the parser
lose its place, nor of an empty one, which it refuses with an exception: the end
that IntactLogIsUnpackedToItsEnd asks for is the return of `parse_and_print`.
IndexFile and RingUnpacked state no fairness, having only safety properties.  Deadlock is checked everywhere but in the two runs
of CallSites, where a program may stop calling at any time; in the others the
end of a program is an explicit stuttering step.

## Where the code and its comments disagree

1. packer.hpp:321: the loop that writes a runlength record does not advance its
   source.  With a `runlength_buffer_size` below the ten bytes of a record, its
   head is written twice and its tail never (SmallRunlengthBuffer).  The default of
   32 hides it; any array longer than a record is proved correct.
2. packer.hpp:302 and log_file_parser.hpp:104: a run of one leaves no record, so
   in A, B, A, A, A the first A takes the record of the last run
   (AmbiguousRunlength).
3. packer.hpp:355: the comment says that a call with the current index and a
   count of 0 writes its index; the code does it for index 0 only, so a run that
   goes on after `flush()` is lost to the unpacker (FlushedRun).
4. binary_log.hpp:107: a second logger that passes a call site uses the first
   one's index and never registers the format string (SharedSite).
5. ringbuffer_packer.hpp:59: dropping the entry that starts a run drops the only
   index of the run, although what remains should start at an entry, and an
   entry with an index (RingLostIndex).

Four more came up in the modelling and have no run of their own:

* binary_log.hpp:54-55: by the comment the arguments that are not lvalues are saved in
  the index file; by the code those wrapped in `constant` are, and no others.
* index_file_parser.hpp:54: the format string's length is "assumed to be 1 byte";
  two are written and read.
* test_packer.cpp:38-56 and the file sizes and hexdump of README.md:161-182 show
  narrower fields than the code has: a format string's length, a string constant's
  length and an index in the log file are one byte there, a record six bytes.  The
  code writes two bytes for each of the first three (packer.hpp:446, :402, :348)
  and ten for a record (packer.hpp:303).  The models take the widths of the code;
  no property depends on the stale ones.
* README.md:146: a constant "does not change between calls".  Nothing sees to it; the
  unpacker prints the value of the site's first pass
  (`PrintsCallsInFullExactlyWhenFaithful`).

## Proofs

All theorems hold for every value of the constants that the named assumptions
allow (`SizesAssumption`, `InputsAssumption` and `ModeAssumption`,
`FormatsAssumption`, `KilledAssumption`, `CodecAssumption`,
`IdentityAssumption`, `SitesAssumption`, `RingAssumption`, `ValuesAssumption`;
TLC evaluates each of them).

* **BufferedFileProofs**: `TypeCorrect`, `ArrayNeverOverrun` (BufferInBounds),
  `NoByteLost` (StreamIntact), `Refinement` (ImplementsAppendOnlyFile: the
  initial state and every step map to those of AppendOnlyFile), `LossBounded` (no
  short write costs more than the array) and `ShortWritesBounded`
  (ShortWritesLoseAtMostTheArray, to which `OutputGapped` adds that what has left
  the array is what was accepted without the bytes in `lost`, in order).  They
  need one more fact, that the loop reads the source where it should: either it
  advances its pointer, or no input is longer than one iteration copies.  It is
  the hypothesis `SourceIsFollowed` of the theorems, which the default sizes of
  all three files satisfy, and SmallRunlengthBuffer is what happens without it.
  StreamIntact is not inductive by itself; the invariant adds that an unbuffered
  FILE is empty, that the write in progress is one of the inputs, that a
  loop which does not advance its source is still in its first iteration, and that
  array and rest of the write are no longer than what was accepted, which a short
  write needs to count what it lost.
* **SequenceInduction**: the induction rules of the library take the property as
  an operator, which the provers cannot instantiate.  `NatSetInduction` and
  `SeqSetInduction` take it as the set of numbers, or of sequences, that have it,
  and follow from the library's well-founded order.  On them rest the facts about
  FlattenSeq, which BufferedFileProofs uses for bytes with gaps and
  IndexFileProofs for files made of fields.
* **RunLengthProofs**: `StreamsAreFaithful` (StreamsDescribeCalls, under
  EncoderSpec), `EncoderTypeCorrect` and `OrphansComeFromFlush`.  The invariant
  ties the encoder's two variables to the last element of `runs`
  (`CurrentRun`): m_runlength_index is its index, and m_current_runlength its
  count until its record is written, 0 from then on.
* **RoundTripProofs**: `TypeCorrect` (TypeOK), `StreamsFaithful`
  (StreamsDescribeCalls), `DurableLogAddressed` (DurableLogHasItsFormats),
  `DeflatesInOrder` (PrintsCallsInOrder), `RoundTripExact`
  (RoundTripExactlyWhenDecodable; the direction one relies on is `DecodableRoundTrip`)
  and `FlushedAreKept` (FlushedCallsSurvive).
  Every step of RoundTrip is one of the encoder or leaves it alone, so
  RunLengthProofs' invariant holds here.  On it rest `FilesInv` (between two files of
  a flush, the format strings in use are the first of the index file, and
  what is durable of the log uses durable ones) and `DiskInv` (each file on disk is the
  beginning of what was written with at least what is durable, only its last entry
  torn, and all of it after an exit).  The rest is about the parser on a log file
  that begins with given runs: it stands `Past` a run or `Inside` one, has printed the
  calls up to there and consumed the records of the runs it has begun (`Track`).  A
  step keeps this if the run is `OnDisk` and `Fits`, that is, the record that
  comes next is taken exactly if it is the run's own.
  For DeflatesInOrder the runs are those up to the one with which the files
  end, and decodability makes all of them fit.
  For the other direction, a program that is not decodable leaves a `Snapshot`: all
  its runs if a record is ambiguous, those before the first orphaned call if
  there is one (`OrphanKept`).  Either a run does not fit, so that it takes a later
  record, prints more lines than it has calls and, as neighbouring runs differ
  (`Adjacent`), one under another format; or it is `Unheard`, that the calls go on where
  the log file does not.  The parser is then still `Along` the runs or `Doomed`, and
  once doomed it stays so: what is printed is never taken back.
  For FlushedCallsSurvive the runs are those of the last completed flush
  (`Flushed`), which later steps extend, but for the length of the last of them,
  which may be recorded afterwards.  If they are not ambiguous with what came later
  each of them fits, that last one perhaps with the longer length it got
  (`Readable`), and the parser is `OnTheWay` through them until their calls are printed (`Kept`).
* **IndexFileProofs**: `TypeCorrect` (TypeOK), `IndexExact`
  (IndexParsedExactlyWhenRepresentable), `NeverMisread` (NothingMisread) and
  `FullyPrinted` (PrintsCallsInFullExactlyWhenFaithful), for any sites, widths and
  number of calls.  `CodecAssumption` says that sites have the types the templates are
  written for and passes a value for each argument.  `IdentityAssumption` says that
  values in the model are equal if their bytes are: of a string its length and
  content, of a number its content.  Only the converse direction of FullyPrinted
  needs it, because two empty texts with different names would be printed alike.
  `ProgramInv` says that the index file is the concatenation of `Entries`, one per
  site in the order of `sites`, and the log file that of `LogEntries`, one per
  call.  An entry is itself a concatenation of fields, some of them one per argument.
  Where a parser is in step, what is `Ahead` of it is the `Rest` of such parts from
  some number on, and one lemma per kind of field says that it is held
  there, read as it was written, and what is ahead behind it (`AheadField`, `AheadString`,
  `AheadValue`, `AheadConst`).  `IndexTrack` states this for each state of
  index_file_parser.  An entry that is not representable may end it: with more types
  behind those counted, or bytes behind those a length counts, the parser is
  `Stuck`, in front of a byte that cannot begin what it looks for, and has not reached the
  end of the file.  `LogTrack` does the same for log_file_parser.  There an entry
  may also say that a call has no arguments (256 of them count as none, and
  then nothing of them is written to the index file); the parser prints a line
  without them and is `Off`, in front of their values where an index should be.  That
  the values of a call never begin like a call takes an induction over them
  (`InnerValues`).
* **CallSitesProofs**: `TypeCorrect`, `EntriesResolve`
  (ResolvesExactlyWhenAddressable) and `IndicesComeInOrder`.  The invariant says
  that the first IndexMod format strings of a logger are numbered in order and
  their statics hold these numbers (`Numbered`), that an entry carries the
  static of its site (`Tagged`), and that a registered format string has an
  entry (`Entered`).
* **RingbufferProofs**: `TypeCorrect`, `KeepsNewestEntries`
  (RingHoldsNewestEntries) and `OnlyOversizedOverflow`
  (OnlyOversizedEntriesOverflow).  Lemmas on what is left of a
  sequence after its first elements (`AfterAfter`, `AfterConcat`) carry the loop of
  `buffer_or_write` (`WritePositions`): dropping k entries from the queue and the
  bytes between two offsets from the deque leaves both at the same entry.  The
  invariant adds that the offsets ascend, that complete entries are smaller than
  the ring, and that the call in progress belongs to the current run.
* **RingUnpackedProofs**: `SavedRingIsARing`: saving and unpacking leave the ring
  as it was, RingSpec implies Spec; so `SavedRingHoldsNewest` carries the
  ring's property over.  `AbortsExact` (AbortsExactlyWhenFull) rests on
  `ProgramInvariant`, `RingDeflatesExact` (RingDeflatesExactlyWhenLengthsAgree) on
  that and on `Deflating`.
  `ProgramInvariant`: the calls fall into runs of one format and neighbouring runs
  differ unless they are of format 0 (`RunsAreFound`); the records, with the one
  that is being counted, are those due (`RecordsAreDue`); the stream from any call
  on is its index, if it wrote one, its values, and the entries of the calls
  behind it (`EntriesWritten`), and no byte from there on is of an earlier call
  (`Stamped`).  The bytes of two calls, or the index and the values of one, being
  different, `TokensOf` takes the buffer apart where the entries meet
  (`TokensOfConcat`), so a saved ring is the tokens of the calls it kept
  (`EntryTokens`, `SavedLog`).  For the aborts `AbortInv` adds that every record
  written found room: then the buffer has no room for the record of the calls being
  counted exactly if it has none for all that are due.  `Deflating` says where the unpacker is.  It is on
  track (`OnTrack`) as long as the oldest call had its index and every run so far
  took its own length, and then stands behind the entry of the call it printed
  last.  Otherwise it has strayed (`Strayed`): the lines are still those of the
  calls, but as many as are left are not as many as the run has.  From there
  it meets values where an index should be or an index where values should be, or
  prints too few lines, or, for a format without values, is about to print
  (`Astray`) or has printed (`Wrong`) a line in the place of a call of another
  format.  That neighbouring runs without values differ (`FormatsDiffer`) is what
  makes the property an equivalence, and why it excludes a format 0 without
  values: after a flush() two runs of it can follow each other.

Only model-checked: the liveness properties (WritesReturn,
IntactLogIsUnpackedToItsEnd), which need ENABLED.

## Not modelled

* A failed write of a FILE the C library buffers (the runlength file): the C standard
  does not say what is left of its buffer.  RoundTrip assumes no failed write at
  all, as the files would have gaps that nothing but BufferedFile describes.
* `fopen` failing: the constructor throws before there is a logger.
* That the macro evaluates its arguments twice in the first pass of a site: what
  an evaluation does is the caller's.
* The text of a line: `update_store` hands a value to fmt by its type, and the
  models stop at the bytes of the value.
* The unpacker's command line and the names of files; the template machinery of
  args.hpp, concepts.hpp and is_specialization.hpp, which only selects a type.
* The generated single_include header and the vendored libraries (fmt, mio,
  argparse, doctest), which are nine tenths of the lines under src/; tests,
  benchmark and scripts.  Of include/ and of the unpacker's own three files
  nearly every line of code is modelled.
