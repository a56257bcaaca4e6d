--------------------------------- MODULE Log ---------------------------------
(***************************************************************************)
(* src/log/bc_runtime_log.c: threads log straight to stderr, workers log   *)
(* into buffers of their own, and the thread that joined the workers       *)
(* drains the buffers to stderr, one after the other.  All of them share   *)
(* stderr, the application's level and its count of messages written.      *)
(*                                                                         *)
(* A message is who logged it, its number and its level; a record in a     *)
(* buffer also has its place and its size there.  Timestamps and prefixes  *)
(* are left out.  A write to stderr may fail and may then have put out     *)
(* none, some or all of what it was given, in order.                       *)
(*                                                                         *)
(* A buffer has one user at a time: its worker, or a drain (nothing in the *)
(* code keeps the two apart; the callers join their workers first).        *)
(*                                                                         *)
(* Two bounds: Messages numbered per source, MaxDrains drains.             *)
(*                                                                         *)
(* A definition marked "slip" is a wrong form of the one after it, with    *)
(* which the properties below are tested; no specification uses it.        *)
(***************************************************************************)
EXTENDS Naturals, Sequences, FiniteSets

CONSTANTS
  Threads,    \* callers of bc_runtime_log
  Buffers,    \* log buffers
  Levels,     \* bc_runtime_log_level_t, the most urgent is the smallest
  Sizes,      \* lengths of a formatted record
  Capacity,   \* bytes in a buffer
  Messages,
  MaxDrains

ASSUME LogAssumption ==
  /\ IsFiniteSet(Threads) /\ IsFiniteSet(Buffers)
  /\ Threads \cap Buffers = {}
  /\ Levels \subseteq Nat
  /\ Sizes \subseteq Nat \ {0}
  /\ Capacity \in Nat /\ Messages \in Nat /\ MaxDrains \in Nat

Sources == Threads \cup Buffers

VARIABLES
  log_level,             \* application->log_level
  log_messages_written,  \* application->log_messages_written
  stderr,                \* the messages that reached it
  issued,                \* the number of each source's last message
  highest,               \* history: the highest level the application had
  pc,                    \* where each thread is in bc_runtime_log
  message,               \* the message it logs
  status,                \* "absent", "live" or "destroyed"
  data,                  \* the records in each buffer
  write_position,
  entry_count,
  overflow_count,
  buffer_level,          \* buffer->log_level
  announced,             \* history: losses told by a warning that was written
  stored,                \* history: messages put in the buffer
  overflowed,            \* history: messages that did not fit
  drain_pc,              \* "idle", "warn", "dump", "count" or "reset"
  buffers,               \* the argument of bc_runtime_log_drain
  buffer_index,          \* counted from one
  all_succeeded,
  drain_failed,          \* history: buffers of a drain that returned false
  drains                 \* drains begun

sharedVars == <<log_level, log_messages_written, stderr, highest>>
threadVars == <<pc, message>>
entryVars  == <<data, write_position, entry_count, overflow_count>>
bufferVars == <<status, entryVars, buffer_level, announced, stored, overflowed>>
drainVars  == <<drain_pc, buffers, buffer_index, all_succeeded, drain_failed, drains>>
vars       == <<sharedVars, issued, threadVars, bufferVars, drainVars>>

Message(s, level) == [from |-> s, number |-> issued[s] + 1, level |-> level]

Init ==
  /\ log_level \in Levels /\ highest = log_level
  /\ log_messages_written = 0
  /\ stderr = <<>>
  /\ issued = [s \in Sources |-> 0]
  /\ pc = [t \in Threads |-> "idle"]
  /\ message = [t \in Threads |-> <<>>]
  /\ status = [b \in Buffers |-> "absent"]
  /\ data = [b \in Buffers |-> <<>>]
  /\ write_position = [b \in Buffers |-> 0]
  /\ entry_count = [b \in Buffers |-> 0]
  /\ overflow_count = [b \in Buffers |-> 0]
  /\ buffer_level = [b \in Buffers |-> log_level]
  /\ announced = [b \in Buffers |-> 0]
  /\ stored = [b \in Buffers |-> {}]
  /\ overflowed = [b \in Buffers |-> 0]
  /\ drain_pc = "idle"
  /\ buffers = <<>>
  /\ buffer_index = 1
  /\ all_succeeded = TRUE
  /\ drain_failed = {}
  /\ drains = 0

-----------------------------------------------------------------------------
(* bc_runtime_log_set_level, by any thread.                                 *)

SetLevel(level) ==
  /\ log_level' = level
  /\ highest' = IF level > highest THEN level ELSE highest
  /\ UNCHANGED <<log_messages_written, stderr, issued, threadVars, bufferVars, drainVars>>

-----------------------------------------------------------------------------
(* bc_runtime_log: read the level, write the record, count it.  A message   *)
(* above the level, or one that cannot be formatted, returns at once and    *)
(* changes nothing.                                                         *)

EnabledAbove(level, threshold) == level >= threshold   \* slip: comparison swapped
Enabled(level, threshold) == level <= threshold

Log(t, level) ==
  /\ pc[t] = "idle"
  /\ issued[t] < Messages
  /\ Enabled(level, log_level)
  /\ message' = [message EXCEPT ![t] = Message(t, level)]
  /\ issued' = [issued EXCEPT ![t] = @ + 1]
  /\ pc' = [pc EXCEPT ![t] = "write"]
  /\ UNCHANGED <<sharedVars, bufferVars, drainVars>>

AfterWriteCounts(ok) == "count"                        \* slip: counts a failed write
\* After a write, and after one that failed.
AfterWrite(ok) == IF ok THEN "count" ELSE "idle"

WriteRecord(t) ==
  /\ pc[t] = "write"
  /\ \/ /\ stderr' = Append(stderr, message[t])
        /\ \E ok \in BOOLEAN : pc' = [pc EXCEPT ![t] = AfterWrite(ok)]
     \/ /\ UNCHANGED stderr
        /\ pc' = [pc EXCEPT ![t] = AfterWrite(FALSE)]
  /\ UNCHANGED <<log_level, log_messages_written, highest, issued, message, bufferVars, drainVars>>

CountMessage(t) ==
  /\ pc[t] = "count"
  /\ log_messages_written' = log_messages_written + 1
  /\ pc' = [pc EXCEPT ![t] = "idle"]
  /\ UNCHANGED <<log_level, stderr, highest, issued, message, bufferVars, drainVars>>

-----------------------------------------------------------------------------
(* Buffers.                                                                 *)

Draining(b) == drain_pc # "idle" /\ \E i \in 1 .. Len(buffers) : buffers[i] = b

\* A worker may use its buffer.
Usable(b) == status[b] = "live" /\ ~Draining(b)

LevelUnset == log_level + 1                            \* slip: not the application's level
LevelOfNew == log_level

BufferCreate(b) ==
  /\ status[b] = "absent"
  /\ status' = [status EXCEPT ![b] = "live"]
  /\ buffer_level' = [buffer_level EXCEPT ![b] = LevelOfNew]
  /\ UNCHANGED <<sharedVars, issued, threadVars, entryVars, announced, stored, overflowed, drainVars>>

\* What is still in the buffer is freed with it.
BufferDestroy(b) ==
  /\ Usable(b)
  /\ status' = [status EXCEPT ![b] = "destroyed"]
  /\ UNCHANGED <<sharedVars, issued, threadVars, entryVars, buffer_level, announced, stored, overflowed, drainVars>>

FitsAtStart(b, size) == write_position[b] <= Capacity  \* slip: length not added
Fits(b, size) == write_position[b] + size <= Capacity

NextPosition(b, size) == write_position[b] + size

LogToBuffer(b, level, size) ==
  /\ Usable(b)
  /\ issued[b] < Messages
  /\ Enabled(level, buffer_level[b])
  /\ issued' = [issued EXCEPT ![b] = @ + 1]
  /\ \/ /\ ~Fits(b, size)
        /\ overflow_count' = [overflow_count EXCEPT ![b] = @ + 1]
        /\ overflowed' = [overflowed EXCEPT ![b] = @ + 1]
        /\ UNCHANGED <<data, write_position, entry_count, stored>>
     \/ /\ Fits(b, size)
        /\ data' = [data EXCEPT ![b] =
             Append(@, [message |-> Message(b, level), at |-> write_position[b], size |-> size])]
        /\ write_position' = [write_position EXCEPT ![b] = NextPosition(b, size)]
        /\ entry_count' = [entry_count EXCEPT ![b] = @ + 1]
        /\ stored' = [stored EXCEPT ![b] = @ \cup {Message(b, level)}]
        /\ UNCHANGED <<overflow_count, overflowed>>
  /\ UNCHANGED <<sharedVars, threadVars, status, buffer_level, announced, drainVars>>

-----------------------------------------------------------------------------
(* bc_runtime_log_drain.  Its locals are forgotten when it returns.         *)

Distinct(s) == \A i, j \in 1 .. Len(s) : s[i] = s[j] => i = j
\* The arrays of buffers a drain may be given, each buffer once.
Arrays == UNION { { s \in [1 .. n -> Buffers] : Distinct(s) } : n \in 1 .. Cardinality(Buffers) }

Current == buffers[buffer_index]

DrainBegin ==
  /\ drain_pc = "idle"
  /\ drains < MaxDrains
  /\ drains' = drains + 1
  /\ \E s \in Arrays :
       /\ \A i \in 1 .. Len(s) : status[s[i]] = "live"
       /\ buffers' = s
  /\ buffer_index' = 1
  /\ all_succeeded' = TRUE
  /\ drain_pc' = "warn"
  /\ UNCHANGED <<sharedVars, issued, threadVars, bufferVars, drain_failed>>

ResultOfLast(ok) == ok                                 \* slip: a later success hides a failure
Result(ok) == all_succeeded /\ ok

Warn ==
  /\ drain_pc = "warn"
  /\ \/ /\ overflow_count[Current] = 0
        /\ UNCHANGED <<announced, all_succeeded>>
     \/ /\ overflow_count[Current] > 0
        /\ announced' = [announced EXCEPT ![Current] = @ + overflow_count[Current]]
        /\ all_succeeded' = Result(TRUE)
     \/ /\ overflow_count[Current] > 0
        /\ all_succeeded' = Result(FALSE)
        /\ UNCHANGED announced
  /\ drain_pc' = "dump"
  /\ UNCHANGED <<sharedVars, issued, threadVars, status, entryVars, buffer_level, stored, overflowed,
                 buffers, buffer_index, drain_failed, drains>>

\* The first n messages of a buffer.
FirstMessages(b, n) == [i \in 1 .. n |-> data[b][i].message]

Dump ==
  /\ drain_pc = "dump"
  /\ \/ /\ write_position[Current] = 0
        /\ drain_pc' = "reset"
        /\ UNCHANGED <<stderr, all_succeeded>>
     \/ /\ write_position[Current] > 0
        /\ stderr' = stderr \o FirstMessages(Current, Len(data[Current]))
        /\ all_succeeded' = Result(TRUE)
        /\ drain_pc' = "count"
     \/ /\ write_position[Current] > 0
        /\ \E n \in 0 .. Len(data[Current]) : stderr' = stderr \o FirstMessages(Current, n)
        /\ all_succeeded' = Result(FALSE)
        /\ drain_pc' = "count"
  /\ UNCHANGED <<log_level, log_messages_written, highest, issued, threadVars, bufferVars,
                 buffers, buffer_index, drain_failed, drains>>

\* The drain counts what it dumped, whether or not the write succeeded.
CountDrained ==
  /\ drain_pc = "count"
  /\ log_messages_written' = log_messages_written + entry_count[Current]
  /\ drain_pc' = "reset"
  /\ UNCHANGED <<log_level, stderr, highest, issued, threadVars, bufferVars,
                 buffers, buffer_index, all_succeeded, drain_failed, drains>>

NotEmptied(f, empty) == f                              \* slip: no reset
Emptied(f, empty) == [f EXCEPT ![Current] = empty]

Reset ==
  /\ drain_pc = "reset"
  /\ data' = Emptied(data, <<>>)
  /\ write_position' = Emptied(write_position, 0)
  /\ entry_count' = Emptied(entry_count, 0)
  /\ overflow_count' = Emptied(overflow_count, 0)
  /\ IF buffer_index < Len(buffers)
       THEN /\ buffer_index' = buffer_index + 1
            /\ drain_pc' = "warn"
            /\ UNCHANGED <<buffers, all_succeeded, drain_failed>>
       ELSE /\ drain_pc' = "idle"
            /\ drain_failed' = IF all_succeeded THEN drain_failed
                               ELSE drain_failed \cup { buffers[i] : i \in 1 .. Len(buffers) }
            /\ buffers' = <<>> /\ buffer_index' = 1 /\ all_succeeded' = TRUE
  /\ UNCHANGED <<sharedVars, issued, threadVars, status, buffer_level, announced, stored, overflowed, drains>>

Drain == Warn \/ Dump \/ CountDrained \/ Reset

-----------------------------------------------------------------------------
Next ==
  \/ \E level \in Levels : SetLevel(level)
  \/ \E t \in Threads : (\E level \in Levels : Log(t, level)) \/ WriteRecord(t) \/ CountMessage(t)
  \/ \E b \in Buffers : BufferCreate(b) \/ BufferDestroy(b)
  \/ \E b \in Buffers, level \in Levels, size \in Sizes : LogToBuffer(b, level, size)
  \/ DrainBegin
  \/ Drain

Spec == Init /\ [][Next]_vars

-----------------------------------------------------------------------------
MessageType == [from : Sources, number : Nat, level : Levels]
RecordType  == [message : MessageType, at : Nat, size : Sizes]

(* Every variable stays in its type.                                        *)
TypeOK ==
  /\ log_level \in Levels /\ highest \in Levels
  /\ log_messages_written \in Nat
  /\ stderr \in Seq(MessageType)
  /\ issued \in [Sources -> Nat]
  /\ pc \in [Threads -> {"idle", "write", "count"}]
  /\ message \in [Threads -> MessageType \cup {<<>>}]
  /\ status \in [Buffers -> {"absent", "live", "destroyed"}]
  /\ data \in [Buffers -> Seq(RecordType)]
  /\ write_position \in [Buffers -> Nat]
  /\ entry_count \in [Buffers -> Nat]
  /\ overflow_count \in [Buffers -> Nat]
  /\ buffer_level \in [Buffers -> Levels]
  /\ announced \in [Buffers -> Nat]
  /\ stored \in [Buffers -> SUBSET MessageType]
  /\ overflowed \in [Buffers -> Nat]
  /\ drain_pc \in {"idle", "warn", "dump", "count", "reset"}
  /\ buffers \in Seq(Buffers)
  /\ buffer_index \in Nat \ {0}
  /\ all_succeeded \in BOOLEAN
  /\ drain_failed \subseteq Buffers
  /\ drains \in Nat

RecordsAdjoin(records) ==
  \A i \in 1 .. Len(records) :
    records[i].at = IF i = 1 THEN 0 ELSE records[i - 1].at + records[i - 1].size

RecordsEnd(records) ==
  IF records = <<>> THEN 0 ELSE records[Len(records)].at + records[Len(records)].size

(* The bytes a drain will write are exactly the records it will count, each *)
(* where the one before it ends and none beyond the buffer: also after a    *)
(* drain that failed and after messages that did not fit.                   *)
BufferHoldsItsRecords ==
  \A b \in Buffers :
    /\ RecordsAdjoin(data[b])
    /\ write_position[b] = RecordsEnd(data[b])
    /\ write_position[b] <= Capacity
    /\ entry_count[b] = Len(data[b])

\* A write for b failed in a drain that is over, or in the one in progress.
WriteFailed(b) == b \in drain_failed \/ (Draining(b) /\ ~all_succeeded)

OnStderr == { stderr[i] : i \in 1 .. Len(stderr) }
InBuffer(b) == { data[b][i].message : i \in 1 .. Len(data[b]) }

\* Losses of b no warning has told yet.
Warned(b) == drain_pc \in {"dump", "count", "reset"} /\ b = Current
Untold(b) == IF Warned(b) THEN 0 ELSE overflow_count[b]

(* A message bc_runtime_log_to_buffer took is in the buffer or has reached  *)
(* stderr, and one it had no room for is counted or has been told in a      *)
(* warning, unless a drain of that buffer returned false: a drain that      *)
(* meets an error on one buffer still reports it after the others succeed.  *)
NothingLostInSilence ==
  \A b \in Buffers :
    ~WriteFailed(b) =>
      /\ stored[b] \subseteq InBuffer(b) \cup OnStderr
      /\ overflowed[b] = announced[b] + Untold(b)

(* The messages of one source reach stderr in the order they were logged,   *)
(* and none twice: no drain puts out again what another has put out.        *)
SourceOrder ==
  \A i, j \in 1 .. Len(stderr) :
    i < j /\ stderr[i].from = stderr[j].from => stderr[i].number < stderr[j].number

\* Messages on stderr that have yet to be counted.
Uncounted ==
  Cardinality({ t \in Threads : pc[t] = "count" })
    + IF drain_pc = "count" THEN entry_count[Current] ELSE 0

(* As long as no drain has failed, log_messages_written counts messages     *)
(* that are on stderr: with those about to be counted it is never more,     *)
(* whatever direct calls failed and however threads and drains interleave.  *)
CounterNeverAhead ==
  (\A b \in Buffers : ~WriteFailed(b)) => log_messages_written + Uncounted <= Len(stderr)

(* What is written has a level the application had at some time, a buffer's *)
(* snapshot of the level included.                                          *)
WithinSomeLevel == \A i \in 1 .. Len(stderr) : stderr[i].level <= highest

(* The metric's name, and the test that reads it: log_messages_written      *)
(* counts messages written to stderr, hence is never more than they are.    *)
CountedWereWritten == log_messages_written <= Len(stderr)
=============================================================================
