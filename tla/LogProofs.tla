------------------------------ MODULE LogProofs ------------------------------
(***************************************************************************)
(* Theorems about Log, for any threads, buffers, levels, sizes and         *)
(* capacity, and however many messages and drains.                         *)
(***************************************************************************)
EXTENDS Log, FiniteSetTheorems, SequenceTheorems, TLAPS

\* A drain under way is at one of its buffers.
DrainShape == drain_pc # "idle" => buffer_index \in 1 .. Len(buffers)

\* What a thread is about to write is its last message.
Pending ==
  \A t \in Threads : pc[t] = "write" =>
    message[t] \in MessageType /\ message[t].from = t /\ message[t].number = issued[t]

Shape == TypeOK /\ DrainShape /\ Pending

-----------------------------------------------------------------------------
(* Types.                                                                   *)

LEMMA MessageTyped ==
  ASSUME TypeOK, NEW s \in Sources, NEW level \in Levels
  PROVE  Message(s, level) \in MessageType
BY DEF TypeOK, Message, MessageType

LEMMA ArraysTyped ==
  ASSUME NEW s \in Arrays
  PROVE  s \in Seq(Buffers) /\ s # <<>> /\ 1 \in 1 .. Len(s)
<1>1. Cardinality(Buffers) \in Nat
  BY LogAssumption, FS_CardinalityType
<1>2. PICK n \in 1 .. Cardinality(Buffers) : s \in [1 .. n -> Buffers]
  BY DEF Arrays
<1>3. n \in Nat /\ n >= 1
  BY <1>1
<1>4. s \in Seq(Buffers) /\ Len(s) = n
  BY <1>2, <1>3
<1>. QED BY <1>3, <1>4

LEMMA FirstMessagesTyped ==
  ASSUME TypeOK, NEW b \in Buffers, NEW n \in 0 .. Len(data[b])
  PROVE  /\ FirstMessages(b, n) \in Seq(MessageType)
         /\ Len(FirstMessages(b, n)) = n
         /\ \A i \in 1 .. n : FirstMessages(b, n)[i] = data[b][i].message
<1>1. data[b] \in Seq(RecordType) /\ Len(data[b]) \in Nat /\ n \in Nat
  BY DEF TypeOK
<1>2. \A i \in 1 .. n : data[b][i] \in RecordType
  BY <1>1
<1>3. \A i \in 1 .. n : data[b][i].message \in MessageType
  BY <1>2 DEF RecordType
<1>4. FirstMessages(b, n) \in [1 .. n -> MessageType]
  BY <1>3 DEF FirstMessages
<1>5. FirstMessages(b, n) \in Seq(MessageType)
  BY <1>1, <1>4
<1>. QED BY <1>1, <1>4, <1>5 DEF FirstMessages

LEMMA CurrentTyped ==
  ASSUME TypeOK, DrainShape, drain_pc # "idle"
  PROVE  /\ Current \in Buffers
         /\ Draining(Current)
<1>1. buffers \in Seq(Buffers) /\ buffer_index \in 1 .. Len(buffers)
  BY DEF TypeOK, DrainShape
<1>2. buffers[buffer_index] \in Buffers
  BY <1>1
<1>. QED BY <1>1, <1>2 DEF Current, Draining

LEMMA InitTypes == ASSUME Init PROVE Shape
<1>1. Levels \subseteq Nat
  BY LogAssumption
<1>. QED BY <1>1 DEF Init, Shape, TypeOK, DrainShape, Pending

LEMMA LogTypes ==
  ASSUME Shape, NEW t \in Threads, NEW level \in Levels, Log(t, level)
  PROVE  Shape'
<1>1. TypeOK /\ DrainShape /\ Pending /\ t \in Sources
  BY DEF Shape, Sources
<1>2. /\ Message(t, level) \in MessageType
      /\ Message(t, level).from = t /\ Message(t, level).number = issued[t] + 1
  BY <1>1, MessageTyped DEF Message
<1>3. /\ message' = [message EXCEPT ![t] = Message(t, level)]
      /\ issued' = [issued EXCEPT ![t] = @ + 1]
      /\ pc' = [pc EXCEPT ![t] = "write"]
      /\ UNCHANGED <<sharedVars, bufferVars, drainVars>>
  BY DEF Log
<1>4. message' \in [Threads -> MessageType \cup {<<>>}]
  BY <1>1, <1>2, <1>3 DEF TypeOK
<1>5. issued' \in [Sources -> Nat] /\ pc' \in [Threads -> {"idle", "write", "count"}]
  BY <1>1, <1>3 DEF TypeOK
<1>6. TypeOK'
  BY <1>1, <1>3, <1>4, <1>5 DEF TypeOK, sharedVars, bufferVars, entryVars, drainVars
<1>7. Pending'
  <2>. SUFFICES ASSUME NEW u \in Threads, pc'[u] = "write"
                PROVE  message'[u] \in MessageType /\ message'[u].from = u /\ message'[u].number = issued'[u]
    BY DEF Pending
  <2>0. /\ message' = [message EXCEPT ![t] = Message(t, level)]
        /\ u \in Sources
    BY <1>3 DEF Sources
  <2>1. CASE u = t
    BY <1>1, <1>2, <1>3, <2>0, <2>1 DEF TypeOK
  <2>2. CASE u # t
    BY <1>1, <1>3, <2>0, <2>2 DEF TypeOK, Pending
  <2>. QED BY <2>1, <2>2
<1>. QED BY <1>1, <1>3, <1>6, <1>7 DEF Shape, DrainShape, drainVars

LEMMA WriteTypes ==
  ASSUME Shape, NEW t \in Threads, WriteRecord(t)
  PROVE  Shape'
<1>1. TypeOK /\ DrainShape /\ Pending
  BY DEF Shape
<1>2. /\ UNCHANGED <<log_level, log_messages_written, highest, issued, message, bufferVars, drainVars>>
      /\ stderr' = Append(stderr, message[t]) \/ stderr' = stderr
      /\ pc' = [pc EXCEPT ![t] = "count"] \/ pc' = [pc EXCEPT ![t] = "idle"]
  BY DEF WriteRecord, AfterWrite
<1>3. message[t] \in MessageType
  BY <1>1 DEF WriteRecord, Pending
<1>4. stderr' \in Seq(MessageType)
  <2>1. stderr \in Seq(MessageType)
    BY <1>1 DEF TypeOK
  <2>. QED BY <1>2, <1>3, <2>1
<1>5. pc' \in [Threads -> {"idle", "write", "count"}] /\ \A u \in Threads : pc'[u] = "write" => pc[u] = "write"
  BY <1>1, <1>2 DEF TypeOK
<1>6. TypeOK'
  BY <1>1, <1>2, <1>4, <1>5 DEF TypeOK, bufferVars, entryVars, drainVars
<1>. QED BY <1>1, <1>2, <1>5, <1>6 DEF Shape, DrainShape, Pending, drainVars

LEMMA CountTypes ==
  ASSUME Shape, NEW t \in Threads, CountMessage(t)
  PROVE  Shape'
<1>1. TypeOK /\ DrainShape /\ Pending
  BY DEF Shape
<1>2. pc' \in [Threads -> {"idle", "write", "count"}] /\ \A u \in Threads : pc'[u] = "write" => pc[u] = "write"
  BY <1>1 DEF CountMessage, TypeOK
<1>3. TypeOK'
  BY <1>1, <1>2 DEF CountMessage, TypeOK, bufferVars, entryVars, drainVars
<1>. QED BY <1>1, <1>2, <1>3 DEF CountMessage, Shape, DrainShape, Pending, drainVars

LEMMA LevelTypes ==
  ASSUME Shape, NEW level \in Levels, SetLevel(level)
  PROVE  Shape'
BY DEF SetLevel, Shape, TypeOK, DrainShape, Pending, threadVars, bufferVars, entryVars, drainVars

LEMMA CreateTypes ==
  ASSUME Shape, NEW b \in Buffers, BufferCreate(b)
  PROVE  Shape'
BY DEF BufferCreate, LevelOfNew, Shape, TypeOK, DrainShape, Pending, sharedVars, threadVars, entryVars, drainVars

LEMMA DestroyTypes ==
  ASSUME Shape, NEW b \in Buffers, BufferDestroy(b)
  PROVE  Shape'
BY DEF BufferDestroy, Shape, TypeOK, DrainShape, Pending, sharedVars, threadVars, entryVars, drainVars

LEMMA BufferLogTypes ==
  ASSUME Shape, NEW b \in Buffers, NEW level \in Levels, NEW size \in Sizes, LogToBuffer(b, level, size)
  PROVE  Shape'
<1>1. TypeOK /\ DrainShape /\ Pending /\ b \in Sources /\ b \notin Threads /\ size \in Nat
  BY LogAssumption DEF Shape, Sources
<1>2. Message(b, level) \in MessageType
  BY <1>1, MessageTyped
<1>3. /\ issued' \in [Sources -> Nat] /\ \A t \in Threads : issued'[t] = issued[t]
  BY <1>1 DEF LogToBuffer, TypeOK, Sources
<1>4. /\ data \in [Buffers -> Seq(RecordType)]
      /\ write_position \in [Buffers -> Nat]
      /\ entry_count \in [Buffers -> Nat]
      /\ overflow_count \in [Buffers -> Nat]
      /\ stored \in [Buffers -> SUBSET MessageType]
      /\ overflowed \in [Buffers -> Nat]
  BY <1>1 DEF TypeOK
<1>5. /\ data' \in [Buffers -> Seq(RecordType)]
      /\ write_position' \in [Buffers -> Nat]
      /\ entry_count' \in [Buffers -> Nat]
      /\ overflow_count' \in [Buffers -> Nat]
      /\ stored' \in [Buffers -> SUBSET MessageType]
      /\ overflowed' \in [Buffers -> Nat]
  <2>1. CASE Fits(b, size)
    <3> DEFINE record == [message |-> Message(b, level), at |-> write_position[b], size |-> size]
    <3>1. record \in RecordType
      BY <1>1, <1>2 DEF RecordType, TypeOK
    <3>2. data' = [data EXCEPT ![b] = Append(@, record)]
      BY <2>1 DEF LogToBuffer
    <3>. HIDE DEF record
    <3>3. data' \in [Buffers -> Seq(RecordType)]
      BY <1>4, <3>1, <3>2
    <3>4. /\ stored' = [stored EXCEPT ![b] = @ \cup {Message(b, level)}]
          /\ write_position' = [write_position EXCEPT ![b] = write_position[b] + size]
          /\ entry_count' = [entry_count EXCEPT ![b] = @ + 1]
          /\ UNCHANGED <<overflow_count, overflowed>>
      BY <2>1 DEF LogToBuffer, NextPosition
    <3>5. stored' \in [Buffers -> SUBSET MessageType]
      BY <1>2, <1>4, <3>4
    <3>6. write_position' \in [Buffers -> Nat] /\ entry_count' \in [Buffers -> Nat]
      BY <1>1, <1>4, <3>4
    <3>. QED BY <1>4, <3>3, <3>4, <3>5, <3>6
  <2>2. CASE ~Fits(b, size)
    <3>1. /\ overflow_count' = [overflow_count EXCEPT ![b] = @ + 1]
          /\ overflowed' = [overflowed EXCEPT ![b] = @ + 1]
          /\ UNCHANGED <<data, write_position, entry_count, stored>>
      BY <2>2 DEF LogToBuffer
    <3>. QED BY <1>4, <3>1
  <2>. QED BY <2>1, <2>2
<1>6. /\ UNCHANGED <<sharedVars, threadVars, status, buffer_level, announced, drainVars>>
  BY DEF LogToBuffer
<1>7. TypeOK'
  BY <1>1, <1>3, <1>5, <1>6 DEF TypeOK, sharedVars, threadVars, drainVars
<1>. QED BY <1>1, <1>3, <1>6, <1>7 DEF Shape, DrainShape, Pending, threadVars, drainVars

LEMMA BeginTypes ==
  ASSUME Shape, DrainBegin
  PROVE  Shape'
<1>1. buffers' \in Seq(Buffers) /\ 1 \in 1 .. Len(buffers')
  BY ArraysTyped DEF DrainBegin
<1>2. TypeOK'
  <2>1. TypeOK
    BY DEF Shape
  <2>2. buffer_index' \in Nat \ {0} /\ drains' \in Nat
    BY <2>1 DEF DrainBegin, TypeOK
  <2>. QED BY <1>1, <2>1, <2>2 DEF DrainBegin, TypeOK, sharedVars, threadVars, bufferVars, entryVars
<1>. QED BY <1>1, <1>2 DEF DrainBegin, Shape, DrainShape, Pending, threadVars

LEMMA WarnTypes ==
  ASSUME Shape, Warn
  PROVE  Shape'
<1>1. TypeOK /\ DrainShape /\ Pending /\ Current \in Buffers
  BY CurrentTyped DEF Shape, Warn
<1>2. announced \in [Buffers -> Nat] /\ overflow_count[Current] \in Nat /\ all_succeeded \in BOOLEAN
  BY <1>1 DEF TypeOK
<1>3. all_succeeded' \in BOOLEAN
  BY <1>2 DEF Warn, Result
<1>4. announced' \in [Buffers -> Nat]
  <2>1. \/ announced' = announced
        \/ announced' = [announced EXCEPT ![Current] = @ + overflow_count[Current]]
    BY DEF Warn
  <2>. HIDE DEF Current
  <2>. QED BY <1>1, <1>2, <2>1
<1>5. TypeOK'
  BY <1>1, <1>3, <1>4 DEF Warn, TypeOK, sharedVars, threadVars, entryVars
<1>. QED BY <1>1, <1>5 DEF Warn, Shape, DrainShape, Pending, threadVars

LEMMA DumpTypes ==
  ASSUME Shape, Dump
  PROVE  Shape'
<1>1. TypeOK /\ DrainShape /\ Pending /\ Current \in Buffers
  BY CurrentTyped DEF Shape, Dump
<1>2. Len(data[Current]) \in 0 .. Len(data[Current])
  BY <1>1 DEF TypeOK
<1>3. \A n \in 0 .. Len(data[Current]) : stderr \o FirstMessages(Current, n) \in Seq(MessageType)
  BY <1>1, FirstMessagesTyped, ConcatProperties DEF TypeOK
<1>4. stderr' \in Seq(MessageType)
  BY <1>1, <1>2, <1>3 DEF Dump, TypeOK
<1>5. all_succeeded' \in BOOLEAN /\ drain_pc' \in {"count", "reset"}
  BY <1>1 DEF Dump, Result, TypeOK
<1>. QED BY <1>1, <1>4, <1>5 DEF Dump, Shape, TypeOK, DrainShape, Pending, threadVars, bufferVars, entryVars

LEMMA CountDrainedTypes ==
  ASSUME Shape, CountDrained
  PROVE  Shape'
<1>1. TypeOK /\ DrainShape /\ Pending /\ Current \in Buffers
  BY CurrentTyped DEF Shape, CountDrained
<1>2. log_messages_written' \in Nat
  <2>1. log_messages_written \in Nat /\ entry_count[Current] \in Nat
    BY <1>1 DEF TypeOK
  <2>. QED BY <2>1 DEF CountDrained
<1>3. TypeOK'
  BY <1>1, <1>2 DEF CountDrained, TypeOK, threadVars, bufferVars, entryVars
<1>. QED BY <1>1, <1>3 DEF CountDrained, Shape, DrainShape, Pending, threadVars

LEMMA ResetTypes ==
  ASSUME Shape, Reset
  PROVE  Shape'
<1>1. TypeOK /\ DrainShape /\ Pending /\ Current \in Buffers
  BY CurrentTyped DEF Shape, Reset
<1>2. /\ data' \in [Buffers -> Seq(RecordType)]
      /\ write_position' \in [Buffers -> Nat]
      /\ entry_count' \in [Buffers -> Nat]
      /\ overflow_count' \in [Buffers -> Nat]
  <2>1. /\ data \in [Buffers -> Seq(RecordType)] /\ write_position \in [Buffers -> Nat]
        /\ entry_count \in [Buffers -> Nat] /\ overflow_count \in [Buffers -> Nat]
    BY <1>1 DEF TypeOK
  <2>2. <<>> \in Seq(RecordType) /\ 0 \in Nat
    OBVIOUS
  <2>. QED BY <2>1, <2>2 DEF Reset, Emptied
<1>3. /\ buffers' \in Seq(Buffers) /\ buffer_index' \in Nat \ {0} /\ all_succeeded' \in BOOLEAN
      /\ drain_pc' \in {"warn", "idle"}
      /\ drain_pc' # "idle" => buffer_index' \in 1 .. Len(buffers')
  <2>1. /\ buffers \in Seq(Buffers) /\ buffer_index \in 1 .. Len(buffers) /\ all_succeeded \in BOOLEAN
        /\ Len(buffers) \in Nat
    BY <1>1 DEF Reset, DrainShape, TypeOK
  <2>2. CASE buffer_index < Len(buffers)
    BY <2>1, <2>2 DEF Reset
  <2>3. CASE ~(buffer_index < Len(buffers))
    BY <2>1, <2>3 DEF Reset
  <2>. QED BY <2>2, <2>3
<1>4. drain_failed' \subseteq Buffers
  <2>1. drain_failed \subseteq Buffers /\ \A k \in 1 .. Len(buffers) : buffers[k] \in Buffers
    BY <1>1 DEF TypeOK
  <2>2. CASE buffer_index < Len(buffers)
    BY <2>1, <2>2 DEF Reset
  <2>3. CASE ~(buffer_index < Len(buffers))
    <3>1. drain_failed' \subseteq drain_failed \cup { buffers[k] : k \in 1 .. Len(buffers) }
      BY <2>3 DEF Reset
    <3>. QED BY <2>1, <3>1
  <2>. QED BY <2>2, <2>3
<1>5. TypeOK'
  BY <1>1, <1>2, <1>3, <1>4 DEF Reset, TypeOK, sharedVars, threadVars
<1>. QED BY <1>1, <1>3, <1>5 DEF Reset, Shape, DrainShape, Pending, threadVars

LEMMA StepKeepsShape == Shape /\ [Next]_vars => Shape'
<1>1. ASSUME Shape, UNCHANGED vars PROVE Shape'
  BY <1>1 DEF vars, sharedVars, threadVars, bufferVars, entryVars, drainVars, Shape, TypeOK, DrainShape, Pending
<1>. QED BY <1>1, LogTypes, WriteTypes, CountTypes, LevelTypes, CreateTypes, DestroyTypes, BufferLogTypes,
            BeginTypes, WarnTypes, DumpTypes, CountDrainedTypes, ResetTypes DEF Next, Drain

THEOREM Shaped == Spec => []Shape
BY InitTypes, StepKeepsShape, PTL DEF Spec

(* Every variable stays in its type.                                        *)
THEOREM TypeCorrect == Spec => []TypeOK
<1>1. Shape => TypeOK
  BY DEF Shape
<1>. QED BY <1>1, Shaped, PTL

-----------------------------------------------------------------------------
(* Which steps touch a buffer's entries.                                    *)

LEMMA EntriesKept ==
  ASSUME [Next]_vars,
         ~Reset,
         \A b \in Buffers, level \in Levels, size \in Sizes : ~LogToBuffer(b, level, size)
  PROVE  UNCHANGED <<entryVars, stored, overflowed>>
BY DEF Next, Drain, SetLevel, Log, WriteRecord, CountMessage, BufferCreate, BufferDestroy, DrainBegin, Warn, Dump,
       CountDrained, vars, bufferVars

LEMMA EntriesOf ==
  ASSUME Shape
  PROVE  /\ data \in [Buffers -> Seq(RecordType)]
         /\ write_position \in [Buffers -> Nat]
         /\ entry_count \in [Buffers -> Nat]
         /\ overflow_count \in [Buffers -> Nat]
         /\ \A b \in Buffers : Len(data[b]) \in Nat /\ \A k \in 1 .. Len(data[b]) : data[b][k] \in RecordType
<1>1. /\ data \in [Buffers -> Seq(RecordType)]
      /\ write_position \in [Buffers -> Nat]
      /\ entry_count \in [Buffers -> Nat]
      /\ overflow_count \in [Buffers -> Nat]
  BY DEF Shape, TypeOK
<1>2. \A b \in Buffers : data[b] \in Seq(RecordType)
  BY <1>1
<1>. QED BY <1>1, <1>2

LEMMA ResetEntries ==
  ASSUME Shape, Reset
  PROVE  /\ Current \in Buffers /\ Draining(Current)
         /\ data'[Current] = <<>> /\ write_position'[Current] = 0
         /\ entry_count'[Current] = 0 /\ overflow_count'[Current] = 0
         /\ \A b \in Buffers \ {Current} :
              /\ data'[b] = data[b] /\ write_position'[b] = write_position[b]
              /\ entry_count'[b] = entry_count[b] /\ overflow_count'[b] = overflow_count[b]
<1>1. Current \in Buffers /\ Draining(Current)
  BY CurrentTyped DEF Shape, Reset
<1>. HIDE DEF Current
<1>. QED BY <1>1, EntriesOf DEF Reset, Emptied

\* The record that is appended, and what is appended to.
LEMMA AppendedRecord ==
  ASSUME Shape, NEW b \in Buffers, NEW level \in Levels, NEW size \in Sizes,
         LogToBuffer(b, level, size), Fits(b, size)
  PROVE  LET record == [message |-> Message(b, level), at |-> write_position[b], size |-> size]
         IN  /\ record \in RecordType
             /\ data'[b] = Append(data[b], record)
             /\ write_position'[b] = write_position[b] + size
             /\ entry_count'[b] = entry_count[b] + 1
             /\ overflow_count'[b] = overflow_count[b]
             /\ \A c \in Buffers \ {b} :
                  /\ data'[c] = data[c] /\ write_position'[c] = write_position[c]
                  /\ entry_count'[c] = entry_count[c] /\ overflow_count'[c] = overflow_count[c]
<1> DEFINE record == [message |-> Message(b, level), at |-> write_position[b], size |-> size]
<1>1. record \in RecordType
  <2>1. Message(b, level) \in MessageType
    BY MessageTyped DEF Shape, Sources
  <2>. QED BY <2>1, EntriesOf DEF RecordType
<1>2. /\ data' = [data EXCEPT ![b] = Append(@, record)]
      /\ write_position' = [write_position EXCEPT ![b] = write_position[b] + size]
      /\ entry_count' = [entry_count EXCEPT ![b] = @ + 1]
      /\ overflow_count' = overflow_count
  BY DEF LogToBuffer, NextPosition
<1>. HIDE DEF record
<1>3. /\ data'[b] = Append(data[b], record)
      /\ write_position'[b] = write_position[b] + size
      /\ entry_count'[b] = entry_count[b] + 1
      /\ overflow_count'[b] = overflow_count[b]
      /\ \A c \in Buffers \ {b} :
           /\ data'[c] = data[c] /\ write_position'[c] = write_position[c]
           /\ entry_count'[c] = entry_count[c] /\ overflow_count'[c] = overflow_count[c]
  BY <1>2, EntriesOf
<1>. QED BY <1>1, <1>3 DEF record

LEMMA DidNotFit ==
  ASSUME Shape, NEW b \in Buffers, NEW level \in Levels, NEW size \in Sizes,
         LogToBuffer(b, level, size), ~Fits(b, size)
  PROVE  UNCHANGED <<data, write_position, entry_count, stored>>
BY DEF LogToBuffer

-----------------------------------------------------------------------------
(* A buffer holds the records it counts, end to end.                        *)

Holds(b) ==
  /\ RecordsAdjoin(data[b])
  /\ write_position[b] = RecordsEnd(data[b])
  /\ write_position[b] <= Capacity
  /\ entry_count[b] = Len(data[b])

LEMMA AppendAdjoins ==
  ASSUME NEW records \in Seq(RecordType), NEW record \in RecordType,
         RecordsAdjoin(records), record.at = RecordsEnd(records)
  PROVE  /\ RecordsAdjoin(Append(records, record))
         /\ RecordsEnd(Append(records, record)) = record.at + record.size
<1> DEFINE longer == Append(records, record)
           n == Len(records)
<1>1. /\ longer \in Seq(RecordType) /\ Len(longer) = n + 1 /\ n \in Nat
      /\ \A i \in 1 .. n : longer[i] = records[i]
      /\ longer[n + 1] = record
  BY AppendProperties
<1>. HIDE DEF longer, n
<1>2. ASSUME NEW i \in 1 .. Len(longer)
      PROVE  longer[i].at = IF i = 1 THEN 0 ELSE longer[i - 1].at + longer[i - 1].size
  <2>1. CASE i <= n
    <3>1. i \in 1 .. Len(records) /\ (i # 1 => i - 1 \in 1 .. n)
      BY <1>1, <2>1 DEF n
    <3>2. records[i].at = IF i = 1 THEN 0 ELSE records[i - 1].at + records[i - 1].size
      BY <3>1 DEF RecordsAdjoin
    <3>3. longer[i] = records[i] /\ (i # 1 => longer[i - 1] = records[i - 1])
      BY <1>1, <2>1, <3>1
    <3>. QED BY <3>2, <3>3
  <2>2. CASE i = n + 1
    <3>1. n = 0 => records = <<>>
      BY EmptySeq DEF n
    <3>2. n # 0 => records # <<>> /\ i - 1 = n /\ n \in 1 .. n
      BY <1>1, <2>2 DEF n
    <3>. QED BY <1>1, <2>2, <3>1, <3>2 DEF RecordsEnd, n
  <2>. QED BY <1>1, <2>1, <2>2
<1>3. longer # <<>>
  BY <1>1
<1>. QED BY <1>1, <1>2, <1>3 DEF RecordsAdjoin, RecordsEnd, longer

LEMMA EmptyHolds == RecordsAdjoin(<<>>) /\ RecordsEnd(<<>>) = 0
BY DEF RecordsAdjoin, RecordsEnd

LEMMA InitHolds == ASSUME Init PROVE BufferHoldsItsRecords
BY LogAssumption, EmptyHolds DEF Init, BufferHoldsItsRecords

LEMMA StepKeepsRecords ==
  ASSUME Shape, BufferHoldsItsRecords, [Next]_vars
  PROVE  BufferHoldsItsRecords'
<1>1. ASSUME NEW b \in Buffers, NEW level \in Levels, NEW size \in Sizes, LogToBuffer(b, level, size)
      PROVE  BufferHoldsItsRecords'
  <2>1. CASE Fits(b, size)
    <3> DEFINE record == [message |-> Message(b, level), at |-> write_position[b], size |-> size]
    <3>1. record \in RecordType /\ record.at = RecordsEnd(data[b]) /\ record.size = size
      BY <1>1, <2>1, AppendedRecord DEF BufferHoldsItsRecords
    <3>2. /\ data'[b] = Append(data[b], record)
          /\ write_position'[b] = write_position[b] + size
          /\ entry_count'[b] = entry_count[b] + 1
      BY <1>1, <2>1, AppendedRecord
    <3>3. RecordsAdjoin(data'[b]) /\ RecordsEnd(data'[b]) = write_position[b] + size
      <4>1. data[b] \in Seq(RecordType) /\ RecordsAdjoin(data[b])
        BY EntriesOf DEF BufferHoldsItsRecords
      <4>2. record.at = write_position[b]
        OBVIOUS
      <4>. HIDE DEF record
      <4>. QED BY <3>1, <3>2, <4>1, <4>2, AppendAdjoins
    <3>4. Len(data'[b]) = Len(data[b]) + 1
      BY <3>1, <3>2, EntriesOf, AppendProperties
    <3>5. \A c \in Buffers \ {b} : data'[c] = data[c] /\ write_position'[c] = write_position[c] /\ entry_count'[c] = entry_count[c]
      BY <1>1, <2>1, AppendedRecord
    <3>. HIDE DEF record
    <3>. QED BY <2>1, <3>2, <3>3, <3>4, <3>5 DEF BufferHoldsItsRecords, Fits
  <2>2. CASE ~Fits(b, size)
    BY <1>1, <2>2, DidNotFit DEF BufferHoldsItsRecords
  <2>. QED BY <2>1, <2>2
<1>2. CASE Reset
  BY <1>2, ResetEntries, EmptyHolds, LogAssumption DEF BufferHoldsItsRecords
<1>3. CASE UNCHANGED entryVars
  BY <1>3 DEF entryVars, BufferHoldsItsRecords
<1>. QED BY <1>1, <1>2, <1>3, EntriesKept

(* The bytes a drain writes are exactly the records it counts, end to end   *)
(* from the start of the buffer and never beyond it.                        *)
THEOREM BufferHoldsItsRecordsAlways == Spec => []BufferHoldsItsRecords
BY Shaped, InitHolds, StepKeepsRecords, PTL DEF Spec

-----------------------------------------------------------------------------
(* What reaches stderr.                                                     *)

LEMMA StderrKept ==
  ASSUME [Next]_vars, ~Dump, \A t \in Threads : ~WriteRecord(t)
  PROVE  UNCHANGED stderr
BY DEF Next, Drain, SetLevel, Log, CountMessage, BufferCreate, BufferDestroy, LogToBuffer, DrainBegin, Warn,
       CountDrained, Reset, vars, sharedVars

LEMMA StderrOf ==
  ASSUME Shape
  PROVE  /\ stderr \in Seq(MessageType) /\ Len(stderr) \in Nat
         /\ \A i \in 1 .. Len(stderr) : stderr[i] \in MessageType
<1>1. stderr \in Seq(MessageType)
  BY DEF Shape, TypeOK
<1>. QED BY <1>1

LEMMA WrittenToStderr ==
  ASSUME Shape, NEW t \in Threads, WriteRecord(t)
  PROVE  /\ pc[t] = "write" /\ message[t] \in MessageType
         /\ \A i \in 1 .. Len(stderr') :
              \/ i \in 1 .. Len(stderr) /\ stderr'[i] = stderr[i]
              \/ i = Len(stderr) + 1 /\ stderr'[i] = message[t]
         /\ Len(stderr') >= Len(stderr)
         /\ \A i \in 1 .. Len(stderr) : stderr'[i] = stderr[i]
<1>1. pc[t] = "write" /\ message[t] \in MessageType
  BY DEF WriteRecord, Shape, Pending
<1>2. stderr' = stderr \/ stderr' = Append(stderr, message[t])
  BY DEF WriteRecord
<1>. QED BY <1>1, <1>2, StderrOf, AppendProperties

LEMMA DumpedToStderr ==
  ASSUME Shape, Dump
  PROVE  /\ Current \in Buffers
         /\ \A i \in 1 .. Len(stderr') :
              \/ i \in 1 .. Len(stderr) /\ stderr'[i] = stderr[i]
              \/ /\ i > Len(stderr) /\ i - Len(stderr) \in 1 .. Len(data[Current])
                 /\ stderr'[i] = data[Current][i - Len(stderr)].message
         /\ Len(stderr') >= Len(stderr)
         /\ \A i \in 1 .. Len(stderr) : stderr'[i] = stderr[i]
<1> DEFINE m == Len(stderr)
           b == Current
<1>1. b \in Buffers /\ TypeOK
  BY CurrentTyped DEF Shape, Dump
<1>2. stderr' = stderr \/ \E n \in 0 .. Len(data[b]) : stderr' = stderr \o FirstMessages(b, n)
  <2>1. Len(data[b]) \in 0 .. Len(data[b])
    <3>1. Len(data[b]) \in Nat
      BY <1>1, EntriesOf
    <3>. QED BY <3>1
  <2>2. \/ stderr' = stderr
        \/ stderr' = stderr \o FirstMessages(b, Len(data[b]))
        \/ \E n \in 0 .. Len(data[b]) : stderr' = stderr \o FirstMessages(b, n)
    BY DEF Dump
  <2>. QED BY <2>1, <2>2
<1>. HIDE DEF b
<1>3. ASSUME NEW n \in 0 .. Len(data[b])
      PROVE  LET s == stderr \o FirstMessages(b, n)
             IN  /\ Len(s) = m + n
                 /\ \A i \in 1 .. m : s[i] = stderr[i]
                 /\ \A i \in m + 1 .. m + n : i - m \in 1 .. n /\ s[i] = data[b][i - m].message
  <2> DEFINE f == FirstMessages(b, n)
  <2>1. /\ f \in Seq(MessageType) /\ Len(f) = n
        /\ \A i \in 1 .. n : f[i] = data[b][i].message
    BY <1>1, FirstMessagesTyped
  <2>. HIDE DEF f
  <2>2. n \in Nat /\ m \in Nat
    BY StderrOf
  <2>3. /\ Len(stderr \o f) = m + n
        /\ \A i \in 1 .. m + n : (stderr \o f)[i] = IF i <= m THEN stderr[i] ELSE f[i - m]
    BY <2>1, StderrOf, ConcatProperties
  <2>4. \A i \in m + 1 .. m + n : i - m \in 1 .. n
    BY <2>2
  <2>. QED BY <2>1, <2>2, <2>3, <2>4 DEF f
<1>4. CASE stderr' = stderr
  BY <1>1, <1>4, StderrOf DEF b
<1>5. ASSUME NEW n \in 0 .. Len(data[b]), stderr' = stderr \o FirstMessages(b, n)
      PROVE  /\ \A i \in 1 .. Len(stderr') :
                  \/ i \in 1 .. m /\ stderr'[i] = stderr[i]
                  \/ i > m /\ i - m \in 1 .. Len(data[b]) /\ stderr'[i] = data[b][i - m].message
             /\ Len(stderr') >= m
             /\ \A i \in 1 .. m : stderr'[i] = stderr[i]
  <2>1. m \in Nat /\ n \in Nat /\ Len(data[b]) \in Nat
    BY <1>1, StderrOf, EntriesOf
  <2>2. /\ Len(stderr') = m + n
        /\ \A i \in 1 .. m : stderr'[i] = stderr[i]
        /\ \A i \in m + 1 .. m + n : i - m \in 1 .. n /\ stderr'[i] = data[b][i - m].message
    BY <1>3, <1>5
  <2>. QED BY <2>1, <2>2
<1>. QED BY <1>1, <1>2, <1>4, <1>5 DEF b

-----------------------------------------------------------------------------
(* Levels.                                                                  *)

LevelInv ==
  /\ log_level <= highest
  /\ WithinSomeLevel
  /\ \A t \in Threads : pc[t] = "write" => message[t].level <= highest
  /\ \A b \in Buffers : buffer_level[b] <= highest
  /\ \A b \in Buffers : \A k \in 1 .. Len(data[b]) : data[b][k].message.level <= highest

LEMMA InitLevels == ASSUME Init PROVE LevelInv
BY LogAssumption DEF Init, LevelInv, WithinSomeLevel

LEMMA LevelsAreNumbers ==
  ASSUME Shape
  PROVE  /\ log_level \in Nat /\ highest \in Nat
         /\ \A b \in Buffers : buffer_level[b] \in Nat
         /\ \A m \in MessageType : m.level \in Nat
BY LogAssumption DEF Shape, TypeOK, MessageType

LEMMA HighestGrows ==
  ASSUME Shape, LevelInv, [Next]_vars
  PROVE  highest' \in Nat /\ highest <= highest' /\ log_level' <= highest'
<1>1. CASE \E level \in Levels : SetLevel(level)
  BY <1>1, LogAssumption, LevelsAreNumbers DEF SetLevel, LevelInv
<1>2. CASE UNCHANGED <<highest, log_level>>
  BY <1>2, LevelsAreNumbers DEF LevelInv
<1>3. ASSUME ~(\E level \in Levels : SetLevel(level)) PROVE UNCHANGED <<highest, log_level>>
  BY <1>3 DEF Next, Drain, Log, WriteRecord, CountMessage, BufferCreate, BufferDestroy, LogToBuffer, DrainBegin,
              Warn, Dump, CountDrained, Reset, vars, sharedVars
<1>. QED BY <1>1, <1>2, <1>3

LEMMA StepKeepsWithinLevel ==
  ASSUME Shape, LevelInv, [Next]_vars
  PROVE  WithinSomeLevel'
<1>. SUFFICES ASSUME NEW i \in 1 .. Len(stderr') PROVE stderr'[i].level <= highest'
  BY DEF WithinSomeLevel
<1>1. highest \in Nat /\ highest' \in Nat /\ highest <= highest'
  BY HighestGrows, LevelsAreNumbers
<1>2. ASSUME NEW m \in MessageType, m.level <= highest PROVE m.level <= highest'
  BY <1>1, <1>2, LevelsAreNumbers
<1>3. ASSUME NEW t \in Threads, WriteRecord(t) PROVE stderr'[i].level <= highest'
  <2>1. \/ i \in 1 .. Len(stderr) /\ stderr'[i] = stderr[i]
        \/ stderr'[i] = message[t]
    BY <1>3, WrittenToStderr
  <2>2. message[t] \in MessageType /\ message[t].level <= highest
    BY <1>3, WrittenToStderr DEF LevelInv
  <2>. QED BY <1>2, <2>1, <2>2, StderrOf DEF LevelInv, WithinSomeLevel
<1>4. CASE Dump
  <2>1. \/ i \in 1 .. Len(stderr) /\ stderr'[i] = stderr[i]
        \/ \E k \in 1 .. Len(data[Current]) : stderr'[i] = data[Current][k].message
    BY <1>4, DumpedToStderr
  <2>2. ASSUME NEW k \in 1 .. Len(data[Current])
        PROVE  data[Current][k].message \in MessageType /\ data[Current][k].message.level <= highest
    BY <1>4, DumpedToStderr, EntriesOf DEF LevelInv, RecordType
  <2>. QED BY <1>2, <2>1, <2>2, StderrOf DEF LevelInv, WithinSomeLevel
<1>5. CASE UNCHANGED stderr
  BY <1>2, <1>5, StderrOf DEF LevelInv, WithinSomeLevel
<1>. QED BY <1>3, <1>4, <1>5, StderrKept

LEMMA StepKeepsPendingLevel ==
  ASSUME Shape, LevelInv, [Next]_vars, NEW u \in Threads, pc'[u] = "write"
  PROVE  message'[u].level <= highest'
<1>1. highest \in Nat /\ highest' \in Nat /\ highest <= highest'
  BY HighestGrows, LevelsAreNumbers
<1>2. pc \in [Threads -> {"idle", "write", "count"}] /\ message \in [Threads -> MessageType \cup {<<>>}]
  BY DEF Shape, TypeOK
<1>3. CASE pc[u] = "write" /\ message'[u] = message[u]
  <2>1. message[u] \in MessageType /\ message[u].level <= highest
    BY <1>3 DEF Shape, Pending, LevelInv
  <2>. QED BY <1>1, <1>3, <2>1, LevelsAreNumbers
<1>4. ASSUME NEW t \in Threads, NEW level \in Levels, Log(t, level)
      PROVE  message'[u].level <= highest' \/ (pc[u] = "write" /\ message'[u] = message[u])
  <2>1. CASE u = t
    <3>1. message'[u] = Message(t, level) /\ level <= log_level
      BY <1>2, <1>4, <2>1 DEF Log, Enabled
    <3>2. level <= highest /\ level \in Nat
      BY <3>1, LevelsAreNumbers, LogAssumption DEF LevelInv
    <3>. QED BY <1>1, <3>1, <3>2 DEF Message
  <2>2. CASE u # t
    BY <1>2, <1>4, <2>2 DEF Log
  <2>. QED BY <2>1, <2>2
<1>5. ASSUME NEW t \in Threads, WriteRecord(t) \/ CountMessage(t)
      PROVE  pc[u] = "write" /\ message'[u] = message[u]
  BY <1>2, <1>5 DEF WriteRecord, AfterWrite, CountMessage
<1>6. CASE UNCHANGED threadVars
  BY <1>3, <1>6 DEF threadVars
<1>7. ASSUME ~UNCHANGED threadVars
      PROVE  \E t \in Threads : (\E level \in Levels : Log(t, level)) \/ WriteRecord(t) \/ CountMessage(t)
  BY <1>7 DEF Next, Drain, SetLevel, BufferCreate, BufferDestroy, LogToBuffer, DrainBegin,
              Warn, Dump, CountDrained, Reset, vars
<1>. QED BY <1>3, <1>4, <1>5, <1>6, <1>7

LEMMA StepKeepsBufferLevels ==
  ASSUME Shape, LevelInv, [Next]_vars, NEW b \in Buffers
  PROVE  /\ buffer_level'[b] <= highest'
         /\ \A k \in 1 .. Len(data'[b]) : data'[b][k].message.level <= highest'
<1>1. highest \in Nat /\ highest' \in Nat /\ highest <= highest'
  BY HighestGrows, LevelsAreNumbers
<1>2. buffer_level'[b] <= highest'
  <2>1. buffer_level' = buffer_level \/ \E c \in Buffers : buffer_level' = [buffer_level EXCEPT ![c] = log_level]
    BY DEF Next, Drain, SetLevel, Log, WriteRecord, CountMessage, BufferCreate, LevelOfNew, BufferDestroy,
           LogToBuffer, DrainBegin, Warn, Dump, CountDrained, Reset, vars, bufferVars
  <2>2. buffer_level \in [Buffers -> Levels]
    BY DEF Shape, TypeOK
  <2>3. buffer_level'[b] = buffer_level[b] \/ buffer_level'[b] = log_level
    BY <2>1, <2>2
  <2>. QED BY <1>1, <2>3, LevelsAreNumbers DEF LevelInv
<1>3. ASSUME NEW k \in 1 .. Len(data'[b]) PROVE data'[b][k].message.level <= highest'
  <2>1. ASSUME k \in 1 .. Len(data[b]), data'[b][k] = data[b][k] PROVE data'[b][k].message.level <= highest'
    <3>1. data[b][k].message \in MessageType /\ data[b][k].message.level <= highest
      BY <2>1, EntriesOf DEF RecordType, LevelInv
    <3>. QED BY <1>1, <2>1, <3>1, LevelsAreNumbers
  <2>2. ASSUME NEW c \in Buffers, NEW level \in Levels, NEW size \in Sizes, LogToBuffer(c, level, size)
        PROVE  data'[b][k].message.level <= highest'
    <3>1. CASE ~Fits(c, size) \/ c # b
      BY <2>1, <2>2, <3>1, DidNotFit, AppendedRecord
    <3>2. CASE Fits(c, size) /\ c = b
      <4> DEFINE record == [message |-> Message(b, level), at |-> write_position[b], size |-> size]
      <4>1. record \in RecordType /\ data'[b] = Append(data[b], record) /\ data[b] \in Seq(RecordType)
        BY <2>2, <3>2, AppendedRecord, EntriesOf
      <4>2. record.message.level = level
        BY DEF Message
      <4>3. level <= highest /\ level \in Nat
        BY <2>2, <3>2, LogAssumption, LevelsAreNumbers DEF LogToBuffer, Enabled, LevelInv
      <4>. HIDE DEF record
      <4>4. \/ k \in 1 .. Len(data[b]) /\ data'[b][k] = data[b][k]
            \/ data'[b][k] = record
        BY <4>1, AppendProperties
      <4>. QED BY <1>1, <2>1, <4>2, <4>3, <4>4
    <3>. QED BY <3>1, <3>2
  <2>3. CASE Reset
    BY <2>1, <2>3, ResetEntries
  <2>4. CASE UNCHANGED entryVars
    BY <2>1, <2>4 DEF entryVars
  <2>. QED BY <2>2, <2>3, <2>4, EntriesKept
<1>. QED BY <1>2, <1>3

LEMMA StepKeepsLevels ==
  ASSUME Shape, LevelInv, [Next]_vars
  PROVE  LevelInv'
BY HighestGrows, StepKeepsWithinLevel, StepKeepsPendingLevel, StepKeepsBufferLevels DEF LevelInv

(* Nothing is written above the highest level the application ever had.     *)
THEOREM WithinSomeLevelAlways == Spec => []WithinSomeLevel
<1>1. Spec => []LevelInv
  BY Shaped, InitLevels, StepKeepsLevels, PTL DEF Spec
<1>2. LevelInv => WithinSomeLevel
  BY DEF LevelInv
<1>. QED BY <1>1, <1>2, PTL

-----------------------------------------------------------------------------
(* The order of each source's messages.  A buffer whose records have just   *)
(* been put out, and not been reset yet, is the one exception to what is in *)
(* a buffer being later than what is on stderr.                             *)

Dumped(b) == drain_pc \in {"count", "reset"} /\ b = Current

IssuedBefore == \A i \in 1 .. Len(stderr) : stderr[i].number <= issued[stderr[i].from]

PendingLater ==
  \A t \in Threads : pc[t] = "write" =>
    \A i \in 1 .. Len(stderr) : stderr[i].from = t => stderr[i].number < issued[t]

RecordsOrdered ==
  \A b \in Buffers :
    /\ \A k \in 1 .. Len(data[b]) : data[b][k].message.from = b /\ data[b][k].message.number <= issued[b]
    /\ \A k, l \in 1 .. Len(data[b]) : k < l => data[b][k].message.number < data[b][l].message.number

RecordsLater ==
  \A b \in Buffers : ~Dumped(b) =>
    \A i \in 1 .. Len(stderr), k \in 1 .. Len(data[b]) :
      stderr[i].from = b => stderr[i].number < data[b][k].message.number

OrderInv == SourceOrder /\ IssuedBefore /\ PendingLater /\ RecordsOrdered /\ RecordsLater

LEMMA InitOrder == ASSUME Init PROVE OrderInv
BY DEF Init, OrderInv, SourceOrder, IssuedBefore, PendingLater, RecordsOrdered, RecordsLater

LEMMA NumbersTyped ==
  ASSUME Shape
  PROVE  /\ issued \in [Sources -> Nat]
         /\ \A m \in MessageType : m.number \in Nat /\ m.from \in Sources
         /\ \A i \in 1 .. Len(stderr) : stderr[i].number \in Nat /\ stderr[i].from \in Sources
         /\ \A b \in Buffers : \A k \in 1 .. Len(data[b]) : data[b][k].message \in MessageType
         /\ Buffers \subseteq Sources /\ Threads \subseteq Sources
<1>1. issued \in [Sources -> Nat]
  BY DEF Shape, TypeOK
<1>2. \A m \in MessageType : m.number \in Nat /\ m.from \in Sources
  BY DEF MessageType
<1>3. \A b \in Buffers : \A k \in 1 .. Len(data[b]) : data[b][k].message \in MessageType
  BY EntriesOf DEF RecordType
<1>. QED BY <1>1, <1>2, <1>3, StderrOf DEF Sources

LEMMA WriteOrder ==
  ASSUME Shape, OrderInv, NEW t \in Threads, WriteRecord(t)
  PROVE  OrderInv'
<1> DEFINE n == Len(stderr)
<1>1. /\ UNCHANGED <<issued, message, data, drain_pc, buffers, buffer_index>>
      /\ pc[t] = "write" /\ message[t].from = t /\ message[t].number = issued[t] /\ message[t] \in MessageType
      /\ n \in Nat
  BY StderrOf DEF WriteRecord, bufferVars, entryVars, drainVars, Shape, Pending
<1>2. \A i \in 1 .. Len(stderr') :
        \/ i \in 1 .. n /\ stderr'[i] = stderr[i]
        \/ i = n + 1 /\ stderr'[i] = message[t]
  BY WrittenToStderr
<1>3. \A u \in Threads : pc'[u] = "write" => pc[u] = "write" /\ u # t
  BY DEF WriteRecord, AfterWrite, Shape, TypeOK
<1>. HIDE DEF n
<1>4. SourceOrder'
  <2>. SUFFICES ASSUME NEW i \in 1 .. Len(stderr'), NEW j \in 1 .. Len(stderr'), i < j, stderr'[i].from = stderr'[j].from
                PROVE  stderr'[i].number < stderr'[j].number
    BY DEF SourceOrder
  <2>1. i \in 1 .. n /\ stderr'[i] = stderr[i]
    BY <1>1, <1>2
  <2>2. CASE j \in 1 .. n /\ stderr'[j] = stderr[j]
    BY <2>1, <2>2 DEF OrderInv, SourceOrder, n
  <2>3. CASE stderr'[j] = message[t]
    BY <1>1, <2>1, <2>3 DEF OrderInv, PendingLater, n
  <2>. QED BY <1>2, <2>2, <2>3
<1>5. IssuedBefore'
  <2>1. issued[t] \in Nat
    BY NumbersTyped
  <2>. QED BY <1>1, <1>2, <2>1 DEF OrderInv, IssuedBefore, n
<1>6. PendingLater'
  BY <1>1, <1>2, <1>3 DEF OrderInv, PendingLater, n
<1>7. RecordsLater'
  <2>1. t \notin Buffers
    BY LogAssumption
  <2>2. \A b \in Buffers : Dumped(b)' = Dumped(b)
    BY <1>1 DEF Dumped, Current
  <2>. QED BY <1>1, <1>2, <2>1, <2>2 DEF OrderInv, RecordsLater, n
<1>. QED BY <1>1, <1>4, <1>5, <1>6, <1>7 DEF OrderInv, RecordsOrdered

LEMMA DumpOrder ==
  ASSUME Shape, OrderInv, Dump
  PROVE  OrderInv'
<1> DEFINE n == Len(stderr)
           b == Current
<1>1. /\ UNCHANGED <<issued, pc, data, buffers, buffer_index>>
      /\ drain_pc = "dump" /\ drain_pc' \in {"count", "reset"}
      /\ b \in Buffers /\ b' = b /\ n \in Nat /\ Len(data[b]) \in Nat
      /\ b \notin Threads
  BY StderrOf, DumpedToStderr, EntriesOf, LogAssumption DEF Dump, bufferVars, entryVars, threadVars, Current
<1>2. \A i \in 1 .. Len(stderr') :
        \/ i \in 1 .. n /\ stderr'[i] = stderr[i]
        \/ i > n /\ i - n \in 1 .. Len(data[b]) /\ stderr'[i] = data[b][i - n].message
  BY DumpedToStderr
<1>3. /\ \A c \in Buffers : ~Dumped(c)
      /\ \A c \in Buffers : ~Dumped(c)' => c # b
  BY <1>1 DEF Dumped
<1>. HIDE DEF n, b
<1>4. \A k \in 1 .. Len(data[b]) :
        /\ data[b][k].message.from = b /\ data[b][k].message.number <= issued[b]
        /\ data[b][k].message.number \in Nat
  BY <1>1, NumbersTyped DEF OrderInv, RecordsOrdered
<1>5. SourceOrder'
  <2>. SUFFICES ASSUME NEW i \in 1 .. Len(stderr'), NEW j \in 1 .. Len(stderr'), i < j, stderr'[i].from = stderr'[j].from
                PROVE  stderr'[i].number < stderr'[j].number
    BY DEF SourceOrder
  <2>1. CASE j \in 1 .. n /\ stderr'[j] = stderr[j]
    <3>1. i \in 1 .. n /\ stderr'[i] = stderr[i]
      BY <1>1, <1>2, <2>1
    <3>. QED BY <2>1, <3>1 DEF OrderInv, SourceOrder, n
  <2>2. CASE j > n /\ j - n \in 1 .. Len(data[b]) /\ stderr'[j] = data[b][j - n].message
    <3>1. CASE i \in 1 .. n /\ stderr'[i] = stderr[i]
      BY <1>1, <1>3, <1>4, <2>2, <3>1 DEF OrderInv, RecordsLater, n
    <3>2. CASE i > n /\ i - n \in 1 .. Len(data[b]) /\ stderr'[i] = data[b][i - n].message
      <4>1. i - n < j - n
        BY <1>1
      <4>. QED BY <1>1, <2>2, <3>2, <4>1 DEF OrderInv, RecordsOrdered
    <3>. QED BY <1>2, <3>1, <3>2
  <2>. QED BY <1>2, <2>1, <2>2
<1>6. IssuedBefore'
  BY <1>1, <1>2, <1>4 DEF OrderInv, IssuedBefore, n
<1>7. PendingLater'
  <2>. SUFFICES ASSUME NEW t \in Threads, pc'[t] = "write", NEW i \in 1 .. Len(stderr'), stderr'[i].from = t
                PROVE  stderr'[i].number < issued'[t]
    BY DEF PendingLater
  <2>1. i \in 1 .. n /\ stderr'[i] = stderr[i]
    BY <1>1, <1>2, <1>4
  <2>. QED BY <1>1, <2>1 DEF OrderInv, PendingLater, n
<1>8. RecordsLater'
  <2>. SUFFICES ASSUME NEW c \in Buffers, ~Dumped(c)',
                       NEW i \in 1 .. Len(stderr'), NEW k \in 1 .. Len(data'[c]), stderr'[i].from = c
                PROVE  stderr'[i].number < data'[c][k].message.number
    BY DEF RecordsLater
  <2>1. i \in 1 .. n /\ stderr'[i] = stderr[i]
    BY <1>2, <1>3, <1>4
  <2>. QED BY <1>1, <1>3, <2>1 DEF OrderInv, RecordsLater, n
<1>. QED BY <1>1, <1>5, <1>6, <1>7, <1>8 DEF OrderInv, RecordsOrdered

LEMMA LogOrder ==
  ASSUME Shape, OrderInv, NEW t \in Threads, NEW level \in Levels, Log(t, level)
  PROVE  OrderInv'
<1>1. /\ UNCHANGED <<stderr, data, drain_pc, buffers, buffer_index>>
      /\ t \in Sources /\ t \notin Buffers
      /\ issued[t] \in Nat /\ issued'[t] = issued[t] + 1
      /\ \A s \in Sources \ {t} : issued'[s] = issued[s]
      /\ \A u \in Threads \ {t} : pc'[u] = pc[u]
  BY NumbersTyped, LogAssumption DEF Log, sharedVars, bufferVars, entryVars, drainVars, Shape, TypeOK
<1>2. SourceOrder'
  BY <1>1 DEF OrderInv, SourceOrder
<1>3. IssuedBefore'
  <2>. SUFFICES ASSUME NEW i \in 1 .. Len(stderr) PROVE stderr[i].number <= issued'[stderr[i].from]
    BY <1>1 DEF IssuedBefore
  <2>1. stderr[i].number \in Nat /\ stderr[i].from \in Sources /\ stderr[i].number <= issued[stderr[i].from]
    BY NumbersTyped DEF OrderInv, IssuedBefore
  <2>. QED BY <1>1, <2>1
<1>4. PendingLater'
  <2>. SUFFICES ASSUME NEW u \in Threads, pc'[u] = "write", NEW i \in 1 .. Len(stderr), stderr[i].from = u
                PROVE  stderr[i].number < issued'[u]
    BY <1>1 DEF PendingLater
  <2>1. stderr[i].number \in Nat /\ u \in Sources /\ stderr[i].number <= issued[u]
    BY NumbersTyped DEF OrderInv, IssuedBefore
  <2>2. CASE u = t
    BY <1>1, <2>1, <2>2
  <2>3. CASE u # t
    <3>1. pc[u] = "write" /\ issued'[u] = issued[u]
      BY <1>1, <2>1, <2>3
    <3>. QED BY <3>1 DEF OrderInv, PendingLater
  <2>. QED BY <2>2, <2>3
<1>5. RecordsOrdered'
  BY <1>1, NumbersTyped DEF OrderInv, RecordsOrdered
<1>6. RecordsLater'
  BY <1>1 DEF OrderInv, RecordsLater, Dumped, Current
<1>. QED BY <1>2, <1>3, <1>4, <1>5, <1>6 DEF OrderInv

LEMMA BufferLogOrder ==
  ASSUME Shape, OrderInv, NEW b \in Buffers, NEW level \in Levels, NEW size \in Sizes, LogToBuffer(b, level, size)
  PROVE  OrderInv'
<1>1. /\ UNCHANGED <<stderr, pc, drain_pc, buffers, buffer_index>>
      /\ b \in Sources /\ b \notin Threads
      /\ issued[b] \in Nat /\ issued'[b] = issued[b] + 1
      /\ \A s \in Sources \ {b} : issued'[s] = issued[s]
  BY NumbersTyped, LogAssumption DEF LogToBuffer, sharedVars, threadVars, drainVars
<1>2. SourceOrder'
  BY <1>1 DEF OrderInv, SourceOrder
<1>3. IssuedBefore'
  <2>. SUFFICES ASSUME NEW i \in 1 .. Len(stderr) PROVE stderr[i].number <= issued'[stderr[i].from]
    BY <1>1 DEF IssuedBefore
  <2>1. stderr[i].number \in Nat /\ stderr[i].from \in Sources /\ stderr[i].number <= issued[stderr[i].from]
    BY NumbersTyped DEF OrderInv, IssuedBefore
  <2>. QED BY <1>1, <2>1
<1>4. PendingLater'
  BY <1>1, NumbersTyped DEF OrderInv, PendingLater
<1>5. \A c \in Buffers : Dumped(c)' = Dumped(c)
  BY <1>1 DEF Dumped, Current
<1>6. CASE ~Fits(b, size)
  <2>1. data' = data
    BY <1>6, DidNotFit
  <2>2. RecordsOrdered'
    <3>1. \A c \in Buffers : \A k \in 1 .. Len(data[c]) : data[c][k].message.number <= issued'[c]
      <4>. SUFFICES ASSUME NEW c \in Buffers, NEW k \in 1 .. Len(data[c])
                    PROVE  data[c][k].message.number <= issued'[c]
        OBVIOUS
      <4>1. data[c][k].message.number \in Nat /\ data[c][k].message.number <= issued[c] /\ c \in Sources
        BY NumbersTyped DEF OrderInv, RecordsOrdered
      <4>. QED BY <1>1, <4>1
    <3>. QED BY <2>1, <3>1 DEF OrderInv, RecordsOrdered
  <2>3. RecordsLater'
    BY <1>1, <1>5, <2>1 DEF OrderInv, RecordsLater
  <2>. QED BY <1>2, <1>3, <1>4, <2>2, <2>3 DEF OrderInv
<1>7. CASE Fits(b, size)
  <2> DEFINE record == [message |-> Message(b, level), at |-> write_position[b], size |-> size]
             n == Len(data[b])
  <2>1. /\ record \in RecordType /\ data'[b] = Append(data[b], record) /\ data[b] \in Seq(RecordType)
        /\ \A c \in Buffers \ {b} : data'[c] = data[c]
    BY <1>7, AppendedRecord, EntriesOf
  <2>2. record.message.from = b /\ record.message.number = issued'[b]
    BY <1>1 DEF Message
  <2>. HIDE DEF record
  <2>3. /\ n \in Nat /\ Len(data'[b]) = n + 1 /\ data'[b][n + 1] = record
        /\ \A k \in 1 .. n : data'[b][k] = data[b][k]
    BY <2>1, AppendProperties
  <2>4. \A k \in 1 .. n :
          /\ data[b][k].message.from = b /\ data[b][k].message.number \in Nat
          /\ data[b][k].message.number <= issued[b]
    BY NumbersTyped DEF OrderInv, RecordsOrdered
  <2>5. RecordsOrdered'
    <3>1. ASSUME NEW c \in Buffers \ {b}
          PROVE  /\ \A k \in 1 .. Len(data'[c]) :
                      data'[c][k].message.from = c /\ data'[c][k].message.number <= issued'[c]
                 /\ \A k, l \in 1 .. Len(data'[c]) :
                      k < l => data'[c][k].message.number < data'[c][l].message.number
      BY <1>1, <2>1, <3>1, NumbersTyped DEF OrderInv, RecordsOrdered
    <3>2. \A k \in 1 .. Len(data'[b]) :
            data'[b][k].message.from = b /\ data'[b][k].message.number <= issued'[b]
      <4>. SUFFICES ASSUME NEW k \in 1 .. Len(data'[b])
                    PROVE  data'[b][k].message.from = b /\ data'[b][k].message.number <= issued'[b]
        OBVIOUS
      <4>1. CASE k \in 1 .. n
        <5>1. data'[b][k] = data[b][k]
          BY <2>3, <4>1
        <5>2. /\ data[b][k].message.from = b /\ data[b][k].message.number \in Nat
              /\ data[b][k].message.number <= issued[b]
          BY <2>4, <4>1
        <5>. QED BY <1>1, <5>1, <5>2
      <4>2. CASE k = n + 1
        BY <1>1, <2>2, <2>3, <4>2
      <4>. QED BY <2>3, <4>1, <4>2
    <3>3. \A k, l \in 1 .. Len(data'[b]) : k < l => data'[b][k].message.number < data'[b][l].message.number
      <4>. SUFFICES ASSUME NEW k \in 1 .. Len(data'[b]), NEW l \in 1 .. Len(data'[b]), k < l
                    PROVE  data'[b][k].message.number < data'[b][l].message.number
        OBVIOUS
      <4>0. k \in 1 .. n
        BY <2>3
      <4>1. CASE l \in 1 .. n
        BY <2>3, <4>0, <4>1 DEF OrderInv, RecordsOrdered
      <4>2. CASE l = n + 1
        <5>1. data'[b][k] = data[b][k] /\ data'[b][l] = record
          BY <2>3, <4>0, <4>2
        <5>2. data[b][k].message.number \in Nat /\ data[b][k].message.number <= issued[b]
          BY <2>4, <4>0
        <5>. QED BY <1>1, <2>2, <5>1, <5>2
      <4>. QED BY <2>3, <4>1, <4>2
    <3>. QED BY <3>1, <3>2, <3>3 DEF RecordsOrdered
  <2>6. RecordsLater'
    <3>. SUFFICES ASSUME NEW c \in Buffers, ~Dumped(c),
                         NEW i \in 1 .. Len(stderr), NEW k \in 1 .. Len(data'[c]), stderr[i].from = c
                  PROVE  stderr[i].number < data'[c][k].message.number
      BY <1>1, <1>5 DEF RecordsLater
    <3>1. CASE c # b \/ k \in 1 .. n
      <4>1. k \in 1 .. Len(data[c]) /\ data'[c][k] = data[c][k]
        BY <2>1, <2>3, <3>1
      <4>. QED BY <4>1 DEF OrderInv, RecordsLater
    <3>2. CASE c = b /\ k = n + 1
      <4>1. stderr[i].number \in Nat /\ stderr[i].number <= issued[b]
        BY <3>2, NumbersTyped DEF OrderInv, IssuedBefore
      <4>2. data'[c][k] = record
        BY <2>3, <3>2
      <4>. QED BY <1>1, <2>2, <4>1, <4>2
    <3>. QED BY <2>3, <3>1, <3>2
  <2>. QED BY <1>2, <1>3, <1>4, <2>5, <2>6 DEF OrderInv
<1>. QED BY <1>6, <1>7

LEMMA ResetOrder ==
  ASSUME Shape, OrderInv, Reset
  PROVE  OrderInv'
<1>1. UNCHANGED <<stderr, issued, pc>>
  BY DEF Reset, sharedVars, threadVars
<1>2. /\ data'[Current] = <<>>
      /\ \A b \in Buffers \ {Current} : data'[b] = data[b]
  BY ResetEntries
<1>3. RecordsOrdered'
  BY <1>1, <1>2 DEF OrderInv, RecordsOrdered
<1>4. RecordsLater'
  BY <1>1, <1>2 DEF OrderInv, RecordsLater, Dumped
<1>. QED BY <1>1, <1>3, <1>4 DEF OrderInv, SourceOrder, IssuedBefore, PendingLater

LEMMA OtherOrder ==
  ASSUME Shape, OrderInv, UNCHANGED <<stderr, issued, data>>,
         \A t \in Threads : pc'[t] = "write" => pc[t] = "write",
         \A b \in Buffers : Dumped(b) => Dumped(b)'
  PROVE  OrderInv'
BY DEF OrderInv, SourceOrder, IssuedBefore, PendingLater, RecordsOrdered, RecordsLater

LEMMA StepKeepsOrder ==
  ASSUME Shape, OrderInv, [Next]_vars
  PROVE  OrderInv'
<1>1. CASE DrainBegin \/ Warn \/ CountDrained
  <2>1. UNCHANGED <<stderr, issued, data, pc>> /\ \A b \in Buffers : Dumped(b) => Dumped(b)'
    BY <1>1 DEF DrainBegin, Warn, CountDrained, sharedVars, threadVars, bufferVars, entryVars, Dumped, Current
  <2>. QED BY <2>1, OtherOrder
<1>2. ASSUME NEW t \in Threads, CountMessage(t) PROVE OrderInv'
  <2>1. /\ UNCHANGED <<stderr, issued, data>> /\ \A b \in Buffers : Dumped(b) => Dumped(b)'
        /\ \A u \in Threads : pc'[u] = "write" => pc[u] = "write"
    BY <1>2 DEF CountMessage, bufferVars, entryVars, drainVars, Dumped, Current, Shape, TypeOK
  <2>. QED BY <2>1, OtherOrder
<1>3. CASE \/ \E level \in Levels : SetLevel(level)
           \/ \E b \in Buffers : BufferCreate(b) \/ BufferDestroy(b)
           \/ UNCHANGED vars
  <2>1. UNCHANGED <<stderr, issued, data, pc>> /\ \A b \in Buffers : Dumped(b) => Dumped(b)'
    BY <1>3 DEF SetLevel, BufferCreate, BufferDestroy, vars, sharedVars, threadVars, bufferVars, entryVars, drainVars,
                Dumped, Current
  <2>. QED BY <2>1, OtherOrder
<1>. QED BY <1>1, <1>2, <1>3, WriteOrder, DumpOrder, LogOrder, BufferLogOrder, ResetOrder DEF Next, Drain

(* The messages of one source reach stderr in the order they were logged,   *)
(* and none twice.                                                          *)
THEOREM SourceOrderAlways == Spec => []SourceOrder
<1>1. Spec => []OrderInv
  BY Shaped, InitOrder, StepKeepsOrder, PTL DEF Spec
<1>2. OrderInv => SourceOrder
  BY DEF OrderInv
<1>. QED BY <1>1, <1>2, PTL

-----------------------------------------------------------------------------
(* What is lost.  A failed drain is remembered, stderr only grows, and what *)
(* has been put out without an error is all on stderr.                      *)

DumpedIsOut == drain_pc \in {"count", "reset"} /\ all_succeeded => InBuffer(Current) \subseteq OnStderr

SilenceInv == NothingLostInSilence /\ DumpedIsOut

LEMMA InitSilence == ASSUME Init PROVE SilenceInv
BY DEF Init, SilenceInv, NothingLostInSilence, DumpedIsOut, Untold, Warned

LEMMA FailureStays ==
  ASSUME Shape, [Next]_vars, NEW b \in Buffers, WriteFailed(b)
  PROVE  WriteFailed(b)'
<1>1. CASE UNCHANGED drainVars
  BY <1>1 DEF drainVars, WriteFailed, Draining
<1>2. CASE DrainBegin
  BY <1>2 DEF DrainBegin, WriteFailed, Draining
<1>3. CASE Warn \/ Dump \/ CountDrained
  <2>1. drain_pc # "idle" /\ drain_pc' # "idle" /\ UNCHANGED <<buffers, drain_failed>>
    BY <1>3 DEF Warn, Dump, CountDrained
  <2>2. \/ all_succeeded' = all_succeeded
        \/ \E ok \in BOOLEAN : all_succeeded' = Result(ok)
    BY <1>3 DEF Warn, Dump, CountDrained
  <2>3. ~all_succeeded => ~all_succeeded'
    BY <2>2 DEF Result
  <2>. QED BY <2>1, <2>3 DEF WriteFailed, Draining
<1>4. CASE Reset
  <2>1. CASE buffer_index < Len(buffers)
    BY <1>4, <2>1 DEF Reset, WriteFailed, Draining
  <2>2. CASE ~(buffer_index < Len(buffers))
    <3>1. drain_failed' = IF all_succeeded THEN drain_failed ELSE drain_failed \cup { buffers[i] : i \in 1 .. Len(buffers) }
      BY <1>4, <2>2 DEF Reset
    <3>. QED BY <3>1 DEF WriteFailed, Draining
  <2>. QED BY <2>1, <2>2
<1>5. ASSUME ~UNCHANGED drainVars PROVE DrainBegin \/ Warn \/ Dump \/ CountDrained \/ Reset
  BY <1>5 DEF Next, Drain, SetLevel, Log, WriteRecord, CountMessage, BufferCreate, BufferDestroy, LogToBuffer, vars
<1>. QED BY <1>1, <1>2, <1>3, <1>4, <1>5

LEMMA StderrGrows ==
  ASSUME Shape, [Next]_vars
  PROVE  OnStderr \subseteq OnStderr'
<1>1. /\ Len(stderr') \in Nat /\ Len(stderr) \in Nat /\ Len(stderr') >= Len(stderr)
      /\ \A i \in 1 .. Len(stderr) : stderr'[i] = stderr[i]
  <2>1. Len(stderr') \in Nat
    BY StepKeepsShape, StderrOf
  <2>. QED BY <2>1, StderrOf, StderrKept, WrittenToStderr, DumpedToStderr
<1>. QED BY <1>1 DEF OnStderr

LEMMA NothingThere ==
  ASSUME Shape, BufferHoldsItsRecords, NEW b \in Buffers, write_position[b] = 0
  PROVE  data[b] = <<>>
<1> DEFINE n == Len(data[b])
<1>1. data[b] \in Seq(RecordType) /\ n \in Nat /\ \A k \in 1 .. n : data[b][k] \in RecordType
  BY EntriesOf
<1>. SUFFICES ASSUME data[b] # <<>> PROVE FALSE
  OBVIOUS
<1>2. n \in 1 .. n
  BY <1>1, EmptySeq
<1>3. data[b][n].at \in Nat /\ data[b][n].size \in Sizes
  BY <1>1, <1>2 DEF RecordType
<1>4. data[b][n].at + data[b][n].size = 0
  <2>1. RecordsEnd(data[b]) = 0
    BY DEF BufferHoldsItsRecords
  <2>. QED BY <2>1 DEF RecordsEnd
<1>5. data[b][n].size \in Nat /\ data[b][n].size # 0
  BY <1>3, LogAssumption
<1>. QED BY <1>3, <1>4, <1>5

LEMMA StepKeepsDumpedIsOut ==
  ASSUME Shape, BufferHoldsItsRecords, SilenceInv, [Next]_vars
  PROVE  DumpedIsOut'
<1>1. CASE Dump
  <2> DEFINE b == Current
             n == Len(data[b])
             m == Len(stderr)
  <2>1. /\ UNCHANGED <<data, buffers, buffer_index>> /\ b' = b /\ b \in Buffers
        /\ n \in Nat /\ m \in Nat
    BY <1>1, DumpedToStderr, EntriesOf, StderrOf DEF Dump, bufferVars, entryVars, Current
  <2>2. CASE write_position[b] = 0
    <3>1. data[b] = <<>>
      BY <2>1, <2>2, NothingThere
    <3>2. InBuffer(b)' = {}
      BY <2>1, <3>1 DEF InBuffer
    <3>. QED BY <2>1, <3>2 DEF DumpedIsOut
  <2>3. ASSUME stderr' = stderr \o FirstMessages(b, n) PROVE DumpedIsOut'
    <3> DEFINE f == FirstMessages(b, n)
    <3>1. f \in Seq(MessageType) /\ Len(f) = n /\ \A i \in 1 .. n : f[i] = data[b][i].message
      BY <2>1, FirstMessagesTyped DEF Shape
    <3>. HIDE DEF f, n, m, b
    <3>2. stderr' = stderr \o f /\ stderr \in Seq(MessageType)
      BY <2>3, StderrOf DEF f, n
    <3>3. Len(stderr') = m + n /\ \A i \in 1 .. m + n : stderr'[i] = IF i <= m THEN stderr[i] ELSE f[i - m]
      BY <3>1, <3>2, ConcatProperties DEF m
    <3>4. ASSUME NEW i \in 1 .. n PROVE data[b][i].message \in OnStderr'
      <4>1. m + i \in 1 .. m + n /\ ~(m + i <= m) /\ m + i - m = i
        BY <2>1
      <4>2. stderr'[m + i] = data[b][i].message
        <5>1. stderr'[m + i] = f[m + i - m]
          BY <2>1, <3>3, <4>1
        <5>. QED BY <3>1, <4>1, <5>1
      <4>. QED BY <3>3, <4>1, <4>2 DEF OnStderr
    <3>5. InBuffer(b) \subseteq OnStderr'
      BY <3>4 DEF InBuffer, n
    <3>6. InBuffer(Current)' = InBuffer(b)
      BY <2>1 DEF InBuffer, b
    <3>. QED BY <3>5, <3>6 DEF DumpedIsOut
  <2>4. CASE all_succeeded' /\ write_position[b] # 0
    <3>1. stderr' = stderr \o FirstMessages(b, n)
      BY <1>1, <2>4 DEF Dump, Result
    <3>. QED BY <2>3, <3>1
  <2>. QED BY <2>2, <2>4 DEF DumpedIsOut
<1>2. CASE CountDrained
  <2>1. drain_pc = "count" /\ UNCHANGED <<stderr, data, buffers, buffer_index, all_succeeded>>
    BY <1>2 DEF CountDrained, bufferVars, entryVars
  <2>2. InBuffer(Current)' = InBuffer(Current) /\ OnStderr' = OnStderr
    BY <2>1 DEF InBuffer, OnStderr, Current
  <2>. QED BY <2>1, <2>2 DEF SilenceInv, DumpedIsOut
<1>3. CASE DrainBegin \/ Warn \/ Reset
  BY <1>3 DEF DrainBegin, Warn, Reset, DumpedIsOut
<1>4. ASSUME NEW b \in Buffers, NEW level \in Levels, NEW size \in Sizes, LogToBuffer(b, level, size)
      PROVE  DumpedIsOut'
  <2>. SUFFICES ASSUME drain_pc \in {"count", "reset"}, all_succeeded PROVE InBuffer(Current)' \subseteq OnStderr'
    BY <1>4 DEF LogToBuffer, drainVars, DumpedIsOut
  <2>1. Current \in Buffers /\ Draining(Current)
    BY CurrentTyped DEF Shape
  <2>2. b # Current /\ Current' = Current
    BY <1>4, <2>1 DEF LogToBuffer, Usable, drainVars, Current
  <2>3. data'[Current] = data[Current] /\ UNCHANGED stderr
    BY <1>4, <2>1, <2>2, AppendedRecord, DidNotFit DEF LogToBuffer, sharedVars
  <2>4. InBuffer(Current)' = InBuffer(Current) /\ OnStderr' = OnStderr
    BY <2>2, <2>3 DEF InBuffer, OnStderr
  <2>. QED BY <2>4 DEF SilenceInv, DumpedIsOut
<1>5. CASE UNCHANGED <<drainVars, data>>
  <2>1. UNCHANGED <<drain_pc, all_succeeded>> /\ InBuffer(Current)' = InBuffer(Current)
    BY <1>5 DEF drainVars, InBuffer, Current
  <2>. QED BY <2>1, StderrGrows DEF SilenceInv, DumpedIsOut
<1>6. ASSUME ~UNCHANGED <<drainVars, data>>,
             \A b \in Buffers, level \in Levels, size \in Sizes : ~LogToBuffer(b, level, size)
      PROVE  DrainBegin \/ Warn \/ Dump \/ CountDrained \/ Reset
  BY <1>6 DEF Next, Drain, SetLevel, Log, WriteRecord, CountMessage, BufferCreate, BufferDestroy, vars, bufferVars,
              entryVars
<1>. QED BY <1>1, <1>2, <1>3, <1>4, <1>5, <1>6

\* What is said of one buffer.
KeptOrTold(b) ==
  ~WriteFailed(b) =>
    /\ stored[b] \subseteq InBuffer(b) \cup OnStderr
    /\ overflowed[b] = announced[b] + Untold(b)

LEMMA CountsTyped ==
  ASSUME Shape
  PROVE  /\ stored \in [Buffers -> SUBSET MessageType]
         /\ overflowed \in [Buffers -> Nat] /\ announced \in [Buffers -> Nat]
         /\ overflow_count \in [Buffers -> Nat]
BY DEF Shape, TypeOK

LEMMA BufferLogKeeps ==
  ASSUME Shape, SilenceInv, [Next]_vars, NEW c \in Buffers,
         NEW b \in Buffers, NEW level \in Levels, NEW size \in Sizes, LogToBuffer(b, level, size)
  PROVE  KeptOrTold(c)'
<1>1. /\ UNCHANGED <<announced, drain_pc, buffers, buffer_index>>
      /\ \A d \in Buffers : Warned(d)' = Warned(d)
  BY DEF LogToBuffer, drainVars, Warned, Current
<1>2. ~Warned(b)
  BY CurrentTyped DEF LogToBuffer, Usable, Warned, Shape
<1>3. OnStderr \subseteq OnStderr' /\ (WriteFailed(c) => WriteFailed(c)')
  BY StderrGrows, FailureStays
<1>4. KeptOrTold(c)
  BY DEF SilenceInv, NothingLostInSilence, KeptOrTold
<1>5. CASE Fits(b, size)
  <2> DEFINE record == [message |-> Message(b, level), at |-> write_position[b], size |-> size]
  <2>1. /\ record \in RecordType /\ data'[b] = Append(data[b], record) /\ data[b] \in Seq(RecordType)
        /\ overflow_count'[b] = overflow_count[b]
        /\ \A d \in Buffers \ {b} : data'[d] = data[d] /\ overflow_count'[d] = overflow_count[d]
    BY <1>5, AppendedRecord, EntriesOf
  <2>2. stored'[c] = (IF c = b THEN stored[b] \cup {record.message} ELSE stored[c]) /\ overflowed' = overflowed
    BY <1>5, CountsTyped DEF LogToBuffer
  <2>. HIDE DEF record
  <2>3. Untold(c)' = Untold(c)
    BY <1>1, <2>1 DEF Untold
  <2>4. CASE c # b
    <3>1. InBuffer(c)' = InBuffer(c)
      BY <2>1, <2>4 DEF InBuffer
    <3>. QED BY <1>1, <1>3, <1>4, <2>2, <2>3, <2>4, <3>1 DEF KeptOrTold
  <2>5. CASE c = b
    <3>1. InBuffer(b) \cup {record.message} \subseteq InBuffer(b)'
      <4>1. /\ Len(data[b]) \in Nat /\ Len(data'[b]) = Len(data[b]) + 1
            /\ data'[b][Len(data[b]) + 1] = record
            /\ \A k \in 1 .. Len(data[b]) : data'[b][k] = data[b][k]
        BY <2>1, AppendProperties
      <4>2. /\ Len(data[b]) + 1 \in 1 .. Len(data'[b])
            /\ \A k \in 1 .. Len(data[b]) : k \in 1 .. Len(data'[b])
        BY <4>1
      <4>. QED BY <4>1, <4>2 DEF InBuffer
    <3>. QED BY <1>1, <1>3, <1>4, <2>2, <2>3, <2>5, <3>1 DEF KeptOrTold
  <2>. QED BY <2>4, <2>5
<1>6. CASE ~Fits(b, size)
  <2>1. UNCHANGED <<data, stored>> /\ InBuffer(c)' = InBuffer(c)
    BY <1>6, DidNotFit DEF InBuffer
  <2>2. /\ overflow_count' = [overflow_count EXCEPT ![b] = @ + 1]
        /\ overflowed' = [overflowed EXCEPT ![b] = @ + 1]
    BY <1>6 DEF LogToBuffer
  <2>3. CASE c = b
    <3>1. overflowed'[b] = overflowed[b] + 1 /\ Untold(b)' = Untold(b) + 1 /\ Untold(b) \in Nat
      BY <1>1, <1>2, <2>2, CountsTyped DEF Untold
    <3>. QED BY <1>1, <1>3, <1>4, <2>1, <2>3, <3>1, CountsTyped DEF KeptOrTold
  <2>4. CASE c # b
    <3>1. overflowed'[c] = overflowed[c] /\ Untold(c)' = Untold(c)
      BY <1>1, <2>2, <2>4, CountsTyped DEF Untold
    <3>. QED BY <1>1, <1>3, <1>4, <2>1, <3>1 DEF KeptOrTold
  <2>. QED BY <2>3, <2>4
<1>. QED BY <1>5, <1>6

LEMMA WarnKeeps ==
  ASSUME Shape, SilenceInv, [Next]_vars, NEW c \in Buffers, Warn
  PROVE  KeptOrTold(c)'
<1>1. /\ UNCHANGED <<data, stderr, stored, overflowed, overflow_count, buffers, buffer_index>>
      /\ drain_pc = "warn" /\ drain_pc' = "dump" /\ Current' = Current
      /\ Current \in Buffers /\ Draining(Current) /\ Draining(Current)'
      /\ overflow_count[Current] \in Nat
  BY CurrentTyped, EntriesOf DEF Warn, sharedVars, entryVars, Shape, Current, Draining
<1>2. InBuffer(c)' = InBuffer(c) /\ OnStderr' = OnStderr
  BY <1>1 DEF InBuffer, OnStderr
<1>3. KeptOrTold(c) /\ (WriteFailed(c) => WriteFailed(c)')
  BY FailureStays DEF SilenceInv, NothingLostInSilence, KeptOrTold
<1>4. Untold(c) = overflow_count[c] /\ Untold(c)' = IF c = Current THEN 0 ELSE overflow_count[c]
  BY <1>1 DEF Untold, Warned
<1>5. CASE c # Current
  <2>1. \/ announced' = announced
        \/ announced' = [announced EXCEPT ![Current] = @ + overflow_count[Current]]
    BY DEF Warn
  <2>2. announced'[c] = announced[c]
    BY <1>5, <2>1, CountsTyped
  <2>. QED BY <1>1, <1>2, <1>3, <1>4, <1>5, <2>2 DEF KeptOrTold
<1>6. CASE c = Current
  <2>1. CASE announced'[c] = announced[c] + overflow_count[c]
    BY <1>1, <1>2, <1>3, <1>4, <1>6, <2>1, CountsTyped DEF KeptOrTold
  <2>2. CASE all_succeeded' = FALSE
    BY <1>1, <1>6, <2>2 DEF KeptOrTold, WriteFailed
  <2>3. announced'[c] = announced[c] + overflow_count[c] \/ all_succeeded' = FALSE
    <3>1. \/ overflow_count[Current] = 0 /\ announced' = announced
          \/ announced' = [announced EXCEPT ![Current] = @ + overflow_count[Current]]
          \/ all_succeeded' = FALSE
      BY <1>1 DEF Warn, Result
    <3>. QED BY <1>6, <3>1, CountsTyped
  <2>. QED BY <2>1, <2>2, <2>3
<1>. QED BY <1>5, <1>6

LEMMA ResetKeeps ==
  ASSUME Shape, SilenceInv, [Next]_vars, NEW c \in Buffers, Reset
  PROVE  KeptOrTold(c)'
<1>1. /\ UNCHANGED <<stderr, stored, overflowed, announced>>
      /\ drain_pc = "reset" /\ drain_pc' \in {"warn", "idle"}
  BY DEF Reset, sharedVars
<1>2. /\ Current \in Buffers /\ Draining(Current)
      /\ data'[Current] = <<>> /\ overflow_count'[Current] = 0
      /\ \A b \in Buffers \ {Current} : data'[b] = data[b] /\ overflow_count'[b] = overflow_count[b]
  BY ResetEntries
<1>3. OnStderr' = OnStderr
  BY <1>1 DEF OnStderr
<1>4. KeptOrTold(c) /\ (WriteFailed(c) => WriteFailed(c)')
  BY FailureStays DEF SilenceInv, NothingLostInSilence, KeptOrTold
<1>5. Untold(c) = (IF c = Current THEN 0 ELSE overflow_count[c]) /\ Untold(c)' = overflow_count'[c]
  BY <1>1 DEF Untold, Warned
<1>6. CASE c # Current
  <2>1. InBuffer(c)' = InBuffer(c)
    BY <1>2, <1>6 DEF InBuffer
  <2>. QED BY <1>1, <1>2, <1>3, <1>4, <1>5, <1>6, <2>1 DEF KeptOrTold
<1>7. CASE c = Current
  <2>1. CASE ~all_succeeded
    BY <1>2, <1>4, <1>7, <2>1 DEF WriteFailed, KeptOrTold
  <2>2. CASE all_succeeded
    <3>1. InBuffer(c) \subseteq OnStderr
      BY <1>1, <1>7, <2>2 DEF SilenceInv, DumpedIsOut
    <3>. QED BY <1>1, <1>2, <1>3, <1>4, <1>5, <1>7, <3>1, CountsTyped DEF KeptOrTold
  <2>. QED BY <2>1, <2>2, CountsTyped
<1>. QED BY <1>6, <1>7

LEMMA OtherKeeps ==
  ASSUME Shape, SilenceInv, [Next]_vars, NEW c \in Buffers,
         UNCHANGED <<data, stored, overflowed, announced, overflow_count>>,
         Warned(c)' = Warned(c)
  PROVE  KeptOrTold(c)'
<1>1. InBuffer(c)' = InBuffer(c) /\ Untold(c)' = Untold(c)
  BY DEF InBuffer, Untold
<1>. QED BY <1>1, StderrGrows, FailureStays DEF SilenceInv, NothingLostInSilence, KeptOrTold

LEMMA StepKeepsSilence ==
  ASSUME Shape, BufferHoldsItsRecords, SilenceInv, [Next]_vars
  PROVE  SilenceInv'
<1>1. ASSUME NEW c \in Buffers PROVE KeptOrTold(c)'
  <2>1. CASE DrainBegin \/ Dump \/ CountDrained
    <3>1. UNCHANGED <<data, stored, overflowed, announced, overflow_count>> /\ Warned(c)' = Warned(c)
      BY <2>1 DEF DrainBegin, Dump, CountDrained, bufferVars, entryVars, Warned, Current
    <3>. QED BY <3>1, OtherKeeps
  <2>2. CASE UNCHANGED <<drainVars, entryVars, stored, overflowed, announced>>
    <3>1. UNCHANGED <<data, stored, overflowed, announced, overflow_count>> /\ Warned(c)' = Warned(c)
      BY <2>2 DEF drainVars, entryVars, Warned, Current
    <3>. QED BY <3>1, OtherKeeps
  <2>3. ASSUME ~UNCHANGED <<drainVars, entryVars, stored, overflowed, announced>>,
               \A b \in Buffers, level \in Levels, size \in Sizes : ~LogToBuffer(b, level, size)
        PROVE  DrainBegin \/ Warn \/ Dump \/ CountDrained \/ Reset
    BY <2>3 DEF Next, Drain, SetLevel, Log, WriteRecord, CountMessage, BufferCreate, BufferDestroy, vars, bufferVars
  <2>. QED BY <2>1, <2>2, <2>3, BufferLogKeeps, WarnKeeps, ResetKeeps
<1>2. NothingLostInSilence'
  BY <1>1 DEF NothingLostInSilence, KeptOrTold
<1>. QED BY <1>2, StepKeepsDumpedIsOut DEF SilenceInv

(* Every message a buffer took is in it or on stderr, and every one it had  *)
(* no room for is counted or told, unless a drain of it returned false.     *)
THEOREM NothingLostInSilenceAlways == Spec => []NothingLostInSilence
<1>1. Spec => []SilenceInv
  BY Shaped, BufferHoldsItsRecordsAlways, InitSilence, StepKeepsSilence, PTL DEF Spec
<1>2. SilenceInv => NothingLostInSilence
  BY DEF SilenceInv
<1>. QED BY <1>1, <1>2, PTL

-----------------------------------------------------------------------------
(* The counter.  Messages yet to be counted are those of threads between    *)
(* their write and their increment, and those of the buffer just put out.   *)

Counting == { t \in Threads : pc[t] = "count" }
DrainCounting == IF drain_pc = "count" THEN entry_count[Current] ELSE 0

AllGood == \A b \in Buffers : ~WriteFailed(b)

LEMMA CountingTyped ==
  ASSUME Shape
  PROVE  /\ IsFiniteSet(Counting) /\ Cardinality(Counting) \in Nat
         /\ DrainCounting \in Nat /\ log_messages_written \in Nat /\ Len(stderr) \in Nat
         /\ Uncounted = Cardinality(Counting) + DrainCounting
         /\ pc \in [Threads -> {"idle", "write", "count"}]
<1>1. IsFiniteSet(Counting) /\ Cardinality(Counting) \in Nat
  BY LogAssumption, FS_Subset, FS_CardinalityType DEF Counting
<1>2. DrainCounting \in Nat
  BY EntriesOf, CurrentTyped DEF DrainCounting, Shape
<1>3. log_messages_written \in Nat /\ pc \in [Threads -> {"idle", "write", "count"}]
  BY DEF Shape, TypeOK
<1>. QED BY <1>1, <1>2, <1>3, StderrOf DEF Uncounted, Counting, DrainCounting

LEMMA InitCounter == ASSUME Init PROVE CounterNeverAhead
<1>1. Counting = {} /\ DrainCounting = 0
  BY DEF Init, Counting, DrainCounting
<1>2. Cardinality({ t \in Threads : pc[t] = "count" }) = 0
  BY <1>1, FS_EmptySet DEF Counting
<1>. QED BY <1>1, <1>2 DEF Init, CounterNeverAhead, Uncounted, DrainCounting

LEMMA GoodBefore ==
  ASSUME Shape, [Next]_vars, AllGood'
  PROVE  AllGood
BY FailureStays DEF AllGood

LEMMA ThreadCounter ==
  ASSUME Shape, Shape', [Next]_vars, NEW t \in Threads,
         (\E level \in Levels : Log(t, level)) \/ WriteRecord(t) \/ CountMessage(t)
  PROVE  /\ DrainCounting' = DrainCounting
         /\ log_messages_written' + Cardinality(Counting') - Len(stderr')
              <= log_messages_written + Cardinality(Counting) - Len(stderr)
<1>1. /\ pc \in [Threads -> {"idle", "write", "count"}] /\ IsFiniteSet(Counting)
      /\ Cardinality(Counting) \in Nat /\ log_messages_written \in Nat /\ Len(stderr) \in Nat
      /\ Len(stderr') \in Nat /\ stderr \in Seq(MessageType)
  BY CountingTyped, StderrOf
<1>2. DrainCounting' = DrainCounting
  BY DEF Log, WriteRecord, CountMessage, bufferVars, entryVars, drainVars, DrainCounting, Current
<1>3. ASSUME NEW level \in Levels, Log(t, level)
      PROVE  log_messages_written' = log_messages_written /\ Counting' = Counting /\ stderr' = stderr
  BY <1>1, <1>3 DEF Log, sharedVars, Counting
<1>4. CASE WriteRecord(t) /\ pc'[t] = "count"
  <2>1. /\ stderr' = Append(stderr, message[t]) /\ log_messages_written' = log_messages_written
        /\ pc[t] = "write" /\ pc' = [pc EXCEPT ![t] = "count"]
    BY <1>1, <1>4 DEF WriteRecord, AfterWrite
  <2>2. message[t] \in MessageType
    BY <1>4, WrittenToStderr
  <2>3. Len(stderr') = Len(stderr) + 1
    BY <1>1, <2>1, <2>2, AppendProperties
  <2>4. t \notin Counting /\ Counting' = Counting \cup {t}
    BY <1>1, <2>1 DEF Counting
  <2>5. Cardinality(Counting') = Cardinality(Counting) + 1
    BY <1>1, <2>4, FS_AddElement
  <2>. QED BY <1>1, <1>2, <2>1, <2>3, <2>5
<1>5. CASE WriteRecord(t) /\ pc'[t] # "count"
  <2>1. /\ log_messages_written' = log_messages_written /\ pc[t] = "write" /\ pc' = [pc EXCEPT ![t] = "idle"]
    BY <1>1, <1>5 DEF WriteRecord, AfterWrite
  <2>2. Counting' = Counting
    BY <1>1, <2>1 DEF Counting
  <2>3. Len(stderr') >= Len(stderr)
    BY <1>5, WrittenToStderr
  <2>. QED BY <1>1, <1>2, <2>1, <2>2, <2>3
<1>6. CASE CountMessage(t)
  <2>1. /\ log_messages_written' = log_messages_written + 1 /\ stderr' = stderr
        /\ pc[t] = "count" /\ pc' = [pc EXCEPT ![t] = "idle"]
    BY <1>6 DEF CountMessage
  <2>2. t \in Counting /\ Counting' = Counting \ {t}
    BY <1>1, <2>1 DEF Counting
  <2>3. Cardinality(Counting') = Cardinality(Counting) - 1
    BY <1>1, <2>2, FS_RemoveElement
  <2>. QED BY <1>1, <1>2, <2>1, <2>3
<1>. QED BY <1>1, <1>2, <1>3, <1>4, <1>5, <1>6

LEMMA DrainCounter ==
  ASSUME Shape, Shape', BufferHoldsItsRecords, [Next]_vars, AllGood', Dump \/ CountDrained
  PROVE  /\ Counting' = Counting
         /\ log_messages_written' + DrainCounting' - Len(stderr')
              <= log_messages_written + DrainCounting - Len(stderr)
<1>1. /\ log_messages_written \in Nat /\ DrainCounting \in Nat /\ Len(stderr) \in Nat
      /\ Current \in Buffers /\ Draining(Current) /\ entry_count[Current] \in Nat
  BY CountingTyped, CurrentTyped, EntriesOf DEF Shape, Dump, CountDrained
<1>2. /\ Counting' = Counting /\ Current' = Current /\ UNCHANGED <<entry_count, buffers>>
      /\ drain_pc' # "idle"
  BY DEF Dump, CountDrained, threadVars, bufferVars, entryVars, Counting, Current
<1>3. CASE CountDrained
  <2>1. /\ log_messages_written' = log_messages_written + entry_count[Current] /\ stderr' = stderr
        /\ drain_pc = "count" /\ drain_pc' = "reset"
    BY <1>3 DEF CountDrained
  <2>. QED BY <1>1, <1>2, <2>1 DEF DrainCounting
<1>4. CASE Dump
  <2>1. log_messages_written' = log_messages_written /\ drain_pc = "dump"
    BY <1>4 DEF Dump
  <2>2. all_succeeded'
    BY <1>1, <1>2 DEF AllGood, WriteFailed, Draining
  <2>3. CASE write_position[Current] = 0
    <3>1. stderr' = stderr /\ drain_pc' = "reset"
      <4>1. write_position[Current] \in Nat
        BY <1>1, EntriesOf
      <4>. QED BY <1>4, <2>3, <4>1 DEF Dump
    <3>. QED BY <1>1, <1>2, <2>1, <3>1 DEF DrainCounting
  <2>4. CASE write_position[Current] # 0
    <3>1. /\ stderr' = stderr \o FirstMessages(Current, Len(data[Current]))
          /\ drain_pc' = "count"
      BY <1>4, <2>2, <2>4 DEF Dump, Result
    <3>2. entry_count[Current] = Len(data[Current])
      BY <1>1 DEF BufferHoldsItsRecords
    <3>3. /\ FirstMessages(Current, Len(data[Current])) \in Seq(MessageType)
          /\ Len(FirstMessages(Current, Len(data[Current]))) = Len(data[Current])
      <4>1. Len(data[Current]) \in 0 .. Len(data[Current])
        BY <1>1, <3>2
      <4>. QED BY <1>1, <4>1, FirstMessagesTyped DEF Shape
    <3>4. Len(stderr') = Len(stderr) + entry_count[Current]
      <4> DEFINE f == FirstMessages(Current, Len(data[Current]))
      <4>1. f \in Seq(MessageType) /\ Len(f) = entry_count[Current] /\ stderr' = stderr \o f
        BY <3>1, <3>2, <3>3
      <4>. HIDE DEF f
      <4>. QED BY <4>1, StderrOf, ConcatProperties
    <3>5. DrainCounting' = entry_count[Current] /\ DrainCounting = 0
      BY <1>2, <2>1, <3>1 DEF DrainCounting
    <3>. QED BY <1>1, <1>2, <2>1, <3>4, <3>5
  <2>. QED BY <2>3, <2>4
<1>. QED BY <1>3, <1>4

LEMMA OtherCounter ==
  ASSUME Shape, [Next]_vars, ~Dump, ~CountDrained,
         \A t \in Threads : (\A level \in Levels : ~Log(t, level)) /\ ~WriteRecord(t) /\ ~CountMessage(t)
  PROVE  UNCHANGED <<log_messages_written, Counting, DrainCounting, stderr>>
<1>1. UNCHANGED <<log_messages_written, pc, stderr>>
  BY DEF Next, Drain, SetLevel, BufferCreate, BufferDestroy, LogToBuffer, DrainBegin, Warn, Reset, vars, sharedVars,
         threadVars
<1>2. ASSUME DrainBegin \/ Warn \/ Reset PROVE DrainCounting' = DrainCounting
  <2>1. drain_pc # "count" /\ drain_pc' # "count"
    BY <1>2 DEF DrainBegin, Warn, Reset
  <2>. QED BY <2>1 DEF DrainCounting
<1>3. ASSUME NEW b \in Buffers, NEW level \in Levels, NEW size \in Sizes, LogToBuffer(b, level, size)
      PROVE  DrainCounting' = DrainCounting
  <2>1. UNCHANGED <<drain_pc, buffers, buffer_index>> /\ Current' = Current
    BY <1>3 DEF LogToBuffer, drainVars, Current
  <2>2. CASE drain_pc = "count"
    <3>1. Current \in Buffers /\ b # Current
      BY <1>3, <2>2, CurrentTyped DEF LogToBuffer, Usable, Shape
    <3>2. entry_count'[Current] = entry_count[Current]
      BY <1>3, <3>1, AppendedRecord, DidNotFit
    <3>. QED BY <2>1, <3>2 DEF DrainCounting
  <2>3. CASE drain_pc # "count"
    BY <2>1, <2>3 DEF DrainCounting
  <2>. QED BY <2>2, <2>3
<1>4. ASSUME UNCHANGED <<entry_count, drainVars>> PROVE DrainCounting' = DrainCounting
  <2>1. UNCHANGED <<entry_count, drain_pc>> /\ Current' = Current
    BY <1>4 DEF drainVars, Current
  <2>. QED BY <2>1 DEF DrainCounting
<1>5. ASSUME ~UNCHANGED <<entry_count, drainVars>>,
             \A b \in Buffers, level \in Levels, size \in Sizes : ~LogToBuffer(b, level, size)
      PROVE  DrainBegin \/ Warn \/ Reset
  BY <1>5 DEF Next, Drain, SetLevel, BufferCreate, BufferDestroy, vars, bufferVars, entryVars
<1>. QED BY <1>1, <1>2, <1>3, <1>4, <1>5 DEF Counting

LEMMA StepKeepsCounter ==
  ASSUME Shape, Shape', BufferHoldsItsRecords, CounterNeverAhead, [Next]_vars
  PROVE  CounterNeverAhead'
<1>1. /\ Cardinality(Counting) \in Nat /\ DrainCounting \in Nat
      /\ log_messages_written \in Nat /\ Len(stderr) \in Nat
      /\ Uncounted = Cardinality(Counting) + DrainCounting
  BY CountingTyped
<1>2. /\ Cardinality(Counting') \in Nat /\ DrainCounting' \in Nat
      /\ log_messages_written' \in Nat /\ Len(stderr') \in Nat
      /\ Uncounted' = Cardinality(Counting') + DrainCounting'
  <2>1. Cardinality(Counting') \in Nat
    <3>1. Counting' \subseteq Threads
      BY DEF Counting
    <3>. QED BY <3>1, LogAssumption, FS_Subset, FS_CardinalityType
  <2>2. /\ log_messages_written' \in Nat /\ stderr' \in Seq(MessageType)
        /\ entry_count' \in [Buffers -> Nat] /\ buffers' \in Seq(Buffers)
        /\ drain_pc' # "idle" => buffer_index' \in 1 .. Len(buffers')
    BY DEF Shape, TypeOK, DrainShape
  <2>3. DrainCounting' \in Nat
    BY <2>2 DEF DrainCounting, Current
  <2>. QED BY <2>1, <2>2, <2>3 DEF Uncounted, Counting, DrainCounting
<1>. SUFFICES ASSUME AllGood' PROVE log_messages_written' + Uncounted' <= Len(stderr')
  BY DEF CounterNeverAhead, AllGood
<1>3. log_messages_written + (Cardinality(Counting) + DrainCounting) <= Len(stderr)
  BY <1>1, GoodBefore DEF CounterNeverAhead, AllGood
<1>4. ASSUME NEW t \in Threads, (\E level \in Levels : Log(t, level)) \/ WriteRecord(t) \/ CountMessage(t)
      PROVE  log_messages_written' + Uncounted' <= Len(stderr')
  <2>1. /\ DrainCounting' = DrainCounting
        /\ log_messages_written' + Cardinality(Counting') - Len(stderr')
             <= log_messages_written + Cardinality(Counting) - Len(stderr)
    BY <1>4, ThreadCounter
  <2>. QED BY <1>1, <1>2, <1>3, <2>1
<1>5. CASE Dump \/ CountDrained
  <2>1. log_messages_written' + DrainCounting' - Len(stderr') <= log_messages_written + DrainCounting - Len(stderr)
    BY <1>5, DrainCounter
  <2>2. Cardinality(Counting') = Cardinality(Counting)
    <3>1. Counting' = Counting
      BY <1>5, DrainCounter
    <3>. QED BY <3>1
  <2>3. \A w, c, d, l, w1, c1, d1, l1 \in Nat :
          w + (c + d) <= l /\ w1 + d1 - l1 <= w + d - l /\ c1 = c => w1 + (c1 + d1) <= l1
    OBVIOUS
  <2>4. log_messages_written' + (Cardinality(Counting') + DrainCounting') <= Len(stderr')
    BY <1>1, <1>2, <1>3, <2>1, <2>2, <2>3
  <2>. QED BY <1>2, <2>4
<1>6. CASE UNCHANGED <<log_messages_written, Counting, DrainCounting, stderr>>
  BY <1>1, <1>2, <1>3, <1>6
<1>. QED BY <1>4, <1>5, <1>6, OtherCounter

(* As long as no drain has failed, the count of messages written, with      *)
(* those about to be counted, never exceeds the messages on stderr.         *)
THEOREM CounterNeverAheadAlways == Spec => []CounterNeverAhead
<1>1. CounterNeverAhead /\ Shape /\ Shape' /\ BufferHoldsItsRecords /\ [Next]_vars => CounterNeverAhead'
  BY StepKeepsCounter
<1>. QED BY <1>1, Shaped, BufferHoldsItsRecordsAlways, InitCounter, PTL DEF Spec
-----------------------------------------------------------------------------
(* Progress.  A drain takes its buffers one after the other, and leaves     *)
(* every one of them empty, whichever of its writes failed.                 *)

Stage == [warn |-> 1, dump |-> 2, count |-> 3, reset |-> 4]

\* A drain under way stays where it is while others work, goes on with its
\* buffer, goes to the next one, or is done with the last.
DrainAdvances ==
  drain_pc # "idle" =>
    \/ UNCHANGED <<drain_pc, buffers, buffer_index>>
    \/ drain_pc' # "idle" /\ Stage[drain_pc'] > Stage[drain_pc] /\ UNCHANGED <<buffers, buffer_index>>
    \/ /\ drain_pc = "reset" /\ drain_pc' = "warn" /\ UNCHANGED buffers
       /\ buffer_index' = buffer_index + 1 /\ buffer_index' <= Len(buffers)
    \/ drain_pc = "reset" /\ drain_pc' = "idle" /\ buffer_index = Len(buffers)

\* Which steps are the drain's.
LEMMA DrainAlone ==
  ASSUME [Next]_vars, drain_pc # "idle", ~Warn, ~Dump, ~CountDrained, ~Reset
  PROVE  UNCHANGED <<drain_pc, buffers, buffer_index>>
BY DEF Next, Drain, SetLevel, Log, WriteRecord, CountMessage, BufferCreate, BufferDestroy, LogToBuffer, DrainBegin,
       vars, drainVars

(* bc_runtime_log_drain goes through its array once, each buffer through    *)
(* warning, writing, counting and emptying in this order, whatever the      *)
(* threads and workers log meanwhile and whatever write fails.              *)
THEOREM DrainsAdvance == Spec => [][DrainAdvances]_vars
<1>1. Shape /\ [Next]_vars => [DrainAdvances]_vars
  <2>. SUFFICES ASSUME Shape, [Next]_vars, drain_pc # "idle" PROVE DrainAdvances
    BY DEF DrainAdvances
  <2>0. /\ Stage["dump"] > Stage["warn"] /\ Stage["count"] > Stage["dump"]
        /\ Stage["reset"] > Stage["dump"] /\ Stage["reset"] > Stage["count"]
    BY DEF Stage
  <2>1. CASE Warn
    BY <2>0, <2>1 DEF Warn, DrainAdvances
  <2>2. CASE Dump
    BY <2>0, <2>2 DEF Dump, DrainAdvances
  <2>3. CASE CountDrained
    BY <2>0, <2>3 DEF CountDrained, DrainAdvances
  <2>4. CASE Reset
    <3>1. buffer_index \in Nat /\ Len(buffers) \in Nat /\ buffer_index <= Len(buffers)
      BY DEF Shape, TypeOK, DrainShape
    <3>2. CASE buffer_index < Len(buffers)
      BY <2>4, <3>1, <3>2 DEF Reset, DrainAdvances
    <3>3. CASE ~(buffer_index < Len(buffers))
      BY <2>4, <3>1, <3>3 DEF Reset, DrainAdvances
    <3>. QED BY <3>2, <3>3
  <2>. QED BY <2>1, <2>2, <2>3, <2>4, DrainAlone DEF DrainAdvances
<1>. QED BY <1>1, Shaped, PTL DEF Spec

IsEmpty(b) == data[b] = <<>> /\ write_position[b] = 0 /\ entry_count[b] = 0 /\ overflow_count[b] = 0

\* The buffers a drain is done with.
DrainedAreEmpty == drain_pc # "idle" => \A i \in 1 .. buffer_index - 1 : IsEmpty(buffers[i])

\* The step with which a drain returns.
DrainLeavesAllEmpty ==
  drain_pc # "idle" /\ drain_pc' = "idle" =>
    \A i \in 1 .. Len(buffers) :
      /\ data'[buffers[i]] = <<>> /\ write_position'[buffers[i]] = 0
      /\ entry_count'[buffers[i]] = 0 /\ overflow_count'[buffers[i]] = 0

LEMMA InArray ==
  ASSUME Shape, drain_pc # "idle"
  PROVE  /\ buffer_index \in 1 .. Len(buffers) /\ Len(buffers) \in Nat
         /\ \A i \in 1 .. Len(buffers) : buffers[i] \in Buffers /\ Draining(buffers[i])
<1>1. buffers \in Seq(Buffers) /\ buffer_index \in 1 .. Len(buffers)
  BY DEF Shape, TypeOK, DrainShape
<1>2. Len(buffers) \in Nat /\ \A i \in 1 .. Len(buffers) : buffers[i] \in Buffers
  BY <1>1
<1>. QED BY <1>1, <1>2 DEF Draining

\* Emptying one buffer fills none.
LEMMA ResetEmpties ==
  ASSUME Shape, Reset, NEW b \in Buffers, IsEmpty(b) \/ b = Current
  PROVE  /\ data'[b] = <<>> /\ write_position'[b] = 0
         /\ entry_count'[b] = 0 /\ overflow_count'[b] = 0
<1>1. CASE b = Current
  BY <1>1, ResetEntries
<1>2. CASE b # Current
  BY <1>2, ResetEntries DEF IsEmpty
<1>. QED BY <1>1, <1>2

\* A worker leaves a buffer that is being drained alone.
LEMMA OthersStayEmpty ==
  ASSUME Shape, [Next]_vars, ~Reset, NEW b \in Buffers, IsEmpty(b), Draining(b)
  PROVE  IsEmpty(b)'
<1>1. CASE UNCHANGED entryVars
  BY <1>1 DEF entryVars, IsEmpty
<1>2. ASSUME NEW c \in Buffers, NEW level \in Levels, NEW size \in Sizes, LogToBuffer(c, level, size)
      PROVE  IsEmpty(b)'
  <2>1. b # c
    BY <1>2 DEF LogToBuffer, Usable
  <2>2. CASE Fits(c, size)
    BY <1>2, <2>1, <2>2, AppendedRecord DEF IsEmpty
  <2>3. CASE ~Fits(c, size)
    <3>1. UNCHANGED <<data, write_position, entry_count>>
      BY <1>2, <2>3, DidNotFit
    <3>2. overflow_count' = [overflow_count EXCEPT ![c] = @ + 1]
      BY <1>2, <2>3 DEF LogToBuffer
    <3>. QED BY <2>1, <3>1, <3>2, EntriesOf DEF IsEmpty
  <2>. QED BY <2>2, <2>3
<1>. QED BY <1>1, <1>2, EntriesKept

LEMMA StepKeepsDrained ==
  ASSUME Shape, DrainedAreEmpty, [Next]_vars
  PROVE  DrainedAreEmpty'
<1>1. CASE Reset
  <2>1. CASE buffer_index < Len(buffers)
    <3>1. /\ buffers' = buffers /\ buffer_index' = buffer_index + 1 /\ drain_pc # "idle"
      BY <1>1, <2>1 DEF Reset
    <3>2. \A i \in 1 .. buffer_index : buffers[i] \in Buffers /\ (IsEmpty(buffers[i]) \/ buffers[i] = Current)
      BY <3>1, InArray DEF DrainedAreEmpty, Current
    <3>3. \A i \in 1 .. buffer_index : IsEmpty(buffers[i])'
      BY <1>1, <3>1, <3>2, ResetEmpties DEF IsEmpty
    <3>4. buffer_index' - 1 = buffer_index
      BY <3>1, InArray
    <3>. QED BY <3>3, <3>4 DEF DrainedAreEmpty
  <2>2. CASE ~(buffer_index < Len(buffers))
    BY <1>1, <2>2 DEF Reset, DrainedAreEmpty
  <2>. QED BY <2>1, <2>2
<1>2. CASE DrainBegin
  BY <1>2 DEF DrainBegin, DrainedAreEmpty
<1>3. CASE ~Reset /\ ~DrainBegin
  <2>1. UNCHANGED <<buffers, buffer_index>> /\ (drain_pc = "idle" => drain_pc' = "idle")
    BY <1>3 DEF Next, Drain, SetLevel, Log, WriteRecord, CountMessage, BufferCreate, BufferDestroy, LogToBuffer,
                Warn, Dump, CountDrained, vars, drainVars
  <2>2. ASSUME drain_pc # "idle", NEW i \in 1 .. buffer_index - 1 PROVE IsEmpty(buffers[i])'
    <3>1. buffers[i] \in Buffers /\ Draining(buffers[i]) /\ IsEmpty(buffers[i])
      <4>1. i \in 1 .. Len(buffers)
        BY <2>2, InArray
      <4>. QED BY <2>2, <4>1, InArray DEF DrainedAreEmpty
    <3> DEFINE b == buffers[i]
    <3>2. b' = b
      BY <2>1
    <3>3. \A c \in Buffers : IsEmpty(c) /\ Draining(c) => IsEmpty(c)'
      BY <1>3, OthersStayEmpty
    <3>. QED BY <2>1, <3>1, <3>3 DEF IsEmpty
  <2>. QED BY <2>1, <2>2 DEF DrainedAreEmpty
<1>. QED BY <1>1, <1>2, <1>3

(* When bc_runtime_log_drain returns, every buffer of its array is empty    *)
(* and has no loss left to tell, also one whose write failed: what a failed *)
(* drain could not write is gone, and the next drain starts from nothing.   *)
THEOREM DrainsLeaveAllEmpty == Spec => [][DrainLeavesAllEmpty]_vars
<1>1. Init => DrainedAreEmpty
  BY DEF Init, DrainedAreEmpty
<1>2. Spec => [](Shape /\ DrainedAreEmpty)
  BY <1>1, Shaped, StepKeepsDrained, PTL DEF Spec
<1>3. Shape /\ DrainedAreEmpty /\ [Next]_vars => [DrainLeavesAllEmpty]_vars
  <2>. SUFFICES ASSUME Shape, DrainedAreEmpty, [Next]_vars, drain_pc # "idle", drain_pc' = "idle",
                       NEW i \in 1 .. Len(buffers)
                PROVE  /\ data'[buffers[i]] = <<>> /\ write_position'[buffers[i]] = 0
                       /\ entry_count'[buffers[i]] = 0 /\ overflow_count'[buffers[i]] = 0
    BY DEF DrainLeavesAllEmpty
  <2>1. Reset
    BY DrainAlone DEF Warn, Dump, CountDrained
  <2>2. buffer_index = Len(buffers)
    BY <2>1, InArray DEF Reset
  <2>3. buffers[i] \in Buffers /\ (IsEmpty(buffers[i]) \/ buffers[i] = Current)
    BY <2>2, InArray DEF DrainedAreEmpty, Current
  <2>. QED BY <2>1, <2>3, ResetEmpties
<1>. QED BY <1>2, <1>3, PTL DEF Spec
=============================================================================
