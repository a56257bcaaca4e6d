------------------------ MODULE ErrorCollectorProofs ------------------------
(***************************************************************************)
(* What holds of the error collector for any set of workers, any number of *)
(* calls and any number of flushes.  IInv is the inductive invariant; its  *)
(* parts say, for each place a worker can be in, what the array, the       *)
(* counter and the flag are.                                               *)
(***************************************************************************)
EXTENDS ErrorCollector, SequenceTheorems, TLAPS

\* The worker's current call has not stored its record.
Unpushed(w) ==
  \/ pc[w] \in {"measure", "lock", "push", "store"}
  \/ pc[w] \in {"count", "unlock", "return"} /\ ~push_ok[w]

\* The worker has stored its record and not yet counted it.
Uncounted(w) == pc[w] = "count" /\ push_ok[w]

SlotIsFresh == \A w \in Workers : pc[w] = "store" => slot[w] = Len(records)

CountLag ==
  /\ \A w \in Workers : Uncounted(w) =>
       /\ Len(records) = total_count + 1
       /\ records[Len(records)] = Record(w)
  /\ (\A w \in Workers : ~Uncounted(w)) => Len(records) = total_count

Provenance ==
  /\ \A i \in 1 .. Len(records) : records[i][2] <= issued[records[i][1]]
  /\ \A w \in Workers : Unpushed(w) =>
       \A i \in 1 .. Len(records) : records[i] # Record(w)

Accounting ==
  /\ \A w \in Workers : pc[w] \in {"unlock", "return"} /\ push_ok[w] =>
       \E i \in 1 .. total_count : records[i] = Record(w)
  /\ \A r \in refused : r[2] <= issued[r[1]]
  /\ \A w \in Workers : pc[w] # "idle" => Record(w) \notin refused

FlushInv ==
  /\ flush_pc # "idle" => \A w \in Workers : pc[w] = "idle"
  /\ flush_pc # "idle" => record_count = Len(records) /\ stderr = <<>>
  /\ flush_pc # "idle" => Len(printed) <= record_count
  /\ flush_pc # "idle" => \A i \in 1 .. Len(printed) : printed[i] = records[i]
  /\ flush_pc = "close" => write_failed
  /\ flush_pc = "idle" /\ flushes > 0 /\ ~write_failed => Len(stderr) = record_count
  /\ Len(stderr) <= Len(records)
  /\ \A i \in 1 .. Len(stderr) : stderr[i] = records[i]

IInv ==
  /\ TypeOK
  /\ LockIsExclusive
  /\ SlotIsFresh
  /\ CountLag
  /\ Provenance
  /\ Accounting
  /\ NoAppendLost
  /\ WorkerOrder
  /\ FlushInv


-----------------------------------------------------------------------------
LEMMA SeqFacts ==
  ASSUME NEW S, NEW s \in Seq(S)
  PROVE  Len(s) \in Nat /\ \A i \in 1 .. Len(s) : s[i] \in S
BY LenProperties, ElementOfSeq

LEMMA InitIInv == Init => IInv
<1> SUFFICES ASSUME Init PROVE IInv
  OBVIOUS
<1> USE CollectorAssumption DEF Init, Holding
<1>0. /\ <<>> \in Seq(Workers \X Nat)
      /\ Len(<<>>) = 0
  BY EmptySeq
<1>1. TypeOK
  BY <1>0 DEF TypeOK
<1>2. LockIsExclusive /\ SlotIsFresh
  BY DEF LockIsExclusive, HoldsLock, SlotIsFresh
<1>3. CountLag /\ Provenance /\ Accounting
  BY <1>0 DEF CountLag, Uncounted, Provenance, Unpushed, Accounting
<1>4. NoAppendLost /\ WorkerOrder /\ FlushInv
  BY <1>0 DEF NoAppendLost, WorkerOrder, FlushInv
<1>. QED BY <1>1, <1>2, <1>3, <1>4 DEF IInv

\* Steps that touch neither a worker nor the array.
LEMMA FlushStepIInv ==
  ASSUME IInv, Create \/ Destroy \/ FlushStep \/ UNCHANGED vars
  PROVE  IInv'
<1> USE DEF IInv
<1>0. /\ Len(records) \in Nat /\ \A i \in 1 .. Len(records) : records[i] \in Workers \X Nat
      /\ Len(printed) \in Nat /\ \A i \in 1 .. Len(printed) : printed[i] \in Workers \X Nat
      /\ Len(stderr) \in Nat
  BY SeqFacts DEF TypeOK
<1>1. CASE Create \/ Destroy \/ UNCHANGED vars
  <2>1. TypeOK'
    BY <1>1 DEF Create, Destroy, vars, TypeOK, appendVars, flushVars
  <2>2. LockIsExclusive' /\ SlotIsFresh' /\ CountLag'
    BY <1>1 DEF Create, Destroy, vars, appendVars, flushVars, LockIsExclusive, HoldsLock,
                SlotIsFresh, CountLag, Uncounted, Record
  <2>3. Provenance' /\ Accounting'
    BY <1>1 DEF Create, Destroy, vars, appendVars, flushVars, Provenance, Unpushed,
                Accounting, Record
  <2>4. NoAppendLost' /\ WorkerOrder' /\ FlushInv'
    BY <1>1 DEF Create, Destroy, vars, appendVars, flushVars, NoAppendLost, WorkerOrder, FlushInv
  <2>. QED BY <2>1, <2>2, <2>3, <2>4
<1>2. CASE FlushStep
  <2>0. UNCHANGED <<collector, appendVars>>
    BY <1>2 DEF FlushStep, FlushBegin, PrintRecord, FlushClose
  <2>2. LockIsExclusive' /\ SlotIsFresh' /\ CountLag'
    BY <2>0 DEF appendVars, LockIsExclusive, HoldsLock, SlotIsFresh, CountLag, Uncounted, Record
  <2>3. Provenance' /\ Accounting'
    BY <2>0 DEF appendVars, Provenance, Unpushed, Accounting, Record
  <2>4. NoAppendLost' /\ WorkerOrder'
    BY <2>0 DEF appendVars, NoAppendLost, WorkerOrder
  <2>5. TypeOK' /\ FlushInv'
    <3>1. CASE FlushBegin
      <4>1. <<>> \in Seq(Workers \X Nat) /\ Len(<<>>) = 0
        BY EmptySeq
      <4>2. /\ printed' = <<>> /\ stderr' = <<>>
            /\ record_count' = Len(records)
            /\ flushes' = flushes + 1
            /\ \/ flush_pc' = "print" /\ write_failed' = FALSE
               \/ flush_pc' = "idle" /\ write_failed' = TRUE
            /\ \A w \in Workers : pc'[w] = "idle"
        BY <3>1, <2>0 DEF FlushBegin, Quiescent, FlushLength, appendVars
      <4>3. TypeOK'
        <5>1. printed' \in Seq(Workers \X Nat) /\ stderr' \in Seq(Workers \X Nat)
          BY <4>1, <4>2
        <5>2. record_count' \in Nat /\ flushes' \in Nat
          BY <4>2, <1>0 DEF TypeOK
        <5>3. flush_pc' \in {"idle", "print", "close"} /\ write_failed' \in BOOLEAN
          BY <4>2
        <5>. QED BY <5>1, <5>2, <5>3, <2>0 DEF TypeOK, appendVars
      <4>4. FlushInv'
        BY <4>1, <4>2, <2>0, <1>0 DEF FlushInv, appendVars
      <4>. QED BY <4>3, <4>4
    <3>2. CASE PrintRecord
      <4>1. CASE UNCHANGED printed
        BY <3>2, <4>1, <2>0, <1>0 DEF PrintRecord, TypeOK, appendVars, FlushInv
      <4>2. CASE /\ printed' = Append(printed, records[Len(printed) + 1])
                 /\ UNCHANGED <<flush_pc, write_failed>>
        <5>1. Len(printed) + 1 \in 1 .. Len(records)
          BY <3>2, <1>0 DEF PrintRecord, MorePrinting, FlushInv
        <5>2. /\ printed' \in Seq(Workers \X Nat)
              /\ Len(printed') = Len(printed) + 1
              /\ \A i \in 1 .. Len(printed) : printed'[i] = printed[i]
              /\ printed'[Len(printed) + 1] = records[Len(printed) + 1]
          BY <4>2, <5>1, <1>0, AppendProperties DEF TypeOK
        <5>3. \A i \in 1 .. Len(printed') : printed'[i] = records[i]
          BY <5>2, <1>0, <3>2 DEF FlushInv, PrintRecord
        <5>4. TypeOK'
          BY <3>2, <4>2, <2>0, <5>2 DEF PrintRecord, TypeOK, appendVars
        <5>. QED BY <3>2, <4>2, <2>0, <1>0, <5>1, <5>2, <5>3, <5>4 DEF PrintRecord, appendVars, FlushInv
      <4>. QED BY <3>2, <4>1, <4>2 DEF PrintRecord
    <3>3. CASE FlushClose
      <4>1. PICK k \in 0 .. Len(printed) :
              /\ stderr' = SubSeq(printed, 1, k)
              /\ ~write_failed' => k = Len(printed)
        <5>1. SubSeq(printed, 1, Len(printed)) = printed
          BY SubSeqFull DEF TypeOK
        <5>2. CASE stderr' = printed
          <6>. WITNESS Len(printed) \in 0 .. Len(printed)
          <6>. QED BY <5>1, <5>2
        <5>3. CASE write_failed' /\ \E k \in 0 .. Len(printed) : stderr' = SubSeq(printed, 1, k)
          BY <5>3
        <5>4. \/ stderr' = printed
              \/ write_failed' /\ \E k \in 0 .. Len(printed) : stderr' = SubSeq(printed, 1, k)
          BY <3>3 DEF FlushClose
        <5>. QED BY <5>2, <5>3, <5>4
      <4>2. /\ stderr' \in Seq(Workers \X Nat)
            /\ Len(stderr') = k
            /\ \A i \in 1 .. k : stderr'[i] = printed[i]
        <5>1. k \in Int /\ \A i \in 1 .. k : printed[i] \in Workers \X Nat
          BY <1>0
        <5>2. /\ SubSeq(printed, 1, k) \in Seq(Workers \X Nat)
              /\ Len(SubSeq(printed, 1, k)) = IF 1 <= k THEN k - 1 + 1 ELSE 0
              /\ \A i \in 1 .. k - 1 + 1 : SubSeq(printed, 1, k)[i] = printed[1 + i - 1]
          BY <5>1, SubSeqProperties
        <5>. QED BY <4>1, <5>2, <1>0
      <4>3. TypeOK'
        BY <3>3, <2>0, <4>2 DEF FlushClose, TypeOK, appendVars
      <4>4. ~write_failed' => Len(stderr') = record_count'
        BY <3>3, <4>1, <4>2, <1>0 DEF FlushClose, FlushInv, MorePrinting, TypeOK
      <4>5. Len(stderr') <= Len(records') /\ \A i \in 1 .. Len(stderr') : stderr'[i] = records'[i]
        <5>1. records' = records
          BY <2>0 DEF appendVars
        <5>2. Len(printed) <= Len(records) /\ \A i \in 1 .. Len(printed) : printed[i] = records[i]
          BY <3>3 DEF FlushClose, FlushInv
        <5>3. k <= Len(printed) /\ k \in Nat /\ Len(printed) \in Nat /\ Len(records) \in Nat
          BY <1>0
        <5>4. Len(stderr') <= Len(records')
          BY <4>2, <5>1, <5>2, <5>3
        <5>5. ASSUME NEW i \in 1 .. Len(stderr')  PROVE  stderr'[i] = records'[i]
          <6>1. i \in 1 .. k /\ i \in 1 .. Len(printed)
            BY <4>2, <5>3
          <6>. QED BY <4>2, <5>1, <5>2, <6>1
        <5>. QED BY <5>4, <5>5
      <4>. QED BY <3>3, <4>3, <4>4, <4>5 DEF FlushClose, FlushInv
    <3>. QED BY <1>2, <3>1, <3>2, <3>3 DEF FlushStep
  <2>. QED BY <2>2, <2>3, <2>4, <2>5
<1>. QED BY <1>1, <1>2

\* The part of FlushInv a worker can disturb: what was printed stays a prefix
\* of the array while no flush is in progress.
LEMMA FlushInvKept ==
  ASSUME FlushInv, flush_pc = "idle", UNCHANGED flushVars,
         Len(records) \in Nat, Len(records') \in Nat, Len(stderr) \in Nat,
         Len(records) <= Len(records'),
         \A i \in 1 .. Len(records) : records'[i] = records[i]
  PROVE  FlushInv'
BY DEF FlushInv, flushVars

\* Steps of an append that leave the array and the counter alone.
LEMMA QuietStepIInv ==
  ASSUME IInv, NEW w \in Workers, UNCHANGED <<collector, flushVars>>,
         Begin(w) \/ MeasurePath(w) \/ Lock(w) \/ PushReserve(w) \/ Unlock(w) \/ Return(w)
  PROVE  IInv'
<1> USE DEF IInv
<1>0. /\ Len(records) \in Nat /\ \A i \in 1 .. Len(records) : records[i] \in Workers \X Nat
      /\ Len(stderr) \in Nat
      /\ Record(w) \in Workers \X Nat
      /\ Record(w)' = <<w, issued'[w]>>
  BY SeqFacts DEF TypeOK, Record
<1>1. /\ flush_pc = "idle"
      /\ records' = records /\ total_count' = total_count
  BY DEF Begin, MeasurePath, Lock, PushReserve, Unlock, Return, FlushInv
<1>2. FlushInv'
  BY <1>0, <1>1, FlushInvKept
<1>3. WorkerOrder'
  BY <1>1 DEF WorkerOrder
<1>4. CASE Begin(w)
  <2>1. /\ pc' = [pc EXCEPT ![w] = "measure"]
        /\ pc[w] = "idle"
        /\ issued' = [issued EXCEPT ![w] = @ + 1]
        /\ UNCHANGED <<append_lock, push_ok, slot, accepted, refused>>
    BY <1>4 DEF Begin, GoTo
  <2>2. TypeOK'
    BY <2>1, <1>1 DEF TypeOK, flushVars, Holding
  <2>3. LockIsExclusive' /\ SlotIsFresh'
    BY <2>1, <1>1 DEF LockIsExclusive, HoldsLock, Holding, SlotIsFresh, TypeOK
  <2>4. CountLag'
    BY <2>1, <1>1 DEF CountLag, Uncounted, Record, TypeOK
  <2>5. Provenance'
    <3>1. \A r \in Workers \X Nat :
            r[2] <= issued[r[1]] => r[2] <= issued'[r[1]] /\ r # <<w, issued'[w]>>
      BY <2>1 DEF TypeOK
    <3>2. \A v \in Workers : v # w => Unpushed(v)' = Unpushed(v) /\ Record(v)' = Record(v)
      BY <2>1 DEF Unpushed, Record, TypeOK
    <3>3. \A i \in 1 .. Len(records)' : records'[i][2] <= issued'[records'[i][1]]
      BY <3>1, <1>0, <1>1 DEF Provenance
    <3>4. ASSUME NEW v \in Workers, Unpushed(v)', NEW i \in 1 .. Len(records)
          PROVE  records[i] # Record(v)'
      BY <3>1, <3>2, <3>4, <1>0 DEF Provenance
    <3>. QED BY <3>3, <3>4, <1>1 DEF Provenance
  <2>6. Accounting'
    <3>1. \A r \in Workers \X Nat :
            r[2] <= issued[r[1]] => r[2] <= issued'[r[1]] /\ r # <<w, issued'[w]>>
      BY <2>1 DEF TypeOK
    <3>2. refused \in SUBSET (Workers \X Nat)
      BY DEF TypeOK
    <3>3. \A v \in Workers : v # w => pc'[v] = pc[v] /\ push_ok'[v] = push_ok[v] /\ Record(v)' = Record(v)
      BY <2>1 DEF Record, TypeOK
    <3>4. pc'[w] = "measure" /\ Record(w)' \notin refused'
      BY <2>1, <3>1, <3>2, <1>0 DEF Accounting, TypeOK
    <3>5. \A r \in refused' : r[2] <= issued'[r[1]]
      BY <2>1, <3>1, <3>2 DEF Accounting
    <3>6. \A v \in Workers : pc'[v] # "idle" => Record(v)' \notin refused'
      BY <2>1, <3>3, <3>4 DEF Accounting
    <3>7. \A v \in Workers : pc'[v] \in {"unlock", "return"} /\ push_ok'[v] =>
            \E i \in 1 .. total_count' : records'[i] = Record(v)'
      BY <3>3, <3>4, <1>1 DEF Accounting
    <3>. QED BY <3>5, <3>6, <3>7 DEF Accounting
  <2>7. NoAppendLost'
    BY <2>1, <1>1 DEF NoAppendLost
  <2>. QED BY <2>2, <2>3, <2>4, <2>5, <2>6, <2>7, <1>2, <1>3
<1>5. CASE MeasurePath(w)
  <2>1. /\ pc[w] = "measure"
        /\ \/ pc' = [pc EXCEPT ![w] = "lock"] /\ push_ok' = push_ok
           \/ pc' = [pc EXCEPT ![w] = "return"] /\ push_ok' = [push_ok EXCEPT ![w] = FALSE]
        /\ UNCHANGED <<append_lock, slot, issued, accepted, refused>>
    BY <1>5 DEF MeasurePath, GoTo
  <2>2. TypeOK'
    BY <2>1, <1>1 DEF TypeOK, flushVars, Holding
  <2>3. LockIsExclusive' /\ SlotIsFresh'
    BY <2>1, <1>1 DEF LockIsExclusive, HoldsLock, Holding, SlotIsFresh, TypeOK
  <2>4. CountLag'
    BY <2>1, <1>1 DEF CountLag, Uncounted, Record, TypeOK
  <2>5. Provenance'
    BY <2>1, <1>0, <1>1 DEF Provenance, Unpushed, Record, TypeOK
  <2>6. Accounting'
    BY <2>1, <1>0, <1>1 DEF Accounting, Record, TypeOK
  <2>7. NoAppendLost'
    BY <2>1, <1>1 DEF NoAppendLost
  <2>. QED BY <2>2, <2>3, <2>4, <2>5, <2>6, <2>7, <1>2, <1>3
<1>6. CASE Lock(w)
  <2>1. /\ pc[w] = "lock" /\ pc' = [pc EXCEPT ![w] = "push"]
        /\ append_lock = FALSE /\ append_lock' = TRUE
        /\ UNCHANGED <<push_ok, slot, issued, accepted, refused>>
    BY <1>6 DEF Lock, GoTo, LockFree
  <2>2. TypeOK'
    BY <2>1, <1>1 DEF TypeOK, flushVars, Holding
  <2>3. LockIsExclusive' /\ SlotIsFresh'
    BY <2>1, <1>1 DEF LockIsExclusive, HoldsLock, Holding, SlotIsFresh, TypeOK
  <2>4. CountLag'
    BY <2>1, <1>1 DEF CountLag, Uncounted, Record, TypeOK
  <2>5. Provenance'
    BY <2>1, <1>0, <1>1 DEF Provenance, Unpushed, Record, TypeOK
  <2>6. Accounting'
    BY <2>1, <1>0, <1>1 DEF Accounting, Record, TypeOK
  <2>7. NoAppendLost'
    BY <2>1, <1>1 DEF NoAppendLost
  <2>. QED BY <2>2, <2>3, <2>4, <2>5, <2>6, <2>7, <1>2, <1>3
<1>7. CASE PushReserve(w)
  <2>1. /\ pc[w] = "push"
        /\ \/ /\ slot' = [slot EXCEPT ![w] = Len(records)]
              /\ pc' = [pc EXCEPT ![w] = "store"]
              /\ push_ok' = push_ok
           \/ /\ push_ok' = [push_ok EXCEPT ![w] = FALSE]
              /\ pc' = [pc EXCEPT ![w] = "count"]
              /\ slot' = slot
        /\ UNCHANGED <<append_lock, issued, accepted, refused>>
    BY <1>7 DEF PushReserve, PushLength, GoTo
  <2>2. TypeOK'
    BY <2>1, <1>0, <1>1 DEF TypeOK, flushVars, Holding
  <2>3. LockIsExclusive' /\ SlotIsFresh'
    BY <2>1, <1>1 DEF LockIsExclusive, HoldsLock, Holding, SlotIsFresh, TypeOK
  <2>4. CountLag'
    BY <2>1, <1>1 DEF CountLag, Uncounted, Record, TypeOK
  <2>5. Provenance'
    BY <2>1, <1>0, <1>1 DEF Provenance, Unpushed, Record, TypeOK
  <2>6. Accounting'
    BY <2>1, <1>0, <1>1 DEF Accounting, Record, TypeOK
  <2>7. NoAppendLost'
    BY <2>1, <1>1 DEF NoAppendLost
  <2>. QED BY <2>2, <2>3, <2>4, <2>5, <2>6, <2>7, <1>2, <1>3
<1>8. CASE Unlock(w)
  <2>1. /\ pc[w] = "unlock" /\ pc' = [pc EXCEPT ![w] = "return"]
        /\ append_lock' = FALSE
        /\ UNCHANGED <<push_ok, slot, issued, accepted, refused>>
    BY <1>8 DEF Unlock, GoTo
  <2>2. TypeOK'
    BY <2>1, <1>1 DEF TypeOK, flushVars, Holding
  <2>3. LockIsExclusive' /\ SlotIsFresh'
    BY <2>1, <1>1 DEF LockIsExclusive, HoldsLock, Holding, SlotIsFresh, TypeOK
  <2>4. CountLag'
    BY <2>1, <1>1 DEF CountLag, Uncounted, Record, TypeOK
  <2>5. Provenance'
    BY <2>1, <1>0, <1>1 DEF Provenance, Unpushed, Record, TypeOK
  <2>6. Accounting'
    BY <2>1, <1>0, <1>1 DEF Accounting, Record, TypeOK
  <2>7. NoAppendLost'
    BY <2>1, <1>1 DEF NoAppendLost
  <2>. QED BY <2>2, <2>3, <2>4, <2>5, <2>6, <2>7, <1>2, <1>3
<1>9. CASE Return(w)
  <2>1. /\ pc[w] = "return" /\ pc' = [pc EXCEPT ![w] = "idle"]
        /\ \/ push_ok[w] /\ accepted' = accepted \cup {Record(w)} /\ refused' = refused
           \/ ~push_ok[w] /\ refused' = refused \cup {Record(w)} /\ accepted' = accepted
        /\ UNCHANGED <<append_lock, push_ok, slot, issued>>
    BY <1>9 DEF Return, GoTo
  <2>2. TypeOK'
    BY <2>1, <1>0, <1>1 DEF TypeOK, flushVars, Holding
  <2>3. LockIsExclusive' /\ SlotIsFresh'
    BY <2>1, <1>1 DEF LockIsExclusive, HoldsLock, Holding, SlotIsFresh, TypeOK
  <2>4. CountLag'
    BY <2>1, <1>1 DEF CountLag, Uncounted, Record, TypeOK
  <2>5. Provenance'
    BY <2>1, <1>0, <1>1 DEF Provenance, Unpushed, Record, TypeOK
  <2>6. Accounting'
    <3>1. /\ pc'[w] = "idle" /\ \A v \in Workers : v # w => pc'[v] = pc[v]
          /\ \A v \in Workers : push_ok'[v] = push_ok[v] /\ Record(v)' = Record(v)
      BY <2>1 DEF Record, TypeOK
    <3>2. refused' \subseteq refused \cup {Record(w)}
      BY <2>1
    <3>3. \A v \in Workers : v # w => Record(v) # Record(w)
      BY DEF Record
    <3>4. Record(w)[2] <= issued[Record(w)[1]]
      BY DEF Record, TypeOK
    <3>5. \A r \in refused' : r[2] <= issued'[r[1]]
      BY <2>1, <3>2, <3>4 DEF Accounting
    <3>6. \A v \in Workers : pc'[v] # "idle" => Record(v)' \notin refused'
      BY <3>1, <3>2, <3>3 DEF Accounting
    <3>7. \A v \in Workers : pc'[v] \in {"unlock", "return"} /\ push_ok'[v] =>
            \E i \in 1 .. total_count' : records'[i] = Record(v)'
      BY <3>1, <1>1 DEF Accounting
    <3>. QED BY <3>5, <3>6, <3>7 DEF Accounting
  <2>7. NoAppendLost'
    BY <2>1, <1>0, <1>1 DEF NoAppendLost, Accounting, Provenance, Unpushed, TypeOK
  <2>. QED BY <2>2, <2>3, <2>4, <2>5, <2>6, <2>7, <1>2, <1>3
<1>. QED BY <1>4, <1>5, <1>6, <1>7, <1>8, <1>9

\* The store of a push appends, because the length it read is still the length.
LEMMA StoreAppends ==
  ASSUME IInv, NEW w \in Workers, PushStore(w)
  PROVE  /\ total_count = Len(records) /\ Unpushed(w)
         /\ Len(records) \in Nat
         /\ records' \in Seq(Workers \X Nat)
         /\ Len(records') = Len(records) + 1
         /\ \A i \in 1 .. Len(records) : records'[i] = records[i]
         /\ records'[Len(records')] = Record(w)
<1>1. Record(w) \in Workers \X Nat /\ records \in Seq(Workers \X Nat) /\ pc[w] = "store"
  BY DEF IInv, TypeOK, Record, PushStore
<1>2. records' = Append(records, Record(w))
  BY <1>1, SubSeqFull DEF PushStore, Pushed, IInv, SlotIsFresh
<1>3. total_count = Len(records)
  <2>1. \A v \in Workers : ~Uncounted(v)
    BY <1>1 DEF IInv, LockIsExclusive, HoldsLock, Holding, Uncounted
  <2>. QED BY <2>1 DEF IInv, CountLag
<1>. QED BY <1>1, <1>2, <1>3, SeqFacts, AppendProperties DEF Unpushed

LEMMA PushStoreIInv ==
  ASSUME IInv, NEW w \in Workers, UNCHANGED <<collector, flushVars>>, PushStore(w)
  PROVE  IInv'
<1> USE DEF IInv
<1> DEFINE n == Len(records)
<1>0. /\ total_count = n /\ n \in Nat /\ Unpushed(w)
      /\ records' \in Seq(Workers \X Nat) /\ Len(records') = n + 1
      /\ \A i \in 1 .. n : records'[i] = records[i]
      /\ records'[n + 1] = Record(w)
      /\ Len(stderr) \in Nat
      /\ \A i \in 1 .. n : records[i] \in Workers \X Nat
  BY StoreAppends, SeqFacts DEF TypeOK
<1>1. /\ pc[w] = "store" /\ pc' = [pc EXCEPT ![w] = "count"]
      /\ push_ok' = [push_ok EXCEPT ![w] = TRUE]
      /\ UNCHANGED <<append_lock, total_count, slot, issued, accepted, refused>>
  BY DEF PushStore, GoTo
<1>2. TypeOK'
  BY <1>0, <1>1 DEF TypeOK, flushVars, Holding
<1>3. LockIsExclusive'
  BY <1>1 DEF LockIsExclusive, HoldsLock, Holding, TypeOK
<1>4. SlotIsFresh'
  BY <1>1 DEF LockIsExclusive, HoldsLock, Holding, SlotIsFresh, TypeOK
<1>5. \A v \in Workers : Record(v)' = Record(v)
  BY <1>1 DEF Record
<1>6. \A v \in Workers : Uncounted(v)' <=> v = w
  BY <1>1 DEF Uncounted, LockIsExclusive, HoldsLock, Holding, TypeOK
<1>7. CountLag'
  BY <1>0, <1>1, <1>5, <1>6 DEF CountLag
<1>8. \A i \in 1 .. n : records[i] # Record(w)
  BY <1>0 DEF Provenance
<1>9. Provenance'
  <2>1. Record(w)[1] = w /\ Record(w)[2] = issued[w]
    BY DEF Record
  <2>2. \A i \in 1 .. Len(records)' : records'[i][2] <= issued'[records'[i][1]]
    <3> SUFFICES ASSUME NEW i \in 1 .. n + 1
                 PROVE  records'[i][2] <= issued[records'[i][1]]
      BY <1>0, <1>1
    <3>1. CASE i \in 1 .. n
      BY <3>1, <1>0 DEF Provenance
    <3>2. CASE i = n + 1
      <4>1. issued[w] \in Nat
        BY DEF TypeOK
      <4>. QED BY <3>2, <4>1, <2>1, <1>0
    <3>. QED BY <3>1, <3>2, <1>0
  <2>3. \A v \in Workers : Unpushed(v)' => v # w /\ Unpushed(v)
    BY <1>1 DEF Unpushed, TypeOK
  <2>4. \A v \in Workers : v # w => Record(v) # Record(w)
    BY DEF Record
  <2>5. ASSUME NEW v \in Workers, Unpushed(v)', NEW i \in 1 .. n + 1
        PROVE  records'[i] # Record(v)'
    BY <2>3, <2>4, <2>5, <1>0, <1>5 DEF Provenance
  <2>. QED BY <2>2, <2>5, <1>0 DEF Provenance
<1>10. Accounting'
  <2>1. \A v \in Workers : v # w => pc'[v] = pc[v] /\ push_ok'[v] = push_ok[v]
    BY <1>1 DEF TypeOK
  <2>2. \A v \in Workers : pc'[v] \in {"unlock", "return"} /\ push_ok'[v] =>
            \E i \in 1 .. total_count' : records'[i] = Record(v)'
    BY <2>1, <1>0, <1>1, <1>5 DEF Accounting, TypeOK
  <2>3. \A v \in Workers : pc'[v] # "idle" => Record(v)' \notin refused'
    BY <2>1, <1>1, <1>5 DEF Accounting
  <2>. QED BY <2>2, <2>3, <1>1 DEF Accounting
<1>11. NoAppendLost'
  <2>1. \A r \in accepted' : \E i \in 1 .. total_count' : records'[i] = r
    BY <1>0, <1>1 DEF NoAppendLost
  <2>2. \A i, j \in 1 .. n + 1 : records'[i] = records'[j] => i = j
    BY <1>0, <1>8 DEF NoAppendLost
  <2>3. Record(w) \notin refused
    BY <1>1 DEF Accounting
  <2>4. \A i \in 1 .. n + 1 : records'[i] \notin refused'
    BY <2>3, <1>0, <1>1 DEF NoAppendLost
  <2>. QED BY <2>1, <2>2, <2>4, <1>0 DEF NoAppendLost
<1>12. WorkerOrder'
  <2>1. \A i \in 1 .. n : records[i][1] = w => records[i][2] < issued[w]
    <3>1. SUFFICES ASSUME NEW i \in 1 .. n, records[i][1] = w PROVE records[i][2] < issued[w]
      OBVIOUS
    <3>2. records[i] = <<records[i][1], records[i][2]>> /\ records[i][2] \in Nat
      BY <1>0
    <3>3. records[i][2] # issued[w] /\ records[i][2] <= issued[w] /\ issued[w] \in Nat
      BY <3>1, <3>2, <1>8 DEF Record, Provenance, TypeOK
    <3>. QED BY <3>2, <3>3
  <2>2. Record(w)[1] = w /\ Record(w)[2] = issued[w]
    BY DEF Record
  <2>3. SUFFICES ASSUME NEW i \in 1 .. n + 1, NEW j \in 1 .. n + 1,
                        i < j, records'[i][1] = records'[j][1]
                 PROVE  records'[i][2] < records'[j][2]
    BY <1>0 DEF WorkerOrder
  <2>4. CASE j \in 1 .. n
    <3>1. i \in 1 .. n /\ j \in 1 .. n /\ records'[i] = records[i] /\ records'[j] = records[j]
      BY <2>3, <2>4, <1>0
    <3>. QED BY <3>1, <2>3 DEF WorkerOrder
  <2>5. CASE j = n + 1
    <3>1. i \in 1 .. n /\ records'[i] = records[i] /\ records'[j] = Record(w)
      BY <2>3, <2>5, <1>0
    <3>. QED BY <3>1, <2>1, <2>2, <2>3
  <2>. QED BY <2>4, <2>5, <1>0
<1>13. FlushInv'
  <2>1. flush_pc = "idle"
    BY <1>1 DEF FlushInv
  <2>. QED BY <2>1, <1>0, FlushInvKept
<1>. QED BY <1>2, <1>3, <1>4, <1>7, <1>9, <1>10, <1>11, <1>12, <1>13

LEMMA CountRecordIInv ==
  ASSUME IInv, NEW w \in Workers, UNCHANGED <<collector, flushVars>>, CountRecord(w)
  PROVE  IInv'
<1> USE DEF IInv
<1>0. /\ Len(records) \in Nat /\ total_count \in Nat /\ Len(stderr) \in Nat
      /\ push_ok[w] \in BOOLEAN
  BY SeqFacts DEF TypeOK
<1>1. /\ pc[w] = "count" /\ pc' = [pc EXCEPT ![w] = "unlock"]
      /\ total_count' = IF push_ok[w] THEN total_count + 1 ELSE total_count
      /\ UNCHANGED <<append_lock, records, push_ok, slot, issued, accepted, refused>>
  BY DEF CountRecord, CountAfterPush, GoTo
<1>2. TypeOK'
  BY <1>0, <1>1 DEF TypeOK, flushVars, Holding
<1>3. LockIsExclusive' /\ SlotIsFresh'
  BY <1>1 DEF LockIsExclusive, HoldsLock, Holding, SlotIsFresh, TypeOK
<1>4. \A v \in Workers : Record(v)' = Record(v)
  BY <1>1 DEF Record
<1>5. \A v \in Workers : ~Uncounted(v)' /\ (Uncounted(v) => v = w)
  BY <1>1 DEF Uncounted, LockIsExclusive, HoldsLock, Holding, TypeOK
<1>6. /\ total_count' = Len(records)
      /\ push_ok[w] => Len(records) \in Nat \ {0} /\ records[Len(records)] = Record(w)
      /\ total_count <= total_count'
  <2>1. CASE push_ok[w]
    <3>1. Uncounted(w)
      BY <2>1, <1>1 DEF Uncounted
    <3>. QED BY <3>1, <2>1, <1>0, <1>1 DEF CountLag
  <2>2. CASE ~push_ok[w]
    <3>1. \A v \in Workers : ~Uncounted(v)
      BY <2>2, <1>5 DEF Uncounted
    <3>. QED BY <3>1, <2>2, <1>0, <1>1 DEF CountLag
  <2>. QED BY <2>1, <2>2
<1>7. CountLag'
  BY <1>1, <1>5, <1>6 DEF CountLag
<1>8. Provenance'
  <2>1. \A v \in Workers : Unpushed(v)' <=> Unpushed(v)
    BY <1>1 DEF Unpushed, TypeOK
  <2>. QED BY <2>1, <1>1, <1>4 DEF Provenance
<1>9. Accounting'
  <2>1. \A v \in Workers : v # w => pc'[v] = pc[v]
    BY <1>1 DEF TypeOK
  <2>2. \A v \in Workers : pc'[v] \in {"unlock", "return"} /\ push_ok'[v] =>
            \E i \in 1 .. total_count' : records'[i] = Record(v)'
    <3> SUFFICES ASSUME NEW v \in Workers, pc'[v] \in {"unlock", "return"}, push_ok'[v]
                 PROVE  \E i \in 1 .. total_count' : records'[i] = Record(v)'
      OBVIOUS
    <3>1. CASE v = w
      BY <3>1, <1>1, <1>4, <1>6
    <3>2. CASE v # w
      BY <3>2, <2>1, <1>0, <1>1, <1>4, <1>6 DEF Accounting
    <3>. QED BY <3>1, <3>2
  <2>3. \A v \in Workers : pc'[v] # "idle" => Record(v)' \notin refused'
    BY <2>1, <1>1, <1>4 DEF Accounting
  <2>. QED BY <2>2, <2>3, <1>1 DEF Accounting
<1>10. NoAppendLost'
  BY <1>0, <1>1, <1>6 DEF NoAppendLost
<1>11. WorkerOrder'
  BY <1>1 DEF WorkerOrder
<1>12. FlushInv'
  <2>1. flush_pc = "idle"
    BY <1>1 DEF FlushInv
  <2>. QED BY <2>1, <1>0, <1>1, FlushInvKept
<1>. QED BY <1>2, <1>3, <1>7, <1>8, <1>9, <1>10, <1>11, <1>12

(* The inductive invariant holds in every reachable state.                  *)
THEOREM Invariance == Spec => []IInv
<1>1. IInv /\ [Next]_vars => IInv'
  <2> SUFFICES ASSUME IInv, [Next]_vars PROVE IInv'
    OBVIOUS
  <2>1. CASE Create \/ Destroy \/ FlushStep \/ UNCHANGED vars
    BY <2>1, FlushStepIInv
  <2>2. ASSUME NEW w \in Workers, AppendStep(w) PROVE IInv'
    <3>1. CASE PushStore(w)
      BY <2>2, <3>1, PushStoreIInv DEF AppendStep
    <3>2. CASE CountRecord(w)
      BY <2>2, <3>2, CountRecordIInv DEF AppendStep
    <3>3. CASE Begin(w) \/ MeasurePath(w) \/ Lock(w) \/ PushReserve(w) \/ Unlock(w) \/ Return(w)
      BY <2>2, <3>3, QuietStepIInv DEF AppendStep
    <3>. QED BY <2>2, <3>1, <3>2, <3>3 DEF AppendStep
  <2>. QED BY <2>1, <2>2 DEF Next
<1>. QED BY InitIInv, <1>1, PTL DEF Spec

-----------------------------------------------------------------------------
(* Type correctness, for any workers, calls and flushes.                    *)
THEOREM TypeCorrect == Spec => []TypeOK
BY Invariance, PTL DEF IInv

(* At most one worker is between the test-and-set of append_lock and its    *)
(* clear (bc_runtime_error_collector_append, lines 76-81).                  *)
THEOREM MutualExclusion == Spec => []LockIsExclusive
BY Invariance, PTL DEF IInv

(* total_count read without the lock is the length of the array or one less,*)
(* and exactly the length when the lock is free.                            *)
THEOREM CounterTracksArray == Spec => []CountTracksRecords
<1>1. IInv => CountTracksRecords
  <2> SUFFICES ASSUME IInv PROVE CountTracksRecords
    OBVIOUS
  <2>0. Len(records) \in Nat /\ total_count \in Nat
    BY SeqFacts DEF IInv, TypeOK
  <2>1. \/ Len(records) = total_count
        \/ Len(records) = total_count + 1 /\ \E w \in Workers : pc[w] = "count"
    BY DEF IInv, CountLag, Uncounted
  <2>2. ~append_lock => \A w \in Workers : pc[w] # "count"
    BY DEF IInv, LockIsExclusive, HoldsLock, Holding
  <2>. QED BY <2>0, <2>1, <2>2 DEF CountTracksRecords
<1>. QED BY <1>1, Invariance, PTL

(* An append that returned true is in the counted part of the array, once;  *)
(* one that returned false is nowhere in it.                                *)
THEOREM AcceptedAreKept == Spec => []NoAppendLost
BY Invariance, PTL DEF IInv

(* The records of one worker are in the array in the order of its calls.    *)
THEOREM OrderIsKept == Spec => []WorkerOrder
BY Invariance, PTL DEF IInv

(* A complete flush prints every record once, in array order, and a flush   *)
(* cut short by a write error prints a prefix.                              *)
THEOREM FlushIsFaithful == Spec => []FlushPrintsTheRecords
<1>1. IInv => FlushPrintsTheRecords
  <2> SUFFICES ASSUME IInv PROVE FlushPrintsTheRecords
    OBVIOUS
  <2>0. /\ Len(records) \in Nat /\ Len(stderr) \in Nat
        /\ records \in Seq(Workers \X Nat) /\ stderr \in Seq(Workers \X Nat)
        /\ \A i \in 1 .. Len(records) : records[i] \in Workers \X Nat
    BY SeqFacts DEF IInv, TypeOK
  <2>1. Len(stderr) <= Len(records) /\ \A i \in 1 .. Len(stderr) : stderr[i] = records[i]
    BY DEF IInv, FlushInv
  <2>2. stderr = SubSeq(records, 1, Len(stderr))
    <3> DEFINE t == SubSeq(records, 1, Len(stderr))
    <3>1. \A i \in 1 .. Len(stderr) : records[i] \in Workers \X Nat
      BY <2>0, <2>1
    <3>2. /\ t \in Seq(Workers \X Nat)
          /\ Len(t) = IF 1 <= Len(stderr) THEN Len(stderr) - 1 + 1 ELSE 0
          /\ \A i \in 1 .. Len(stderr) - 1 + 1 : t[i] = records[1 + i - 1]
      BY <2>0, <3>1, SubSeqProperties
    <3>3. Len(t) = Len(stderr) /\ \A i \in 1 .. Len(stderr) : stderr[i] = t[i]
      BY <3>2, <2>0, <2>1
    <3> HIDE DEF t
    <3>4. stderr = t
      BY <3>2, <3>3, <2>0, SeqEqual
    <3>. QED BY <3>4 DEF t
  <2>3. flush_pc # "idle" => record_count = total_count
    BY DEF IInv, FlushInv, CountLag, Uncounted
  <2>. QED BY <2>2, <2>3 DEF IInv, FlushInv, FlushPrintsTheRecords
<1>. QED BY <1>1, Invariance, PTL

-----------------------------------------------------------------------------
(* What stands behind EveryAppendReturns, for any number of workers: each   *)
(* step of a call takes it further, and a worker only spins while another   *)
(* is on its way to the clear.                                              *)

\* A flag that is set was set by a worker that has yet to clear it.
LockIsHeld == append_lock => \E w \in Workers : HoldsLock(w)

\* Of the workers inside a call one is not waiting for the flag.
SomeoneGoesOn ==
  (\E w \in Workers : pc[w] # "idle") =>
    \E w \in Workers : pc[w] # "idle" /\ (pc[w] = "lock" => LockFree)

LEMMA StepKeepsHolder ==
  ASSUME IInv, LockIsHeld, NEW w \in Workers, AppendStep(w)
  PROVE  LockIsHeld'
<1>1. pc \in [Workers -> {"idle", "measure", "lock", "return"} \cup Holding] /\ append_lock \in BOOLEAN
  BY DEF IInv, TypeOK
<1>2. CASE Lock(w)
  BY <1>1, <1>2 DEF Lock, GoTo, LockIsHeld, HoldsLock, Holding
<1>3. CASE Unlock(w)
  BY <1>3 DEF Unlock, LockIsHeld
<1>4. CASE Begin(w) \/ MeasurePath(w) \/ Return(w)
  <2>1. /\ UNCHANGED append_lock /\ ~HoldsLock(w)
        /\ \A v \in Workers \ {w} : pc'[v] = pc[v]
    BY <1>1, <1>4 DEF Begin, MeasurePath, Return, GoTo, HoldsLock, Holding
  <2> QED
    BY <2>1 DEF LockIsHeld, HoldsLock
<1>5. CASE PushReserve(w) \/ PushStore(w) \/ CountRecord(w)
  <2>1. HoldsLock(w)'
    BY <1>1, <1>5 DEF PushReserve, PushStore, CountRecord, GoTo, HoldsLock, Holding
  <2> QED
    BY <2>1 DEF LockIsHeld
<1> QED
  BY <1>2, <1>3, <1>4, <1>5 DEF AppendStep

(* append_lock is never left set by a call that has returned, a failed push *)
(* included: there is always a worker between its test-and-set and its      *)
(* clear.                                                                   *)
THEOREM LockIsNeverOrphaned == Spec => []LockIsHeld
<1>1. Init => LockIsHeld
  BY DEF Init, LockIsHeld
<1>2. IInv /\ LockIsHeld /\ [Next]_vars => LockIsHeld'
  <2> SUFFICES ASSUME IInv, LockIsHeld, [Next]_vars PROVE LockIsHeld'
    OBVIOUS
  <2>1. CASE Create \/ Destroy \/ FlushStep \/ UNCHANGED vars
    BY <2>1 DEF Create, Destroy, FlushStep, FlushBegin, PrintRecord, FlushClose, vars, appendVars, LockIsHeld, HoldsLock
  <2> QED
    BY <2>1, StepKeepsHolder DEF Next
<1> QED
  BY <1>1, <1>2, Invariance, PTL DEF Spec

(* The workers inside bc_runtime_error_collector_append never all wait for  *)
(* each other.                                                              *)
THEOREM WorkersNeverAllWait == Spec => []SomeoneGoesOn
<1>1. IInv /\ LockIsHeld => SomeoneGoesOn
  BY DEF IInv, TypeOK, LockIsHeld, SomeoneGoesOn, HoldsLock, Holding, LockFree
<1> QED
  BY <1>1, Invariance, LockIsNeverOrphaned, PTL

Phase == [measure |-> 1, lock |-> 2, push |-> 3, store |-> 4, count |-> 5, unlock |-> 6, return |-> 7, idle |-> 8]

\* A step leaves a worker where it is, begins one of its calls, or takes its
\* call to a later line.
Advances ==
  \A w \in Workers :
    \/ UNCHANGED <<pc[w], issued[w]>>
    \/ pc[w] = "idle" /\ issued[w] < Appends /\ issued'[w] = issued[w] + 1 /\ pc'[w] = "measure"
    \/ pc[w] # "idle" /\ UNCHANGED issued[w] /\ Phase[pc'[w]] > Phase[pc[w]]

LEMMA StepAdvances ==
  ASSUME TypeOK, NEW w \in Workers, AppendStep(w)
  PROVE  Advances
<1>1. pc \in [Workers -> {"idle", "measure", "lock", "return"} \cup Holding] /\ issued \in [Workers -> Nat]
  BY DEF TypeOK
<1>2. CASE Begin(w)
  BY <1>1, <1>2 DEF Begin, GoTo, Advances
<1>3. CASE ~Begin(w)
  <2>1. /\ UNCHANGED issued
        /\ \/ pc[w] = "measure" /\ (GoTo(w, "lock") \/ GoTo(w, "return"))
           \/ pc[w] = "lock" /\ GoTo(w, "push")
           \/ pc[w] = "push" /\ (GoTo(w, "store") \/ GoTo(w, "count"))
           \/ pc[w] = "store" /\ GoTo(w, "count")
           \/ pc[w] = "count" /\ GoTo(w, "unlock")
           \/ pc[w] = "unlock" /\ GoTo(w, "return")
           \/ pc[w] = "return" /\ GoTo(w, "idle")
    BY <1>3 DEF AppendStep, MeasurePath, Lock, PushReserve, PushStore, CountRecord, Unlock, Return
  <2>2. pc[w] # "idle" /\ Phase[pc'[w]] > Phase[pc[w]]
    BY <1>1, <2>1 DEF GoTo, Phase
  <2>3. \A v \in Workers \ {w} : pc'[v] = pc[v]
    BY <1>1, <2>1 DEF GoTo
  <2> QED
    BY <2>1, <2>2, <2>3 DEF Advances
<1> QED
  BY <1>2, <1>3

(* A call of bc_runtime_error_collector_append is at most seven steps of    *)
(* its worker, and no step of another takes it back.                        *)
THEOREM AppendsAdvance == Spec => [][Advances]_vars
<1>1. IInv /\ [Next]_vars => [Advances]_vars
  <2> SUFFICES ASSUME IInv, Next PROVE Advances
    OBVIOUS
  <2>1. CASE Create \/ Destroy \/ FlushStep
    BY <2>1 DEF Create, Destroy, FlushStep, FlushBegin, PrintRecord, FlushClose, appendVars, Advances
  <2> QED
    BY <2>1, StepAdvances DEF Next, IInv
<1> QED
  BY <1>1, Invariance, PTL DEF Spec

-----------------------------------------------------------------------------
\* The counted part of the array, before and after its last record is counted.
LEMMA CountedPrefix ==
  ASSUME IInv, NEW w \in Workers, Uncounted(w)
  PROVE  SubSeq(records, 1, total_count + 1)
           = Append(SubSeq(records, 1, total_count), Record(w))
<1>0. /\ total_count \in Nat /\ records \in Seq(Workers \X Nat)
      /\ Len(records) = total_count + 1 /\ records[total_count + 1] = Record(w)
      /\ \A i \in 1 .. Len(records) : records[i] \in Workers \X Nat
  BY SeqFacts DEF IInv, TypeOK, CountLag
<1> DEFINE s == SubSeq(records, 1, total_count)
<1>1. SubSeq(records, 1, total_count + 1) = records
  BY <1>0, SubSeqFull
<1>2. \A i \in 1 .. total_count : records[i] \in Workers \X Nat
  BY <1>0
<1>3. /\ s \in Seq(Workers \X Nat)
      /\ Len(s) = IF 1 <= total_count THEN total_count - 1 + 1 ELSE 0
      /\ \A i \in 1 .. total_count - 1 + 1 : s[i] = records[1 + i - 1]
  BY <1>0, <1>2, SubSeqProperties
<1>4. Len(s) = total_count /\ \A i \in 1 .. total_count : s[i] = records[i]
  BY <1>3, <1>0
<1> HIDE DEF s
<1>5. Record(w) \in Workers \X Nat
  BY DEF IInv, TypeOK, Record
<1>6. /\ Append(s, Record(w)) \in Seq(Workers \X Nat)
      /\ Len(Append(s, Record(w))) = total_count + 1
      /\ \A i \in 1 .. total_count : Append(s, Record(w))[i] = records[i]
      /\ Append(s, Record(w))[total_count + 1] = Record(w)
  BY <1>3, <1>4, <1>5, AppendProperties
<1>7. \A i \in 1 .. Len(records) : records[i] = Append(s, Record(w))[i]
  BY <1>0, <1>6
<1>8. records = Append(s, Record(w))
  BY <1>0, <1>6, <1>7, SeqEqual
<1>. QED BY <1>1, <1>8 DEF s

\* The abstract state, seen from a worker's step.
LEMMA CallsElsewhere ==
  ASSUME TypeOK, NEW w \in Workers,
         NEW p, pc' = [pc EXCEPT ![w] = p],
         \A v \in Workers : v # w => push_ok'[v] = push_ok[v]
  PROVE  [v \in Workers |-> CallOf(v)]'
           = [[v \in Workers |-> CallOf(v)] EXCEPT ![w] = CallOf(w)']
<1>1. \A v \in Workers : v # w => CallOf(v)' = CallOf(v)
  BY DEF CallOf, TypeOK
<1>. QED BY <1>1

LEMMA StepRefines ==
  ASSUME IInv, NEW w \in Workers, AppendStep(w)
  PROVE  [Abstract!LogNext]_(Abstract!logVars)
<1> USE DEF IInv, Holding
<1> DEFINE log == SubSeq(records, 1, total_count)
           call == [v \in Workers |-> CallOf(v)]
           callw(c) == [call EXCEPT ![w] = c]
<1>0. call[w] = CallOf(w)
  OBVIOUS
<1>1. CASE Begin(w)
  <2>1. /\ pc[w] = "idle" /\ pc' = [pc EXCEPT ![w] = "measure"] /\ issued[w] < Appends
        /\ issued' = [issued EXCEPT ![w] = @ + 1]
        /\ UNCHANGED <<records, total_count, push_ok>>
    BY <1>1 DEF Begin, GoTo
  <2>2. CallOf(w) = "none" /\ CallOf(w)' = "pending"
    BY <2>1 DEF CallOf, TypeOK
  <2>3. call' = callw("pending") /\ log' = log
    BY <2>1, <2>2, CallsElsewhere
  <2>4. Abstract!Invoke(w)
    BY <1>0, <2>1, <2>2, <2>3 DEF Abstract!Invoke
  <2>. QED BY <2>4 DEF Abstract!LogNext
<1>2. CASE MeasurePath(w)
  <2>1. /\ pc[w] = "measure" /\ UNCHANGED <<records, total_count, issued>>
        /\ \/ pc' = [pc EXCEPT ![w] = "lock"] /\ push_ok' = push_ok
           \/ pc' = [pc EXCEPT ![w] = "return"] /\ push_ok' = [push_ok EXCEPT ![w] = FALSE]
    BY <1>2 DEF MeasurePath, GoTo
  <2>2. CallOf(w) = "pending" /\ CallOf(w)' \in {"pending", "refused"}
    BY <2>1 DEF CallOf, TypeOK
  <2>3. call' = callw(CallOf(w)') /\ log' = log
    BY <2>1, CallsElsewhere DEF TypeOK
  <2>4. CASE CallOf(w)' = "pending"
    <3>1. call' = call
      BY <2>2, <2>3, <2>4
    <3>. QED BY <3>1, <2>1, <2>3 DEF Abstract!logVars
  <2>5. CASE CallOf(w)' = "refused"
    <3>1. Abstract!Refuse(w)
      BY <1>0, <2>1, <2>2, <2>3, <2>5 DEF Abstract!Refuse
    <3>. QED BY <3>1 DEF Abstract!LogNext
  <2>. QED BY <2>2, <2>4, <2>5
<1>3. CASE Lock(w) \/ PushReserve(w) \/ PushStore(w) \/ Unlock(w)
  <2>1. /\ \/ pc[w] \in {"lock", "push", "store"} /\ \E p \in {"push", "store", "count"} : pc' = [pc EXCEPT ![w] = p]
           \/ pc[w] = "unlock" /\ pc' = [pc EXCEPT ![w] = "return"] /\ push_ok' = push_ok
        /\ UNCHANGED <<total_count, issued>>
        /\ \A v \in Workers : v # w => push_ok'[v] = push_ok[v]
    BY <1>3 DEF Lock, PushReserve, PushStore, Unlock, GoTo, TypeOK
  <2>2. CallOf(w)' = CallOf(w)
    BY <2>1 DEF CallOf, TypeOK
  <2>3. call' = [call EXCEPT ![w] = CallOf(w)']
    BY <2>1, CallsElsewhere
  <2>4. call' = call
    BY <2>2, <2>3
  <2>5. log' = log
    <3>1. CASE PushStore(w)
      <4>1. /\ total_count = Len(records) /\ Len(records) \in Nat
            /\ records' \in Seq(Workers \X Nat) /\ Len(records') = Len(records) + 1
            /\ \A i \in 1 .. Len(records) : records'[i] = records[i]
            /\ records \in Seq(Workers \X Nat)
            /\ \A i \in 1 .. Len(records) : records[i] \in Workers \X Nat
        BY <3>1, StoreAppends, SeqFacts DEF TypeOK
      <4> DEFINE t == SubSeq(records', 1, Len(records))
      <4>2. /\ t \in Seq(Workers \X Nat)
            /\ Len(t) = IF 1 <= Len(records) THEN Len(records) - 1 + 1 ELSE 0
            /\ \A i \in 1 .. Len(records) - 1 + 1 : t[i] = records'[1 + i - 1]
        BY <4>1, SubSeqProperties
      <4>3. Len(t) = Len(records) /\ \A i \in 1 .. Len(records) : records[i] = t[i]
        BY <4>1, <4>2
      <4> HIDE DEF t
      <4>4. records = t
        BY <4>1, <4>2, <4>3, SeqEqual
      <4>5. SubSeq(records, 1, Len(records)) = records
        BY <4>1, SubSeqFull
      <4>. QED BY <2>1, <4>1, <4>4, <4>5 DEF t
    <3>2. CASE Lock(w) \/ PushReserve(w) \/ Unlock(w)
      BY <3>2 DEF Lock, PushReserve, Unlock
    <3>. QED BY <1>3, <3>1, <3>2
  <2>. QED BY <2>1, <2>4, <2>5 DEF Abstract!logVars
<1>4. CASE CountRecord(w)
  <2>1. /\ pc[w] = "count" /\ pc' = [pc EXCEPT ![w] = "unlock"]
        /\ total_count' = IF push_ok[w] THEN total_count + 1 ELSE total_count
        /\ UNCHANGED <<records, push_ok, issued>>
    BY <1>4 DEF CountRecord, CountAfterPush, GoTo
  <2>2. /\ CallOf(w) = "pending"
        /\ CallOf(w)' = IF push_ok[w] THEN "accepted" ELSE "refused"
    BY <2>1 DEF CallOf, TypeOK
  <2>3. call' = callw(CallOf(w)')
    BY <2>1, CallsElsewhere
  <2>4. CASE push_ok[w]
    <3>1. Uncounted(w)
      BY <2>1, <2>4 DEF Uncounted
    <3>2. log' = Append(log, Record(w))
      BY <3>1, <2>1, <2>4, CountedPrefix
    <3>3. Abstract!TakeEffect(w)
      BY <1>0, <2>1, <2>2, <2>3, <2>4, <3>2 DEF Abstract!TakeEffect, Abstract!Record, Record
    <3>. QED BY <3>3 DEF Abstract!LogNext
  <2>5. CASE ~push_ok[w]
    <3>1. log' = log
      BY <2>1, <2>5
    <3>2. Abstract!Refuse(w)
      BY <1>0, <2>1, <2>2, <2>3, <2>5, <3>1 DEF Abstract!Refuse
    <3>. QED BY <3>2 DEF Abstract!LogNext
  <2>. QED BY <2>4, <2>5
<1>5. CASE Return(w)
  <2>1. /\ pc[w] = "return" /\ pc' = [pc EXCEPT ![w] = "idle"]
        /\ UNCHANGED <<records, total_count, push_ok, issued>>
    BY <1>5 DEF Return, GoTo
  <2>2. CallOf(w) \in {"accepted", "refused"} /\ CallOf(w)' = "none"
    BY <2>1 DEF CallOf, TypeOK
  <2>3. call' = callw("none") /\ log' = log
    BY <2>1, <2>2, CallsElsewhere
  <2>4. Abstract!Respond(w)
    BY <1>0, <2>1, <2>2, <2>3 DEF Abstract!Respond
  <2>. QED BY <2>4 DEF Abstract!LogNext
<1>. QED BY <1>1, <1>2, <1>3, <1>4, <1>5 DEF AppendStep

(* The detailed collector implements the atomic append-only log: each       *)
(* append takes effect at its fetch-add, or is refused.                     *)
THEOREM Refinement == Spec => AppendsAreAtomic
<1>1. Init => Abstract!LogInit
  <2> SUFFICES ASSUME Init PROVE Abstract!LogInit
    OBVIOUS
  <2>1. SubSeq(records, 1, total_count) = <<>>
    BY SubSeqEmpty DEF Init
  <2>2. [w \in Workers |-> CallOf(w)] = [w \in Workers |-> "none"]
    BY DEF Init, CallOf
  <2>. QED BY <2>1, <2>2 DEF Init, Abstract!LogInit
<1>2. IInv /\ [Next]_vars => [Abstract!LogNext]_(Abstract!logVars)
  <2> SUFFICES ASSUME IInv, [Next]_vars PROVE [Abstract!LogNext]_(Abstract!logVars)
    OBVIOUS
  <2>1. CASE Create \/ Destroy \/ FlushStep \/ UNCHANGED vars
    <3>1. UNCHANGED <<records, total_count, issued, pc, push_ok>>
      BY <2>1 DEF Create, Destroy, FlushStep, FlushBegin, PrintRecord, FlushClose, vars, appendVars
    <3>. QED BY <3>1 DEF Abstract!logVars, CallOf
  <2>2. CASE \E w \in Workers : AppendStep(w)
    BY <2>2, StepRefines
  <2>. QED BY <2>1, <2>2 DEF Next
<1>. QED BY <1>1, <1>2, Invariance, PTL DEF Spec, AppendsAreAtomic, Abstract!LogSpec
=============================================================================
