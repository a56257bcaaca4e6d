--------------------------- MODULE ErrorCollector ---------------------------
(***************************************************************************)
(* src/app/bc_runtime_error_collector.c: the workers of a parallel job     *)
(* append error records to one array under a test-and-set spin lock, a     *)
(* relaxed counter beside the array is read without the lock, and the      *)
(* thread that joined the workers prints the records to stderr.            *)
(*                                                                         *)
(* A record (path, stage, errno) is abstracted to the call that appended   *)
(* it: <<worker, number of the call>>.  The typed array of the allocator   *)
(* library is modelled by the two steps of its push that other threads can *)
(* come between: read the length, growing the array if need be (which may  *)
(* fail), then store the element and set the length.                       *)
(*                                                                         *)
(* Two bounds: Appends calls per worker, MaxFlushes flushes.               *)
(*                                                                         *)
(* A definition marked "slip" is a wrong form of the one after it, with    *)
(* which the properties below are tested; no specification uses it.        *)
(***************************************************************************)
EXTENDS Naturals, Sequences

CONSTANTS
  Workers,
  Appends,
  MaxFlushes

ASSUME CollectorAssumption == Appends \in Nat /\ MaxFlushes \in Nat

VARIABLES
  collector,      \* "absent", "failed", "live" or "destroyed"
  append_lock,    \* the atomic_flag
  records,        \* the typed array
  total_count,    \* the atomic counter
  pc,             \* where each worker is in bc_runtime_error_collector_append
  push_ok,        \* the local of that name; FALSE too when the path is unreadable
  slot,           \* the array length a push has read
  issued,         \* history: calls each worker has made
  accepted,       \* history: calls that returned true
  refused,        \* history: calls that returned false
  flush_pc,       \* "idle", "print" or "close"
  record_count,   \* the local of that name of the last flush
  printed,        \* lines the last flush handed to its writer
  stderr,         \* lines of the last flush that reached the descriptor
  write_failed,   \* history: a write of the last flush failed
  flushes         \* flushes begun

appendVars == <<append_lock, records, total_count, pc, push_ok, slot, issued, accepted, refused>>
flushVars  == <<flush_pc, record_count, printed, stderr, write_failed, flushes>>
vars       == <<collector, appendVars, flushVars>>

Record(w) == <<w, issued[w]>>

GoTo(w, step) == pc' = [pc EXCEPT ![w] = step]

Holding == {"push", "store", "count", "unlock"}
HoldsLock(w) == pc[w] \in Holding

Init ==
  /\ collector = "absent"
  /\ append_lock = FALSE
  /\ records = <<>>
  /\ total_count = 0
  /\ pc = [w \in Workers |-> "idle"]
  /\ push_ok = [w \in Workers |-> FALSE]
  /\ slot = [w \in Workers |-> 0]
  /\ issued = [w \in Workers |-> 0]
  /\ accepted = {}
  /\ refused = {}
  /\ flush_pc = "idle"
  /\ record_count = 0
  /\ printed = <<>>
  /\ stderr = <<>>
  /\ write_failed = FALSE
  /\ flushes = 0

-----------------------------------------------------------------------------
(* Creation and destruction by the owning thread.  The contents of freed    *)
(* storage are left as they were: nothing reads them once destroyed.        *)

Quiescent == flush_pc = "idle" /\ \A w \in Workers : pc[w] = "idle"

Create ==
  /\ collector = "absent"
  /\ collector' \in {"live", "failed"}
  /\ UNCHANGED <<appendVars, flushVars>>

Destroy ==
  /\ collector = "live"
  /\ Quiescent
  /\ collector' = "destroyed"
  /\ UNCHANGED <<appendVars, flushVars>>

-----------------------------------------------------------------------------
(* bc_runtime_error_collector_append, one action per shared access.         *)

LockIgnored == TRUE                                 \* slip: no test-and-set
LockFree == append_lock = FALSE

PushLengthShort(w) == Len(records) - 1              \* slip: index for length
PushLength(w) == Len(records)

PushedOverLast(w) == Append(SubSeq(records, 1, slot[w] - 1), Record(w))   \* slip: off by one

\* The array with the pushed record at the slot its push had read.
Pushed(w) == Append(SubSeq(records, 1, slot[w]), Record(w))

CountEveryCall(w) == total_count + 1                \* slip: counts a failed push
CountAfterPush(w) == IF push_ok[w] THEN total_count + 1 ELSE total_count

Begin(w) ==
  /\ collector = "live"
  /\ flush_pc = "idle"
  /\ pc[w] = "idle"
  /\ issued[w] < Appends
  /\ issued' = [issued EXCEPT ![w] = @ + 1]
  /\ GoTo(w, "measure")
  /\ UNCHANGED <<append_lock, records, total_count, push_ok, slot, accepted, refused>>

MeasurePath(w) ==
  /\ pc[w] = "measure"
  /\ \/ GoTo(w, "lock") /\ UNCHANGED push_ok
     \/ GoTo(w, "return") /\ push_ok' = [push_ok EXCEPT ![w] = FALSE]
  /\ UNCHANGED <<append_lock, records, total_count, slot, issued, accepted, refused>>

Lock(w) ==
  /\ pc[w] = "lock"
  /\ LockFree
  /\ append_lock' = TRUE
  /\ GoTo(w, "push")
  /\ UNCHANGED <<records, total_count, push_ok, slot, issued, accepted, refused>>

PushReserve(w) ==
  /\ pc[w] = "push"
  /\ \/ /\ slot' = [slot EXCEPT ![w] = PushLength(w)]
        /\ GoTo(w, "store")
        /\ UNCHANGED push_ok
     \/ /\ push_ok' = [push_ok EXCEPT ![w] = FALSE]
        /\ GoTo(w, "count")
        /\ UNCHANGED slot
  /\ UNCHANGED <<append_lock, records, total_count, issued, accepted, refused>>

PushStore(w) ==
  /\ pc[w] = "store"
  /\ records' = Pushed(w)
  /\ push_ok' = [push_ok EXCEPT ![w] = TRUE]
  /\ GoTo(w, "count")
  /\ UNCHANGED <<append_lock, total_count, slot, issued, accepted, refused>>

CountRecord(w) ==
  /\ pc[w] = "count"
  /\ total_count' = CountAfterPush(w)
  /\ GoTo(w, "unlock")
  /\ UNCHANGED <<append_lock, records, push_ok, slot, issued, accepted, refused>>

\* slip: a failed push returns without the clear
UnlockIfPushed(w) ==
  /\ pc[w] = "unlock"
  /\ append_lock' = ~push_ok[w]
  /\ GoTo(w, "return")
  /\ UNCHANGED <<records, total_count, push_ok, slot, issued, accepted, refused>>

Unlock(w) ==
  /\ pc[w] = "unlock"
  /\ append_lock' = FALSE
  /\ GoTo(w, "return")
  /\ UNCHANGED <<records, total_count, push_ok, slot, issued, accepted, refused>>

Return(w) ==
  /\ pc[w] = "return"
  /\ IF push_ok[w]
       THEN accepted' = accepted \cup {Record(w)} /\ UNCHANGED refused
       ELSE refused' = refused \cup {Record(w)} /\ UNCHANGED accepted
  /\ GoTo(w, "idle")
  /\ UNCHANGED <<append_lock, records, total_count, push_ok, slot, issued>>

AppendStep(w) ==
  /\ \/ Begin(w) \/ MeasurePath(w) \/ Lock(w) \/ PushReserve(w)
     \/ PushStore(w) \/ CountRecord(w) \/ Unlock(w) \/ Return(w)
  /\ UNCHANGED <<collector, flushVars>>

-----------------------------------------------------------------------------
(* bc_runtime_error_collector_flush_to_stderr.  It reads the array without  *)
(* the lock, so its caller has joined the workers: Quiescent.  The writer   *)
(* buffers 4096 bytes: a line it took may still be lost when the buffer     *)
(* goes to the descriptor, and the last such failure is ignored (line 158). *)
(* A line is one write here and several there: after a failure stderr may   *)
(* end in a part of the next line, which counts as not printed.             *)

FlushLength == Len(records)

MorePrintingButOne == Len(printed) + 1 < record_count   \* slip: off by one
MorePrinting == Len(printed) < record_count

FlushBegin ==
  /\ collector = "live"
  /\ Quiescent
  /\ flushes < MaxFlushes
  /\ flushes' = flushes + 1
  /\ record_count' = FlushLength
  /\ printed' = <<>>
  /\ stderr' = <<>>
  /\ \/ flush_pc' = "print" /\ write_failed' = FALSE
     \/ flush_pc' = "idle" /\ write_failed' = TRUE      \* no writer: return
  /\ UNCHANGED <<collector, appendVars>>

PrintRecord ==
  /\ flush_pc = "print"
  /\ MorePrinting
  /\ \/ /\ printed' = Append(printed, records[Len(printed) + 1])
        /\ UNCHANGED <<flush_pc, write_failed>>
     \/ /\ flush_pc' = "close"                           \* break
        /\ write_failed' = TRUE
        /\ UNCHANGED printed
  /\ UNCHANGED <<collector, appendVars, record_count, stderr, flushes>>

FlushClose ==
  /\ flush_pc = "close" \/ (flush_pc = "print" /\ ~MorePrinting)
  /\ \/ /\ ~write_failed
        /\ stderr' = printed
        /\ UNCHANGED write_failed
     \/ /\ \E k \in 0 .. Len(printed) : stderr' = SubSeq(printed, 1, k)
        /\ write_failed' = TRUE
  /\ flush_pc' = "idle"
  /\ UNCHANGED <<collector, appendVars, record_count, printed, flushes>>

FlushStep == FlushBegin \/ PrintRecord \/ FlushClose

-----------------------------------------------------------------------------
Next ==
  \/ Create
  \/ Destroy
  \/ FlushStep
  \/ \E w \in Workers : AppendStep(w)

Spec == Init /\ [][Next]_vars

\* The operating system schedules every worker and the joining thread; a
\* worker that has not begun a call need never begin one.
Fairness ==
  /\ \A w \in Workers : WF_vars(AppendStep(w) /\ pc[w] # "idle")
  /\ WF_vars(FlushStep /\ flush_pc # "idle")

FairSpec == Spec /\ Fairness

-----------------------------------------------------------------------------
(* Every variable stays in its type.  No code behaviour beyond that.        *)
TypeOK ==
  /\ collector \in {"absent", "failed", "live", "destroyed"}
  /\ append_lock \in BOOLEAN
  /\ records \in Seq(Workers \X Nat)
  /\ total_count \in Nat
  /\ pc \in [Workers -> {"idle", "measure", "lock", "return"} \cup Holding]
  /\ push_ok \in [Workers -> BOOLEAN]
  /\ slot \in [Workers -> Nat]
  /\ issued \in [Workers -> Nat]
  /\ accepted \in SUBSET (Workers \X Nat)
  /\ refused \in SUBSET (Workers \X Nat)
  /\ flush_pc \in {"idle", "print", "close"}
  /\ record_count \in Nat
  /\ printed \in Seq(Workers \X Nat)
  /\ stderr \in Seq(Workers \X Nat)
  /\ write_failed \in BOOLEAN
  /\ flushes \in Nat

(* At most one worker is between the test-and-set and the clear, and while  *)
(* one is, the flag is set: the array and the counter have one writer.      *)
LockIsExclusive ==
  /\ \A w \in Workers : HoldsLock(w) => append_lock
  /\ \A v, w \in Workers : HoldsLock(v) /\ HoldsLock(w) => v = w

(* A counter read without the lock (bc_runtime_error_collector_count) is    *)
(* never ahead of the array and at most one record behind it, and behind    *)
(* only while some append holds the lock.                                   *)
CountTracksRecords ==
  /\ total_count \in {Len(records), Len(records) - 1}
  /\ ~append_lock => total_count = Len(records)

(* An append that returned true left its record in the part of the array    *)
(* the counter covers, in one place; one that returned false left nothing.  *)
NoAppendLost ==
  /\ \A r \in accepted : \E i \in 1 .. total_count : records[i] = r
  /\ \A i, j \in 1 .. Len(records) : records[i] = records[j] => i = j
  /\ \A i \in 1 .. Len(records) : records[i] \notin refused

(* The records of one worker are in the array in the order it appended      *)
(* them, whatever the interleaving of the workers.                          *)
WorkerOrder ==
  \A i, j \in 1 .. Len(records) :
    i < j /\ records[i][1] = records[j][1] => records[i][2] < records[j][2]

(* A flush that met no write error put on stderr one line for each record   *)
(* of the array, in the order of the array; a flush cut short put there     *)
(* the first of those lines and no other.  While it runs, the count it      *)
(* works from is the one bc_runtime_error_collector_count answers.          *)
FlushPrintsTheRecords ==
  /\ stderr = SubSeq(records, 1, Len(stderr))
  /\ flushes > 0 /\ flush_pc = "idle" /\ ~write_failed => Len(stderr) = record_count
  /\ flush_pc # "idle" => record_count = total_count

(* Every append that was called returns, although the lock is a spin lock   *)
(* without a queue: the workers' calls are finitely many.                   *)
EveryAppendReturns == \A w \in Workers : pc[w] # "idle" ~> pc[w] = "idle"

-----------------------------------------------------------------------------
(* Refinement: an append takes effect at its fetch-add.                     *)
CallOf(w) ==
  CASE pc[w] = "idle" -> "none"
    [] pc[w] \in {"unlock", "return"} -> IF push_ok[w] THEN "accepted" ELSE "refused"
    [] OTHER -> "pending"

Abstract == INSTANCE ErrorLog WITH
  log  <- SubSeq(records, 1, total_count),
  call <- [w \in Workers |-> CallOf(w)]

(* The appends of concurrent workers are atomic: the part of the array the  *)
(* counter covers grows by one record at one instant of each append that    *)
(* will return true, and does not change otherwise.                         *)
AppendsAreAtomic == Abstract!LogSpec
=============================================================================
