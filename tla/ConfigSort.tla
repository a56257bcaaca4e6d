----------------------------- MODULE ConfigSort -----------------------------
(***************************************************************************)
(* bc_runtime_config_store_sort in src/config/bc_runtime_config.c: a merge *)
(* sort from the bottom up.  A pass merges neighbouring runs of width      *)
(* entries into a temporary buffer, which is then copied back over the     *)
(* array; the width doubles from pass to pass.  ConfigStore takes all of   *)
(* this in one step.                                                       *)
(*                                                                         *)
(* Indices count from zero as in the code: entry n is entries[n + 1].  A   *)
(* key is a natural number and, as in a store, has one entry.  A slot of   *)
(* the temporary buffer that nothing was written to holds Garbage.         *)
(*                                                                         *)
(* A definition marked "slip" is a wrong form of the one after it, with    *)
(* which the properties below are tested; no specification uses it.        *)
(***************************************************************************)
EXTENDS Naturals, Sequences

CONSTANTS
  Keys,
  Garbage,         \* memory that nothing was written to
  MaxEntries       \* bound: entries in the array to sort

ASSUME SortAssumption ==
  /\ Keys \subseteq Nat
  /\ Garbage \notin [key : Keys]
  /\ MaxEntries \in Nat

VARIABLES
  given,           \* history: the array as the call found it
  entries,
  sorted,
  temp_buffer,
  pc,
  width,
  i,               \* where the pair of runs being merged starts
  left_index,
  right_index,
  write_index,
  answer           \* what the call returned

pair    == <<i, left_index, right_index, write_index>>
vars    == <<given, entries, sorted, temp_buffer, pc, width, pair, answer>>

entry_count == Len(given)

Arrays ==
  { s \in UNION { [1 .. n -> [key : Keys]] : n \in 0 .. MaxEntries } :
      \A a, b \in DOMAIN s : s[a].key = s[b].key => a = b }

Init ==
  /\ given \in Arrays
  /\ entries = given
  /\ sorted \in BOOLEAN
  /\ temp_buffer = <<>>
  /\ pc = "begin"
  /\ width = 1
  /\ i = 0
  /\ left_index = 0 /\ right_index = 0 /\ write_index = 0
  /\ answer = FALSE

-----------------------------------------------------------------------------
Return(ok) == pc' = "done" /\ answer' = ok

NothingToSort ==
  /\ pc = "begin" /\ entry_count <= 1
  /\ sorted' = TRUE
  /\ Return(TRUE)
  /\ UNCHANGED <<given, entries, temp_buffer, width, pair>>

NoBuffer ==
  /\ pc = "begin" /\ entry_count > 1
  /\ Return(FALSE)
  /\ UNCHANGED <<given, entries, sorted, temp_buffer, width, pair>>

AllocateBuffer ==
  /\ pc = "begin" /\ entry_count > 1
  /\ temp_buffer' = [n \in 1 .. entry_count |-> Garbage]
  /\ pc' = "pass"
  /\ UNCHANGED <<given, entries, sorted, width, pair, answer>>

Least(a, b) == IF a < b THEN a ELSE b

right_start_unclipped == i + width                     \* slip: past the array
right_start == Least(i + width, entry_count)
right_end   == Least(i + 2 * width, entry_count)

BeginMerge ==
  /\ pc = "pass" /\ width < entry_count /\ i < entry_count
  /\ left_index' = i
  /\ right_index' = right_start
  /\ write_index' = i
  /\ pc' = "merge"
  /\ UNCHANGED <<given, entries, sorted, temp_buffer, width, i, answer>>

-----------------------------------------------------------------------------
(* merge_entries, one action per turn of its three loops.                   *)
Write(n) ==
  /\ temp_buffer' = [temp_buffer EXCEPT ![write_index + 1] = entries[n + 1]]
  /\ write_index' = write_index + 1
  /\ UNCHANGED <<given, entries, sorted, pc, width, i, answer>>

LeftGoesOn  == left_index < right_start
RightStops  == right_index + 1 < right_end             \* slip: the last entry forgotten
RightGoesOn == right_index < right_end

LeftIsGreater == entries[left_index + 1].key > entries[right_index + 1].key   \* slip: order reversed
LeftIsLeast == entries[left_index + 1].key <= entries[right_index + 1].key

TakeLeft ==
  /\ pc = "merge" /\ LeftGoesOn
  /\ RightGoesOn => LeftIsLeast
  /\ Write(left_index)
  /\ left_index' = left_index + 1
  /\ UNCHANGED right_index

TakeRight ==
  /\ pc = "merge" /\ RightGoesOn
  /\ LeftGoesOn => ~LeftIsLeast
  /\ Write(right_index)
  /\ right_index' = right_index + 1
  /\ UNCHANGED left_index

MergeEnds ==
  /\ pc = "merge" /\ ~LeftGoesOn /\ ~RightGoesOn
  /\ i' = i + 2 * width
  /\ pc' = "pass"
  /\ UNCHANGED <<given, entries, sorted, temp_buffer, width, left_index, right_index, write_index, answer>>

-----------------------------------------------------------------------------
WidthKept   == width                                   \* slip: never doubled
WidthTripled == 3 * width                              \* slip: past the runs that were merged
NextWidth   == 2 * width

CopyBack ==
  /\ pc = "pass" /\ width < entry_count /\ i >= entry_count
  /\ entries' = temp_buffer
  /\ width' = NextWidth
  /\ i' = 0
  /\ UNCHANGED <<given, sorted, temp_buffer, pc, left_index, right_index, write_index, answer>>

FreeBuffer ==
  /\ pc = "pass" /\ width >= entry_count
  /\ temp_buffer' = <<>>
  /\ sorted' = TRUE
  /\ Return(TRUE)
  /\ UNCHANGED <<given, entries, width, pair>>

Merge == TakeLeft \/ TakeRight \/ MergeEnds

Next == NothingToSort \/ NoBuffer \/ AllocateBuffer \/ BeginMerge \/ Merge \/ CopyBack \/ FreeBuffer

Spec == Init /\ [][Next]_vars

\* The thread that sorts keeps running.
FairSpec == Spec /\ WF_vars(Next)

-----------------------------------------------------------------------------
Positions == 0 .. entry_count - 1
EntryType == [key : Keys]

(* Every variable stays in its type, every index inside its run, and no     *)
(* entry of the array is ever garbage.                                      *)
TypeOK ==
  /\ given \in Seq(EntryType) /\ entries \in Seq(EntryType) /\ Len(entries) = entry_count
  /\ sorted \in BOOLEAN /\ answer \in BOOLEAN
  /\ pc \in {"begin", "pass", "merge", "done"}
  /\ width \in Nat \ {0}
  /\ i \in Nat /\ left_index \in Nat /\ right_index \in Nat /\ write_index \in Nat
  /\ temp_buffer \in Seq(EntryType \cup {Garbage})
  /\ Len(temp_buffer) = IF pc \in {"pass", "merge"} THEN entry_count ELSE 0
  /\ pc = "merge" =>
       /\ i < entry_count
       /\ i <= left_index /\ left_index <= right_start
       /\ right_start <= right_index /\ right_index <= right_end

\* The positions of the array whose entries the current pass has merged.
Merged ==
  IF pc = "merge" THEN { n \in Positions : n < left_index \/ (right_start <= n /\ n < right_index) }
                  ELSE { n \in Positions : n < i }

written == IF pc = "merge" THEN write_index ELSE Least(i, entry_count)

\* The first entries of the buffer are the entries taken so far, each once.
NothingLostNorTwice ==
  pc \in {"pass", "merge"} =>
    /\ { temp_buffer[n] : n \in 1 .. written } = { entries[n + 1] : n \in Merged }
    /\ \A a, b \in 1 .. written : temp_buffer[a] = temp_buffer[b] => a = b

SameRun(a, b, w) == a \div w = b \div w

RunsInOrder ==
  /\ \A a, b \in Positions :
       a < b /\ SameRun(a, b, width) => entries[a + 1].key < entries[b + 1].key
  /\ pc \in {"pass", "merge"} =>
       \A a, b \in 0 .. written - 1 :
         a < b /\ SameRun(a, b, 2 * width) => temp_buffer[a + 1].key < temp_buffer[b + 1].key

(* Every pass takes ordered runs to ordered runs of twice the width, what   *)
(* it relies on being what the pass before it left, and is a rearrangement  *)
(* at every moment, also when the last run is short or has no run to be     *)
(* merged with.                                                             *)
PassMerges == NothingLostNorTwice /\ RunsInOrder

(* The sort always returns.                                                 *)
SortReturns == <>(pc = "done")

Returned == pc = "done"

Store == INSTANCE ConfigStore WITH
  Items           <- {},
  InitialCapacity <- 1,
  MaxItems        <- 0,
  entries         <- IF Returned THEN entries ELSE given,
  entry_capacity  <- MaxEntries,
  lookup          <- <<>>,
  reply           <- [ok |-> Returned /\ answer, value |-> <<>>]

(* Seen from the store the whole call is its one step Sort: the array is    *)
(* rearranged into key order and flagged, or, without a buffer, untouched.  *)
ImplementsSort == [][Store!Sort]_(Store!vars)
=============================================================================
