----------------------------- MODULE ConfigStore -----------------------------
(***************************************************************************)
(* The configuration store of src/config/bc_runtime_config.c: an array of  *)
(* entries that set and append search from the front, sort orders, and     *)
(* lookup searches by halving, provided nothing was added since the sort.  *)
(*                                                                         *)
(* A key is a natural number: config_entry_compare is a total order on     *)
(* keys and nothing else of their text matters.  A value is the sequence   *)
(* of the items given under its key: append joins two values with a        *)
(* separator.  Every allocation may be refused; the string primitives of   *)
(* the core library succeed on the strings they are given.  The loop of    *)
(* the merge sort is abstracted to its result, an ordered rearrangement:   *)
(* ConfigSort has the loop and shows this of it.                           *)
(* One thread uses a store at a time.                                      *)
(*                                                                         *)
(* One bound: MaxItems items in a value.                                   *)
(*                                                                         *)
(* A definition marked "slip" is a wrong form of the one after it, with    *)
(* which the properties below are tested; no specification uses it.        *)
(***************************************************************************)
EXTENDS Naturals, Sequences

CONSTANTS
  Keys,
  Items,
  InitialCapacity,
  MaxItems

ASSUME StoreAssumption ==
  /\ Keys \subseteq Nat
  /\ InitialCapacity \in Nat \ {0}
  /\ MaxItems \in Nat

VARIABLES
  entries,         \* the first entry_count entries of the array
  entry_capacity,
  sorted,
  lookup,          \* a lookup in progress: [key, low, high], or none
  reply            \* history: what the last call returned

vars == <<entries, entry_capacity, sorted, lookup, reply>>

Entry(k, value) == [key |-> k, value |-> value]

NoValue == <<>>
Reply(ok, value) == [ok |-> ok, value |-> value]
Return(ok) == reply' = Reply(ok, NoValue)

Idle == lookup = <<>>

Count == Len(entries)
Indices == 1 .. Count

\* Where the front-to-back search of set and append finds the key.
Holds(i, k) == entries[i].key = k
HasButLast(k) == \E i \in 1 .. Count - 1 : Holds(i, k)   \* slip: off by one
Has(k) == \E i \in Indices : Holds(i, k)
IndexOf(k) == CHOOSE i \in Indices : Holds(i, k)

Init ==
  /\ entries = <<>>
  /\ entry_capacity = InitialCapacity
  /\ sorted = FALSE
  /\ lookup = <<>>
  /\ reply = Reply(TRUE, NoValue)

-----------------------------------------------------------------------------
(* bc_runtime_config_store_set.                                             *)

SortedStill == sorted                                  \* slip: flag not cleared
SortedAfterAdding == FALSE

FullPastEnd == Count > entry_capacity                  \* slip: off by one
Full == Count = entry_capacity

Overwrite(k, value) ==
  /\ Has(k)
  /\ entries' = [entries EXCEPT ![IndexOf(k)] = Entry(k, value)]
  /\ UNCHANGED <<entry_capacity, sorted>>
  /\ Return(TRUE)

Halved == IF Full THEN entry_capacity \div 2 ELSE entry_capacity   \* slip: shifted the wrong way
Grown == IF Full THEN 2 * entry_capacity ELSE entry_capacity

Add(k, value) ==
  /\ ~Has(k)
  /\ entries' = Append(entries, Entry(k, value))
  /\ entry_capacity' = Grown
  /\ sorted' = SortedAfterAdding
  /\ Return(TRUE)

\* A refused allocation: of the value, of a larger array, or of one of the
\* two strings after the array has grown.
Refused ==
  /\ UNCHANGED <<entries, entry_capacity, sorted>>
  /\ Return(FALSE)

RefusedAfterGrowth(k) ==
  /\ ~Has(k)
  /\ Full
  /\ entry_capacity' = Grown
  /\ UNCHANGED <<entries, sorted>>
  /\ Return(FALSE)

Set(k, item) ==
  /\ Idle /\ UNCHANGED lookup
  /\ \/ Overwrite(k, <<item>>)
     \/ Add(k, <<item>>)
     \/ Refused
     \/ RefusedAfterGrowth(k)

(* bc_runtime_config_store_append: the joined value replaces the old one,   *)
(* or the key is set for the first time.                                    *)
JoinedInFront(k, item) == <<item>> \o entries[IndexOf(k)].value   \* slip: operands swapped
Joined(k, item) == Append(entries[IndexOf(k)].value, item)

AppendItem(k, item) ==
  /\ Idle /\ UNCHANGED lookup
  /\ \/ /\ Has(k)
        /\ Len(entries[IndexOf(k)].value) < MaxItems
        /\ Overwrite(k, Joined(k, item))
     \/ Add(k, <<item>>)
     \/ Refused
     \/ RefusedAfterGrowth(k)

-----------------------------------------------------------------------------
(* bc_runtime_config_store_sort.                                            *)

Ordered(s) == \A i, j \in 1 .. Len(s) : i < j => s[i].key <= s[j].key

\* Each of the n entries goes to one place and every place gets one.
Rearrangements(n) ==
  { p \in [1 .. n -> 1 .. n] : /\ \A i, j \in 1 .. n : p[i] = p[j] => i = j
                               /\ \A j \in 1 .. n : \E i \in 1 .. n : p[i] = j }

IsSortResult(s) == Ordered(s)

Sort ==
  /\ Idle
  /\ UNCHANGED <<entry_capacity, lookup>>
  /\ \/ /\ Count > 1
        /\ sorted' = TRUE
        /\ Return(TRUE)
        /\ \E p \in Rearrangements(Count) :
             LET s == [i \in Indices |-> entries[p[i]]]
             IN  IsSortResult(s) /\ entries' = s
     \/ /\ Count > 1                                     \* no temporary buffer
        /\ UNCHANGED <<entries, sorted>>
        /\ Return(FALSE)
     \/ /\ Count <= 1
        /\ sorted' = TRUE
        /\ UNCHANGED entries
        /\ Return(TRUE)

-----------------------------------------------------------------------------
(* bc_runtime_config_store_lookup, one action per turn of its loop.  low    *)
(* and high count from zero, entries from one.                              *)

LookupUnsorted ==
  /\ Idle
  /\ ~sorted
  /\ Return(FALSE)
  /\ UNCHANGED <<entries, entry_capacity, sorted, lookup>>

Window(k, low, high) == <<[key |-> k, low |-> low, high |-> high]>>

LookupBegin(k) ==
  /\ Idle
  /\ sorted
  /\ lookup' = Window(k, 0, Count)
  /\ UNCHANGED <<entries, entry_capacity, sorted, reply>>

Mid(w) == w.low + (w.high - w.low) \div 2

UpperWithMid(w) == Window(w.key, Mid(w), w.high)       \* slip: mid not excluded
UpperPastNext(w) == Window(w.key, Mid(w) + 2, w.high)  \* slip: off by one
Upper(w) == Window(w.key, Mid(w) + 1, w.high)
Lower(w) == Window(w.key, w.low, Mid(w))

LookupProbe ==
  /\ ~Idle
  /\ LET w     == lookup[1]
         probe == entries[Mid(w) + 1]
     IN  /\ w.low < w.high
         /\ \/ /\ probe.key = w.key
               /\ reply' = Reply(TRUE, <<probe.value>>)
               /\ lookup' = <<>>
            \/ /\ probe.key < w.key
               /\ lookup' = Upper(w)
               /\ UNCHANGED reply
            \/ /\ probe.key > w.key
               /\ lookup' = Lower(w)
               /\ UNCHANGED reply
  /\ UNCHANGED <<entries, entry_capacity, sorted>>

LookupMissing ==
  /\ ~Idle
  /\ lookup[1].low >= lookup[1].high
  /\ Return(FALSE)
  /\ lookup' = <<>>
  /\ UNCHANGED <<entries, entry_capacity, sorted>>

Lookup == LookupProbe \/ LookupMissing

-----------------------------------------------------------------------------
Next ==
  \/ Sort
  \/ LookupUnsorted
  \/ Lookup
  \/ \E k \in Keys : LookupBegin(k)
  \/ \E k \in Keys, item \in Items : Set(k, item) \/ AppendItem(k, item)

Spec == Init /\ [][Next]_vars

\* A thread inside a lookup keeps running.
FairSpec == Spec /\ WF_vars(Lookup)

-----------------------------------------------------------------------------
ValueType == Seq(Items)
WindowType == [key : Keys, low : Nat, high : Nat]
IsReply(r) == r \in [ok : BOOLEAN, value : Seq(ValueType)] /\ Len(r.value) <= 1

(* Every variable stays in its type.                                        *)
TypeOK ==
  /\ entries \in Seq([key : Keys, value : ValueType])
  /\ entry_capacity \in Nat \ {0}
  /\ sorted \in BOOLEAN
  /\ lookup \in Seq(WindowType) /\ Len(lookup) <= 1
  /\ IsReply(reply)

(* No key has two entries, so that a key that is set twice is overwritten   *)
(* and not shadowed (the linear search of set and append).                  *)
UniqueKeys == \A i, j \in Indices : entries[i].key = entries[j].key => i = j

(* While the flag `sorted` is set the entries are in key order: no write    *)
(* that the flag survives may disturb it.                                   *)
SortedMeansOrdered ==
  sorted => \A i, j \in Indices : i < j => entries[i].key < entries[j].key

(* The array never holds more entries than it has room for, though it may   *)
(* have grown for an entry that was then refused.                           *)
FitsTheArray == Count <= entry_capacity

(* What set, append and the search need of the array: one entry for a key,  *)
(* and room for all of them, whatever was refused when it grew.             *)
ArrayIsSound == UniqueKeys /\ FitsTheArray

(* A lookup stays inside the array, and an entry with its key can only be   *)
(* in the window still to be searched.                                      *)
LookupWindow ==
  \A n \in DOMAIN lookup :
    LET w == lookup[n]
    IN  /\ w.low <= w.high /\ w.high <= Count
        /\ \A i \in Indices : Holds(i, w.key) => w.low < i /\ i <= w.high

(* Every lookup ends: the window shrinks at every turn of the loop.         *)
LookupEnds == ~Idle ~> Idle

-----------------------------------------------------------------------------
Stored(k) == IF Has(k) THEN <<entries[IndexOf(k)].value>> ELSE <<>>

Map == INSTANCE ConfigMap WITH
  map      <- [k \in Keys |-> Stored(k)],
  readable <- sorted

\* A search ends with this step.
Answers == ~Idle /\ lookup' = <<>>

Writes == \E k \in Keys, item \in Items : Set(k, item) \/ AppendItem(k, item)

EachCall ==
  /\ ~reply'.ok /\ (Writes \/ Sort) => Map!Fail
  /\ reply'.ok =>
       /\ \A k \in Keys, item \in Items :
            /\ Set(k, item) => Map!Put(k, item)
            /\ AppendItem(k, item) => Map!Extend(k, item)
       /\ Sort => Map!MakeReadable
  /\ LookupUnsorted => \A k \in Keys : Map!Get(k)
  /\ \A k \in Keys : LookupBegin(k) => lookup'[1].key = k /\ UNCHANGED Map!mapVars
  /\ Lookup => IF Answers
               THEN Map!Get(lookup[1].key)
               ELSE lookup'[1].key = lookup[1].key /\ UNCHANGED Map!mapVars

(* The array with its flag and its halving search is a map, call by call: a *)
(* write or a sort does to the map what its name says if it returns true    *)
(* and nothing if it returns false, and a lookup, through all its turns,    *)
(* answers with what was last stored under the key it was asked for, and    *)
(* fails only if there is nothing or the store is not sorted.               *)
EachCallAnswers == Map!MapInit /\ [][EachCall]_vars
=============================================================================
