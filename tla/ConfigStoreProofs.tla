-------------------------- MODULE ConfigStoreProofs --------------------------
(***************************************************************************)
(* What holds of the configuration store for any keys, items and initial   *)
(* capacity: the array has no duplicate, the flag tells the truth, and the *)
(* halving search of a sorted array finds a key if and only if it is there.*)
(* Then what holds of a store that bc_runtime_create has loaded:           *)
(* LoadedStore extends ConfigStore, and every theorem of ConfigLoad is one *)
(* of it by refinement.                                                    *)
(***************************************************************************)
EXTENDS LoadedStore, SequenceTheorems, WellFoundedInduction, TLAPS

EntryType == [key : Keys, value : ValueType]

\* A lookup only runs on a sorted array: nothing is written meanwhile.
LookupNeedsOrder == ~Idle => sorted

IInv ==
  /\ TypeOK
  /\ UniqueKeys
  /\ SortedMeansOrdered
  /\ FitsTheArray
  /\ LookupWindow
  /\ LookupNeedsOrder

-----------------------------------------------------------------------------
LEMMA SeqFacts ==
  ASSUME NEW S, NEW s \in Seq(S)
  PROVE  /\ Len(s) \in Nat /\ DOMAIN s = 1 .. Len(s)
         /\ \A i \in 1 .. Len(s) : s[i] \in S
BY LenProperties, ElementOfSeq

\* The array as the proofs use it.
LEMMA EntryFacts ==
  ASSUME TypeOK
  PROVE  /\ Count \in Nat
         /\ entries \in Seq(EntryType)
         /\ \A i \in Indices : entries[i] \in EntryType /\ entries[i].key \in Nat
<1>1. entries \in Seq(EntryType)
  BY DEF TypeOK, EntryType
<1>2. Count \in Nat /\ \A i \in Indices : entries[i] \in EntryType
  BY <1>1, SeqFacts DEF Count, Indices
<1>3. \A e \in EntryType : e.key \in Nat
  BY StoreAssumption DEF EntryType
<1>. QED BY <1>1, <1>2, <1>3

LEMMA IndexFacts ==
  ASSUME NEW k, Has(k)
  PROVE  IndexOf(k) \in Indices /\ entries[IndexOf(k)].key = k
BY DEF Has, IndexOf, Holds

\* A turn of the halving search halves.
LEMMA MidFacts ==
  ASSUME NEW low \in Nat, NEW high \in Nat, low < high
  PROVE  low + (high - low) \div 2 \in low .. high - 1
OBVIOUS

LEMMA ReplyType ==
  /\ IsReply(Reply(TRUE, NoValue))
  /\ IsReply(Reply(FALSE, NoValue))
  /\ \A v \in ValueType : IsReply(Reply(TRUE, <<v>>))
<1>1. <<>> \in Seq(ValueType) /\ Len(<<>>) = 0
  BY EmptySeq
<1>2. \A v \in ValueType : <<v>> \in Seq(ValueType) /\ Len(<<v>>) = 1
  OBVIOUS
<1>. QED BY <1>1, <1>2 DEF Reply, NoValue, IsReply

LEMMA InitIInv == Init => IInv
<1> SUFFICES ASSUME Init PROVE IInv
  OBVIOUS
<1> USE StoreAssumption DEF Init
<1>0. /\ <<>> \in Seq(EntryType) /\ <<>> \in Seq(WindowType) /\ <<>> \in Seq(ValueType)
      /\ Len(<<>>) = 0
  BY EmptySeq
<1>1. TypeOK
  <2>1. IsReply(reply)
    BY ReplyType
  <2>2. entries \in Seq([key : Keys, value : ValueType])
    BY <1>0 DEF EntryType
  <2>3. lookup \in Seq(WindowType) /\ Len(lookup) <= 1
    BY <1>0
  <2>. QED BY <2>1, <2>2, <2>3 DEF TypeOK, IsReply
<1>2. UniqueKeys /\ SortedMeansOrdered /\ FitsTheArray
  BY <1>0 DEF UniqueKeys, SortedMeansOrdered, FitsTheArray, Count, Indices
<1>3. LookupWindow /\ LookupNeedsOrder
  BY DEF LookupWindow, LookupNeedsOrder, Idle
<1>. QED BY <1>1, <1>2, <1>3 DEF IInv

-----------------------------------------------------------------------------
\* The writes.  While nothing is looked up, the window says nothing.
LEMMA IdleWindow ==
  ASSUME lookup' = <<>>
  PROVE  LookupWindow' /\ LookupNeedsOrder'
BY DEF LookupWindow, LookupNeedsOrder, Idle

LEMMA OverwriteIInv ==
  ASSUME IInv, Idle, UNCHANGED lookup,
         NEW k \in Keys, NEW value \in ValueType, Overwrite(k, value)
  PROVE  IInv'
<1> DEFINE n == IndexOf(k)
           e == Entry(k, value)
<1>0. n \in Indices /\ entries[n].key = k
  BY IndexFacts DEF Overwrite
<1>1. e \in EntryType /\ e.key = k
  BY DEF Entry, EntryType
<1> HIDE DEF n, e
<1>2. /\ entries' = [entries EXCEPT ![n] = e]
      /\ UNCHANGED <<entry_capacity, sorted>>
      /\ reply' = Reply(TRUE, NoValue)
  BY DEF Overwrite, Return, n, e
<1>3. /\ entries' \in Seq(EntryType) /\ Len(entries') = Count
      /\ \A i \in Indices : entries'[i] = IF i = n THEN e ELSE entries[i]
  BY <1>0, <1>1, <1>2, EntryFacts, ExceptSeq DEF IInv, Count, Indices
<1>4. \A i \in Indices : entries'[i].key = entries[i].key
  BY <1>0, <1>1, <1>3
<1>5. Indices' = Indices /\ Count' = Count
  BY <1>3 DEF Indices, Count
<1>6. TypeOK'
  <2>1. IsReply(reply')
    BY <1>2, ReplyType
  <2>. QED BY <2>1, <1>2, <1>3 DEF IInv, TypeOK, IsReply, EntryType
<1>7. UniqueKeys' /\ SortedMeansOrdered' /\ FitsTheArray'
  BY <1>2, <1>4, <1>5 DEF IInv, UniqueKeys, SortedMeansOrdered, FitsTheArray
<1>. QED BY <1>6, <1>7, IdleWindow DEF IInv, Idle

LEMMA AddIInv ==
  ASSUME IInv, Idle, UNCHANGED lookup,
         NEW k \in Keys, NEW value \in ValueType, Add(k, value)
  PROVE  IInv'
<1> DEFINE e == Entry(k, value)
<1>0. e \in EntryType /\ e.key = k
  BY DEF Entry, EntryType
<1> HIDE DEF e
<1>1. /\ entries' = Append(entries, e) /\ sorted' = FALSE
      /\ entry_capacity' = IF Count = entry_capacity THEN 2 * entry_capacity ELSE entry_capacity
      /\ reply' = Reply(TRUE, NoValue)
      /\ \A i \in Indices : entries[i].key # k
  BY DEF Add, Return, e, SortedAfterAdding, Grown, Full, Has, Holds
<1>2. /\ Count \in Nat /\ entry_capacity \in Nat \ {0} /\ Count <= entry_capacity
  BY EntryFacts DEF IInv, FitsTheArray, TypeOK, IsReply
<1>3. /\ entries' \in Seq(EntryType) /\ Len(entries') = Count + 1
      /\ \A i \in Indices : entries'[i] = entries[i]
      /\ entries'[Count + 1] = e
  BY <1>0, <1>1, EntryFacts, AppendProperties DEF IInv, Count, Indices
<1>4. Count' = Count + 1 /\ Indices' = 1 .. Count + 1
  BY <1>3 DEF Count, Indices
<1>5. entry_capacity' \in Nat \ {0} /\ FitsTheArray'
  BY <1>1, <1>2, <1>4 DEF FitsTheArray
<1>6. TypeOK'
  <2>1. IsReply(reply')
    BY <1>1, ReplyType
  <2>. QED BY <2>1, <1>1, <1>3, <1>5 DEF IInv, TypeOK, IsReply, EntryType
<1>7. UniqueKeys'
  <2>1. \A i \in Indices : entries'[i].key # entries'[Count + 1].key
    BY <1>0, <1>1, <1>3
  <2>. QED BY <2>1, <1>2, <1>3, <1>4 DEF IInv, UniqueKeys, Indices
<1>8. SortedMeansOrdered'
  BY <1>1 DEF SortedMeansOrdered
<1>. QED BY <1>5, <1>6, <1>7, <1>8, IdleWindow DEF IInv, Idle

\* Calls that fail, and lookups that answer, leave the array alone.
LEMMA ArrayKept ==
  ASSUME IInv, UNCHANGED <<entries, sorted>>,
         entry_capacity' \in Nat, entry_capacity <= entry_capacity',
         lookup' = <<>>,
         IsReply(reply')
  PROVE  IInv'
<1>1. TypeOK'
  BY EmptySeq DEF IInv, TypeOK, IsReply
<1>2. UniqueKeys' /\ SortedMeansOrdered'
  BY DEF IInv, UniqueKeys, SortedMeansOrdered, Indices, Count
<1>3. FitsTheArray'
  BY EntryFacts DEF IInv, FitsTheArray, Count, TypeOK, IsReply
<1>. QED BY <1>1, <1>2, <1>3, IdleWindow DEF IInv

LEMMA SortIInv == ASSUME IInv, Sort PROVE IInv'
<1>0. /\ lookup' = <<>>
      /\ UNCHANGED entry_capacity
      /\ reply' = Reply(TRUE, NoValue) \/ reply' = Reply(FALSE, NoValue)
  BY DEF Sort, Idle, Return
<1>1. /\ IsReply(reply')
      /\ lookup' \in Seq(WindowType) /\ Len(lookup') <= 1
  <2>1. IsReply(reply')
    BY <1>0, ReplyType
  <2>2. lookup' \in Seq(WindowType) /\ Len(lookup') <= 1
    BY <1>0, EmptySeq
  <2>. QED BY <2>1, <2>2
<1>2. entry_capacity \in Nat \ {0} /\ sorted \in BOOLEAN
  BY DEF IInv, TypeOK, IsReply
<1>3. CASE UNCHANGED <<entries, sorted>>
  BY <1>0, <1>1, <1>2, <1>3, ArrayKept
<1>4. CASE Count <= 1 /\ sorted' = TRUE /\ UNCHANGED entries
  <2>1. TypeOK'
    BY <1>0, <1>1, <1>4 DEF IInv, TypeOK, IsReply
  <2>2. UniqueKeys' /\ FitsTheArray'
    BY <1>0, <1>4 DEF IInv, UniqueKeys, FitsTheArray, Indices, Count
  <2>3. \A i, j \in Indices : ~(i < j)
    BY <1>4, EntryFacts DEF IInv, Indices
  <2>4. SortedMeansOrdered'
    BY <2>3, <1>4 DEF SortedMeansOrdered, Indices, Count
  <2>. QED BY <2>1, <2>2, <2>4, <1>0, IdleWindow DEF IInv
<1>5. ASSUME NEW p \in Rearrangements(Count), sorted' = TRUE,
             entries' = [i \in Indices |-> entries[p[i]]], Ordered(entries')
      PROVE  IInv'
  <2>0. /\ Count \in Nat
        /\ \A i \in Indices : p[i] \in Indices
        /\ \A i, j \in Indices : p[i] = p[j] => i = j
        /\ \A i \in Indices : entries[i] \in EntryType
    BY EntryFacts DEF IInv, Rearrangements, Indices
  <2>1. entries' \in Seq(EntryType)
    <3>1. \A i \in 1 .. Count : entries[p[i]] \in EntryType
      BY <2>0 DEF Indices
    <3>. QED BY <1>5, <2>0, <3>1, IsASeq DEF Indices
  <2>2. /\ Len(entries') = Count
        /\ \A i \in Indices : entries'[i] = entries[p[i]]
    <3>1. DOMAIN entries' = 1 .. Count
      BY <1>5 DEF Indices
    <3>2. DOMAIN entries' = 1 .. Len(entries') /\ Len(entries') \in Nat
      BY <2>1, SeqFacts
    <3>3. Len(entries') = Count
      BY <3>1, <3>2, <2>0
    <3>. QED BY <3>3, <1>5
  <2>3. Count' = Count /\ Indices' = Indices
    BY <2>2 DEF Count, Indices
  <2>4. TypeOK'
    BY <1>0, <1>1, <1>2, <1>5, <2>1 DEF TypeOK, IsReply, EntryType
  <2>5. UniqueKeys'
    BY <2>0, <2>2, <2>3 DEF IInv, UniqueKeys
  <2>6. SortedMeansOrdered'
    <3> SUFFICES ASSUME NEW i \in Indices, NEW j \in Indices, i < j
                 PROVE  entries'[i].key < entries'[j].key
      BY <2>3 DEF SortedMeansOrdered
    <3>1. entries'[i].key <= entries'[j].key
      BY <1>5, <2>2 DEF Ordered, Indices
    <3>2. entries'[i].key # entries'[j].key
      BY <2>0, <2>3, <2>5 DEF UniqueKeys, Indices
    <3>3. entries'[i].key \in Nat /\ entries'[j].key \in Nat
      BY <2>0, <2>2, EntryFacts DEF IInv
    <3>. QED BY <3>1, <3>2, <3>3
  <2>7. FitsTheArray'
    BY <1>0, <2>3 DEF IInv, FitsTheArray
  <2>. QED BY <2>4, <2>5, <2>6, <2>7, <1>0, IdleWindow DEF IInv
<1>. QED BY <1>3, <1>4, <1>5 DEF Sort, IsSortResult

LEMMA LookupBeginIInv ==
  ASSUME IInv, NEW k \in Keys, LookupBegin(k)
  PROVE  IInv'
<1> DEFINE w == [key |-> k, low |-> 0, high |-> Count]
<1>0. Count \in Nat /\ w \in WindowType
  BY EntryFacts DEF IInv, WindowType
<1>1. /\ lookup' = <<w>> /\ sorted
      /\ UNCHANGED <<entries, entry_capacity, sorted, reply>>
  BY DEF LookupBegin, Window
<1>2. lookup' \in Seq(WindowType) /\ Len(lookup') = 1 /\ lookup'[1] = w /\ DOMAIN lookup' = {1}
  BY <1>0, <1>1
<1>3. TypeOK'
  BY <1>1, <1>2 DEF IInv, TypeOK, IsReply
<1>4. UniqueKeys' /\ SortedMeansOrdered' /\ FitsTheArray'
  BY <1>1 DEF IInv, UniqueKeys, SortedMeansOrdered, FitsTheArray, Indices, Count
<1>5. LookupWindow'
  BY <1>0, <1>1, <1>2 DEF LookupWindow, Indices, Count, Holds
<1>. QED BY <1>1, <1>3, <1>4, <1>5 DEF IInv, LookupNeedsOrder

LEMMA LookupIInv == ASSUME IInv, Lookup PROVE IInv'
<1> DEFINE w == lookup[1]
<1>0. /\ lookup \in Seq(WindowType) /\ Len(lookup) = 1 /\ DOMAIN lookup = {1} /\ w \in WindowType
      /\ sorted
  <2>1. lookup \in Seq(WindowType) /\ Len(lookup) <= 1 /\ lookup # <<>>
    BY DEF IInv, TypeOK, IsReply, Lookup, LookupProbe, LookupMissing, Idle
  <2>2. Len(lookup) = 1
    <3>1. Len(lookup) \in Nat \ {0}
      BY <2>1, EmptySeq
    <3>. QED BY <2>1, <3>1
  <2>. QED BY <2>1, <2>2, SeqFacts DEF IInv, LookupNeedsOrder, Idle
<1>1. /\ w.low \in Nat /\ w.high \in Nat /\ w.key \in Nat /\ w.key \in Keys
      /\ w.low <= w.high /\ w.high <= Count
      /\ \A i \in Indices : entries[i].key = w.key => w.low < i /\ i <= w.high
  BY <1>0, StoreAssumption DEF IInv, LookupWindow, WindowType, Holds
<1> HIDE DEF w
<1>2. Count \in Nat /\ \A i \in Indices : entries[i] \in EntryType /\ entries[i].key \in Nat
  BY EntryFacts DEF IInv
<1>3. CASE LookupMissing
  <2>1. IsReply(reply')
    BY <1>3, ReplyType DEF LookupMissing, Return
  <2>. QED BY <1>3, <2>1, ArrayKept DEF LookupMissing, IInv, TypeOK, IsReply
<1>4. CASE LookupProbe
  <2> DEFINE mid == Mid(w)
             probe == entries[mid + 1]
  <2>1. /\ w.low < w.high
        /\ UNCHANGED <<entries, entry_capacity, sorted>>
    BY <1>4 DEF LookupProbe, w
  <2>2. mid \in w.low .. w.high - 1 /\ mid \in Nat
    BY <1>1, <2>1, MidFacts DEF Mid
  <2>3. mid + 1 \in Indices /\ probe.key \in Nat
    BY <1>1, <1>2, <2>2 DEF Indices
  <2>4. \/ lookup' = <<>> /\ reply' = Reply(TRUE, <<probe.value>>)
        \/ probe.key < w.key /\ lookup' = Upper(w) /\ reply' = reply
        \/ probe.key > w.key /\ lookup' = Lower(w) /\ reply' = reply
    BY <1>4 DEF LookupProbe, w
  <2> HIDE DEF mid
  <2>5. CASE lookup' = <<>> /\ reply' = Reply(TRUE, <<probe.value>>)
    <3>1. probe.value \in ValueType
      BY <1>2, <2>3 DEF EntryType
    <3>2. IsReply(reply')
      BY <2>5, <3>1, ReplyType
    <3>3. entry_capacity \in Nat /\ entry_capacity' = entry_capacity
      BY <2>1 DEF IInv, TypeOK
    <3>. QED BY <2>1, <2>5, <3>2, <3>3, ArrayKept
  <2>6. ASSUME NEW v \in WindowType, lookup' = <<v>>, reply' = reply, v.key = w.key,
               v.low <= v.high, v.high <= Count,
               \A i \in Indices : entries[i].key = w.key => v.low < i /\ i <= v.high
        PROVE  IInv'
    <3>1. lookup' \in Seq(WindowType) /\ Len(lookup') = 1 /\ lookup'[1] = v /\ DOMAIN lookup' = {1}
      BY <2>6
    <3>2. TypeOK'
      BY <2>1, <2>6, <3>1 DEF IInv, TypeOK, IsReply
    <3>3. UniqueKeys' /\ SortedMeansOrdered' /\ FitsTheArray'
      BY <2>1 DEF IInv, UniqueKeys, SortedMeansOrdered, FitsTheArray, Indices, Count
    <3>4. LookupWindow'
      BY <2>1, <2>6, <3>1 DEF LookupWindow, Indices, Count, Holds
    <3>. QED BY <1>0, <2>1, <3>2, <3>3, <3>4 DEF IInv, LookupNeedsOrder
  <2>7. CASE probe.key < w.key /\ lookup' = Upper(w) /\ reply' = reply
    <3> DEFINE v == [key |-> w.key, low |-> mid + 1, high |-> w.high]
    <3>1. lookup' = <<v>>
      BY <2>7 DEF Upper, Window, mid
    <3>2. v \in WindowType /\ v.low <= v.high /\ v.high <= Count
      BY <1>1, <2>2 DEF WindowType
    <3>3. ASSUME NEW i \in Indices, entries[i].key = w.key
          PROVE  mid + 1 < i /\ i <= w.high
      <4>1. \A a, b \in Indices : a < b => entries[a].key < entries[b].key
        BY <1>0 DEF IInv, SortedMeansOrdered
      <4>2. i # mid + 1 /\ ~(i < mid + 1)
        BY <4>1, <3>3, <2>3, <2>7, <1>1
      <4>. QED BY <4>2, <3>3, <2>2, <1>1, <1>2 DEF Indices
    <3>. QED BY <3>1, <3>2, <3>3, <2>6, <2>7
  <2>8. CASE probe.key > w.key /\ lookup' = Lower(w) /\ reply' = reply
    <3> DEFINE v == [key |-> w.key, low |-> w.low, high |-> mid]
    <3>1. lookup' = <<v>>
      BY <2>8 DEF Lower, Window, mid
    <3>2. v \in WindowType /\ v.low <= v.high /\ v.high <= Count
      BY <1>1, <1>2, <2>2 DEF WindowType
    <3>3. ASSUME NEW i \in Indices, entries[i].key = w.key
          PROVE  w.low < i /\ i <= mid
      <4>1. \A a, b \in Indices : a < b => entries[a].key < entries[b].key
        BY <1>0 DEF IInv, SortedMeansOrdered
      <4>2. i # mid + 1 /\ ~(mid + 1 < i)
        BY <4>1, <3>3, <2>3, <2>8, <1>1
      <4>. QED BY <4>2, <3>3, <2>2, <1>1, <1>2 DEF Indices
    <3>. QED BY <3>1, <3>2, <3>3, <2>6, <2>8
  <2>. QED BY <2>4, <2>5, <2>7, <2>8
<1>. QED BY <1>3, <1>4 DEF Lookup

LEMMA WriteIInv ==
  ASSUME IInv, NEW k \in Keys, NEW item \in Items, Set(k, item) \/ AppendItem(k, item)
  PROVE  IInv'
<1>0. /\ Idle /\ lookup' = lookup /\ lookup' = <<>>
      /\ <<item>> \in ValueType
      /\ entry_capacity \in Nat \ {0}
  BY DEF Set, AppendItem, Idle, ValueType, IInv, TypeOK
<1>1. CASE Refused
  BY <1>0, <1>1, ArrayKept, ReplyType DEF Refused, Return
<1>2. CASE RefusedAfterGrowth(k)
  <2>1. entry_capacity' \in Nat /\ entry_capacity <= entry_capacity'
    BY <1>0, <1>2 DEF RefusedAfterGrowth, Grown
  <2>. QED BY <1>0, <1>2, <2>1, ArrayKept, ReplyType DEF RefusedAfterGrowth, Return
<1>3. CASE Add(k, <<item>>)
  BY <1>0, <1>3, AddIInv
<1>4. CASE Overwrite(k, <<item>>)
  BY <1>0, <1>4, OverwriteIInv
<1>5. CASE Has(k) /\ Overwrite(k, Joined(k, item))
  <2>1. entries[IndexOf(k)].value \in Seq(Items)
    BY <1>5, IndexFacts, EntryFacts DEF IInv, EntryType, ValueType
  <2>2. Joined(k, item) \in ValueType
    BY <2>1, AppendProperties DEF Joined, ValueType
  <2>. QED BY <1>0, <1>5, <2>2, OverwriteIInv
<1>. QED BY <1>1, <1>2, <1>3, <1>4, <1>5 DEF Set, AppendItem

(* The inductive invariant holds in every reachable state.                  *)
THEOREM Invariance == Spec => []IInv
<1>1. IInv /\ [Next]_vars => IInv'
  <2> SUFFICES ASSUME IInv, [Next]_vars PROVE IInv'
    OBVIOUS
  <2>1. CASE Sort
    BY <2>1, SortIInv
  <2>2. CASE LookupUnsorted
    <3>1. entry_capacity' \in Nat /\ entry_capacity <= entry_capacity'
      BY <2>2 DEF LookupUnsorted, IInv, TypeOK
    <3>. QED BY <2>2, <3>1, ArrayKept, ReplyType DEF LookupUnsorted, Return, Idle
  <2>3. CASE Lookup
    BY <2>3, LookupIInv
  <2>4. CASE \E k \in Keys : LookupBegin(k)
    BY <2>4, LookupBeginIInv
  <2>5. CASE \E k \in Keys, item \in Items : Set(k, item) \/ AppendItem(k, item)
    BY <2>5, WriteIInv
  <2>6. CASE UNCHANGED vars
    <3>1. TypeOK' /\ UniqueKeys' /\ SortedMeansOrdered' /\ FitsTheArray'
      BY <2>6 DEF vars, IInv, TypeOK, UniqueKeys, SortedMeansOrdered, FitsTheArray, Indices, Count
    <3>2. LookupWindow' /\ LookupNeedsOrder'
      BY <2>6 DEF vars, IInv, LookupWindow, LookupNeedsOrder, Idle, Indices, Count, Holds
    <3>. QED BY <3>1, <3>2 DEF IInv
  <2>. QED BY <2>1, <2>2, <2>3, <2>4, <2>5, <2>6 DEF Next
<1>. QED BY InitIInv, <1>1, PTL DEF Spec

(* Type correctness, for any keys, items and capacity.                      *)
THEOREM TypeCorrect == Spec => []TypeOK
BY Invariance, PTL DEF IInv

(* The linear search of set and append leaves no key with two entries, and  *)
(* the array is never written past its capacity.                            *)
THEOREM ArrayStaysSound == Spec => []ArrayIsSound
BY Invariance, PTL DEF IInv, ArrayIsSound

(* The flag `sorted` is never set over an array out of order.               *)
THEOREM FlagTellsTheTruth == Spec => []SortedMeansOrdered
BY Invariance, PTL DEF IInv

(* The halving search never leaves the array nor discards the half that     *)
(* holds its key.                                                           *)
THEOREM SearchKeepsItsKey == Spec => []LookupWindow
BY Invariance, PTL DEF IInv

-----------------------------------------------------------------------------
(* A lookup ends, as far as a step can say it: a turn answers or leaves at  *)
(* most half of the window, and less than there was.                        *)
WidthOf(w) == w.high - w.low

Halves ==
  ~Idle => \/ Idle'
           \/ /\ lookup'[1].key = lookup[1].key
              /\ 2 * WidthOf(lookup'[1]) <= WidthOf(lookup[1])
              /\ WidthOf(lookup'[1]) < WidthOf(lookup[1])
              /\ WidthOf(lookup[1]) \in Nat /\ WidthOf(lookup'[1]) \in Nat

LEMMA HalfOf ==
  ASSUME NEW low \in Nat, NEW high \in Nat, low < high,
         NEW mid, mid = low + (high - low) \div 2
  PROVE  /\ mid \in Nat /\ high - (mid + 1) \in Nat /\ mid - low \in Nat
         /\ 2 * (high - (mid + 1)) <= high - low /\ high - (mid + 1) < high - low
         /\ 2 * (mid - low) <= high - low /\ mid - low < high - low
<1>1. /\ (high - low) \div 2 \in Nat
      /\ 2 * ((high - low) \div 2) <= high - low
      /\ high - low < 2 * ((high - low) \div 2) + 2
  OBVIOUS
<1> QED
  BY <1>1

LEMMA LookupHalves == ASSUME IInv, Lookup PROVE Halves
<1> DEFINE w == lookup[1]
<1>1. ~Idle
  BY DEF Lookup, LookupProbe, LookupMissing
<1>2. w \in WindowType
  <2>1. lookup \in Seq(WindowType) /\ lookup # <<>>
    BY <1>1 DEF IInv, TypeOK, IsReply, Idle
  <2>2. 1 \in 1 .. Len(lookup)
    BY <2>1, EmptySeq
  <2> QED
    BY <2>1, <2>2, SeqFacts
<1>3. w.low \in Nat /\ w.high \in Nat
  BY <1>2 DEF WindowType
<1> HIDE DEF w
<1>4. \/ lookup' = <<>>
      \/ w.low < w.high /\ (lookup' = Upper(w) \/ lookup' = Lower(w))
  BY DEF Lookup, LookupProbe, LookupMissing, w
<1>5. w.low < w.high =>
        /\ Mid(w) \in Nat /\ w.high - (Mid(w) + 1) \in Nat /\ Mid(w) - w.low \in Nat
        /\ 2 * (w.high - (Mid(w) + 1)) <= w.high - w.low /\ w.high - (Mid(w) + 1) < w.high - w.low
        /\ 2 * (Mid(w) - w.low) <= w.high - w.low /\ Mid(w) - w.low < w.high - w.low
  BY <1>3, HalfOf DEF Mid
<1>6. CASE lookup' = <<>>
  BY <1>6 DEF Halves, Idle
<1>7. CASE w.low < w.high /\ lookup' = Upper(w)
  <2>1. lookup'[1] = [key |-> w.key, low |-> Mid(w) + 1, high |-> w.high]
    BY <1>7 DEF Upper, Window
  <2>2. WidthOf(lookup'[1]) = w.high - (Mid(w) + 1) /\ lookup'[1].key = w.key
    BY <2>1 DEF WidthOf
  <2>3. lookup'[1].key = lookup[1].key /\ WidthOf(lookup[1]) = w.high - w.low /\ w.high - w.low \in Nat
    BY <1>3, <1>7, <2>2 DEF WidthOf, w
  <2> QED
    BY <1>7, <1>5, <2>2, <2>3 DEF Halves
<1>8. CASE w.low < w.high /\ lookup' = Lower(w)
  <2>1. lookup'[1] = [key |-> w.key, low |-> w.low, high |-> Mid(w)]
    BY <1>8 DEF Lower, Window
  <2>2. WidthOf(lookup'[1]) = Mid(w) - w.low /\ lookup'[1].key = w.key
    BY <2>1 DEF WidthOf
  <2>3. lookup'[1].key = lookup[1].key /\ WidthOf(lookup[1]) = w.high - w.low /\ w.high - w.low \in Nat
    BY <1>3, <1>8, <2>2 DEF WidthOf, w
  <2> QED
    BY <1>8, <1>5, <2>2, <2>3 DEF Halves
<1> QED
  BY <1>4, <1>6, <1>7, <1>8

(* Every turn of bc_runtime_config_store_lookup answers or halves what is   *)
(* left to search, so that twice the entries take one turn more; and        *)
(* nothing else happens while a lookup is in progress.                      *)
THEOREM SearchHalves == Spec => [][Halves]_vars
<1>1. IInv /\ [Next]_vars => [Halves]_vars
  <2> SUFFICES ASSUME IInv, Next PROVE Halves
    OBVIOUS
  <2>1. CASE Lookup
    BY <2>1, LookupHalves
  <2>2. CASE ~Lookup
    <3>1. Idle
      BY <2>2 DEF Next, Sort, LookupUnsorted, LookupBegin, Set, AppendItem
    <3> QED
      BY <3>1 DEF Halves
  <2> QED
    BY <2>1, <2>2
<1> QED
  BY <1>1, Invariance, PTL DEF Spec

-----------------------------------------------------------------------------
(* Growth.                                                                  *)

\* The array has its first size, or is at most twice what it holds.
GrowthIsBounded == entry_capacity = InitialCapacity \/ entry_capacity <= 2 * Count

\* No call takes an entry away, and only a full array grows.
LEMMA Growth ==
  ASSUME IInv, IInv', [Next]_vars
  PROVE  /\ Count \in Nat /\ Count' \in Nat /\ Count <= Count'
         /\ entry_capacity \in Nat
         /\ \/ entry_capacity' = entry_capacity
            \/ Count = entry_capacity /\ entry_capacity' = 2 * entry_capacity
<1>1. /\ Count \in Nat /\ Count' \in Nat /\ entry_capacity \in Nat
      /\ DOMAIN entries = Indices /\ DOMAIN entries' = 1 .. Count'
  <2>1. entries \in Seq(EntryType) /\ entries' \in Seq(EntryType)
    BY DEF IInv, TypeOK, EntryType
  <2>. QED BY <2>1, SeqFacts DEF Count, Indices, IInv, TypeOK
<1>2. CASE UNCHANGED <<entries, entry_capacity>>
  BY <1>1, <1>2 DEF Count
<1>3. CASE Sort
  <2>1. UNCHANGED entry_capacity
    BY <1>3 DEF Sort
  <2>2. UNCHANGED entries \/ DOMAIN entries' = Indices
    BY <1>3 DEF Sort
  <2>3. CASE UNCHANGED entries
    BY <1>1, <2>1, <2>3 DEF Count
  <2>4. CASE DOMAIN entries' = Indices
    <3>1. 1 .. Count' = 1 .. Count
      BY <1>1, <2>4 DEF Indices
    <3>2. Count <= Count'
      <4>1. CASE Count = 0
        BY <4>1, <1>1
      <4>2. CASE Count # 0
        <5>1. Count \in 1 .. Count
          BY <4>2, <1>1
        <5>. QED BY <5>1, <3>1, <1>1
      <4>. QED BY <4>1, <4>2
    <3>. QED BY <1>1, <2>1, <3>2
  <2>. QED BY <2>2, <2>3, <2>4
<1>4. ASSUME NEW k, NEW value, Overwrite(k, value)
      PROVE  Count' = Count /\ UNCHANGED entry_capacity
  <2>1. DOMAIN entries' = DOMAIN entries
    BY <1>4 DEF Overwrite
  <2>2. 1 .. Count' = 1 .. Count
    BY <1>1, <2>1 DEF Indices
  <2>3. Count' = Count
    <3>1. entries \in Seq(EntryType) /\ entries' \in Seq(EntryType)
      BY DEF IInv, TypeOK, EntryType
    <3>. QED BY <2>1, <3>1, SeqFacts DEF Count
  <2>. QED BY <1>4, <2>3 DEF Overwrite
<1>5. ASSUME NEW k, NEW value, Add(k, value)
      PROVE  /\ Count' = Count + 1
             /\ entry_capacity' = IF Count = entry_capacity THEN 2 * entry_capacity ELSE entry_capacity
  BY <1>1, <1>5 DEF Add, Grown, Full, Count
<1>6. ASSUME NEW k, RefusedAfterGrowth(k)
      PROVE  Count' = Count /\ Count = entry_capacity /\ entry_capacity' = 2 * entry_capacity
  BY <1>6 DEF RefusedAfterGrowth, Grown, Full, Count
<1>. QED
  <2>1. \/ UNCHANGED <<entries, entry_capacity>>
        \/ Sort
        \/ \E k, value : Overwrite(k, value) \/ Add(k, value)
        \/ \E k : RefusedAfterGrowth(k)
    <3>1. ASSUME NEW k, NEW item, Set(k, item) \/ AppendItem(k, item)
          PROVE  \/ UNCHANGED <<entries, entry_capacity>>
                 \/ \E value : Overwrite(k, value) \/ Add(k, value)
                 \/ RefusedAfterGrowth(k)
      BY <3>1 DEF Set, AppendItem, Refused
    <3>2. CASE LookupUnsorted \/ Lookup \/ (\E k \in Keys : LookupBegin(k)) \/ UNCHANGED vars
      BY <3>2 DEF LookupUnsorted, Lookup, LookupProbe, LookupMissing, LookupBegin, vars
    <3>. QED BY <3>1, <3>2 DEF Next
  <2>. QED BY <1>1, <1>2, <1>3, <1>4, <1>5, <1>6, <2>1

(* However often it doubles, and whatever is refused after it has doubled,  *)
(* the array takes at most twice the room its entries need, unless it still *)
(* has its first size: a call that is refused again and again does not make *)
(* it grow again and again.                                                 *)
THEOREM GrowthStaysBounded == Spec => []GrowthIsBounded
<1>1. Init => GrowthIsBounded
  BY DEF Init, GrowthIsBounded
<1>2. IInv /\ IInv' /\ GrowthIsBounded /\ [Next]_vars => GrowthIsBounded'
  <2>. SUFFICES ASSUME IInv, IInv', GrowthIsBounded, [Next]_vars PROVE GrowthIsBounded'
    OBVIOUS
  <2>1. /\ Count \in Nat /\ Count' \in Nat /\ Count <= Count'
        /\ entry_capacity \in Nat
        /\ \/ entry_capacity' = entry_capacity
           \/ Count = entry_capacity /\ entry_capacity' = 2 * entry_capacity
    BY Growth
  <2>. QED BY <2>1 DEF GrowthIsBounded
<1>. QED BY <1>1, <1>2, Invariance, PTL DEF Spec

-----------------------------------------------------------------------------
(* Refinement of the map.  StoredIn is Stored of any array, so that what    *)
(* holds of it holds of the array before and after a step.                  *)
HasIn(s, k) == \E i \in 1 .. Len(s) : s[i].key = k
StoredIn(s, k) ==
  IF HasIn(s, k) THEN <<s[CHOOSE i \in 1 .. Len(s) : s[i].key = k].value>> ELSE <<>>
UniqueIn(s) == \A i, j \in 1 .. Len(s) : s[i].key = s[j].key => i = j

LEMMA StoredInArray ==
  /\ \A k : Stored(k) = StoredIn(entries, k)
  /\ \A k : Stored(k)' = StoredIn(entries', k)
BY DEF Stored, StoredIn, Has, HasIn, Holds, IndexOf, Indices, Count

LEMMA StoredAt ==
  ASSUME NEW s, UniqueIn(s), NEW k, NEW i \in 1 .. Len(s), s[i].key = k
  PROVE  StoredIn(s, k) = <<s[i].value>>
<1>1. (CHOOSE j \in 1 .. Len(s) : s[j].key = k) = i
  BY DEF UniqueIn
<1>. QED BY <1>1 DEF StoredIn, HasIn

\* One write changes the map at one key.
LEMMA OverwriteMaps ==
  ASSUME IInv, NEW k \in Keys, NEW value \in ValueType, Overwrite(k, value)
  PROVE  /\ Stored(k) = <<entries[IndexOf(k)].value>>
         /\ Stored(k)' = <<value>>
         /\ \A j \in Keys \ {k} : Stored(j)' = Stored(j)
<1> DEFINE n == IndexOf(k)
           e == Entry(k, value)
<1>0. n \in Indices /\ entries[n].key = k
  BY IndexFacts DEF Overwrite
<1>1. e \in EntryType /\ e.key = k /\ e.value = value
  BY DEF Entry, EntryType
<1>2. entries' = [entries EXCEPT ![n] = e]
  BY DEF Overwrite
<1> HIDE DEF n, e
<1>3. /\ Len(entries') = Len(entries)
      /\ \A i \in 1 .. Len(entries) : entries'[i] = IF i = n THEN e ELSE entries[i]
  BY <1>0, <1>1, <1>2, EntryFacts, ExceptSeq DEF IInv, Indices, Count
<1>4. UniqueIn(entries) /\ UniqueIn(entries')
  BY <1>0, <1>1, <1>3 DEF IInv, UniqueKeys, UniqueIn, Indices, Count
<1>5. Stored(k)' = <<value>> /\ Stored(k) = <<entries[n].value>>
  BY <1>0, <1>1, <1>3, <1>4, StoredAt, StoredInArray DEF Indices, Count
<1>6. ASSUME NEW j \in Keys \ {k} PROVE Stored(j)' = Stored(j)
  <2>1. CASE HasIn(entries, j)
    <3>1. PICK i \in 1 .. Len(entries) : entries[i].key = j
      BY <2>1 DEF HasIn
    <3>2. entries'[i] = entries[i]
      BY <3>1, <1>0, <1>3, <1>6
    <3>. QED BY <3>1, <3>2, <1>3, <1>4, StoredAt, StoredInArray
  <2>2. CASE ~HasIn(entries, j)
    <3>1. ~HasIn(entries', j)
      BY <2>2, <1>0, <1>1, <1>3, <1>6 DEF HasIn
    <3>. QED BY <2>2, <3>1, StoredInArray DEF StoredIn
  <2>. QED BY <2>1, <2>2
<1>. QED BY <1>5, <1>6 DEF n

LEMMA AddMaps ==
  ASSUME IInv, IInv', NEW k \in Keys, NEW value \in ValueType, Add(k, value)
  PROVE  /\ Stored(k) = <<>>
         /\ Stored(k)' = <<value>>
         /\ \A j \in Keys \ {k} : Stored(j)' = Stored(j)
<1> DEFINE e == Entry(k, value)
<1>1. e \in EntryType /\ e.key = k /\ e.value = value
  BY DEF Entry, EntryType
<1>2. entries' = Append(entries, e)
  BY DEF Add
<1> HIDE DEF e
<1>3. /\ Len(entries) \in Nat /\ Len(entries') = Len(entries) + 1
      /\ \A i \in 1 .. Len(entries) : entries'[i] = entries[i]
      /\ entries'[Len(entries) + 1] = e
  BY <1>1, <1>2, EntryFacts, AppendProperties DEF IInv, Count, Indices
<1>4. UniqueIn(entries) /\ UniqueIn(entries')
  BY DEF IInv, UniqueKeys, UniqueIn, Indices, Count
<1>5. Stored(k) = <<>>
  BY DEF Add, Stored
<1>6. Stored(k)' = <<value>>
  BY <1>1, <1>3, <1>4, StoredAt, StoredInArray
<1>7. ASSUME NEW j \in Keys \ {k} PROVE Stored(j)' = Stored(j)
  <2>1. CASE HasIn(entries, j)
    <3>1. PICK i \in 1 .. Len(entries) : entries[i].key = j
      BY <2>1 DEF HasIn
    <3>2. i \in 1 .. Len(entries') /\ entries'[i] = entries[i]
      BY <3>1, <1>3
    <3>. QED BY <3>1, <3>2, <1>4, StoredAt, StoredInArray
  <2>2. CASE ~HasIn(entries, j)
    <3>1. ~HasIn(entries', j)
      BY <2>2, <1>1, <1>3, <1>7 DEF HasIn
    <3>. QED BY <2>2, <3>1, StoredInArray DEF StoredIn
  <2>. QED BY <2>1, <2>2
<1>. QED BY <1>5, <1>6, <1>7

LEMMA SortMaps ==
  ASSUME IInv, IInv', Sort
  PROVE  \A k \in Keys : Stored(k)' = Stored(k)
<1>1. CASE UNCHANGED entries
  BY <1>1, StoredInArray
<1>2. ASSUME NEW p \in Rearrangements(Count),
             entries' = [i \in Indices |-> entries[p[i]]]
      PROVE  \A k \in Keys : Stored(k)' = Stored(k)
  <2>0. /\ Count \in Nat
        /\ \A i \in Indices : p[i] \in Indices
        /\ \A j \in Indices : \E i \in Indices : p[i] = j
    BY EntryFacts DEF IInv, Rearrangements, Indices
  <2>1. Len(entries') = Count /\ \A i \in Indices : entries'[i] = entries[p[i]]
    <3>1. DOMAIN entries' = 1 .. Count
      BY <1>2 DEF Indices
    <3>2. entries' \in Seq(EntryType)
      BY DEF IInv, TypeOK, EntryType
    <3>3. DOMAIN entries' = 1 .. Len(entries') /\ Len(entries') \in Nat
      BY <3>2, SeqFacts
    <3>4. Len(entries') = Count
      BY <3>1, <3>3, <2>0
    <3>. QED BY <3>4, <1>2
  <2>2. UniqueIn(entries) /\ UniqueIn(entries')
    BY DEF IInv, UniqueKeys, UniqueIn, Indices, Count
  <2> SUFFICES ASSUME NEW k \in Keys PROVE StoredIn(entries', k) = StoredIn(entries, k)
    BY StoredInArray
  <2>3. CASE HasIn(entries, k)
    <3>1. PICK j \in Indices : entries[j].key = k
      BY <2>3 DEF HasIn, Indices, Count
    <3>2. PICK i \in Indices : p[i] = j
      BY <2>0, <3>1
    <3>3. entries'[i] = entries[j] /\ i \in 1 .. Len(entries') /\ j \in 1 .. Len(entries)
      BY <3>2, <2>1 DEF Indices, Count
    <3>. QED BY <3>1, <3>3, <2>2, StoredAt
  <2>4. CASE ~HasIn(entries, k)
    <3>1. ~HasIn(entries', k)
      <4>1. SUFFICES ASSUME NEW i \in 1 .. Len(entries'), entries'[i].key = k
                     PROVE  FALSE
        BY DEF HasIn
      <4>2. p[i] \in 1 .. Len(entries) /\ entries[p[i]].key = k
        BY <4>1, <2>0, <2>1 DEF Indices, Count
      <4>. QED BY <4>2, <2>4 DEF HasIn
    <3>. QED BY <2>4, <3>1 DEF StoredIn
  <2>. QED BY <2>3, <2>4
<1>. QED BY <1>1, <1>2 DEF Sort

(* What each call returned tells what it did to the map.                    *)

LEMMA RefusedMaps ==
  ASSUME NEW k \in Keys, Refused \/ RefusedAfterGrowth(k)
  PROVE  reply'.ok = FALSE /\ Map!Fail
<1>1. UNCHANGED <<entries, sorted>> /\ reply' = Reply(FALSE, NoValue)
  BY DEF Refused, RefusedAfterGrowth, Return
<1>2. UNCHANGED [j \in Keys |-> Stored(j)]
  BY <1>1, StoredInArray
<1>. QED BY <1>1, <1>2 DEF Map!Fail, Map!Reply, Map!Absent, Reply, NoValue

LEMMA AddedMaps ==
  ASSUME IInv, IInv', NEW k \in Keys, NEW value \in ValueType, Add(k, value)
  PROVE  reply'.ok = TRUE /\ Map!Write(k, value) /\ ~Map!Present(k)
<1> DEFINE map == [j \in Keys |-> Stored(j)]
<1>1. /\ Stored(k) = <<>> /\ Stored(k)' = <<value>>
      /\ \A j \in Keys \ {k} : Stored(j)' = Stored(j)
  BY AddMaps
<1>2. map' = [map EXCEPT ![k] = <<value>>]
  BY <1>1
<1>3. sorted' = FALSE /\ reply' = Reply(TRUE, NoValue)
  BY DEF Add, SortedAfterAdding, Return
<1>. QED
  BY <1>1, <1>2, <1>3 DEF Map!Write, Map!Present, Map!Reply, Map!Absent, Reply, NoValue

LEMMA OverwrittenMaps ==
  ASSUME IInv, NEW k \in Keys, NEW value \in ValueType, Overwrite(k, value)
  PROVE  /\ reply'.ok = TRUE
         /\ Map!Write(k, value)
         /\ Map!Present(k)
         /\ Stored(k) = <<entries[IndexOf(k)].value>>
<1> DEFINE map == [j \in Keys |-> Stored(j)]
<1>1. /\ Stored(k) = <<entries[IndexOf(k)].value>> /\ Stored(k)' = <<value>>
      /\ \A j \in Keys \ {k} : Stored(j)' = Stored(j)
  BY OverwriteMaps
<1>2. map' = [map EXCEPT ![k] = <<value>>]
  BY <1>1
<1>3. sorted' = sorted /\ reply' = Reply(TRUE, NoValue) /\ sorted \in BOOLEAN
  BY DEF Overwrite, Return, IInv, TypeOK
<1>4. Map!Present(k)
  BY <1>1 DEF Map!Present, Map!Absent
<1>5. Map!Write(k, value)
  BY <1>2, <1>3, <1>4 DEF Map!Write, Map!Reply, Map!Absent, Reply, NoValue
<1>. QED BY <1>1, <1>3, <1>4, <1>5 DEF Reply

LEMMA SetAnswers ==
  ASSUME IInv, IInv', NEW k \in Keys, NEW item \in Items, Set(k, item)
  PROVE  /\ reply'.ok \in BOOLEAN
         /\ IF reply'.ok THEN Map!Put(k, item) ELSE Map!Fail
<1>1. <<item>> \in ValueType
  BY DEF ValueType
<1>2. CASE Refused \/ RefusedAfterGrowth(k)
  BY <1>2, RefusedMaps
<1>3. CASE Add(k, <<item>>)
  BY <1>1, <1>3, AddedMaps DEF Map!Put
<1>4. CASE Overwrite(k, <<item>>)
  BY <1>1, <1>4, OverwrittenMaps DEF Map!Put
<1>. QED BY <1>2, <1>3, <1>4 DEF Set

LEMMA AppendAnswers ==
  ASSUME IInv, IInv', NEW k \in Keys, NEW item \in Items, AppendItem(k, item)
  PROVE  /\ reply'.ok \in BOOLEAN
         /\ IF reply'.ok THEN Map!Extend(k, item) ELSE Map!Fail
<1>1. <<item>> \in ValueType
  BY DEF ValueType
<1>2. CASE Refused \/ RefusedAfterGrowth(k)
  BY <1>2, RefusedMaps
<1>3. CASE Add(k, <<item>>)
  BY <1>1, <1>3, AddedMaps DEF Map!Extend
<1>4. CASE Has(k) /\ Overwrite(k, Joined(k, item))
  <2>1. entries[IndexOf(k)].value \in Seq(Items)
    BY <1>4, IndexFacts, EntryFacts DEF IInv, EntryType, ValueType
  <2>2. Joined(k, item) \in ValueType
    BY <2>1, AppendProperties DEF Joined, ValueType
  <2>3. [j \in Keys |-> Stored(j)][k][1] = entries[IndexOf(k)].value
    <3>1. Stored(k) = <<entries[IndexOf(k)].value>>
      BY <2>2, <1>4, OverwrittenMaps
    <3>. QED BY <3>1
  <2>. QED BY <2>2, <2>3, <1>4, OverwrittenMaps DEF Map!Extend, Joined
<1>. QED BY <1>2, <1>3, <1>4 DEF AppendItem

LEMMA SortAnswers ==
  ASSUME IInv, IInv', Sort
  PROVE  /\ reply'.ok \in BOOLEAN
         /\ IF reply'.ok THEN Map!MakeReadable ELSE Map!Fail
<1>1. UNCHANGED [j \in Keys |-> Stored(j)]
  BY SortMaps
<1>2. CASE sorted' = TRUE /\ reply' = Reply(TRUE, NoValue)
  BY <1>1, <1>2 DEF Map!MakeReadable, Map!Reply, Map!Absent, Reply, NoValue
<1>3. CASE sorted' = sorted /\ reply' = Reply(FALSE, NoValue)
  BY <1>1, <1>3 DEF Map!Fail, Map!Reply, Map!Absent, Reply, NoValue
<1>. QED BY <1>2, <1>3 DEF Sort, Return

LEMMA LookupAnswers ==
  ASSUME IInv, Lookup
  PROVE  /\ lookup[1].key \in Keys
         /\ UNCHANGED <<sorted, [j \in Keys |-> Stored(j)]>>
         /\ IF Answers THEN Map!Get(lookup[1].key) ELSE UNCHANGED reply
<1> DEFINE map == [j \in Keys |-> Stored(j)]
           w == lookup[1]
<1>0. /\ DOMAIN lookup = {1} /\ w \in WindowType
      /\ sorted
  <2>1. lookup \in Seq(WindowType) /\ Len(lookup) <= 1 /\ lookup # <<>>
    BY DEF IInv, TypeOK, Lookup, LookupProbe, LookupMissing, Idle
  <2>2. Len(lookup) = 1
    <3>1. Len(lookup) \in Nat \ {0}
      BY <2>1, EmptySeq
    <3>. QED BY <2>1, <3>1
  <2>. QED BY <2>1, <2>2, SeqFacts DEF IInv, LookupNeedsOrder, Idle
<1>1. /\ w.low \in Nat /\ w.high \in Nat /\ w.key \in Keys
      /\ w.high <= Count
      /\ \A i \in Indices : entries[i].key = w.key => w.low < i /\ i <= w.high
  BY <1>0 DEF IInv, LookupWindow, WindowType, Holds
<1> HIDE DEF w
<1>2. UNCHANGED <<entries, sorted>> /\ map' = map
  <2>1. UNCHANGED <<entries, sorted>>
    BY DEF Lookup, LookupProbe, LookupMissing
  <2>. QED BY <2>1, StoredInArray
<1>3. CASE LookupMissing
  <2>1. w.low >= w.high /\ reply' = Reply(FALSE, NoValue) /\ Answers
    BY <1>3 DEF LookupMissing, Return, w, Answers
  <2>2. ~Has(w.key)
    BY <2>1, <1>1, EntryFacts DEF IInv, Has, Holds, Indices
  <2>3. map[w.key] = <<>>
    BY <2>2, <1>1 DEF Stored
  <2>4. Map!Get(w.key)
    BY <2>1, <2>3, <1>2 DEF Map!Get, Map!Present, Map!Reply, Map!Absent, Reply, NoValue
  <2>. QED BY <2>1, <2>4, <1>1, <1>2 DEF w
<1>4. CASE LookupProbe
  <2> DEFINE m == Mid(w) + 1
  <2>1. \/ reply' = reply /\ lookup' # <<>>
        \/ /\ w.low < w.high /\ entries[m].key = w.key
           /\ reply' = Reply(TRUE, <<entries[m].value>>) /\ lookup' = <<>>
    <3>1. Upper(w) # <<>> /\ Lower(w) # <<>>
      BY DEF Upper, Lower, Window
    <3>. QED BY <3>1, <1>4 DEF LookupProbe, w
  <2>2. CASE reply' = reply /\ lookup' # <<>>
    BY <2>2, <1>1, <1>2 DEF Answers, w
  <2>3. CASE /\ w.low < w.high /\ entries[m].key = w.key
             /\ reply' = Reply(TRUE, <<entries[m].value>>) /\ lookup' = <<>>
    <3>1. Mid(w) \in w.low .. w.high - 1
      BY <2>3, <1>1, MidFacts DEF Mid
    <3>2. m \in 1 .. Len(entries)
      BY <3>1, <1>1, EntryFacts DEF IInv, Count
    <3> HIDE DEF m
    <3>3. UniqueIn(entries)
      BY DEF IInv, UniqueKeys, UniqueIn, Indices, Count
    <3>4. map[w.key] = <<entries[m].value>>
      BY <3>2, <3>3, <2>3, <1>1, StoredAt, StoredInArray
    <3>5. Map!Get(w.key)
      <4>1. Map!Present(w.key)
        <5>1. <<entries[m].value>> # <<>>
          OBVIOUS
        <5>2. map[w.key] # <<>>
          BY <3>4, <5>1
        <5>. QED BY <5>2 DEF Map!Present, Map!Absent
      <4>2. reply' = Map!Reply(TRUE, map[w.key])
        BY <3>4, <2>3 DEF Map!Reply, Reply
      <4>. QED BY <4>1, <4>2, <1>0, <1>2 DEF Map!Get
    <3>6. Answers
      BY <2>3, <1>4 DEF Answers, LookupProbe
    <3>. QED BY <3>5, <3>6, <1>1, <1>2 DEF w
  <2>. QED BY <2>1, <2>2, <2>3
<1>. QED BY <1>3, <1>4 DEF Lookup

\* A lookup looks for one key from its first turn to its answer.
LEMMA LookupKeepsKey ==
  /\ \A k : LookupBegin(k) => lookup'[1].key = k
  /\ Lookup /\ ~Answers => lookup'[1].key = lookup[1].key
<1>1. \A k, low, high : Window(k, low, high)[1].key = k
  BY DEF Window
<1>2. \A k : LookupBegin(k) => lookup'[1].key = k
  BY <1>1 DEF LookupBegin
<1>3. ASSUME Lookup, ~Answers
      PROVE  lookup'[1].key = lookup[1].key
  <2>1. lookup' = Upper(lookup[1]) \/ lookup' = Lower(lookup[1])
    BY <1>3 DEF Lookup, LookupProbe, LookupMissing, Answers
  <2>. QED BY <1>1, <2>1 DEF Upper, Lower
<1>. QED BY <1>2, <1>3

LEMMA UnsortedAnswers ==
  ASSUME LookupUnsorted
  PROVE  \A k \in Keys : Map!Get(k)
<1>1. UNCHANGED <<entries, sorted>> /\ ~sorted /\ reply' = Reply(FALSE, NoValue)
  BY DEF LookupUnsorted, Return
<1>2. UNCHANGED [j \in Keys |-> Stored(j)]
  BY <1>1, StoredInArray
<1>. QED BY <1>1, <1>2 DEF Map!Get, Map!Reply, Map!Absent, Reply, NoValue

LEMMA InitMaps == Init => Map!MapInit
<1> SUFFICES ASSUME Init PROVE Map!MapInit
  OBVIOUS
<1>1. ~\E i \in Indices : TRUE
  BY EmptySeq DEF Init, Indices, Count
<1>2. [k \in Keys |-> Stored(k)] = [k \in Keys |-> <<>>]
  BY <1>1 DEF Stored, Has
<1>. QED BY <1>2 DEF Init, Map!MapInit, Map!Absent, Map!Reply, Reply, NoValue

LEMMA AnswersInvariant == IInv /\ IInv' /\ [Next]_vars => [EachCall]_vars
<1> SUFFICES ASSUME IInv, IInv', Next
             PROVE  EachCall
  OBVIOUS
<1>1. ASSUME ~reply'.ok, Writes \/ Sort
      PROVE  Map!Fail
  BY <1>1, SetAnswers, AppendAnswers, SortAnswers DEF Writes
<1>2. ASSUME reply'.ok
      PROVE  /\ \A k \in Keys, item \in Items :
                  /\ Set(k, item) => Map!Put(k, item)
                  /\ AppendItem(k, item) => Map!Extend(k, item)
             /\ Sort => Map!MakeReadable
  BY <1>2, SetAnswers, AppendAnswers, SortAnswers
<1>3. ASSUME NEW k \in Keys, LookupBegin(k)
      PROVE  lookup'[1].key = k /\ UNCHANGED Map!mapVars
  <2>1. UNCHANGED <<entries, sorted, reply>>
    BY <1>3 DEF LookupBegin
  <2>. QED BY <1>3, <2>1, LookupKeepsKey, StoredInArray DEF Map!mapVars
<1>4. ASSUME Lookup
      PROVE  IF Answers
             THEN Map!Get(lookup[1].key)
             ELSE lookup'[1].key = lookup[1].key /\ UNCHANGED Map!mapVars
  BY <1>4, LookupAnswers, LookupKeepsKey DEF Map!mapVars
<1>. QED BY <1>1, <1>2, <1>3, <1>4, UnsortedAnswers DEF EachCall

(* The store implements the map call by call.  It begins as an empty map; a *)
(* set, append or sort that returned true did what its name says, and one   *)
(* that returned false changed no later answer; a lookup answers with what  *)
(* is stored under the key it was asked for, and fails only where there is  *)
(* nothing or the store is not sorted.                                      *)
THEOREM EachCallAnswersAlways == Spec => EachCallAnswers
BY InitMaps, AnswersInvariant, Invariance, PTL DEF Spec, EachCallAnswers

-----------------------------------------------------------------------------
(* LoadedStore: the loaders over the array.  Each of its steps is a step of *)
(* the store and one of the loaders, so that what is proved of either holds *)
(* of both together.                                                        *)

loadedVars == <<vars, loaderVars>>

LEMMA LoadedStep ==
  ASSUME LoadedNext
  PROVE  [Next]_vars
<1>1. CASE Between \/ LookUp
  BY <1>1 DEF Between, LookUp, Next
<1>2. CASE SortLoaded
  BY <1>2 DEF SortLoaded, Next
<1>3. ASSUME NEW k \in Keys, NEW item \in Items,
             \/ SetLine(k, item)
             \/ SetEntry("environment", environment, k, item)
             \/ SetEntry("arguments", arguments, k, item)
      PROVE  Next
  BY <1>3 DEF SetLine, SetEntry, Next
<1>. QED BY <1>1, <1>2, <1>3 DEF LoadedNext

(* The array filled by the loaders is the store of ConfigStore, with all    *)
(* that is proved of it.                                                    *)
THEOREM LoadedIsAStore == LoadedSpec => Spec
<1>1. [LoadedNext]_loadedVars => [Next]_vars
  BY LoadedStep DEF loadedVars
<1>. QED BY <1>1, PTL DEF LoadedSpec, LoadedInit, Spec, loadedVars

\* While the loaders run, the store's steps are those of the map they take it for.
LEMMA StoreSteps ==
  ASSUME pc # "done"
  PROVE  /\ Map!Fail /\ pc' # "done" => Load!Store!Fail
         /\ Map!MakeReadable => Load!Store!MakeReadable
         /\ \A k, item : Map!Put(k, item) /\ pc' # "done" => Load!Store!Put(k, item)
<1>1. Map!Fail /\ pc' # "done" => Load!Store!Fail
  BY DEF Map!Fail, Load!Store!Fail, Map!Reply, Load!Store!Reply, Map!Absent, Load!Store!Absent
<1>2. Map!MakeReadable => Load!Store!MakeReadable
  BY DEF Map!MakeReadable, Load!Store!MakeReadable, Map!Reply, Load!Store!Reply,
         Map!Absent, Load!Store!Absent, Reply, NoValue
<1>3. ASSUME NEW k, NEW item, Map!Put(k, item), pc' # "done"
      PROVE  Load!Store!Put(k, item)
  BY <1>3 DEF Map!Put, Load!Store!Put, Map!Write, Load!Store!Write, Map!Present,
              Load!Store!Present, Map!Reply, Load!Store!Reply, Map!Absent, Load!Store!Absent
<1>. QED BY <1>1, <1>2, <1>3

LEMMA SetLineLoads ==
  ASSUME IInv, IInv', NEW k \in Keys, NEW item \in Items, SetLine(k, item)
  PROVE  Load!ParseLine
<1>1. /\ reply'.ok \in BOOLEAN
      /\ IF reply'.ok THEN Map!Put(k, item) ELSE Map!Fail
  BY SetAnswers DEF SetLine
<1>2. /\ pc = "parse" /\ pc' = pc
      /\ k # NoKey /\ k = Load!Entry(file) /\ item = Load!LineItem(position + 1)
      /\ Load!More(Load!ParsedLines) /\ Load!Advance
      /\ UNCHANGED <<Load!inputVars, pc, Load!readVars>>
      /\ dropped' = IF reply'.ok THEN dropped ELSE dropped \cup {position + 1}
  BY LoadedAssumption
  DEF SetLine, inputVars, readVars, Load!inputVars, Load!readVars
<1>3. IF reply'.ok THEN Load!Store!Put(k, item) ELSE Load!Store!Fail
  BY <1>1, <1>2, StoreSteps
<1>. QED BY <1>2, <1>3 DEF Load!ParseLine

LEMMA SetEntryLoads ==
  ASSUME IInv, IInv', NEW k \in Keys, NEW item \in Items,
         NEW layer \in {"environment", "arguments"}, NEW source,
         SetEntry(layer, source, k, item)
  PROVE  Load!LoadEntry(layer, source)
<1>1. /\ reply'.ok \in BOOLEAN
      /\ IF reply'.ok THEN Map!Put(k, item) ELSE Map!Fail
  BY SetAnswers DEF SetEntry
<1>2. /\ pc = layer
      /\ k # NoKey /\ k = Load!Entry(source) /\ item = Load!Item(layer, position + 1)
      /\ Load!More(Len(source)) /\ Load!AfterSet(reply'.ok)
      /\ UNCHANGED <<Load!inputVars, Load!readVars, dropped>>
  BY LoadedAssumption
  DEF SetEntry, inputVars, readVars, Load!inputVars, Load!readVars
<1>3. pc # "done" /\ pc' # "done"
  BY <1>1, <1>2 DEF Load!AfterSet, Load!GoTo
<1>4. IF reply'.ok THEN Load!Store!Put(k, item) ELSE Load!Store!Fail
  BY <1>1, <1>3, StoreSteps
<1>5. CASE reply'.ok = TRUE
  BY <1>2, <1>4, <1>5 DEF Load!LoadEntry
<1>6. CASE reply'.ok = FALSE
  BY <1>2, <1>4, <1>6 DEF Load!LoadEntry
<1>. QED BY <1>1, <1>5, <1>6

LEMMA SortLoads ==
  ASSUME IInv, IInv', SortLoaded
  PROVE  Load!Sort
<1>1. /\ reply'.ok \in BOOLEAN
      /\ IF reply'.ok THEN Map!MakeReadable ELSE Map!Fail
  BY SortAnswers DEF SortLoaded
<1>2. /\ pc = "sort" /\ Load!GoTo(IF reply'.ok THEN "done" ELSE "failed")
      /\ UNCHANGED <<Load!inputVars, Load!readVars, dropped>>
  BY DEF SortLoaded, inputVars, readVars, Load!inputVars, Load!readVars
<1>3. CASE reply'.ok = TRUE
  BY <1>1, <1>2, <1>3, StoreSteps DEF Load!Sort
<1>4. CASE reply'.ok = FALSE
  <2>1. pc' # "done"
    BY <1>2, <1>4 DEF Load!GoTo
  <2>. QED BY <1>1, <1>2, <1>4, <2>1, StoreSteps DEF Load!Sort
<1>. QED BY <1>1, <1>3, <1>4

LEMMA LookUpLoadsNothing ==
  ASSUME IInv, LookUp
  PROVE  UNCHANGED Load!vars
<1>1. /\ pc = "done" /\ UNCHANGED <<loaderVars, sorted>>
      /\ UNCHANGED entries
  BY DEF LookUp, LookupUnsorted, Lookup, LookupProbe, LookupMissing, LookupBegin
<1>2. UNCHANGED [j \in Keys |-> Stored(j)]
  BY <1>1, StoredInArray
<1>. QED
  BY <1>1, <1>2 DEF loaderVars, inputVars, readVars, Load!vars, Load!inputVars,
                    Load!readVars, Load!storeVars

(* The loaders over the array do what they do over the map that             *)
(* ConfigLoad takes the store for: its theorems are theorems about the      *)
(* array that bc_runtime_create fills.                                      *)
THEOREM LoadingRefines == LoadedSpec => ImplementsLoad
<1>1. LoadedInit => Load!Init
  BY DEF LoadedInit
<1>2. IInv /\ IInv' /\ [LoadedNext]_loadedVars => [Load!Next]_(Load!vars)
  <2> SUFFICES ASSUME IInv, IInv', [LoadedNext]_loadedVars
               PROVE  [Load!Next]_(Load!vars)
    OBVIOUS
  <2>1. CASE Between
    BY <2>1 DEF Between, Load!Next
  <2>2. ASSUME NEW k \in Keys, NEW item \in Items, SetLine(k, item)
        PROVE  Load!Next
    BY <2>2, SetLineLoads DEF Load!Next, Load!ParseFile
  <2>3. ASSUME NEW k \in Keys, NEW item \in Items,
               \/ SetEntry("environment", environment, k, item)
               \/ SetEntry("arguments", arguments, k, item)
        PROVE  Load!Next
    BY <2>3, SetEntryLoads DEF Load!Next, Load!LoadEnvironment, Load!LoadArguments
  <2>4. CASE SortLoaded
    BY <2>4, SortLoads DEF Load!Next
  <2>5. CASE LookUp
    BY <2>5, LookUpLoadsNothing
  <2>6. CASE UNCHANGED loadedVars
    <3>1. UNCHANGED <<entries, sorted, reply, loaderVars>>
      BY <2>6 DEF loadedVars, vars
    <3>2. UNCHANGED [j \in Keys |-> Stored(j)]
      BY <3>1, StoredInArray
    <3>. QED
      BY <3>1, <3>2 DEF loaderVars, inputVars, readVars, Load!vars, Load!inputVars,
                        Load!readVars, Load!storeVars
  <2>. QED BY <2>1, <2>2, <2>3, <2>4, <2>5, <2>6 DEF LoadedNext
<1>. QED
  BY <1>1, <1>2, LoadedIsAStore, Invariance, PTL
  DEF LoadedSpec, loadedVars, ImplementsLoad, Load!Spec

\* What is proved of ConfigLoad, read with the array for the map.
Loading == INSTANCE ConfigLoadProofs WITH
  map      <- [k \in Keys |-> Stored(k)],
  readable <- sorted,
  reply    <- IF pc = "done" THEN Reply(TRUE, NoValue) ELSE reply

LEMMA LoadingAssumption == Loading!LoadAssumption
BY LoadedAssumption DEF Loading!LoadAssumption

\* The two readings of ConfigLoad are one.
LEMMA SameLoad == ImplementsLoad => Loading!Spec
<1>1. Load!Init => Loading!Init
  BY DEF Load!Init, Loading!Init, Load!InputsOver, Loading!InputsOver,
         Load!Store!MapInit, Loading!Store!MapInit,
         Load!Store!Reply, Loading!Store!Reply,
         Load!Store!Absent, Loading!Store!Absent
<1>2. UNCHANGED Load!vars => UNCHANGED Loading!vars
  BY DEF Load!vars, Loading!vars, Load!inputVars, Loading!inputVars,
         Load!readVars, Loading!readVars,
         Load!storeVars, Loading!storeVars
<1>3. Load!ReadFile => Loading!ReadFile
  BY DEF Load!ReadFile, Loading!ReadFile, Load!Open, Loading!Open,
         Load!MakeRoom, Loading!MakeRoom, Load!Read, Loading!Read,
         Load!ReadError, Loading!ReadError, Load!Gives, Loading!Gives,
         Load!BufferFull, Loading!BufferFull,
         Load!Doubled, Loading!Doubled, Load!Room, Loading!Room,
         Load!Unread, Loading!Unread,
         Load!vars, Loading!vars, Load!inputVars, Loading!inputVars,
         Load!readVars, Loading!readVars,
         Load!storeVars, Loading!storeVars
<1>4. Load!ParseFile => Loading!ParseFile
  BY DEF Load!ParseFile, Loading!ParseFile,
         Load!ParseLine, Loading!ParseLine,
         Load!ParseEnd, Loading!ParseEnd, Load!More, Loading!More,
         Load!ParsedLines, Loading!ParsedLines, Load!Entry, Loading!Entry,
         Load!Advance, Loading!Advance, Load!GoTo, Loading!GoTo,
         Load!LineItem, Loading!LineItem, Load!Item, Loading!Item,
         Load!vars, Loading!vars, Load!inputVars, Loading!inputVars,
         Load!readVars, Loading!readVars,
         Load!storeVars, Loading!storeVars,
         Load!Store!Put, Loading!Store!Put,
         Load!Store!Fail, Loading!Store!Fail,
         Load!Store!MakeReadable, Loading!Store!MakeReadable,
         Load!Store!Write, Loading!Store!Write,
         Load!Store!Present, Loading!Store!Present,
         Load!Store!Reply, Loading!Store!Reply,
         Load!Store!Absent, Loading!Store!Absent
<1>5. Load!LoadEnvironment => Loading!LoadEnvironment
  BY DEF Load!LoadEnvironment, Loading!LoadEnvironment,
         Load!LoadEntry, Loading!LoadEntry, Load!LoadEnd, Loading!LoadEnd,
         Load!More, Loading!More, Load!Entry, Loading!Entry,
         Load!Advance, Loading!Advance, Load!AfterSet, Loading!AfterSet,
         Load!GoTo, Loading!GoTo, Load!Item, Loading!Item,
         Load!vars, Loading!vars, Load!inputVars, Loading!inputVars,
         Load!readVars, Loading!readVars,
         Load!storeVars, Loading!storeVars,
         Load!Store!Put, Loading!Store!Put,
         Load!Store!Fail, Loading!Store!Fail,
         Load!Store!MakeReadable, Loading!Store!MakeReadable,
         Load!Store!Write, Loading!Store!Write,
         Load!Store!Present, Loading!Store!Present,
         Load!Store!Reply, Loading!Store!Reply,
         Load!Store!Absent, Loading!Store!Absent
<1>6. Load!LoadArguments => Loading!LoadArguments
  BY DEF Load!LoadArguments, Loading!LoadArguments,
         Load!LoadEntry, Loading!LoadEntry, Load!LoadEnd, Loading!LoadEnd,
         Load!More, Loading!More, Load!Entry, Loading!Entry,
         Load!Advance, Loading!Advance, Load!AfterSet, Loading!AfterSet,
         Load!GoTo, Loading!GoTo, Load!Item, Loading!Item,
         Load!vars, Loading!vars, Load!inputVars, Loading!inputVars,
         Load!readVars, Loading!readVars,
         Load!storeVars, Loading!storeVars,
         Load!Store!Put, Loading!Store!Put,
         Load!Store!Fail, Loading!Store!Fail,
         Load!Store!MakeReadable, Loading!Store!MakeReadable,
         Load!Store!Write, Loading!Store!Write,
         Load!Store!Present, Loading!Store!Present,
         Load!Store!Reply, Loading!Store!Reply,
         Load!Store!Absent, Loading!Store!Absent
<1>7. Load!Sort => Loading!Sort
  BY DEF Load!Sort, Loading!Sort, Load!GoTo, Loading!GoTo,
         Load!vars, Loading!vars, Load!inputVars, Loading!inputVars,
         Load!readVars, Loading!readVars,
         Load!storeVars, Loading!storeVars,
         Load!Store!Put, Loading!Store!Put,
         Load!Store!Fail, Loading!Store!Fail,
         Load!Store!MakeReadable, Loading!Store!MakeReadable,
         Load!Store!Write, Loading!Store!Write,
         Load!Store!Present, Loading!Store!Present,
         Load!Store!Reply, Loading!Store!Reply,
         Load!Store!Absent, Loading!Store!Absent
<1>8. [Load!Next]_(Load!vars) => [Loading!Next]_(Loading!vars)
  BY <1>2, <1>3, <1>4, <1>5, <1>6, <1>7 DEF Load!Next, Loading!Next
<1>. QED BY <1>1, <1>8, PTL DEF ImplementsLoad, Load!Spec, Loading!Spec

\* What a load that has not failed leaves in the array.
LoadedFacts == Loading!TypeOK /\ Loading!LastLayerWins

LEMMA LoadedHolds == LoadedSpec => []LoadedFacts
BY LoadingRefines, SameLoad, LoadingAssumption, Loading!TypeCorrect,
   Loading!LastLayerWinsAlways, PTL
DEF LoadedFacts

LEMMA LastExists ==
  ASSUME NEW n \in Nat, NEW places \in SUBSET (1 .. n), places # {}
  PROVE  Load!IsLast(LastOf(places), places)
<1> DEFINE T == { n - i : i \in places }
<1>1. T \in SUBSET Nat /\ T # {}
  OBVIOUS
<1>2. PICK m \in T : \A t \in T : m <= t
  <2> HIDE DEF T
  <2>1. PICK m \in T : \A t \in T : ~(<<t, m>> \in OpToRel(<, Nat))
    BY <1>1, WFMin, NatLessThanWellFounded
  <2>2. \A t \in T : ~(t < m)
    BY <1>1, <2>1 DEF OpToRel
  <2>. QED BY <1>1, <2>2
<1>3. PICK i \in places : m = n - i
  OBVIOUS
<1>4. ASSUME NEW j \in places
      PROVE  j <= i
  <2>1. m <= n - j
    BY <1>2
  <2>. QED BY <2>1, <1>3
<1>5. \E x \in places : Load!IsLast(x, places)
  BY <1>3, <1>4 DEF Load!IsLast
<1>. QED BY <1>5 DEF LastOf

LEMMA LoadedValue ==
  ASSUME LoadedFacts, pc = "done", NEW k \in Keys
  PROVE  sorted /\ Stored(k) = CalledFor(k)
<1> DEFINE a == Load!Places(arguments, k)
           e == Load!Places(environment, k)
           f == Load!FilePlaces(k)
<1>1. /\ sorted
      /\ \A i \in a : Load!IsLast(i, a) => Stored(k) = <<<<Load!Item("arguments", i)>>>>
      /\ a = {} => \A i \in e : Load!IsLast(i, e) => Stored(k) = <<<<Load!Item("environment", i)>>>>
      /\ a \cup e = {} => \A i \in f : Load!IsLast(i, f) => Stored(k) = <<<<Load!LineItem(i)>>>>
      /\ a \cup e \cup f = {} => Stored(k) = <<>>
  BY DEF LoadedFacts, Loading!LastLayerWins, Loading!Places, Loading!FilePlaces,
         Loading!ParsedLines, Loading!IsLast, Loading!Holds, Loading!Item, Loading!LineItem,
         Load!Places, Load!FilePlaces, Load!ParsedLines, Load!IsLast, Load!Item, Load!LineItem
<1>2. /\ Len(file) \in Nat /\ Len(environment) \in Nat /\ Len(arguments) \in Nat
  BY DEF LoadedFacts, Loading!TypeOK
<1>3. /\ a \in SUBSET (1 .. Len(arguments))
      /\ e \in SUBSET (1 .. Len(environment))
      /\ f \in SUBSET (1 .. Len(file))
  BY DEF Load!Places, Load!FilePlaces
<1>4. /\ a # {} => LastOf(a) \in a /\ Load!IsLast(LastOf(a), a)
      /\ e # {} => LastOf(e) \in e /\ Load!IsLast(LastOf(e), e)
      /\ f # {} => LastOf(f) \in f /\ Load!IsLast(LastOf(f), f)
  <2>1. a # {} => Load!IsLast(LastOf(a), a)
    BY <1>2, <1>3, LastExists
  <2>2. e # {} => Load!IsLast(LastOf(e), e)
    BY <1>2, <1>3, LastExists
  <2>3. f # {} => Load!IsLast(LastOf(f), f)
    BY <1>2, <1>3, LastExists
  <2>. QED BY <2>1, <2>2, <2>3 DEF Load!IsLast
<1> HIDE DEF a, e, f
<1>5. CalledFor(k) =
        CASE a # {}                 -> <<<<Load!Item("arguments", LastOf(a))>>>>
          [] a = {} /\ e # {}       -> <<<<Load!Item("environment", LastOf(e))>>>>
          [] a \cup e = {} /\ f # {} -> <<<<Load!LineItem(LastOf(f))>>>>
          [] OTHER                  -> NoValue
  BY DEF CalledFor, a, e, f
<1>6. CASE a # {}
  BY <1>1, <1>4, <1>5, <1>6
<1>7. CASE a = {} /\ e # {}
  BY <1>1, <1>4, <1>5, <1>7
<1>8. CASE a \cup e = {} /\ f # {}
  BY <1>1, <1>4, <1>5, <1>8
<1>9. CASE a \cup e \cup f = {}
  BY <1>1, <1>5, <1>9 DEF NoValue
<1>. QED BY <1>1, <1>6, <1>7, <1>8, <1>9

LEMMA GetterStep ==
  ASSUME IInv, LoadedFacts, [LoadedNext]_loadedVars, pc = "done"
  PROVE  IF Answers
         THEN LET v == CalledFor(lookup[1].key) IN reply' = Reply(v # NoValue, v)
         ELSE UNCHANGED reply
<1>1. CASE LookUp /\ Lookup
  <2> DEFINE k == lookup[1].key
  <2>1. k \in Keys /\ IF Answers THEN Map!Get(k) ELSE UNCHANGED reply
    BY <1>1, LookupAnswers
  <2> HIDE DEF k
  <2>2. sorted /\ Stored(k) = CalledFor(k)
    BY <2>1, LoadedValue
  <2>3. Answers => reply' = Reply(CalledFor(k) # NoValue, CalledFor(k))
    BY <2>1, <2>2 DEF Map!Get, Map!Present, Map!Reply, Map!Absent, Reply, NoValue
  <2>. QED BY <2>1, <2>3 DEF k
<1>2. CASE LookupUnsorted
  BY <1>2 DEF LookupUnsorted, LoadedFacts, Loading!LastLayerWins
<1>3. ASSUME NEW k \in Keys, LookupBegin(k)
      PROVE  ~Answers /\ UNCHANGED reply
  BY <1>3 DEF LookupBegin, Answers
<1>4. CASE UNCHANGED loadedVars
  BY <1>4 DEF loadedVars, vars, Answers, Idle
<1>5. ~Between
  BY DEF Between, Load!ReadFile, Load!Open, Load!MakeRoom, Load!Read, Load!ReadError,
         Load!ParseFile, Load!ParseLine, Load!ParseEnd,
         Load!LoadEnvironment, Load!LoadArguments, Load!LoadEntry, Load!LoadEnd
<1>6. LookUp \/ UNCHANGED loadedVars
  BY <1>5 DEF LoadedNext, SetLine, SetEntry, SortLoaded
<1>7. CASE ~Answers /\ UNCHANGED reply
  BY <1>7
<1>. QED BY <1>1, <1>2, <1>3, <1>4, <1>6, <1>7 DEF LookUp

(* From the files and the command line to the answer of a getter: in an     *)
(* application that was created, every lookup answers with the last layer   *)
(* that names its key and fails only for a key that none names, whatever    *)
(* was refused or cut short on the way.                                     *)
THEOREM GettersAnswerAlways == LoadedSpec => GettersAnswerTheLastLayer
<1>1. IInv /\ LoadedFacts /\ [LoadedNext]_loadedVars
        => [pc = "done" =>
              IF Answers
              THEN LET v == CalledFor(lookup[1].key) IN reply' = Reply(v # NoValue, v)
              ELSE UNCHANGED reply]_loadedVars
  BY GetterStep
<1>. QED
  BY <1>1, LoadedIsAStore, Invariance, LoadedHolds, PTL
  DEF LoadedSpec, loadedVars, GettersAnswerTheLastLayer
=============================================================================
