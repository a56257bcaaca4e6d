-------------------------- MODULE ConfigSortProofs --------------------------
(***************************************************************************)
(* Theorems about ConfigSort, for arrays of every length: a pass takes     *)
(* ordered runs to ordered runs of twice the width, the sort never reads   *)
(* or leaves garbage, and the whole of it is the step Sort of ConfigStore. *)
(*                                                                         *)
(* Three facts make the invariant inductive: the runs start at multiples   *)
(* of the width, the array stays a rearrangement of the one given, and     *)
(* what a merge has written is less than what it has yet to take.          *)
(***************************************************************************)
EXTENDS ConfigSort, TLAPS

Running == pc \in {"pass", "merge"}

KeysDiffer(s) == \A a, b \in 1 .. Len(s) : s[a].key = s[b].key => a = b
Members(s) == { s[n] : n \in 1 .. Len(s) }

\* The array is the given one rearranged.
Rearranged ==
  /\ KeysDiffer(given) /\ KeysDiffer(entries)
  /\ Members(entries) = Members(given)
  /\ pc = "begin" => entries = given /\ width = 1

\* Pairs of runs start at multiples of twice the width.
Aligned == Running => \E k \in Nat : i = k * (2 * width)

\* The entries of the two runs that are still to be taken.
Pending == left_index .. right_start - 1 \cup right_index .. right_end - 1

MergeInv ==
  pc = "merge" =>
    /\ write_index = left_index + (right_index - right_start)
    /\ \A a \in i .. write_index - 1 : \A b \in Pending : temp_buffer[a + 1].key < entries[b + 1].key

\* A sort starts at zero, and only one of more than one entry.
Begins == (pc = "begin" => i = 0) /\ (Running => Len(given) > 1)

Inv == TypeOK /\ PassMerges /\ Rearranged /\ Aligned /\ MergeInv /\ Begins

-----------------------------------------------------------------------------
(* Runs.                                                                    *)

LEMMA Quotient ==
  ASSUME NEW w \in Nat \ {0}, NEW k \in Nat, NEW a \in Nat, k * w <= a, a < k * w + w
  PROVE  a \div w = k
<1>1. a \div w \in Nat /\ w * (a \div w) <= a /\ a < w * (a \div w) + w
  OBVIOUS
<1>2. CASE a \div w < k
  <2>1. (a \div w) + 1 <= k
    BY <1>1, <1>2
  <2>2. w * ((a \div w) + 1) <= w * k
    BY <1>1, <2>1
  <2> QED
    BY <1>1, <2>2
<1>3. CASE a \div w > k
  <2>1. k + 1 <= a \div w
    BY <1>1, <1>3
  <2>2. w * (k + 1) <= w * (a \div w)
    BY <1>1, <2>1
  <2> QED
    BY <1>1, <2>2
<1> QED
  BY <1>1, <1>2, <1>3

LEMMA QuotientBounds ==
  ASSUME NEW w \in Nat \ {0}, NEW a \in Nat
  PROVE  /\ a \div w \in Nat
         /\ (a \div w) * w <= a /\ a < (a \div w) * w + w
OBVIOUS

\* Two positions between a multiple of the width and the next are of one run.
LEMMA OneRun ==
  ASSUME NEW w \in Nat \ {0}, NEW k \in Nat, NEW a \in Nat, NEW b \in Nat,
         k * w <= a, a < k * w + w, k * w <= b, b < k * w + w
  PROVE  SameRun(a, b, w)
BY Quotient DEF SameRun

\* Two positions on the two sides of a multiple of the width are not.
LEMMA TwoRuns ==
  ASSUME NEW w \in Nat \ {0}, NEW k \in Nat, NEW a \in Nat, NEW b \in Nat, a < k * w, k * w <= b
  PROVE  ~SameRun(a, b, w)
<1> SUFFICES ASSUME a \div w = b \div w PROVE FALSE
  BY DEF SameRun
<1> DEFINE q == a \div w
<1>1. q \in Nat /\ q * w <= a /\ a < q * w + w /\ b < q * w + w
  BY QuotientBounds
<1>2. q < k
  <2> HIDE DEF q
  <2> SUFFICES ASSUME k <= q PROVE FALSE
    BY <1>1
  <2>1. k * w <= q * w
    BY <1>1
  <2> QED
    BY <1>1, <2>1
<1>3. q * w + w <= k * w
  <2> HIDE DEF q
  <2>1. q + 1 <= k
    BY <1>1, <1>2
  <2>2. (q + 1) * w <= k * w
    BY <1>1, <2>1
  <2> QED
    BY <1>1, <2>2
<1> QED
  BY <1>1, <1>3

-----------------------------------------------------------------------------
(* What a merge knows of its two runs.                                      *)

LEMMA Numbers ==
  ASSUME TypeOK
  PROVE  /\ entry_count \in Nat /\ width \in Nat \ {0} /\ i \in Nat
         /\ left_index \in Nat /\ right_index \in Nat /\ write_index \in Nat
         /\ right_start \in Nat /\ right_end \in Nat /\ written \in Nat
         /\ Len(entries) = entry_count /\ entries \in Seq(EntryType) /\ given \in Seq(EntryType)
         /\ right_start <= entry_count /\ right_end <= entry_count /\ right_start <= right_end
         /\ \A n \in Positions : n \in Nat /\ n + 1 \in 1 .. entry_count /\ entries[n + 1] \in EntryType
BY DEF TypeOK, entry_count, right_start, right_end, written, Least, Positions

LEMMA KeysAreNumbers == \A e \in EntryType : e.key \in Nat
BY SortAssumption DEF EntryType

LEMMA RunsAre ==
  ASSUME TypeOK, Aligned, pc = "merge"
  PROVE  /\ \A a, b \in i .. right_start - 1 : SameRun(a, b, width)
         /\ \A a, b \in right_start .. right_end - 1 : SameRun(a, b, width)
         /\ \A a, b \in i .. right_end - 1 : SameRun(a, b, 2 * width)
         /\ \A a \in 0 .. i - 1, b \in i .. right_end - 1 : ~SameRun(a, b, 2 * width)
<1>1. PICK k \in Nat : i = k * (2 * width)
  BY DEF Aligned, Running
<1>2. width \in Nat \ {0} /\ 2 * width \in Nat \ {0} /\ 2 * k \in Nat /\ 2 * k + 1 \in Nat
  BY Numbers
<1>3. i = (2 * k) * width /\ i + width = (2 * k + 1) * width /\ i + 2 * width = (2 * k + 1) * width + width
  BY <1>1, <1>2
<1>4. /\ \A a \in i .. right_start - 1 : a \in Nat /\ (2 * k) * width <= a /\ a < (2 * k) * width + width
      /\ \A a \in right_start .. right_end - 1 :
           a \in Nat /\ (2 * k + 1) * width <= a /\ a < (2 * k + 1) * width + width
      /\ \A a \in i .. right_end - 1 :
           a \in Nat /\ k * (2 * width) <= a /\ a < k * (2 * width) + 2 * width
  <2>1. i \in Nat /\ entry_count \in Nat /\ width \in Nat
    BY Numbers
  <2>2. i < entry_count
    BY DEF TypeOK
  <2>3. /\ right_start = i + width \/ (right_start = entry_count /\ right_end = entry_count)
        /\ right_start <= i + width /\ right_end <= i + 2 * width /\ i <= right_start
    BY <2>1, <2>2 DEF right_start, right_end, Least
  <2>4. right_start \in Nat /\ right_end \in Nat
    BY Numbers
  <2> DEFINE lo == (2 * k) * width  hi == (2 * k + 1) * width  all == k * (2 * width)
  <2>5. lo = i /\ hi = i + width /\ all = i
    BY <1>1, <1>3
  <2> HIDE DEF lo, hi, all
  <2>6. /\ \A a \in i .. right_start - 1 : a \in Nat /\ lo <= a /\ a < lo + width
        /\ \A a \in right_start .. right_end - 1 : a \in Nat /\ hi <= a /\ a < hi + width
        /\ \A a \in i .. right_end - 1 : a \in Nat /\ all <= a /\ a < all + 2 * width
    BY <2>1, <2>3, <2>4, <2>5
  <2> QED
    BY <2>6 DEF lo, hi, all
<1>5. \A a, b \in i .. right_start - 1 : SameRun(a, b, width)
  BY <1>2, <1>4, OneRun
<1>6. \A a, b \in right_start .. right_end - 1 : SameRun(a, b, width)
  BY <1>2, <1>4, OneRun
<1>7. \A a, b \in i .. right_end - 1 : SameRun(a, b, 2 * width)
  BY <1>2, <1>4, OneRun
<1>8. \A a \in 0 .. i - 1, b \in i .. right_end - 1 : ~SameRun(a, b, 2 * width)
  <2> SUFFICES ASSUME NEW a \in 0 .. i - 1, NEW b \in i .. right_end - 1
               PROVE  ~SameRun(a, b, 2 * width)
    OBVIOUS
  <2>1. a \in Nat /\ b \in Nat /\ k * (2 * width) <= b
    BY <1>4, Numbers
  <2>2. a < k * (2 * width)
    BY <1>1, <2>1, Numbers
  <2> QED
    BY <1>2, <2>1, <2>2, TwoRuns
<1> QED
  BY <1>5, <1>6, <1>7, <1>8

-----------------------------------------------------------------------------
(* The merge: the entry it takes is the least of those still to be taken.   *)

\* Within a run the entries still to be taken are in order.
LEMMA PendingOrdered ==
  ASSUME Inv, pc = "merge"
  PROVE  /\ \A a, b \in left_index .. right_start - 1 : a < b => entries[a + 1].key < entries[b + 1].key
         /\ \A a, b \in right_index .. right_end - 1 : a < b => entries[a + 1].key < entries[b + 1].key
<1>1. TypeOK /\ Aligned /\ RunsInOrder /\ i <= left_index /\ right_start <= right_index
  BY DEF Inv, PassMerges, TypeOK
<1>2. /\ \A a \in left_index .. right_start - 1 : a \in i .. right_start - 1 /\ a \in Positions
      /\ \A a \in right_index .. right_end - 1 : a \in right_start .. right_end - 1 /\ a \in Positions
  BY <1>1, Numbers DEF Positions
<1> QED
  BY <1>1, <1>2, RunsAre DEF RunsInOrder

LEMMA PendingPlaces ==
  ASSUME Inv, pc = "merge"
  PROVE  /\ Pending \subseteq Positions /\ Pending \subseteq Nat
         /\ \A n \in Pending : n \notin Merged
         /\ Merged \subseteq Positions
         /\ \A n \in Pending : i <= write_index /\ write_index < right_end
         /\ \A n \in Pending : entries[n + 1].key \in Nat
<1>1. TypeOK /\ i <= left_index /\ left_index <= right_start /\ right_start <= right_index /\ right_index <= right_end
  BY DEF Inv, TypeOK
<1>2. write_index = left_index + (right_index - right_start)
  BY DEF Inv, MergeInv
<1>3. \A n \in Pending : n \in Nat /\ n < entry_count
  BY <1>1, Numbers DEF Pending
<1>4. \A n \in Pending : n \notin Merged
  BY <1>1, Numbers DEF Pending, Merged
<1>5. \A n \in Pending : i <= write_index /\ write_index < right_end
  BY <1>1, <1>2, Numbers DEF Pending
<1>6. Pending \subseteq Positions
  BY <1>1, <1>3, Numbers DEF Positions
<1> QED
  BY <1>1, <1>3, <1>4, <1>5, <1>6, Numbers, KeysAreNumbers DEF Merged

LEMMA ArrayKept ==
  ASSUME Inv, given' = given, entries' = entries, pc' # "begin" \/ (pc' = pc /\ width' = width)
  PROVE  Rearranged'
<1>1. KeysDiffer(given)' /\ KeysDiffer(entries)'
  BY DEF Inv, Rearranged, KeysDiffer
<1>2. Members(entries)' = Members(given)'
  <2>1. Members(entries) = Members(given)
    BY DEF Inv, Rearranged
  <2> QED
    BY <2>1 DEF Members
<1> QED
  BY <1>1, <1>2 DEF Inv, Rearranged

LEMMA TakeStep ==
  ASSUME Inv, pc = "merge", NEW n \in Pending, Write(n),
         \A b \in Pending \ {n} : entries[n + 1].key < entries[b + 1].key,
         \/ n = left_index /\ LeftGoesOn /\ left_index' = left_index + 1 /\ right_index' = right_index
         \/ n = right_index /\ RightGoesOn /\ right_index' = right_index + 1 /\ left_index' = left_index
  PROVE  Inv'
<1>1. /\ given' = given /\ entries' = entries /\ sorted' = sorted /\ pc' = pc /\ width' = width
      /\ i' = i /\ answer' = answer /\ write_index' = write_index + 1
      /\ temp_buffer' = [temp_buffer EXCEPT ![write_index + 1] = entries[n + 1]]
  BY DEF Write
<1>2. right_start' = right_start /\ right_end' = right_end /\ entry_count' = entry_count /\ Positions' = Positions
  BY <1>1 DEF right_start, right_end, entry_count, Positions, Least
<1>3. TypeOK
  BY DEF Inv
<1>4. n \in Positions /\ n \notin Merged /\ i <= write_index /\ write_index < right_end /\ right_end <= entry_count
  BY <1>3, PendingPlaces, Numbers
<1>5. /\ temp_buffer \in Seq(EntryType \cup {Garbage}) /\ Len(temp_buffer) = entry_count
      /\ i <= left_index /\ left_index <= right_start /\ right_start <= right_index /\ right_index <= right_end
      /\ i < entry_count
  BY <1>3 DEF TypeOK
<1>6. /\ temp_buffer' \in Seq(EntryType \cup {Garbage}) /\ Len(temp_buffer') = entry_count
      /\ temp_buffer'[write_index + 1] = entries[n + 1]
      /\ \A m \in 1 .. write_index : temp_buffer'[m] = temp_buffer[m]
  BY <1>1, <1>3, <1>4, <1>5, Numbers
<1>7. TypeOK'
  <2>1. /\ left_index' \in Nat /\ right_index' \in Nat /\ write_index' \in Nat
        /\ i <= left_index' /\ left_index' <= right_start /\ right_start <= right_index' /\ right_index' <= right_end
    BY <1>1, <1>3, <1>5, Numbers DEF LeftGoesOn, RightGoesOn
  <2> QED
    BY <1>1, <1>2, <1>3, <1>6, <2>1 DEF TypeOK
<1>8. Merged' = Merged \cup {n} /\ written = write_index /\ written' = write_index + 1
  <2>1. written = write_index /\ written' = write_index + 1
    BY <1>1 DEF written
  <2>2. Merged = { m \in Positions : m < left_index \/ (right_start <= m /\ m < right_index) }
    BY DEF Merged
  <2>3. Merged' = { m \in Positions : m < left_index' \/ (right_start <= m /\ m < right_index') }
    BY <1>1, <1>2 DEF Merged
  <2>4. \A m \in Positions : m \in Merged' <=> m \in Merged \/ m = n
    BY <1>3, <1>5, <2>2, <2>3, Numbers DEF LeftGoesOn, RightGoesOn
  <2> QED
    BY <1>4, <2>1, <2>2, <2>3, <2>4
<1>9. NothingLostNorTwice'
  <2>1. /\ { temp_buffer[m] : m \in 1 .. write_index } = { entries[m + 1] : m \in Merged }
        /\ \A a, b \in 1 .. write_index : temp_buffer[a] = temp_buffer[b] => a = b
    BY <1>8 DEF Inv, PassMerges, NothingLostNorTwice
  <2>2. 1 .. write_index + 1 = 1 .. write_index \cup {write_index + 1}
    BY <1>3, Numbers
  <2>3. { temp_buffer'[m] : m \in 1 .. write_index + 1 } = { entries[m + 1] : m \in Merged \cup {n} }
    <3>1. { temp_buffer'[m] : m \in 1 .. write_index + 1 }
            = { temp_buffer'[m] : m \in 1 .. write_index } \cup { entries[n + 1] }
      BY <1>6, <2>2
    <3>2. { temp_buffer'[m] : m \in 1 .. write_index } = { temp_buffer[m] : m \in 1 .. write_index }
      BY <1>6
    <3> QED
      BY <2>1, <3>1, <3>2
  <2>4. \A m \in Merged : entries[m + 1] # entries[n + 1]
    <3>1. KeysDiffer(entries) /\ n \in Nat
      BY <1>3, <1>4, Numbers DEF Inv, Rearranged
    <3> SUFFICES ASSUME NEW m \in Merged, entries[m + 1] = entries[n + 1] PROVE FALSE
      OBVIOUS
    <3>2. m \in Positions /\ m \in Nat /\ m # n
      BY <1>3, <1>4, PendingPlaces, Numbers
    <3>3. m + 1 \in 1 .. Len(entries) /\ n + 1 \in 1 .. Len(entries)
      BY <1>3, <1>4, <3>2, Numbers
    <3>4. m + 1 = n + 1
      BY <3>1, <3>3 DEF KeysDiffer
    <3> QED
      BY <3>1, <3>2, <3>4
  <2>5. \A a \in 1 .. write_index : temp_buffer[a] # entries[n + 1]
    BY <2>1, <2>4
  <2>6. \A a, b \in 1 .. write_index + 1 : temp_buffer'[a] = temp_buffer'[b] => a = b
    BY <1>6, <2>1, <2>2, <2>5
  <2> QED
    BY <1>1, <1>8, <2>3, <2>6 DEF NothingLostNorTwice
<1>10. RunsInOrder'
  <2>1. \A a, b \in Positions : a < b /\ SameRun(a, b, width) => entries[a + 1].key < entries[b + 1].key
    BY DEF Inv, PassMerges, RunsInOrder
  <2> SUFFICES ASSUME NEW a \in 0 .. write_index, NEW b \in 0 .. write_index, a < b, SameRun(a, b, 2 * width)
               PROVE  temp_buffer'[a + 1].key < temp_buffer'[b + 1].key
    <3>1. written' - 1 = write_index
      BY <1>3, <1>8, Numbers
    <3>2. \A a, b \in 0 .. written' - 1 :
            a < b /\ SameRun(a, b, 2 * width) => temp_buffer'[a + 1].key < temp_buffer'[b + 1].key
      BY <3>1
    <3>3. \A a, b \in Positions' : a < b /\ SameRun(a, b, width) => entries[a + 1].key < entries[b + 1].key
      BY <1>2, <2>1
    <3> QED
      BY <1>1, <3>2, <3>3 DEF RunsInOrder, SameRun
  <2>2. CASE b < write_index
    <3>1. a \in 0 .. write_index - 1 /\ b \in 0 .. write_index - 1
      BY <1>3, <2>2, Numbers
    <3>2. temp_buffer[a + 1].key < temp_buffer[b + 1].key
      BY <1>8, <3>1 DEF Inv, PassMerges, RunsInOrder
    <3>3. a + 1 \in 1 .. write_index /\ b + 1 \in 1 .. write_index
      BY <1>3, <3>1, Numbers
    <3> QED
      BY <1>6, <3>2, <3>3
  <2>3. CASE b = write_index
    <3>1. b \in i .. right_end - 1
      BY <1>3, <1>4, <2>3, Numbers
    <3>2. ~(a \in 0 .. i - 1)
      BY <1>3, <3>1, RunsAre DEF Inv
    <3>3. a \in i .. write_index - 1 /\ a + 1 \in 1 .. write_index
      BY <1>3, <2>3, <3>2, Numbers
    <3>4. temp_buffer[a + 1].key < entries[n + 1].key
      BY <3>3 DEF Inv, MergeInv
    <3> QED
      BY <1>6, <2>3, <3>3, <3>4
  <2> QED
    BY <1>3, <2>2, <2>3, Numbers
<1>11. MergeInv'
  <2>1. write_index' = left_index' + (right_index' - right_start)
    BY <1>1, <1>3, Numbers DEF Inv, MergeInv
  <2>2. Pending' = Pending \ {n}
    <3>1. Pending' = left_index' .. right_start - 1 \cup right_index' .. right_end - 1
      BY <1>2 DEF Pending
    <3>2. CASE n = left_index /\ LeftGoesOn /\ left_index' = left_index + 1 /\ right_index' = right_index
      <4>1. left_index .. right_start - 1 = (left_index + 1 .. right_start - 1) \cup {n}
        BY <1>3, <3>2, Numbers DEF LeftGoesOn
      <4>2. n \notin left_index + 1 .. right_start - 1 /\ n \notin right_index .. right_end - 1
        BY <1>3, <1>5, <3>2, Numbers DEF LeftGoesOn
      <4> QED
        BY <3>1, <3>2, <4>1, <4>2 DEF Pending
    <3>3. CASE n = right_index /\ RightGoesOn /\ right_index' = right_index + 1 /\ left_index' = left_index
      <4>1. right_index .. right_end - 1 = (right_index + 1 .. right_end - 1) \cup {n}
        BY <1>3, <3>3, Numbers DEF RightGoesOn
      <4>2. n \notin right_index + 1 .. right_end - 1 /\ n \notin left_index .. right_start - 1
        BY <1>3, <1>5, <3>3, Numbers DEF RightGoesOn
      <4> QED
        BY <3>1, <3>3, <4>1, <4>2 DEF Pending
    <3> QED
      BY <3>2, <3>3
  <2>3. SUFFICES ASSUME NEW a \in i .. write_index, NEW b \in Pending \ {n}
                 PROVE  temp_buffer'[a + 1].key < entries[b + 1].key
    <3>1. write_index' - 1 = write_index
      BY <1>1, <1>3, Numbers
    <3> QED
      BY <1>1, <1>2, <2>1, <2>2, <2>3, <3>1 DEF MergeInv
  <2>4. CASE a = write_index
    BY <1>6, <2>3, <2>4
  <2>5. CASE a # write_index
    <3>1. a \in i .. write_index - 1 /\ a + 1 \in 1 .. write_index
      BY <1>3, <2>3, <2>5, Numbers
    <3> QED
      BY <1>6, <2>3, <3>1 DEF Inv, MergeInv
  <2> QED
    BY <2>4, <2>5
<1>12. Rearranged'
  BY <1>1, ArrayKept
<1>13. Aligned'
  BY <1>1 DEF Inv, Aligned, Running
<1> QED
  BY <1>1, <1>7, <1>9, <1>10, <1>11, <1>12, <1>13 DEF Inv, PassMerges, Begins, Running

LEMMA TakeLeftStep == Inv /\ TakeLeft => Inv'
<1> SUFFICES ASSUME Inv, TakeLeft PROVE Inv'
  OBVIOUS
<1>1. pc = "merge" /\ TypeOK /\ left_index < right_start /\ Write(left_index) /\ left_index' = left_index + 1
      /\ right_index' = right_index /\ LeftGoesOn
  BY DEF TakeLeft, LeftGoesOn, Inv
<1>2. left_index \in Pending /\ left_index \in left_index .. right_start - 1
  BY <1>1, Numbers DEF Pending
<1>3. ASSUME NEW b \in Pending \ {left_index} PROVE entries[left_index + 1].key < entries[b + 1].key
  <2>1. CASE b \in left_index .. right_start - 1
    BY <1>1, <1>2, <2>1, PendingOrdered, Numbers
  <2>2. CASE b \in right_index .. right_end - 1
    <3>1. RightGoesOn /\ right_index \in right_index .. right_end - 1
      BY <1>1, <2>2, Numbers DEF RightGoesOn
    <3>2. entries[left_index + 1].key <= entries[right_index + 1].key
      BY <3>1 DEF TakeLeft, LeftIsLeast
    <3>3. entries[left_index + 1].key # entries[right_index + 1].key
      <4>1. left_index + 1 \in 1 .. Len(entries) /\ right_index + 1 \in 1 .. Len(entries)
        BY <1>1, <3>1, Numbers DEF RightGoesOn
      <4>2. left_index + 1 # right_index + 1
        BY <1>1, Numbers DEF TypeOK
      <4> QED
        BY <4>1, <4>2 DEF Inv, Rearranged, KeysDiffer
    <3>4. right_index \in Pending /\ b \in Pending
      BY <3>1 DEF Pending
    <3>5. /\ entries[left_index + 1].key \in Nat /\ entries[right_index + 1].key \in Nat
          /\ entries[b + 1].key \in Nat
      BY <1>1, <1>2, <3>4, PendingPlaces
    <3>6. b # right_index => entries[right_index + 1].key < entries[b + 1].key
      <4>1. b # right_index => right_index < b
        BY <1>1, <2>2, Numbers
      <4> QED
        BY <1>1, <2>2, <3>1, <4>1, PendingOrdered
    <3> QED
      BY <3>2, <3>3, <3>5, <3>6
  <2> QED
    BY <2>1, <2>2 DEF Pending
<1> QED
  BY <1>1, <1>2, <1>3, TakeStep

LEMMA TakeRightStep == Inv /\ TakeRight => Inv'
<1> SUFFICES ASSUME Inv, TakeRight PROVE Inv'
  OBVIOUS
<1>1. pc = "merge" /\ TypeOK /\ right_index < right_end /\ Write(right_index) /\ right_index' = right_index + 1
      /\ left_index' = left_index /\ RightGoesOn
  BY DEF TakeRight, RightGoesOn, Inv
<1>2. right_index \in Pending /\ right_index \in right_index .. right_end - 1
  BY <1>1, Numbers DEF Pending
<1>3. ASSUME NEW b \in Pending \ {right_index} PROVE entries[right_index + 1].key < entries[b + 1].key
  <2>1. CASE b \in right_index .. right_end - 1
    BY <1>1, <1>2, <2>1, PendingOrdered, Numbers
  <2>2. CASE b \in left_index .. right_start - 1
    <3>1. LeftGoesOn /\ left_index \in left_index .. right_start - 1
      BY <1>1, <2>2, Numbers DEF LeftGoesOn
    <3>2. ~(entries[left_index + 1].key <= entries[right_index + 1].key)
      BY <3>1 DEF TakeRight, LeftIsLeast
    <3>3. left_index \in Pending /\ b \in Pending
      BY <3>1 DEF Pending
    <3>4. /\ entries[left_index + 1].key \in Nat /\ entries[right_index + 1].key \in Nat
          /\ entries[b + 1].key \in Nat
      BY <1>1, <1>2, <3>3, PendingPlaces
    <3>5. b # left_index => entries[left_index + 1].key < entries[b + 1].key
      <4>1. b # left_index => left_index < b
        BY <1>1, <2>2, Numbers
      <4> QED
        BY <1>1, <2>2, <3>1, <4>1, PendingOrdered
    <3> QED
      BY <3>2, <3>4, <3>5
  <2> QED
    BY <2>1, <2>2 DEF Pending
<1> QED
  BY <1>1, <1>2, <1>3, TakeStep

LEMMA MergeEndsStep == Inv /\ MergeEnds => Inv'
<1> SUFFICES ASSUME Inv, MergeEnds PROVE Inv'
  OBVIOUS
<1>1. /\ pc = "merge" /\ pc' = "pass" /\ i' = i + 2 * width
      /\ UNCHANGED <<given, entries, sorted, temp_buffer, width, left_index, right_index, write_index, answer>>
  BY DEF MergeEnds
<1>2. TypeOK
  BY DEF Inv
<1>3. left_index = right_start /\ right_index = right_end
  BY <1>1, <1>2, Numbers DEF MergeEnds, LeftGoesOn, RightGoesOn, TypeOK
<1>4. written = write_index /\ write_index = right_end
  BY <1>1, <1>2, <1>3, Numbers DEF written, Inv, MergeInv
<1>5. entry_count' = entry_count /\ Positions' = Positions
  BY <1>1 DEF entry_count, Positions
<1>6. written' = right_end
  BY <1>1, <1>5 DEF written, right_end
<1>7. Merged' = Merged
  <2>1. Merged = { m \in Positions : m < right_start \/ (right_start <= m /\ m < right_end) }
    BY <1>1, <1>3 DEF Merged
  <2>2. Merged' = { m \in Positions : m < i + 2 * width }
    BY <1>1, <1>5 DEF Merged
  <2>3. \A m \in Positions : m < i + 2 * width <=> m < right_start \/ (right_start <= m /\ m < right_end)
    BY <1>2, Numbers DEF Positions, right_start, right_end, Least
  <2> QED
    BY <2>1, <2>2, <2>3
<1>8. TypeOK'
  BY <1>1, <1>2, <1>5, Numbers DEF TypeOK
<1>9. NothingLostNorTwice'
  <2>1. /\ { temp_buffer[m] : m \in 1 .. right_end } = { entries[m + 1] : m \in Merged }
        /\ \A a, b \in 1 .. right_end : temp_buffer[a] = temp_buffer[b] => a = b
    BY <1>1, <1>4 DEF Inv, PassMerges, NothingLostNorTwice
  <2> QED
    BY <1>1, <1>6, <1>7, <2>1 DEF NothingLostNorTwice
<1>10. RunsInOrder'
  BY <1>1, <1>4, <1>5, <1>6 DEF Inv, PassMerges, RunsInOrder, SameRun
<1>11. Aligned'
  <2>1. PICK k \in Nat : i = k * (2 * width)
    BY <1>1 DEF Inv, Aligned, Running
  <2>2. width \in Nat /\ k + 1 \in Nat
    BY <1>2, Numbers
  <2>3. i + 2 * width = (k + 1) * (2 * width)
    BY <2>1, <2>2
  <2> QED
    BY <1>1, <2>2, <2>3 DEF Aligned
<1>12. Rearranged'
  BY <1>1, ArrayKept
<1> QED
  BY <1>1, <1>8, <1>9, <1>10, <1>11, <1>12 DEF Inv, PassMerges, MergeInv, Begins, Running

-----------------------------------------------------------------------------
(* The passes.                                                              *)

LEMMA RunsOfOne == ASSUME NEW a \in Nat PROVE a \div 1 = a
BY Quotient

LEMMA InitInv == Init => Inv
<1> SUFFICES ASSUME Init PROVE Inv
  OBVIOUS
<1>1. /\ entries = given /\ sorted \in BOOLEAN /\ temp_buffer = <<>> /\ pc = "begin" /\ width = 1 /\ i = 0
      /\ left_index = 0 /\ right_index = 0 /\ write_index = 0 /\ answer = FALSE
  BY DEF Init
<1>2. given \in Seq(EntryType) /\ KeysDiffer(given)
  <2>1. PICK n \in 0 .. MaxEntries : given \in [1 .. n -> EntryType]
    BY DEF Init, Arrays, EntryType
  <2>2. n \in Nat
    BY SortAssumption
  <2>3. given \in Seq(EntryType) /\ DOMAIN given = 1 .. Len(given)
    BY <2>1, <2>2
  <2> QED
    BY <2>3 DEF Init, Arrays, KeysDiffer
<1>3. TypeOK
  <2>1. <<>> \in Seq(EntryType \cup {Garbage}) /\ Len(<<>>) = 0
    OBVIOUS
  <2>2. entries \in Seq(EntryType) /\ Len(entries) = entry_count
    BY <1>1, <1>2 DEF entry_count
  <2>3. temp_buffer \in Seq(EntryType \cup {Garbage}) /\ Len(temp_buffer) = 0
    BY <1>1, <2>1
  <2>4. /\ sorted \in BOOLEAN /\ answer \in BOOLEAN /\ pc \in {"begin", "pass", "merge", "done"}
        /\ width \in Nat \ {0} /\ i \in Nat /\ left_index \in Nat /\ right_index \in Nat /\ write_index \in Nat
        /\ pc \notin {"pass", "merge"} /\ pc # "merge"
    <3>1. sorted \in BOOLEAN
      BY <1>1
    <3>2. answer \in BOOLEAN
      BY <1>1
    <3> QED
      BY <1>1, <3>1, <3>2
  <2> QED
    BY <1>2, <2>2, <2>3, <2>4, Zenon DEF TypeOK
<1>4. NothingLostNorTwice /\ Aligned /\ MergeInv /\ Begins
  BY <1>1 DEF NothingLostNorTwice, Aligned, Running, MergeInv, Begins
<1>5. RunsInOrder
  <2> SUFFICES ASSUME NEW a \in Positions, NEW b \in Positions, a < b, SameRun(a, b, width)
               PROVE  entries[a + 1].key < entries[b + 1].key
    BY <1>1 DEF RunsInOrder
  <2>1. a \in Nat /\ b \in Nat
    BY <1>3, Numbers
  <2>2. a = b
    BY <1>1, <2>1, RunsOfOne DEF SameRun
  <2> QED
    BY <2>1, <2>2
<1>6. Rearranged
  BY <1>1, <1>2 DEF Rearranged
<1> QED
  BY <1>3, <1>4, <1>5, <1>6 DEF Inv, PassMerges

LEMMA NothingToSortStep == Inv /\ (NothingToSort \/ NoBuffer) => Inv'
<1> SUFFICES ASSUME Inv, NothingToSort \/ NoBuffer PROVE Inv'
  OBVIOUS
<1>1. /\ pc = "begin" /\ pc' = "done" /\ answer' \in BOOLEAN /\ sorted' \in BOOLEAN
      /\ UNCHANGED <<given, entries, temp_buffer, width, i, left_index, right_index, write_index>>
  BY DEF NothingToSort, NoBuffer, Return, pair, Inv, TypeOK
<1>2. entry_count' = entry_count /\ Positions' = Positions
  BY <1>1 DEF entry_count, Positions
<1>3. TypeOK'
  BY <1>1, <1>2 DEF Inv, TypeOK
<1>4. RunsInOrder'
  BY <1>1, <1>2 DEF Inv, PassMerges, RunsInOrder, SameRun
<1>5. Rearranged'
  BY <1>1, ArrayKept
<1> QED
  BY <1>1, <1>3, <1>4, <1>5 DEF Inv, PassMerges, NothingLostNorTwice, Aligned, Running, MergeInv, Begins

LEMMA AllocateBufferStep == Inv /\ AllocateBuffer => Inv'
<1> SUFFICES ASSUME Inv, AllocateBuffer PROVE Inv'
  OBVIOUS
<1>1. /\ pc = "begin" /\ pc' = "pass" /\ temp_buffer' = [n \in 1 .. entry_count |-> Garbage]
      /\ UNCHANGED <<given, entries, sorted, width, i, left_index, right_index, write_index, answer>>
  BY DEF AllocateBuffer, pair
<1>2. entry_count' = entry_count /\ Positions' = Positions
  BY <1>1 DEF entry_count, Positions
<1>3. i = 0
  BY <1>1 DEF Inv, Begins, Running
<1>4. written' = 0 /\ Merged' = {}
  <2>1. written' = 0
    BY <1>1, <1>2, <1>3, Numbers DEF Inv, written, Least
  <2>2. Merged' = { n \in Positions : n < 0 }
    BY <1>1, <1>2, <1>3 DEF Merged
  <2> QED
    BY <2>1, <2>2, Numbers DEF Inv
<1>5. TypeOK'
  <2>1. temp_buffer' \in Seq(EntryType \cup {Garbage}) /\ Len(temp_buffer') = entry_count
    BY <1>1, Numbers DEF Inv
  <2> QED
    BY <1>1, <1>2, <2>1 DEF Inv, TypeOK
<1>6. NothingLostNorTwice'
  BY <1>4 DEF NothingLostNorTwice
<1>7. RunsInOrder'
  BY <1>1, <1>2, <1>4 DEF Inv, PassMerges, RunsInOrder, SameRun
<1>8. Rearranged'
  BY <1>1, ArrayKept
<1>9. Aligned'
  <2>1. i' = 0 * (2 * width')
    BY <1>1, <1>3, Numbers DEF Inv
  <2> QED
    BY <2>1 DEF Aligned
<1>10. Begins'
  BY <1>1 DEF AllocateBuffer, entry_count, Begins
<1>11. MergeInv'
  BY <1>1 DEF MergeInv
<1> QED
  BY <1>5, <1>6, <1>7, <1>8, <1>9, <1>10, <1>11 DEF Inv, PassMerges

LEMMA BeginMergeStep == Inv /\ BeginMerge => Inv'
<1> SUFFICES ASSUME Inv, BeginMerge PROVE Inv'
  OBVIOUS
<1>1. /\ pc = "pass" /\ pc' = "merge" /\ i < entry_count
      /\ left_index' = i /\ right_index' = right_start /\ write_index' = i
      /\ UNCHANGED <<given, entries, sorted, temp_buffer, width, i, answer>>
  BY DEF BeginMerge
<1>2. right_start' = right_start /\ right_end' = right_end /\ entry_count' = entry_count /\ Positions' = Positions
  BY <1>1 DEF right_start, right_end, entry_count, Positions, Least
<1>3. TypeOK
  BY DEF Inv
<1>4. i <= right_start
  BY <1>1, <1>3, Numbers DEF right_start, Least
<1>5. TypeOK'
  BY <1>1, <1>2, <1>3, <1>4, Numbers DEF TypeOK
<1>6. written = i /\ written' = i
  BY <1>1, <1>3, Numbers DEF written, Least
<1>7. Merged' = Merged
  <2>1. Merged = { m \in Positions : m < i }
    BY <1>1 DEF Merged
  <2>2. Merged' = { m \in Positions : m < i \/ (right_start <= m /\ m < right_start) }
    BY <1>1, <1>2 DEF Merged
  <2> QED
    BY <1>3, <2>1, <2>2, Numbers
<1>8. NothingLostNorTwice'
  BY <1>1, <1>6, <1>7 DEF Inv, PassMerges, NothingLostNorTwice
<1>9. RunsInOrder'
  BY <1>1, <1>2, <1>6 DEF Inv, PassMerges, RunsInOrder, SameRun
<1>10. Rearranged'
  BY <1>1, ArrayKept
<1>11. Aligned'
  BY <1>1 DEF Inv, Aligned, Running
<1>12. MergeInv'
  BY <1>1, <1>2, <1>3, Numbers DEF MergeInv
<1> QED
  BY <1>1, <1>5, <1>8, <1>9, <1>10, <1>11, <1>12 DEF Inv, PassMerges, Begins, Running

\* A pass that is over has merged the whole array.
LEMMA PassOver ==
  ASSUME Inv, pc = "pass", i >= entry_count
  PROVE  /\ written = entry_count
         /\ Members(temp_buffer) = Members(entries)
         /\ \A a, b \in 1 .. entry_count : temp_buffer[a] = temp_buffer[b] => a = b
         /\ temp_buffer \in Seq(EntryType) /\ Len(temp_buffer) = entry_count
<1>1. TypeOK
  BY DEF Inv
<1>2. written = entry_count
  BY <1>1, Numbers DEF written, Least
<1>3. Merged = Positions
  <2>1. Merged = { m \in Positions : m < i }
    BY DEF Merged
  <2> QED
    BY <1>1, <2>1, Numbers DEF Positions
<1>4. /\ { temp_buffer[n] : n \in 1 .. entry_count } = { entries[n + 1] : n \in Positions }
      /\ \A a, b \in 1 .. entry_count : temp_buffer[a] = temp_buffer[b] => a = b
  BY <1>2, <1>3 DEF Inv, PassMerges, NothingLostNorTwice
<1>5. { entries[n + 1] : n \in Positions } = Members(entries)
  <2>1. \A m \in 1 .. entry_count : m - 1 \in Positions /\ (m - 1) + 1 = m
    BY <1>1, Numbers DEF Positions
  <2> QED
    BY <1>1, <2>1, Numbers DEF Members
<1>6. temp_buffer \in Seq(EntryType \cup {Garbage}) /\ Len(temp_buffer) = entry_count
  BY <1>1 DEF TypeOK
<1>7. Members(temp_buffer) = Members(entries)
  BY <1>4, <1>5, <1>6 DEF Members
<1>8. \A n \in 1 .. entry_count : temp_buffer[n] \in EntryType
  <2>1. \A e \in { entries[n + 1] : n \in Positions } : e \in EntryType
    BY <1>1, Numbers
  <2> QED
    BY <1>4, <2>1
<1> QED
  BY <1>1, <1>2, <1>4, <1>6, <1>7, <1>8, Numbers

\* Entries that are told apart by their keys in one array are in the other.
LEMMA KeysStillDiffer ==
  ASSUME NEW s \in Seq(EntryType), NEW t \in Seq(EntryType), Members(t) = Members(s), KeysDiffer(s),
         \A a, b \in 1 .. Len(t) : t[a] = t[b] => a = b
  PROVE  KeysDiffer(t)
<1> SUFFICES ASSUME NEW a \in 1 .. Len(t), NEW b \in 1 .. Len(t), t[a].key = t[b].key PROVE a = b
  BY DEF KeysDiffer
<1> t[a] \in Members(s) /\ t[b] \in Members(s)
  BY DEF Members
<1>1. PICK c \in 1 .. Len(s) : s[c] = t[a]
  BY DEF Members
<1>2. PICK d \in 1 .. Len(s) : s[d] = t[b]
  BY DEF Members
<1>3. c = d
  BY <1>1, <1>2 DEF KeysDiffer
<1> QED
  BY <1>1, <1>2, <1>3

LEMMA CopyBackStep == Inv /\ CopyBack => Inv'
<1> SUFFICES ASSUME Inv, CopyBack PROVE Inv'
  OBVIOUS
<1>1. /\ pc = "pass" /\ pc' = "pass" /\ i >= entry_count /\ entries' = temp_buffer /\ width' = 2 * width /\ i' = 0
      /\ UNCHANGED <<given, sorted, temp_buffer, left_index, right_index, write_index, answer>>
  BY DEF CopyBack, NextWidth
<1>2. TypeOK
  BY DEF Inv
<1>3. entry_count' = entry_count /\ Positions' = Positions
  BY <1>1 DEF entry_count, Positions
<1>4. /\ written = entry_count /\ Members(temp_buffer) = Members(entries)
      /\ \A a, b \in 1 .. entry_count : temp_buffer[a] = temp_buffer[b] => a = b
      /\ temp_buffer \in Seq(EntryType) /\ Len(temp_buffer) = entry_count
  BY <1>1, PassOver
<1>5. TypeOK'
  BY <1>1, <1>2, <1>3, <1>4, Numbers DEF TypeOK
<1>6. written' = 0 /\ Merged' = {}
  <2>1. written' = 0
    BY <1>1, <1>2, <1>3, Numbers DEF written, Least
  <2>2. Merged' = { n \in Positions : n < 0 }
    BY <1>1, <1>3 DEF Merged
  <2> QED
    BY <1>2, <2>1, <2>2, Numbers
<1>7. NothingLostNorTwice'
  BY <1>6 DEF NothingLostNorTwice
<1>8. RunsInOrder'
  <2>1. \A a, b \in 0 .. entry_count - 1 :
          a < b /\ SameRun(a, b, 2 * width) => temp_buffer[a + 1].key < temp_buffer[b + 1].key
    BY <1>1, <1>4 DEF Inv, PassMerges, RunsInOrder
  <2> QED
    BY <1>1, <1>3, <1>6, <2>1 DEF RunsInOrder, Positions, SameRun
<1>9. Rearranged'
  <2>1. KeysDiffer(given) /\ KeysDiffer(entries) /\ Members(entries) = Members(given)
    BY DEF Inv, Rearranged
  <2>2. KeysDiffer(temp_buffer)
    BY <1>2, <1>4, <2>1, KeysStillDiffer, Numbers
  <2>3. KeysDiffer(given)' /\ KeysDiffer(entries)'
    BY <1>1, <2>1, <2>2 DEF KeysDiffer
  <2>4. Members(entries)' = Members(given)'
    <3>1. Members(temp_buffer) = Members(given)
      BY <1>4, <2>1
    <3>2. Members(entries)' = Members(temp_buffer)
      BY <1>1 DEF Members
    <3>3. Members(given)' = Members(given)
      BY <1>1 DEF Members
    <3> QED
      BY <3>1, <3>2, <3>3
  <2> QED
    BY <1>1, <2>3, <2>4 DEF Rearranged
<1>10. Aligned'
  <2>1. i' = 0 * (2 * width')
    BY <1>1, <1>2, Numbers
  <2> QED
    BY <2>1 DEF Aligned
<1> QED
  BY <1>1, <1>5, <1>7, <1>8, <1>9, <1>10 DEF Inv, PassMerges, MergeInv, Begins, Running

LEMMA FreeBufferStep == Inv /\ FreeBuffer => Inv'
<1> SUFFICES ASSUME Inv, FreeBuffer PROVE Inv'
  OBVIOUS
<1>1. /\ pc = "pass" /\ pc' = "done" /\ answer' = TRUE /\ sorted' = TRUE /\ temp_buffer' = <<>>
      /\ UNCHANGED <<given, entries, width, i, left_index, right_index, write_index>>
  BY DEF FreeBuffer, Return, pair
<1>2. entry_count' = entry_count /\ Positions' = Positions
  BY <1>1 DEF entry_count, Positions
<1>3. TypeOK'
  BY <1>1, <1>2 DEF Inv, TypeOK
<1>4. RunsInOrder'
  BY <1>1, <1>2 DEF Inv, PassMerges, RunsInOrder, SameRun
<1>5. Rearranged'
  BY <1>1, ArrayKept
<1> QED
  BY <1>1, <1>3, <1>4, <1>5 DEF Inv, PassMerges, NothingLostNorTwice, Aligned, Running, MergeInv, Begins

LEMMA StutterInv == Inv /\ UNCHANGED vars => Inv'
<1> SUFFICES ASSUME Inv, UNCHANGED vars PROVE Inv'
  OBVIOUS
<1>1. UNCHANGED <<given, entries, sorted, temp_buffer, pc, width, i, left_index, right_index, write_index, answer>>
  BY DEF vars, pair
<1>2. /\ entry_count' = entry_count /\ Positions' = Positions /\ right_start' = right_start
      /\ right_end' = right_end /\ written' = written /\ Merged' = Merged /\ Pending' = Pending
  BY <1>1 DEF entry_count, Positions, right_start, right_end, written, Merged, Pending, Least
<1>3. TypeOK'
  BY <1>1, <1>2 DEF Inv, TypeOK
<1>4. NothingLostNorTwice'
  BY <1>1, <1>2 DEF Inv, PassMerges, NothingLostNorTwice
<1>5. RunsInOrder'
  BY <1>1, <1>2 DEF Inv, PassMerges, RunsInOrder, SameRun
<1>6. Rearranged'
  BY <1>1, ArrayKept
<1>7. Aligned' /\ MergeInv' /\ Begins'
  BY <1>1, <1>2 DEF Inv, Aligned, Running, MergeInv, Begins
<1> QED
  BY <1>3, <1>4, <1>5, <1>6, <1>7 DEF Inv, PassMerges

LEMMA NextInv == Inv /\ [Next]_vars => Inv'
BY NothingToSortStep, AllocateBufferStep, BeginMergeStep, TakeLeftStep, TakeRightStep, MergeEndsStep,
   CopyBackStep, FreeBufferStep, StutterInv DEF Next, Merge

THEOREM Invariance == Spec => []Inv
BY InitInv, NextInv, PTL DEF Spec

(* Every index stays inside its run and no entry of the array is ever       *)
(* garbage, for arrays of every length (merge_entries and                   *)
(* bc_runtime_config_store_sort).                                           *)
THEOREM TypeCorrect == Spec => []TypeOK
<1>1. Inv => TypeOK
  BY DEF Inv
<1> QED
  BY <1>1, Invariance, PTL

(* Every pass takes ordered runs to ordered runs of twice the width and     *)
(* loses or doubles nothing, whatever the length (the two loops of          *)
(* bc_runtime_config_store_sort).                                           *)
THEOREM PassMergesAlways == Spec => []PassMerges
<1>1. Inv => PassMerges
  BY DEF Inv
<1> QED
  BY <1>1, Invariance, PTL

(* How the sort goes on: it returns, begins, doubles the width of a pass    *)
(* that is over, goes to the next pair of runs, enters the merge of one, or *)
(* takes an entry of it.  Each line is bounded by the state, and one lower  *)
(* leaves those above it as they were, so no sort goes on for ever.         *)
Advances ==
  \/ pc # "done" /\ pc' = "done"
  \/ pc = "begin" /\ pc' = "pass"
  \/ pc' = "pass" /\ width < entry_count /\ width' = 2 * width
  \/ pc' = "pass" /\ UNCHANGED width /\ i < entry_count /\ i' = i + 2 * width
  \/ pc' = "merge" /\ UNCHANGED <<width, i>> /\ pc = "pass"
  \/ /\ UNCHANGED <<given, width, i, pc>> /\ pc = "merge"
     /\ write_index < right_end /\ write_index' = write_index + 1

LEMMA MergeAdvances == ASSUME Inv, Merge PROVE Advances
<1>1. TypeOK /\ pc = "merge"
  BY DEF Inv, Merge, TakeLeft, TakeRight, MergeEnds
<1>2. /\ right_start \in Nat /\ right_end \in Nat /\ right_start <= right_end
      /\ write_index \in Nat /\ left_index \in Nat /\ right_index \in Nat
      /\ write_index = left_index + (right_index - right_start)
      /\ left_index <= right_start /\ right_index <= right_end
  BY <1>1, Numbers DEF Inv, MergeInv, TypeOK
<1>3. CASE TakeLeft
  BY <1>1, <1>2, <1>3 DEF TakeLeft, LeftGoesOn, Write, Advances
<1>4. CASE TakeRight
  BY <1>1, <1>2, <1>4 DEF TakeRight, RightGoesOn, Write, Advances
<1>5. CASE MergeEnds
  BY <1>1, <1>5 DEF MergeEnds, Advances, TypeOK
<1> QED
  BY <1>3, <1>4, <1>5 DEF Merge

(* Every step of bc_runtime_config_store_sort takes it further: passes are  *)
(* as many as the width can double, and the merges of a pass take each      *)
(* entry once.                                                              *)
THEOREM SortAdvances == Spec => [][Advances]_vars
<1>1. Inv /\ [Next]_vars => [Advances]_vars
  <2> SUFFICES ASSUME Inv, Next PROVE Advances
    OBVIOUS
  <2>1. CASE NothingToSort \/ NoBuffer \/ AllocateBuffer \/ FreeBuffer
    BY <2>1 DEF NothingToSort, NoBuffer, AllocateBuffer, FreeBuffer, Return, Advances
  <2>2. CASE BeginMerge \/ CopyBack
    BY <2>2 DEF BeginMerge, CopyBack, NextWidth, Advances
  <2>3. CASE Merge
    BY <2>3, MergeAdvances
  <2> QED
    BY <2>1, <2>2, <2>3 DEF Next
<1> QED
  BY <1>1, Invariance, PTL DEF Spec

-----------------------------------------------------------------------------
(* The call as one step of the store.                                       *)

\* Each entry of the result was at one place of the array given.
LEMMA IsRearrangement ==
  ASSUME NEW s \in Seq(EntryType), NEW t \in Seq(EntryType), Len(t) = Len(s),
         Members(t) = Members(s), KeysDiffer(s), KeysDiffer(t)
  PROVE  \E p \in Store!Rearrangements(Len(s)) : t = [n \in 1 .. Len(s) |-> s[p[n]]]
<1> DEFINE p == [n \in 1 .. Len(s) |-> CHOOSE m \in 1 .. Len(s) : s[m] = t[n]]
<1>1. ASSUME NEW n \in 1 .. Len(s) PROVE p[n] \in 1 .. Len(s) /\ s[p[n]] = t[n]
  <2>1. t[n] \in Members(s)
    BY DEF Members
  <2>2. \E m \in 1 .. Len(s) : s[m] = t[n]
    BY <2>1 DEF Members
  <2> QED
    BY <2>2
<1>2. p \in [1 .. Len(s) -> 1 .. Len(s)]
  BY <1>1
<1> HIDE DEF p
<1>3. \A a, b \in 1 .. Len(s) : p[a] = p[b] => a = b
  BY <1>1 DEF KeysDiffer
<1>4. ASSUME NEW m \in 1 .. Len(s) PROVE \E n \in 1 .. Len(s) : p[n] = m
  <2>1. s[m] \in Members(t)
    BY DEF Members
  <2>2. PICK n \in 1 .. Len(s) : t[n] = s[m]
    BY <2>1 DEF Members
  <2>3. p[n] \in 1 .. Len(s) /\ s[p[n]] = s[m]
    BY <1>1, <2>2
  <2>4. p[n] = m
    BY <2>3 DEF KeysDiffer
  <2> QED
    BY <2>4
<1>5. t = [n \in 1 .. Len(s) |-> s[p[n]]]
  <2>1. t = [n \in 1 .. Len(s) |-> t[n]]
    OBVIOUS
  <2> QED
    BY <1>1, <2>1
<1>6. p \in Store!Rearrangements(Len(s))
  BY <1>2, <1>3, <1>4 DEF Store!Rearrangements
<1> QED
  BY <1>5, <1>6

\* One run as long as the array is the array in order.
LEMMA WidthReached ==
  ASSUME Inv, width >= entry_count
  PROVE  Store!Ordered(entries)
<1> SUFFICES ASSUME NEW a \in 1 .. Len(entries), NEW b \in 1 .. Len(entries), a < b
             PROVE  entries[a].key <= entries[b].key
  BY DEF Store!Ordered
<1>1. TypeOK
  BY DEF Inv
<1>2. a - 1 \in Positions /\ b - 1 \in Positions /\ a - 1 \in Nat /\ b - 1 \in Nat
  BY <1>1, Numbers DEF Positions
<1>3. SameRun(a - 1, b - 1, width)
  <2>1. 0 * width <= a - 1 /\ a - 1 < 0 * width + width /\ 0 * width <= b - 1 /\ b - 1 < 0 * width + width
    BY <1>1, <1>2, Numbers DEF Positions
  <2> QED
    BY <1>1, <1>2, <2>1, OneRun, Numbers
<1>4. entries[(a - 1) + 1].key < entries[(b - 1) + 1].key
  BY <1>2, <1>3 DEF Inv, PassMerges, RunsInOrder
<1>5. (a - 1) + 1 = a /\ (b - 1) + 1 = b /\ entries[a] \in EntryType /\ entries[b] \in EntryType
  BY <1>1, Numbers
<1> QED
  BY <1>4, <1>5, KeysAreNumbers

(* The merge sort, taken as a whole, is the one step by which ConfigStore   *)
(* models it: an ordered rearrangement that sets the flag, or, without a    *)
(* buffer, no change and a refusal (bc_runtime_config_store_sort).          *)
THEOREM SortIsOneStep == Spec => ImplementsSort
<1>1. Inv /\ [Next]_vars => [Store!Sort]_(Store!vars)
  <2> SUFFICES ASSUME Inv, [Next]_vars PROVE Store!Sort \/ UNCHANGED Store!vars
    OBVIOUS
  <2>1. CASE UNCHANGED vars
    BY <2>1 DEF vars, pair, Store!vars, Returned
  <2>2. CASE AllocateBuffer \/ BeginMerge \/ Merge \/ CopyBack
    <3>1. pc # "done" /\ pc' # "done" /\ given' = given /\ sorted' = sorted
      BY <2>2 DEF AllocateBuffer, BeginMerge, Merge, TakeLeft, TakeRight, MergeEnds, CopyBack, Write
    <3> QED
      BY <3>1 DEF Store!vars, Returned
  <2>3. CASE NothingToSort
    <3>1. /\ pc = "begin" /\ pc' = "done" /\ Len(given) <= 1 /\ sorted' = TRUE /\ answer' = TRUE
          /\ given' = given /\ entries' = given
      BY <2>3 DEF NothingToSort, Return, entry_count, Inv, Rearranged
    <3> QED
      BY <3>1 DEF Store!Sort, Store!Idle, Store!Count, Store!Return, Store!Reply, Store!NoValue, Returned
  <2>4. CASE NoBuffer
    <3>1. /\ pc = "begin" /\ pc' = "done" /\ Len(given) > 1 /\ sorted' = sorted /\ answer' = FALSE
          /\ given' = given /\ entries' = given
      BY <2>4 DEF NoBuffer, Return, entry_count, Inv, Rearranged
    <3> QED
      BY <3>1 DEF Store!Sort, Store!Idle, Store!Count, Store!Return, Store!Reply, Store!NoValue, Returned
  <2>5. CASE FreeBuffer
    <3>1. /\ pc = "pass" /\ pc' = "done" /\ Len(given) > 1 /\ width >= entry_count /\ sorted' = TRUE /\ answer' = TRUE
          /\ given' = given /\ entries' = entries
      BY <2>5 DEF FreeBuffer, Return, Inv, Begins, Running
    <3>2. Store!Ordered(entries)
      BY <3>1, WidthReached
    <3>3. \E p \in Store!Rearrangements(Len(given)) : entries = [n \in 1 .. Len(given) |-> given[p[n]]]
      BY IsRearrangement, Numbers DEF Inv, Rearranged, entry_count
    <3> QED
      BY <3>1, <3>2, <3>3
      DEF Store!Sort, Store!Idle, Store!Count, Store!Indices, Store!IsSortResult, Store!Return, Store!Reply,
          Store!NoValue, Returned
  <2> QED
    BY <2>1, <2>2, <2>3, <2>4, <2>5 DEF Next
<1> QED
  BY <1>1, Invariance, PTL DEF Spec, ImplementsSort

=============================================================================
