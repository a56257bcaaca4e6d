-------------------------- MODULE ConfigLoadProofs --------------------------
(***************************************************************************)
(* Theorems about ConfigLoad.  At every moment of a load that has not      *)
(* failed, the last layer wins among the entries loaded so far: that is    *)
(* the inductive invariant, over the types and what each phase has done.   *)
(***************************************************************************)
EXTENDS ConfigLoad, SequenceTheorems, TLAPS

\* What each phase knows of the reading and of its place in its input.
Phased ==
  /\ pc = "open" => total_size = 0
  /\ pc \in {"open", "read", "fread"} => position = 0 /\ dropped = {} /\ ~read_failed
  /\ pc = "fread" => total_size < buffer_capacity
  /\ ~read_failed => ~cut
  /\ cut => total_size < Len(file)
  /\ pc = "parse" => position <= ParsedLines /\ dropped \subseteq 1 .. position
  /\ pc = "environment" => position <= Len(environment)
  /\ pc = "arguments" => position <= Len(arguments)

Shape == TypeOK /\ Phased /\ WholeFileRead

\* How much of each input is loaded.
FileDone ==
  IF pc \in {"open", "read", "fread"} THEN 0 ELSE IF pc = "parse" THEN position ELSE ParsedLines

EnvironmentDone ==
  IF pc \in {"open", "read", "fread", "parse"} THEN 0
  ELSE IF pc = "environment" THEN position ELSE Len(environment)

ArgumentsDone ==
  IF pc \in {"open", "read", "fread", "parse", "environment"} THEN 0
  ELSE IF pc = "arguments" THEN position ELSE Len(arguments)

UpTo(n, places) == { i \in places : i <= n }

LoadedFile(k) == UpTo(FileDone, Places(file, k)) \ dropped
LoadedEnvironment(k) == UpTo(EnvironmentDone, Places(environment, k))
LoadedArguments(k) == UpTo(ArgumentsDone, Places(arguments, k))

LastWins(a, e, f, k) ==
  /\ \A i \in a : IsLast(i, a) => Holds(k, Item("arguments", i))
  /\ a = {} => \A i \in e : IsLast(i, e) => Holds(k, Item("environment", i))
  /\ a \cup e = {} => \A i \in f : IsLast(i, f) => Holds(k, LineItem(i))
  /\ a \cup e \cup f = {} => map[k] = <<>>

LoadInv ==
  /\ pc = "done" => readable
  /\ pc # "failed" =>
       \A k \in Keys : LastWins(LoadedArguments(k), LoadedEnvironment(k), LoadedFile(k), k)

-----------------------------------------------------------------------------
(* The types and the phases.                                                *)

LEMMA InputTypes ==
  ASSUME NEW keys, NEW bound \in Nat, NEW source \in InputsOver(keys, bound)
  PROVE  source \in Seq(keys \cup {NoKey})
BY DEF InputsOver

LEMMA InitShape == Init => Shape
<1> SUFFICES ASSUME Init PROVE Shape
  OBVIOUS
<1>1. /\ file \in Seq(Keys \cup {NoKey})
      /\ environment \in Seq(EnvironmentKeys \cup {NoKey})
      /\ arguments \in Seq(Keys \cup {NoKey})
  BY InputTypes, LoadAssumption DEF Init
<1>2. Len(file) \in Nat
  BY <1>1
<1>3. /\ map \in [Keys -> Seq(Seq(LayerItems))]
      /\ readable \in BOOLEAN
      /\ reply \in [ok : BOOLEAN, value : Seq(Seq(LayerItems))]
  <2>1. <<>> \in Seq(Seq(LayerItems))
    OBVIOUS
  <2>2. map = [k \in Keys |-> <<>>] /\ readable = FALSE /\ reply = [ok |-> TRUE, value |-> <<>>]
    BY DEF Init, Store!MapInit, Store!Reply, Store!Absent
  <2> QED
    BY <2>1, <2>2
<1>4. /\ pc = "open" /\ position = 0 /\ total_size = 0 /\ buffer_capacity = BufferCapacity
      /\ read_failed = FALSE /\ cut = FALSE /\ dropped = {}
  BY DEF Init
<1>5. BufferCapacity \in Nat \ {0}
  BY LoadAssumption
<1>6. TypeOK
  <2>1. /\ position \in Nat
        /\ total_size \in Nat /\ total_size <= Len(file) /\ total_size <= buffer_capacity
        /\ buffer_capacity \in Nat \ {0}
        /\ dropped \subseteq 1 .. Len(file)
    BY <1>2, <1>4, <1>5
  <2>2. /\ pc \in {"open", "read", "fread", "parse", "environment", "arguments", "sort", "done", "failed"}
        /\ read_failed \in BOOLEAN /\ cut \in BOOLEAN
    BY <1>4
  <2> QED
    BY <1>1, <1>3, <2>1, <2>2, Zenon DEF TypeOK
<1>7. Phased /\ WholeFileRead
  BY DEF Init, Phased, WholeFileRead
<1> QED
  BY <1>6, <1>7 DEF Shape

\* What a call of the store leaves is again a store.
LEMMA PutTypes ==
  ASSUME TypeOK, NEW k \in Keys, NEW item \in LayerItems, Store!Put(k, item)
  PROVE  /\ map' \in [Keys -> Seq(Seq(LayerItems))]
         /\ readable' \in BOOLEAN
         /\ reply' \in [ok : BOOLEAN, value : Seq(Seq(LayerItems))]
         /\ map' = [map EXCEPT ![k] = <<<<item>>>>]
<1>1. <<<<item>>>> \in Seq(Seq(LayerItems)) /\ <<>> \in Seq(Seq(LayerItems))
  OBVIOUS
<1>2. map' = [map EXCEPT ![k] = <<<<item>>>>]
  BY DEF Store!Put, Store!Write
<1>3. readable' \in BOOLEAN /\ reply' = [ok |-> TRUE, value |-> <<>>]
  BY DEF Store!Put, Store!Write, Store!Reply, Store!Absent, Store!Present, TypeOK
<1> QED
  BY <1>1, <1>2, <1>3 DEF TypeOK

LEMMA FailTypes ==
  ASSUME TypeOK, Store!Fail
  PROVE  UNCHANGED <<map, readable>> /\ reply' \in [ok : BOOLEAN, value : Seq(Seq(LayerItems))]
BY DEF Store!Fail, Store!Reply, Store!Absent, TypeOK

LEMMA ReadableTypes ==
  ASSUME TypeOK, Store!MakeReadable
  PROVE  UNCHANGED map /\ readable' = TRUE /\ reply' \in [ok : BOOLEAN, value : Seq(Seq(LayerItems))]
BY DEF Store!MakeReadable, Store!Reply, Store!Absent, TypeOK

\* The line a step parses stands in the file.
LEMMA LineInFile ==
  ASSUME Shape, pc = "parse", More(ParsedLines)
  PROVE  /\ position + 1 \in 1 .. Len(file)
         /\ position + 1 <= ParsedLines
         /\ Entry(file) \in Keys \cup {NoKey}
         /\ LineItem(position + 1) \in LayerItems
<1>1. /\ file \in Seq(Keys \cup {NoKey}) /\ position \in Nat
      /\ total_size \in Nat /\ total_size <= Len(file)
      /\ cut => total_size < Len(file)
      /\ Len(file) \in Nat
  BY DEF Shape, TypeOK, Phased
<1>2. position + 1 <= ParsedLines /\ ParsedLines <= Len(file)
  BY <1>1 DEF More, ParsedLines
<1>3. position + 1 \in 1 .. Len(file)
  BY <1>1, <1>2 DEF ParsedLines
<1>4. Entry(file) \in Keys \cup {NoKey}
  BY <1>1, <1>3 DEF Entry
<1>5. LineItem(position + 1) \in LayerItems
  BY <1>1 DEF LineItem, Item, LayerItems
<1> QED
  BY <1>2, <1>3, <1>4, <1>5

LEMMA EntryInSource ==
  ASSUME NEW S, NEW source \in Seq(S), position \in Nat, More(Len(source))
  PROVE  /\ position + 1 \in 1 .. Len(source)
         /\ Entry(source) \in S
BY DEF More, Entry

\* The phases that begin with nothing of their input done.
LEMMA FreshPhase ==
  ASSUME Shape, GoTo(pc'), UNCHANGED <<inputVars, readVars, dropped>>,
         pc' \in {"environment", "arguments", "sort", "done", "failed"},
         map' \in [Keys -> Seq(Seq(LayerItems))], readable' \in BOOLEAN,
         reply' \in [ok : BOOLEAN, value : Seq(Seq(LayerItems))]
  PROVE  Shape'
<1>1. Len(environment) \in Nat /\ Len(arguments) \in Nat
  BY DEF Shape, TypeOK
<1>2. TypeOK'
  BY DEF Shape, TypeOK, GoTo, inputVars, readVars
<1>3. Phased' /\ WholeFileRead'
  BY <1>1 DEF Shape, Phased, WholeFileRead, GoTo, inputVars, readVars, ParsedLines
<1> QED
  BY <1>2, <1>3 DEF Shape

LEMMA OpenShape == Shape /\ Open => Shape'
<1> SUFFICES ASSUME Shape, Open PROVE Shape'
  OBVIOUS
<1>1. TypeOK'
  BY DEF Shape, TypeOK, Open, inputVars, readVars, storeVars
<1>2. Phased' /\ WholeFileRead'
  BY DEF Shape, TypeOK, Phased, WholeFileRead, Open, inputVars, readVars, storeVars
<1> QED
  BY <1>1, <1>2 DEF Shape

LEMMA MakeRoomShape == Shape /\ MakeRoom => Shape'
<1> SUFFICES ASSUME Shape, MakeRoom PROVE Shape'
  OBVIOUS
<1>1. /\ total_size \in Nat /\ buffer_capacity \in Nat \ {0}
      /\ total_size <= buffer_capacity
      /\ UNCHANGED total_size
  BY DEF Shape, TypeOK, MakeRoom
<1>2. /\ buffer_capacity' \in Nat \ {0} /\ total_size <= buffer_capacity'
      /\ pc' = "fread" => total_size < buffer_capacity'
  BY <1>1 DEF MakeRoom, BufferFull, Doubled
<1>3. TypeOK'
  BY <1>1, <1>2 DEF Shape, TypeOK, MakeRoom, inputVars, storeVars
<1>4. Phased'
  BY <1>1, <1>2 DEF Shape, Phased, MakeRoom, inputVars, storeVars
<1>5. WholeFileRead'
  BY DEF WholeFileRead, MakeRoom
<1> QED
  BY <1>3, <1>4, <1>5 DEF Shape

\* What a read may give, given the room that was made for it.
LEMMA ReadGives ==
  ASSUME Shape, Read
  PROVE  /\ total_size' \in Nat /\ total_size' <= Len(file) /\ total_size' <= buffer_capacity
         /\ \/ pc' = "read" /\ total_size < total_size'
            \/ pc' = "parse" /\ total_size' = total_size /\ total_size = Len(file)
<1>1. /\ Len(file) \in Nat /\ total_size \in Nat /\ buffer_capacity \in Nat
      /\ total_size < buffer_capacity
  BY DEF Shape, TypeOK, Phased, Read
<1>2. PICK n \in 0 .. Len(file) :
        /\ Gives(n)
        /\ total_size' = total_size + n
        /\ pc' = IF n = 0 THEN "parse" ELSE "read"
  BY DEF Read
<1>3. /\ n \in Nat /\ n <= buffer_capacity - total_size /\ n <= Len(file) - total_size
      /\ n = 0 => Len(file) - total_size = 0
  BY <1>1, <1>2 DEF Gives, Room, Unread
<1> QED
  BY <1>1, <1>2, <1>3

LEMMA ReadShape == Shape /\ Read => Shape'
<1> SUFFICES ASSUME Shape, Read PROVE Shape'
  OBVIOUS
<1>1. TypeOK'
  BY ReadGives DEF Shape, TypeOK, Read, inputVars, storeVars
<1>2. ~cut /\ position = 0 /\ dropped = {}
  BY DEF Shape, Phased, Read
<1>3. Phased'
  BY <1>2, ReadGives DEF Shape, TypeOK, Phased, Read, inputVars, storeVars, ParsedLines
<1>4. WholeFileRead'
  BY <1>2, ReadGives DEF WholeFileRead, Read, inputVars, ParsedLines
<1> QED
  BY <1>1, <1>3, <1>4 DEF Shape

LEMMA ReadErrorShape == Shape /\ ReadError => Shape'
<1> SUFFICES ASSUME Shape, ReadError PROVE Shape'
  OBVIOUS
<1>1. Len(file) \in Nat /\ total_size \in Nat
  BY DEF Shape, TypeOK
<1>2. position = 0 /\ dropped = {}
  BY DEF ReadError, Shape, Phased
<1>3. cut' \in BOOLEAN /\ (cut' => total_size < Len(file))
  <2>1. Unread > 0 => total_size < Len(file)
    BY <1>1 DEF Unread
  <2>2. CASE Unread > 0
    BY <2>1, <2>2 DEF ReadError
  <2>3. CASE ~(Unread > 0)
    BY <2>3 DEF ReadError
  <2> QED
    BY <2>2, <2>3
<1>4. TypeOK'
  BY <1>3 DEF Shape, TypeOK, ReadError, inputVars, storeVars
<1>5. Phased'
  BY <1>1, <1>2, <1>3 DEF Shape, Phased, ReadError, inputVars, storeVars, ParsedLines
<1>6. WholeFileRead'
  BY DEF WholeFileRead, ReadError
<1> QED
  BY <1>4, <1>5, <1>6 DEF Shape

LEMMA ParseLineShape == Shape /\ ParseLine => Shape'
<1> SUFFICES ASSUME Shape, ParseLine PROVE Shape'
  OBVIOUS
<1>1. /\ position + 1 \in 1 .. Len(file)
      /\ position + 1 <= ParsedLines
      /\ Entry(file) \in Keys \cup {NoKey}
      /\ LineItem(position + 1) \in LayerItems
  BY LineInFile DEF ParseLine
<1>2. position \in Nat /\ Len(file) \in Nat /\ position' = position + 1
  BY DEF Shape, TypeOK, ParseLine, Advance
<1>3. TypeOK
  BY DEF Shape
<1>4. /\ map' \in [Keys -> Seq(Seq(LayerItems))]
      /\ readable' \in BOOLEAN
      /\ reply' \in [ok : BOOLEAN, value : Seq(Seq(LayerItems))]
  <2>1. CASE UNCHANGED storeVars
    BY <1>3, <2>1 DEF TypeOK, storeVars
  <2>2. CASE Entry(file) # NoKey /\ Store!Put(Entry(file), LineItem(position + 1))
    BY <1>1, <1>3, <2>2, PutTypes
  <2>3. CASE Store!Fail
    BY <1>3, <2>3, FailTypes DEF TypeOK
  <2> QED
    BY <2>1, <2>2, <2>3 DEF ParseLine
<1>5. dropped' \subseteq dropped \cup {position + 1}
  BY DEF ParseLine
<1>6. TypeOK'
  BY <1>1, <1>2, <1>4, <1>5 DEF Shape, TypeOK, ParseLine, inputVars, readVars
<1>7. dropped \subseteq 1 .. position
  BY DEF Shape, Phased, ParseLine
<1>8. dropped' \subseteq 1 .. position'
  BY <1>2, <1>5, <1>7
<1>9. Phased'
  BY <1>1, <1>2, <1>8 DEF Shape, Phased, ParseLine, inputVars, readVars, ParsedLines
<1>10. WholeFileRead'
  BY DEF Shape, WholeFileRead, ParseLine, inputVars, readVars, ParsedLines
<1> QED
  BY <1>6, <1>9, <1>10 DEF Shape

LEMMA LoadEntryShape ==
  ASSUME NEW layer \in {"environment", "arguments"}, NEW S, S \subseteq Keys, NEW source \in Seq(S \cup {NoKey}),
         source = IF layer = "environment" THEN environment ELSE arguments,
         Shape, LoadEntry(layer, source)
  PROVE  Shape'
<1>1. position \in Nat /\ Len(source) \in Nat
  BY DEF Shape, TypeOK
<1>2. position + 1 \in 1 .. Len(source) /\ Entry(source) \in S \cup {NoKey}
  BY <1>1, EntryInSource DEF LoadEntry
<1>3. Item(layer, position + 1) \in LayerItems
  BY <1>1 DEF Item, LayerItems
<1>4. TypeOK
  BY DEF Shape
<1>5. /\ map' \in [Keys -> Seq(Seq(LayerItems))]
      /\ readable' \in BOOLEAN
      /\ reply' \in [ok : BOOLEAN, value : Seq(Seq(LayerItems))]
  <2>1. CASE UNCHANGED storeVars
    BY <1>4, <2>1 DEF TypeOK, storeVars
  <2>2. CASE Entry(source) # NoKey /\ Store!Put(Entry(source), Item(layer, position + 1))
    BY <1>2, <1>3, <1>4, <2>2, PutTypes
  <2>3. CASE Store!Fail
    BY <1>4, <2>3, FailTypes DEF TypeOK
  <2> QED
    BY <2>1, <2>2, <2>3 DEF LoadEntry
<1>6. UNCHANGED <<inputVars, readVars, dropped>>
  BY DEF LoadEntry
<1>7. CASE GoTo("failed")
  <2>1. GoTo(pc') /\ pc' = "failed"
    BY <1>7 DEF GoTo
  <2> QED
    BY <1>5, <1>6, <2>1, FreshPhase
<1>8. CASE UNCHANGED pc /\ Advance
  <2>1. position' = position + 1 /\ pc' = layer /\ position' <= Len(source)
    BY <1>1, <1>2, <1>8 DEF Advance, LoadEntry
  <2>2. TypeOK'
    BY <1>1, <1>5, <1>6, <2>1 DEF Shape, TypeOK, inputVars, readVars
  <2>3. Phased' /\ WholeFileRead'
    BY <1>6, <2>1 DEF Shape, Phased, WholeFileRead, inputVars, readVars
  <2> QED
    BY <2>2, <2>3 DEF Shape
<1> QED
  BY <1>7, <1>8 DEF LoadEntry, AfterSet

\* The inputs of the two later layers, with their types.
LEMMA LayerTypes ==
  Shape => /\ environment \in Seq(EnvironmentKeys \cup {NoKey}) /\ EnvironmentKeys \subseteq Keys
           /\ arguments \in Seq(Keys \cup {NoKey})
BY LoadAssumption DEF Shape, TypeOK

LEMMA NextShape == Shape /\ [Next]_vars => Shape'
<1> SUFFICES ASSUME Shape, [Next]_vars PROVE Shape'
  OBVIOUS
<1>1. CASE UNCHANGED vars
  BY <1>1 DEF Shape, TypeOK, Phased, WholeFileRead, ParsedLines, vars, inputVars, readVars, storeVars
<1>2. CASE ReadFile
  BY <1>2, OpenShape, MakeRoomShape, ReadShape, ReadErrorShape DEF ReadFile
<1>3. CASE ParseFile
  <2>1. CASE ParseLine
    BY <2>1, ParseLineShape
  <2>2. CASE ParseEnd
    <3>1. GoTo(pc') /\ pc' = "environment" /\ UNCHANGED <<inputVars, readVars, dropped, storeVars>>
      BY <2>2 DEF ParseEnd, GoTo
    <3> QED
      BY <3>1, FreshPhase DEF Shape, TypeOK, storeVars
  <2> QED
    BY <1>3, <2>1, <2>2 DEF ParseFile
<1>4. CASE LoadEnvironment
  <2>1. CASE LoadEntry("environment", environment)
    BY <2>1, LoadEntryShape, LayerTypes
  <2>2. CASE LoadEnd("environment", environment, "arguments")
    <3>1. GoTo(pc') /\ pc' = "arguments" /\ UNCHANGED <<inputVars, readVars, dropped, storeVars>>
      BY <2>2 DEF LoadEnd, GoTo
    <3> QED
      BY <3>1, FreshPhase DEF Shape, TypeOK, storeVars
  <2> QED
    BY <1>4, <2>1, <2>2 DEF LoadEnvironment
<1>5. CASE LoadArguments
  <2>1. CASE LoadEntry("arguments", arguments)
    BY <2>1, LoadEntryShape, LayerTypes
  <2>2. CASE LoadEnd("arguments", arguments, "sort")
    <3>1. GoTo(pc') /\ pc' = "sort" /\ UNCHANGED <<inputVars, readVars, dropped, storeVars>>
      BY <2>2 DEF LoadEnd, GoTo
    <3> QED
      BY <3>1, FreshPhase DEF Shape, TypeOK, storeVars
  <2> QED
    BY <1>5, <2>1, <2>2 DEF LoadArguments
<1>6. CASE Sort
  <2>1. UNCHANGED <<inputVars, readVars, dropped>> /\ GoTo(pc') /\ pc' \in {"done", "failed"}
    BY <1>6 DEF Sort, GoTo
  <2>2. /\ map' \in [Keys -> Seq(Seq(LayerItems))]
        /\ readable' \in BOOLEAN
        /\ reply' \in [ok : BOOLEAN, value : Seq(Seq(LayerItems))]
    BY <1>6, FailTypes, ReadableTypes DEF Sort, Shape, TypeOK
  <2> QED
    BY <2>1, <2>2, FreshPhase
<1> QED
  BY <1>1, <1>2, <1>3, <1>4, <1>5, <1>6 DEF Next

THEOREM Shaped == Spec => []Shape
BY InitShape, NextShape, PTL DEF Spec

(* Every variable of a load stays in its type, for any keys, any size of    *)
(* the buffer and any bounds (the loaders of bc_runtime_config.c).          *)
THEOREM TypeCorrect == Spec => []TypeOK
<1>1. Shape => TypeOK
  BY DEF Shape
<1> QED
  BY <1>1, Shaped, PTL

(* Unless a read fails, every line of the file is parsed, however long the  *)
(* file is, whatever the buffer held at first and however little each read  *)
(* gives: bc_runtime_config_load_file always has room when it calls fread,  *)
(* so that a read which gives nothing has come to the end.                  *)
THEOREM WholeFileReadAlways == Spec => []WholeFileRead
<1>1. Shape => WholeFileRead
  BY DEF Shape
<1> QED
  BY <1>1, Shaped, PTL

-----------------------------------------------------------------------------
(* The last layer wins: what is loaded grows by one place of one key.       *)

LEMMA NothingUpTo ==
  ASSUME NEW source, NEW k
  PROVE  UpTo(0, Places(source, k)) = {}
BY DEF UpTo, Places

LEMMA OneMore ==
  ASSUME NEW source, NEW n \in Nat, n + 1 \in 1 .. Len(source), NEW k
  PROVE  UpTo(n + 1, Places(source, k)) =
           IF source[n + 1] = k THEN UpTo(n, Places(source, k)) \cup {n + 1} ELSE UpTo(n, Places(source, k))
<1>1. \A i \in 1 .. Len(source) : i <= n + 1 <=> (i <= n \/ i = n + 1)
  OBVIOUS
<1> QED
  BY <1>1 DEF UpTo, Places

LEMMA BoundedUpTo ==
  ASSUME NEW source, NEW n \in Nat, NEW k
  PROVE  \A i \in UpTo(n, Places(source, k)) : i \in 1 .. n
<1>1. \A i \in 1 .. Len(source) : i <= n => i \in 1 .. n
  OBVIOUS
<1> QED
  BY <1>1 DEF UpTo, Places

LEMMA NewIsLast ==
  ASSUME NEW n \in Nat, NEW S, \A i \in S : i \in 1 .. n
  PROVE  \A i : IsLast(i, S \cup {n + 1}) => i = n + 1
<1>1. \A i \in 1 .. n : ~(n + 1 <= i)
  OBVIOUS
<1> QED
  BY <1>1 DEF IsLast

\* A step that loads nothing.
LEMMA NothingLoaded ==
  ASSUME LoadInv, pc # "failed", UNCHANGED <<inputVars, readVars, dropped, map>>,
         FileDone' = FileDone, EnvironmentDone' = EnvironmentDone, ArgumentsDone' = ArgumentsDone,
         pc' = "done" => readable'
  PROVE  LoadInv'
<1>1. SUFFICES ASSUME NEW k \in Keys
               PROVE  LastWins(LoadedArguments(k), LoadedEnvironment(k), LoadedFile(k), k)'
  BY DEF LoadInv
<1>2. /\ LoadedArguments(k)' = LoadedArguments(k)
      /\ LoadedEnvironment(k)' = LoadedEnvironment(k)
      /\ LoadedFile(k)' = LoadedFile(k)
  BY DEF LoadedArguments, LoadedEnvironment, LoadedFile, inputVars
<1>3. LastWins(LoadedArguments(k), LoadedEnvironment(k), LoadedFile(k), k)
  BY DEF LoadInv
<1> QED
  BY <1>2, <1>3 DEF LastWins, Holds, LineItem, readVars

\* A step of the reading: nothing is loaded before it, nor after.
LEMMA ReadingLoadsNothing ==
  ASSUME Shape, LoadInv, pc \in {"open", "read", "fread"}, UNCHANGED <<inputVars, dropped, map>>,
         FileDone' = 0, EnvironmentDone' = 0, ArgumentsDone' = 0, pc' # "done"
  PROVE  LoadInv'
<1>1. SUFFICES ASSUME NEW k \in Keys
               PROVE  LastWins(LoadedArguments(k), LoadedEnvironment(k), LoadedFile(k), k)'
  BY DEF LoadInv
<1>2. LoadedArguments(k) = {} /\ LoadedEnvironment(k) = {} /\ LoadedFile(k) = {}
  BY NothingUpTo DEF LoadedArguments, LoadedEnvironment, LoadedFile, FileDone, EnvironmentDone, ArgumentsDone
<1>3. LoadedArguments(k)' = {} /\ LoadedEnvironment(k)' = {} /\ LoadedFile(k)' = {}
  BY NothingUpTo DEF LoadedArguments, LoadedEnvironment, LoadedFile
<1>4. map[k] = <<>>
  BY <1>2 DEF LoadInv, LastWins
<1> QED
  BY <1>3, <1>4 DEF LastWins

LEMMA ReadFileLoad == Shape /\ LoadInv /\ ReadFile => LoadInv'
<1> SUFFICES ASSUME Shape, LoadInv, ReadFile PROVE LoadInv'
  OBVIOUS
<1>1. CASE pc' = "failed"
  BY <1>1 DEF LoadInv
<1>2. CASE pc' # "failed"
  <2>1. /\ pc \in {"open", "read", "fread"} /\ position = 0
        /\ UNCHANGED <<inputVars, dropped, map>>
        /\ pc' # "done"
        /\ position' = 0
    BY DEF ReadFile, Open, MakeRoom, Read, ReadError, storeVars, Shape, Phased
  <2>2. EnvironmentDone' = 0 /\ ArgumentsDone' = 0
    BY <1>2, <2>1 DEF EnvironmentDone, ArgumentsDone, ReadFile, Open, MakeRoom, Read, ReadError
  <2>3. FileDone' = 0
    <3>1. CASE pc' \in {"open", "read", "fread", "parse"}
      BY <2>1, <3>1 DEF FileDone
    <3>2. CASE pc' \notin {"open", "read", "fread", "parse"}
      <4>1. Open
        BY <1>2, <2>1, <3>2 DEF ReadFile, MakeRoom, Read, ReadError, storeVars
      <4>2. total_size' = 0 /\ ~cut'
        BY <4>1 DEF Open, Shape, Phased, readVars
      <4> QED
        BY <3>2, <4>2 DEF FileDone, ParsedLines
    <3> QED
      BY <3>1, <3>2
  <2> QED
    BY <2>1, <2>2, <2>3, ReadingLoadsNothing
<1> QED
  BY <1>1, <1>2

LEMMA ParseLineLoad == Shape /\ LoadInv /\ ParseLine => LoadInv'
<1> SUFFICES ASSUME Shape, LoadInv, ParseLine PROVE LoadInv'
  OBVIOUS
<1>1. /\ position + 1 \in 1 .. Len(file)
      /\ Entry(file) \in Keys \cup {NoKey}
      /\ LineItem(position + 1) \in LayerItems
  BY LineInFile DEF ParseLine
<1>2. position \in Nat /\ position' = position + 1 /\ pc = "parse" /\ pc' = "parse"
  BY DEF Shape, TypeOK, ParseLine, Advance
<1>3. UNCHANGED <<inputVars, readVars>>
  BY DEF ParseLine
<1>4. dropped \subseteq 1 .. position /\ position + 1 \notin 1 .. position
  BY <1>2 DEF Shape, Phased
<1>5. SUFFICES ASSUME NEW k \in Keys
               PROVE  LastWins(LoadedArguments(k), LoadedEnvironment(k), LoadedFile(k), k)'
  BY <1>2 DEF LoadInv
<1>6. /\ LoadedArguments(k) = {} /\ LoadedArguments(k)' = {}
      /\ LoadedEnvironment(k) = {} /\ LoadedEnvironment(k)' = {}
  BY <1>2, NothingUpTo DEF LoadedArguments, LoadedEnvironment, EnvironmentDone, ArgumentsDone
<1>7. LastWins(LoadedArguments(k), LoadedEnvironment(k), LoadedFile(k), k)
  BY <1>2 DEF LoadInv
<1>8. \A i : LineItem(i)' = LineItem(i)
  BY <1>3 DEF LineItem, readVars
<1> DEFINE before == UpTo(position, Places(file, k))
           after == UpTo(position + 1, Places(file, k))
<1>9. LoadedFile(k) = before \ dropped /\ LoadedFile(k)' = after \ dropped'
  BY <1>2, <1>3 DEF LoadedFile, FileDone, inputVars
<1>10. \A i \in before : i \in 1 .. position
  BY <1>2, BoundedUpTo
<1>11. after = IF file[position + 1] = k THEN before \cup {position + 1} ELSE before
  BY <1>1, <1>2, OneMore
<1> HIDE DEF before, after
<1>12. CASE Entry(file) = k /\ Store!Put(Entry(file), LineItem(position + 1)) /\ UNCHANGED dropped
  <2>1. LoadedFile(k)' = LoadedFile(k) \cup {position + 1}
    BY <1>4, <1>9, <1>11, <1>12 DEF Entry
  <2>2. \A i : IsLast(i, LoadedFile(k)') => i = position + 1
    <3>1. \A i \in LoadedFile(k) : i \in 1 .. position
      BY <1>9, <1>10
    <3>2. \A i : IsLast(i, LoadedFile(k) \cup {position + 1}) => i = position + 1
      BY <1>2, <3>1, NewIsLast
    <3> QED
      BY <2>1, <3>2, Zenon
  <2>3. map'[k] = <<<<LineItem(position + 1)>>>>
    <3>1. TypeOK /\ map \in [Keys -> Seq(Seq(LayerItems))]
      BY <1>1 DEF Shape, TypeOK
    <3>2. map' = [map EXCEPT ![k] = <<<<LineItem(position + 1)>>>>]
      BY <1>1, <1>12, <3>1, PutTypes
    <3> QED
      BY <3>1, <3>2
  <2> QED
    BY <1>6, <1>8, <2>1, <2>2, <2>3 DEF LastWins, Holds
<1>13. CASE /\ LoadedFile(k)' = LoadedFile(k)
            /\ map'[k] = map[k]
  BY <1>6, <1>7, <1>8, <1>13 DEF LastWins, Holds
<1>14. CASE Entry(file) = NoKey /\ UNCHANGED <<storeVars, dropped>>
  <2>1. file[position + 1] # k
    BY <1>14, LoadAssumption DEF Entry
  <2> QED
    BY <1>9, <1>11, <1>13, <1>14, <2>1 DEF storeVars
<1>15. CASE Entry(file) \notin {k, NoKey} /\ Store!Put(Entry(file), LineItem(position + 1)) /\ UNCHANGED dropped
  <2>1. map'[k] = map[k]
    BY <1>1, <1>15, PutTypes DEF Shape, TypeOK
  <2>2. file[position + 1] # k
    BY <1>15 DEF Entry
  <2> QED
    BY <1>9, <1>11, <1>13, <1>15, <2>1, <2>2
<1>16. CASE Store!Fail /\ dropped' = dropped \cup {position + 1}
  <2>1. position + 1 \notin before
    BY <1>4, <1>10
  <2>2. LoadedFile(k)' = LoadedFile(k)
    BY <1>9, <1>11, <1>16, <2>1
  <2> QED
    BY <1>13, <1>16, <2>2, FailTypes DEF Shape
<1> QED
  BY <1>12, <1>14, <1>15, <1>16 DEF ParseLine

LEMMA EnvironmentLoad ==
  ASSUME Shape, LoadInv, LoadEntry("environment", environment)
  PROVE  LoadInv'
<1>1. CASE pc' = "failed"
  BY <1>1 DEF LoadInv
<1>2. CASE pc' # "failed"
  <2>1. position \in Nat /\ pc = "environment" /\ Len(environment) \in Nat
    BY DEF Shape, TypeOK, LoadEntry
  <2>2. /\ position + 1 \in 1 .. Len(environment)
        /\ Entry(environment) \in EnvironmentKeys \cup {NoKey}
    BY <2>1, LayerTypes, EntryInSource DEF LoadEntry
  <2>3. Item("environment", position + 1) \in LayerItems /\ EnvironmentKeys \subseteq Keys
    BY <2>1, LoadAssumption DEF Item, LayerItems
  <2>4. /\ pc' = "environment" /\ position' = position + 1
        /\ UNCHANGED <<inputVars, readVars, dropped>>
        /\ \/ Entry(environment) = NoKey /\ UNCHANGED map
           \/ /\ Entry(environment) # NoKey
              /\ Store!Put(Entry(environment), Item("environment", position + 1))
    BY <1>2, <2>1 DEF LoadEntry, AfterSet, GoTo, Advance, storeVars
  <2>5. SUFFICES ASSUME NEW k \in Keys
                 PROVE  LastWins(LoadedArguments(k), LoadedEnvironment(k), LoadedFile(k), k)'
    BY <2>4 DEF LoadInv
  <2>6. /\ LoadedArguments(k) = {} /\ LoadedArguments(k)' = {}
        /\ LoadedFile(k)' = LoadedFile(k)
    BY <2>1, <2>4, NothingUpTo DEF LoadedArguments, LoadedFile, FileDone, ArgumentsDone, ParsedLines, inputVars, readVars
  <2>7. LastWins(LoadedArguments(k), LoadedEnvironment(k), LoadedFile(k), k)
    BY <2>1 DEF LoadInv
  <2>8. \A i : LineItem(i)' = LineItem(i)
    BY <2>4 DEF LineItem, readVars
  <2> DEFINE before == UpTo(position, Places(environment, k))
             after == UpTo(position + 1, Places(environment, k))
  <2>9. LoadedEnvironment(k) = before /\ LoadedEnvironment(k)' = after
    BY <2>1, <2>4 DEF LoadedEnvironment, EnvironmentDone, inputVars
  <2>10. \A i \in before : i \in 1 .. position
    BY <2>1, BoundedUpTo
  <2>11. after = IF environment[position + 1] = k THEN before \cup {position + 1} ELSE before
    BY <2>1, <2>2, OneMore
  <2> HIDE DEF before, after
  <2>12. CASE Entry(environment) = k /\ Entry(environment) # NoKey
    <3>1. after = before \cup {position + 1}
      BY <2>11, <2>12 DEF Entry
    <3>2. \A i : IsLast(i, after) => i = position + 1
      BY <2>1, <2>10, <3>1, NewIsLast
    <3>3. map'[k] = <<<<Item("environment", position + 1)>>>>
      BY <2>3, <2>4, <2>12, PutTypes DEF Shape, TypeOK
    <3> QED
      BY <2>6, <2>9, <3>1, <3>2, <3>3 DEF LastWins, Holds
  <2>13. CASE Entry(environment) # k \/ Entry(environment) = NoKey
    <3>1. environment[position + 1] # k
      BY <2>13, LoadAssumption DEF Entry
    <3>2. map'[k] = map[k]
      BY <2>2, <2>3, <2>4, <2>13, PutTypes DEF Shape, TypeOK
    <3> QED
      BY <2>6, <2>7, <2>8, <2>9, <2>11, <3>1, <3>2 DEF LastWins, Holds
  <2> QED
    BY <2>12, <2>13
<1> QED
  BY <1>1, <1>2

LEMMA ArgumentsLoad ==
  ASSUME Shape, LoadInv, LoadEntry("arguments", arguments)
  PROVE  LoadInv'
<1>1. CASE pc' = "failed"
  BY <1>1 DEF LoadInv
<1>2. CASE pc' # "failed"
  <2>1. position \in Nat /\ pc = "arguments" /\ Len(arguments) \in Nat
    BY DEF Shape, TypeOK, LoadEntry
  <2>2. /\ position + 1 \in 1 .. Len(arguments)
        /\ Entry(arguments) \in Keys \cup {NoKey}
    BY <2>1, LayerTypes, EntryInSource DEF LoadEntry
  <2>3. Item("arguments", position + 1) \in LayerItems
    BY <2>1 DEF Item, LayerItems
  <2>4. /\ pc' = "arguments" /\ position' = position + 1
        /\ UNCHANGED <<inputVars, readVars, dropped>>
        /\ \/ Entry(arguments) = NoKey /\ UNCHANGED map
           \/ /\ Entry(arguments) # NoKey
              /\ Store!Put(Entry(arguments), Item("arguments", position + 1))
    BY <1>2, <2>1 DEF LoadEntry, AfterSet, GoTo, Advance, storeVars
  <2>5. SUFFICES ASSUME NEW k \in Keys
                 PROVE  LastWins(LoadedArguments(k), LoadedEnvironment(k), LoadedFile(k), k)'
    BY <2>4 DEF LoadInv
  <2>6. /\ LoadedEnvironment(k)' = LoadedEnvironment(k)
        /\ LoadedFile(k)' = LoadedFile(k)
    BY <2>1, <2>4 DEF LoadedEnvironment, LoadedFile, FileDone, EnvironmentDone, ParsedLines, inputVars, readVars
  <2>7. LastWins(LoadedArguments(k), LoadedEnvironment(k), LoadedFile(k), k)
    BY <2>1 DEF LoadInv
  <2>8. \A i : LineItem(i)' = LineItem(i)
    BY <2>4 DEF LineItem, readVars
  <2> DEFINE before == UpTo(position, Places(arguments, k))
             after == UpTo(position + 1, Places(arguments, k))
  <2>9. LoadedArguments(k) = before /\ LoadedArguments(k)' = after
    BY <2>1, <2>4 DEF LoadedArguments, ArgumentsDone, inputVars
  <2>10. \A i \in before : i \in 1 .. position
    BY <2>1, BoundedUpTo
  <2>11. after = IF arguments[position + 1] = k THEN before \cup {position + 1} ELSE before
    BY <2>1, <2>2, OneMore
  <2> HIDE DEF before, after
  <2>12. CASE Entry(arguments) = k /\ Entry(arguments) # NoKey
    <3>1. after = before \cup {position + 1}
      BY <2>11, <2>12 DEF Entry
    <3>2. \A i : IsLast(i, after) => i = position + 1
      BY <2>1, <2>10, <3>1, NewIsLast
    <3>3. map'[k] = <<<<Item("arguments", position + 1)>>>>
      BY <2>3, <2>4, <2>12, PutTypes DEF Shape, TypeOK
    <3> QED
      BY <2>9, <3>1, <3>2, <3>3 DEF LastWins, Holds
  <2>13. CASE Entry(arguments) # k \/ Entry(arguments) = NoKey
    <3>1. arguments[position + 1] # k
      BY <2>13, LoadAssumption DEF Entry
    <3>2. map'[k] = map[k]
      BY <2>2, <2>3, <2>4, <2>13, PutTypes DEF Shape, TypeOK
    <3> QED
      BY <2>6, <2>7, <2>8, <2>9, <2>11, <3>1, <3>2 DEF LastWins, Holds
  <2> QED
    BY <2>12, <2>13
<1> QED
  BY <1>1, <1>2

LEMMA EndsLoad ==
  ASSUME Shape, LoadInv,
         \/ ParseEnd
         \/ LoadEnd("environment", environment, "arguments")
         \/ LoadEnd("arguments", arguments, "sort")
  PROVE  LoadInv'
<1>1. /\ UNCHANGED <<inputVars, readVars, dropped, map>>
      /\ position' = 0 /\ pc # "failed" /\ pc' # "done"
  BY DEF ParseEnd, LoadEnd, GoTo, storeVars
<1>2. position \in Nat /\ ParsedLines \in Nat /\ Len(environment) \in Nat /\ Len(arguments) \in Nat
  BY DEF Shape, TypeOK, ParsedLines
<1>3. FileDone' = FileDone /\ EnvironmentDone' = EnvironmentDone /\ ArgumentsDone' = ArgumentsDone
  <2>1. CASE ParseEnd
    <3>1. pc = "parse" /\ pc' = "environment" /\ position = ParsedLines
      BY <1>2, <2>1 DEF ParseEnd, GoTo, More, Shape, Phased
    <3> QED
      BY <1>1, <3>1 DEF FileDone, EnvironmentDone, ArgumentsDone, ParsedLines, readVars
  <2>2. CASE LoadEnd("environment", environment, "arguments")
    <3>1. pc = "environment" /\ pc' = "arguments" /\ position = Len(environment)
      BY <1>2, <2>2 DEF LoadEnd, GoTo, More, Shape, Phased
    <3> QED
      BY <1>1, <3>1 DEF FileDone, EnvironmentDone, ArgumentsDone, ParsedLines, readVars, inputVars
  <2>3. CASE LoadEnd("arguments", arguments, "sort")
    <3>1. pc = "arguments" /\ pc' = "sort" /\ position = Len(arguments)
      BY <1>2, <2>3 DEF LoadEnd, GoTo, More, Shape, Phased
    <3> QED
      BY <1>1, <3>1 DEF FileDone, EnvironmentDone, ArgumentsDone, ParsedLines, readVars, inputVars
  <2> QED
    BY <2>1, <2>2, <2>3
<1> QED
  BY <1>1, <1>3, NothingLoaded

LEMMA SortLoad == Shape /\ LoadInv /\ Sort => LoadInv'
<1> SUFFICES ASSUME Shape, LoadInv, Sort PROVE LoadInv'
  OBVIOUS
<1>1. CASE pc' = "failed"
  BY <1>1 DEF LoadInv
<1>2. CASE pc' # "failed"
  <2>1. /\ pc = "sort" /\ pc' = "done"
        /\ UNCHANGED <<inputVars, readVars, dropped, map>> /\ readable'
    BY <1>2, ReadableTypes DEF Sort, GoTo, Shape
  <2>2. FileDone' = FileDone /\ EnvironmentDone' = EnvironmentDone /\ ArgumentsDone' = ArgumentsDone
    BY <2>1 DEF FileDone, EnvironmentDone, ArgumentsDone, ParsedLines, readVars, inputVars
  <2> QED
    BY <2>1, <2>2, NothingLoaded
<1> QED
  BY <1>1, <1>2

LEMMA InitLoad == Init => LoadInv
<1> SUFFICES ASSUME Init, NEW k \in Keys
             PROVE  LastWins(LoadedArguments(k), LoadedEnvironment(k), LoadedFile(k), k)
  BY DEF LoadInv, Init
<1>1. LoadedArguments(k) = {} /\ LoadedEnvironment(k) = {} /\ LoadedFile(k) = {}
  BY NothingUpTo DEF Init, LoadedArguments, LoadedEnvironment, LoadedFile, FileDone, EnvironmentDone, ArgumentsDone
<1>2. map[k] = <<>>
  BY DEF Init, Store!MapInit, Store!Absent
<1> QED
  BY <1>1, <1>2 DEF LastWins

LEMMA NextLoad == Shape /\ LoadInv /\ [Next]_vars => LoadInv'
<1> SUFFICES ASSUME Shape, LoadInv, [Next]_vars PROVE LoadInv'
  OBVIOUS
<1>1. CASE UNCHANGED vars
  BY <1>1 DEF LoadInv, LoadedArguments, LoadedEnvironment, LoadedFile, FileDone, EnvironmentDone, ArgumentsDone,
              ParsedLines, LastWins, Holds, LineItem, vars, inputVars, readVars, storeVars
<1>2. CASE ReadFile
  BY <1>2, ReadFileLoad
<1>3. CASE ParseFile
  BY <1>3, ParseLineLoad, EndsLoad DEF ParseFile
<1>4. CASE LoadEnvironment
  BY <1>4, EnvironmentLoad, EndsLoad DEF LoadEnvironment
<1>5. CASE LoadArguments
  BY <1>5, ArgumentsLoad, EndsLoad DEF LoadArguments
<1>6. CASE Sort
  BY <1>6, SortLoad
<1> QED
  BY <1>1, <1>2, <1>3, <1>4, <1>5, <1>6 DEF Next

\* At the end of a load that succeeded, all of each input is loaded.
LEMMA AllLoaded ==
  ASSUME Shape, LoadInv
  PROVE  LastLayerWins
<1> SUFFICES ASSUME pc = "done", NEW k \in Keys
             PROVE  readable /\ LastWins(Places(arguments, k), Places(environment, k), FilePlaces(k), k)
  BY DEF LastLayerWins, LastWins, LoadInv
<1>1. LoadedFile(k) = FilePlaces(k)
  BY DEF LoadedFile, FilePlaces, FileDone, UpTo
<1>2. LoadedEnvironment(k) = Places(environment, k)
  BY DEF LoadedEnvironment, EnvironmentDone, UpTo, Places
<1>3. LoadedArguments(k) = Places(arguments, k)
  BY DEF LoadedArguments, ArgumentsDone, UpTo, Places
<1> QED
  BY <1>1, <1>2, <1>3 DEF LoadInv

(* When loading succeeds, each key has the value of the last argument that  *)
(* names it, or else of the last variable, or else of the last line of the  *)
(* file that could be stored, whatever the three inputs hold and whichever  *)
(* calls of the store fail (the order bc_runtime_create loads them in).     *)
THEOREM LastLayerWinsAlways == Spec => []LastLayerWins
<1>1. Init => Shape /\ LoadInv
  BY InitShape, InitLoad
<1>2. (Shape /\ LoadInv) /\ [Next]_vars => (Shape /\ LoadInv)'
  BY NextShape, NextLoad
<1>3. Shape /\ LoadInv => LastLayerWins
  BY AllLoaded
<1> QED
  BY <1>1, <1>2, <1>3, PTL DEF Spec

-----------------------------------------------------------------------------
(* How loading goes on: to a later phase, to the next entry of its input,   *)
(* or, with what it has just read, to another read.                          *)
Phase ==
  [open |-> 1, read |-> 2, fread |-> 3, parse |-> 4, environment |-> 5, arguments |-> 6, sort |-> 7,
   done |-> 8, failed |-> 8]

EntriesHere ==
  CASE pc = "parse" -> ParsedLines
    [] pc = "environment" -> Len(environment)
    [] pc = "arguments" -> Len(arguments)
    [] OTHER -> 0

Advances ==
  \/ Phase[pc'] > Phase[pc]
  \/ UNCHANGED <<inputVars, pc>> /\ position < EntriesHere /\ position' = position + 1
  \/ pc = "fread" /\ pc' = "read" /\ UNCHANGED inputVars /\ total_size < total_size' /\ total_size' <= Len(file)

LEMMA ReadFileAdvances == ASSUME Shape, ReadFile PROVE Advances
<1>1. CASE Open \/ MakeRoom \/ ReadError
  <2>1. \/ pc = "open" /\ pc' \in {"read", "failed", "environment"}
        \/ pc = "read" /\ pc' \in {"fread", "failed"}
        \/ pc = "fread" /\ pc' = "parse"
    BY <1>1 DEF Open, MakeRoom, ReadError
  <2> QED
    BY <2>1 DEF Advances, Phase
<1>2. CASE Read
  <2>1. pc = "fread" /\ UNCHANGED inputVars
    BY <1>2 DEF Read
  <2> QED
    BY <1>2, <2>1, ReadGives DEF Advances, Phase
<1> QED
  BY <1>1, <1>2 DEF ReadFile

\* A loader of entries goes to the next one, to the next loader, or fails.
LEMMA EntryAdvances ==
  ASSUME NEW layer \in {"environment", "arguments"},
         NEW source, source = IF layer = "environment" THEN environment ELSE arguments,
         NEW next, next = IF layer = "environment" THEN "arguments" ELSE "sort",
         LoadEntry(layer, source) \/ LoadEnd(layer, source, next)
  PROVE  Advances
<1>1. CASE LoadEnd(layer, source, next)
  BY <1>1 DEF LoadEnd, GoTo, Advances, Phase
<1>2. CASE LoadEntry(layer, source)
  <2>1. pc = layer /\ position < EntriesHere /\ UNCHANGED inputVars
    BY <1>2 DEF LoadEntry, More, EntriesHere
  <2>2. (UNCHANGED pc /\ position' = position + 1) \/ pc' = "failed"
    BY <1>2 DEF LoadEntry, AfterSet, GoTo, Advance
  <2> QED
    BY <2>1, <2>2 DEF Advances, Phase
<1> QED
  BY <1>1, <1>2

(* Every step of the three loaders takes the load further, the reading loop *)
(* with its growing buffer included: no file, however long, and no refusal  *)
(* makes bc_runtime_create load for ever.                                   *)
THEOREM LoadingAdvances == Spec => [][Advances]_vars
<1>1. Shape /\ [Next]_vars => [Advances]_vars
  <2> SUFFICES ASSUME Shape, Next PROVE Advances
    OBVIOUS
  <2>1. CASE ReadFile
    BY <2>1, ReadFileAdvances
  <2>2. CASE ParseFile
    BY <2>2 DEF ParseFile, ParseLine, ParseEnd, More, Advance, GoTo, EntriesHere, Advances, Phase
  <2>3. CASE LoadEnvironment
    BY <2>3, EntryAdvances DEF LoadEnvironment
  <2>4. CASE LoadArguments
    BY <2>4, EntryAdvances DEF LoadArguments
  <2>5. CASE Sort
    BY <2>5 DEF Sort, GoTo, Advances, Phase
  <2> QED
    BY <2>1, <2>2, <2>3, <2>4, <2>5 DEF Next
<1> QED
  BY <1>1, Shaped, PTL DEF Spec
=============================================================================
