----------------------------- MODULE ConfigLoad -----------------------------
(***************************************************************************)
(* The three loaders of src/config/bc_runtime_config.c in the order        *)
(* bc_runtime_create calls them: the file, the environment, the arguments, *)
(* then the sort.  The store they fill is ConfigMap, which ConfigStore     *)
(* implements; each of its calls may fail.                                 *)
(*                                                                         *)
(* A line, variable or argument is the key it names, or NoKey if its       *)
(* loader skips it (blank, comment, no "=", empty key, foreign prefix);    *)
(* its value is where it stands.  The environment's loader lowers names    *)
(* and turns "_" into ".": it reaches only EnvironmentKeys, and two        *)
(* variables may name one key.  The file is read in chunks into a buffer   *)
(* that doubles; sizes are in lines.                                       *)
(*                                                                         *)
(* Two bounds: MaxLines in the file, MaxEntries variables or arguments.    *)
(*                                                                         *)
(* A definition marked "slip" is a wrong form of the one after it, with    *)
(* which the properties below are tested; no specification uses it.        *)
(***************************************************************************)
EXTENDS Naturals, Sequences

CONSTANTS
  Keys,
  EnvironmentKeys,
  NoKey,
  BufferCapacity,     \* lines the file buffer holds at first
  MaxLines,
  MaxEntries

ASSUME LoadAssumption ==
  /\ EnvironmentKeys \subseteq Keys
  /\ NoKey \notin Keys
  /\ BufferCapacity \in Nat \ {0}
  /\ MaxLines \in Nat /\ MaxEntries \in Nat

VARIABLES
  file, environment, arguments,    \* the three inputs
  pc,
  position,          \* entries of the current loader that are done
  total_size,        \* lines of the file read
  buffer_capacity,
  read_failed,       \* history: a read error ended the reading
  cut,               \* the reading ended inside the value of the next line
  dropped,           \* history: lines of the file whose set failed
  map, readable, reply

inputVars == <<file, environment, arguments>>
readVars  == <<total_size, buffer_capacity, read_failed, cut>>
storeVars == <<map, readable, reply>>
vars      == <<inputVars, pc, position, readVars, dropped, storeVars>>

Item(layer, i) == <<layer, i>>
LayerItems == {"file", "cut", "environment", "arguments"} \X Nat

Store == INSTANCE ConfigMap WITH Items <- LayerItems

InputsOver(keys, bound) == UNION { [1 .. n -> keys \cup {NoKey}] : n \in 0 .. bound }

Init ==
  /\ file \in InputsOver(Keys, MaxLines)
  /\ environment \in InputsOver(EnvironmentKeys, MaxEntries)
  /\ arguments \in InputsOver(Keys, MaxEntries)
  /\ pc = "open"
  /\ position = 0
  /\ total_size = 0
  /\ buffer_capacity = BufferCapacity
  /\ read_failed = FALSE
  /\ cut = FALSE
  /\ dropped = {}
  /\ Store!MapInit

-----------------------------------------------------------------------------
(* bc_runtime_config_load_file: open, then turns of a loop that makes room  *)
(* and reads, until a read gives nothing.  Nothing is what fread gives at   *)
(* the end of the file, on an error, and when it is given no room: the      *)
(* code does not tell which it was.                                         *)

Open ==
  /\ pc = "open"
  /\ pc' \in {"read", "failed", "environment"}      \* or no path was given
  /\ UNCHANGED <<inputVars, position, readVars, dropped, storeVars>>

PastFull == total_size > buffer_capacity               \* slip: off by one
BufferFull == total_size = buffer_capacity

Doubled == 2 * buffer_capacity

MakeRoom ==
  /\ pc = "read"
  /\ \/ ~BufferFull /\ pc' = "fread" /\ UNCHANGED buffer_capacity
     \/ BufferFull /\ pc' = "fread" /\ buffer_capacity' = Doubled
     \/ BufferFull /\ pc' = "failed" /\ UNCHANGED buffer_capacity
  /\ UNCHANGED <<inputVars, position, total_size, read_failed, cut, dropped, storeVars>>

RoomOfBuffer == buffer_capacity                        \* slip: what was read not subtracted
Room == buffer_capacity - total_size
Unread == Len(file) - total_size

\* What fread may give: anything up to the room and the rest, and nothing
\* only if one of them is nothing.
Gives(n) == n <= Room /\ n <= Unread /\ (n = 0 => Room = 0 \/ Unread = 0)

Read ==
  /\ pc = "fread"
  /\ \E n \in 0 .. Len(file) :
       /\ Gives(n)
       /\ total_size' = total_size + n
       /\ pc' = IF n = 0 THEN "parse" ELSE "read"
  /\ UNCHANGED <<inputVars, position, buffer_capacity, read_failed, cut, dropped, storeVars>>

\* The error may come in the middle of a line.
ReadError ==
  /\ pc = "fread"
  /\ pc' = "parse"
  /\ read_failed' = TRUE
  /\ cut' \in IF Unread > 0 THEN BOOLEAN ELSE {FALSE}
  /\ UNCHANGED <<inputVars, position, total_size, buffer_capacity, dropped, storeVars>>

-----------------------------------------------------------------------------
(* parse_config_line ignores the answer of set: a line that could not be    *)
(* stored is dropped.  A line cut before its "=" is skipped like others.    *)

ParsedLines == IF cut THEN total_size + 1 ELSE total_size

LineItem(i) == Item(IF i > total_size THEN "cut" ELSE "file", i)

More(n) == position < n
Entry(source) == source[position + 1]
AdvanceForgotten == UNCHANGED position                 \* slip: continue without the step
Advance == position' = position + 1
GoTo(step) == pc' = step /\ position' = 0

ParseLine ==
  /\ pc = "parse"
  /\ More(ParsedLines)
  /\ Advance
  /\ UNCHANGED <<inputVars, pc, readVars>>
  /\ \/ Entry(file) = NoKey /\ UNCHANGED <<storeVars, dropped>>
     \/ /\ Entry(file) # NoKey
        /\ Store!Put(Entry(file), LineItem(position + 1))
        /\ UNCHANGED dropped
     \/ /\ Entry(file) # NoKey
        /\ Store!Fail
        /\ dropped' = dropped \cup {position + 1}

ParseEnd ==
  /\ pc = "parse"
  /\ ~More(ParsedLines)
  /\ GoTo("environment")
  /\ UNCHANGED <<inputVars, readVars, dropped, storeVars>>

-----------------------------------------------------------------------------
(* bc_runtime_config_load_environment and bc_runtime_config_load_arguments  *)
(* give up at the first set that fails.                                     *)

\* slip: the answer of set ignored, as for the file
AfterSetIgnored(ok) == UNCHANGED pc /\ Advance
AfterSet(ok) == IF ok THEN UNCHANGED pc /\ Advance ELSE GoTo("failed")

LoadEntry(layer, source) ==
  /\ pc = layer
  /\ More(Len(source))
  /\ \/ Entry(source) = NoKey /\ UNCHANGED <<pc, storeVars>> /\ Advance
     \/ Entry(source) # NoKey /\ Store!Put(Entry(source), Item(layer, position + 1)) /\ AfterSet(TRUE)
     \/ Entry(source) # NoKey /\ Store!Fail /\ AfterSet(FALSE)
  /\ UNCHANGED <<inputVars, readVars, dropped>>

LoadEnd(layer, source, next) ==
  /\ pc = layer
  /\ ~More(Len(source))
  /\ GoTo(next)
  /\ UNCHANGED <<inputVars, readVars, dropped, storeVars>>

Sort ==
  /\ pc = "sort"
  /\ \/ Store!MakeReadable /\ GoTo("done")
     \/ Store!Fail /\ GoTo("failed")
  /\ UNCHANGED <<inputVars, readVars, dropped>>

-----------------------------------------------------------------------------
ReadFile == Open \/ MakeRoom \/ Read \/ ReadError
ParseFile == ParseLine \/ ParseEnd
LoadEnvironment == LoadEntry("environment", environment) \/ LoadEnd("environment", environment, "arguments")
LoadArguments == LoadEntry("arguments", arguments) \/ LoadEnd("arguments", arguments, "sort")

Next == ReadFile \/ ParseFile \/ LoadEnvironment \/ LoadArguments \/ Sort

Spec == Init /\ [][Next]_vars

\* bc_runtime_create keeps running.
FairSpec == Spec /\ WF_vars(Next)

-----------------------------------------------------------------------------
(* Every variable stays in its type.                                        *)
TypeOK ==
  /\ file \in Seq(Keys \cup {NoKey})
  /\ environment \in Seq(EnvironmentKeys \cup {NoKey})
  /\ arguments \in Seq(Keys \cup {NoKey})
  /\ pc \in {"open", "read", "fread", "parse", "environment", "arguments", "sort", "done", "failed"}
  /\ position \in Nat
  /\ total_size \in Nat /\ total_size <= Len(file) /\ total_size <= buffer_capacity
  /\ buffer_capacity \in Nat \ {0}
  /\ read_failed \in BOOLEAN /\ cut \in BOOLEAN
  /\ dropped \subseteq 1 .. Len(file)
  /\ map \in [Keys -> Seq(Seq(LayerItems))]
  /\ readable \in BOOLEAN
  /\ reply \in [ok : BOOLEAN, value : Seq(Seq(LayerItems))]

(* A read that gave nothing, and was no error, was at the end of the file:  *)
(* every line is parsed, however often the file fills the buffer and        *)
(* however little each read gives.  No read is given a full buffer, which   *)
(* would end the loop as well.                                              *)
WholeFileRead == pc = "parse" /\ ~read_failed => ParsedLines = Len(file)

\* The places of a key in an input, and the value stored for the last of some.
Places(source, k) == { i \in 1 .. Len(source) : source[i] = k }
IsLast(i, places) == i \in places /\ \A j \in places : j <= i
Holds(k, item) == map[k] = <<<<item>>>>

\* Lines of the file that were stored when they were parsed.
FilePlaces(k) == { i \in Places(file, k) : i <= ParsedLines } \ dropped

(* When loading succeeds, each key has the value of the last argument that  *)
(* names it, or else of the last variable, or else of the last line of the  *)
(* file that could be stored; a key named nowhere is absent; and lookups    *)
(* may begin.  Only lines of the file can be missing.                       *)
LastLayerWins ==
  pc = "done" =>
    /\ readable
    /\ \A k \in Keys :
         LET a == Places(arguments, k)
             e == Places(environment, k)
             f == FilePlaces(k)
         IN  /\ \A i \in a : IsLast(i, a) => Holds(k, Item("arguments", i))
             /\ a = {} => \A i \in e : IsLast(i, e) => Holds(k, Item("environment", i))
             /\ a \cup e = {} => \A i \in f : IsLast(i, f) => Holds(k, LineItem(i))
             /\ a \cup e \cup f = {} => map[k] = <<>>

(* Loading ends, with success or failure: the reading and growing loop too. *)
LoadingEnds == <>(pc \in {"done", "failed"})
=============================================================================
