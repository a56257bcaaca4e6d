----------------------------- MODULE LoadedStore -----------------------------
(***************************************************************************)
(* ConfigLoad over ConfigStore: bc_runtime_create fills the array of       *)
(* entries from the three layers and sorts it, and the application then    *)
(* looks keys up in it.  ConfigLoad takes the store for a map; here each   *)
(* step of it that writes is a call of the array's operation, and what     *)
(* the loader does next is decided by what that call returned.             *)
(*                                                                         *)
(* The getters are all that bc_runtime.h gives an application of its       *)
(* store: nothing is written after the sort.                               *)
(***************************************************************************)
EXTENDS ConfigStore

CONSTANTS
  EnvironmentKeys, NoKey, BufferCapacity, MaxLines, MaxEntries

VARIABLES
  file, environment, arguments, pc, position,
  total_size, buffer_capacity, read_failed, cut, dropped

\* What the loaders were last told: the getters come after them.
Load == INSTANCE ConfigLoad WITH
  map      <- [k \in Keys |-> Stored(k)],
  readable <- sorted,
  reply    <- IF pc = "done" THEN Reply(TRUE, NoValue) ELSE reply

ASSUME LoadedAssumption ==
  /\ {"file", "cut", "environment", "arguments"} \X (1 .. MaxLines + MaxEntries) \subseteq Items
  /\ EnvironmentKeys \subseteq Keys
  /\ NoKey \notin Keys
  /\ BufferCapacity \in Nat \ {0}
  /\ MaxLines \in Nat /\ MaxEntries \in Nat

inputVars  == <<file, environment, arguments>>
readVars   == <<total_size, buffer_capacity, read_failed, cut>>
loaderVars == <<inputVars, pc, position, readVars, dropped>>

LoadedInit == Init /\ Load!Init

-----------------------------------------------------------------------------
(* The steps of bc_runtime_create.                                          *)

\* The loader of n entries is past the last, or at one that names no key.
Passing(n, source) == Load!More(n) => Load!Entry(source) = NoKey

\* Steps that call nothing of the store.
Between ==
  /\ UNCHANGED vars
  /\ \/ Load!ReadFile
     \/ Passing(Load!ParsedLines, file) /\ Load!ParseFile
     \/ Passing(Len(environment), environment) /\ Load!LoadEnvironment
     \/ Passing(Len(arguments), arguments) /\ Load!LoadArguments

SetLine(k, item) ==
  /\ pc = "parse"
  /\ Load!More(Load!ParsedLines)
  /\ k = Load!Entry(file) /\ item = Load!LineItem(position + 1)
  /\ Set(k, item)
  /\ dropped' = IF reply'.ok THEN dropped ELSE dropped \cup {position + 1}
  /\ Load!Advance
  /\ UNCHANGED <<inputVars, pc, readVars>>

SetEntry(layer, source, k, item) ==
  /\ pc = layer
  /\ Load!More(Len(source))
  /\ k = Load!Entry(source) /\ item = Load!Item(layer, position + 1)
  /\ Set(k, item)
  /\ Load!AfterSet(reply'.ok)
  /\ UNCHANGED <<inputVars, readVars, dropped>>

\* slip: creation goes on to the callbacks before the sort
SortForgotten ==
  /\ pc = "sort"
  /\ Load!GoTo("done")
  /\ UNCHANGED <<vars, inputVars, readVars, dropped>>

SortLoaded ==
  /\ pc = "sort"
  /\ Sort
  /\ Load!GoTo(IF reply'.ok THEN "done" ELSE "failed")
  /\ UNCHANGED <<inputVars, readVars, dropped>>

(* The getters of an application that was created.                          *)
LookUp ==
  /\ pc = "done"
  /\ LookupUnsorted \/ Lookup \/ \E k \in Keys : LookupBegin(k)
  /\ UNCHANGED loaderVars

LoadedNext ==
  \/ Between
  \/ \E k \in Keys, item \in Items :
       \/ SetLine(k, item)
       \/ SetEntry("environment", environment, k, item)
       \/ SetEntry("arguments", arguments, k, item)
  \/ SortLoaded
  \/ LookUp

LoadedSpec == LoadedInit /\ [][LoadedNext]_<<vars, loaderVars>>

-----------------------------------------------------------------------------
(* What ConfigLoad does over a map, the loaders do over the array: an entry *)
(* is stored or refused as its loader was told, and nothing else changes    *)
(* what a lookup would find.                                                *)
ImplementsLoad == Load!Spec

LastOf(places) == CHOOSE i \in places : Load!IsLast(i, places)

\* What the entries that name a key call for: the last layer, and its last entry.
CalledFor(k) ==
  LET a == Load!Places(arguments, k)
      e == Load!Places(environment, k)
      f == Load!FilePlaces(k)
  IN  CASE a # {}             -> <<<<Load!Item("arguments", LastOf(a))>>>>
        [] a = {} /\ e # {}   -> <<<<Load!Item("environment", LastOf(e))>>>>
        [] a \cup e = {} /\ f # {} -> <<<<Load!LineItem(LastOf(f))>>>>
        [] OTHER              -> NoValue

(* A getter of an application that was created answers with the value of    *)
(* the last argument that names its key, or else of the last variable, or   *)
(* else of the last line of the file that could be stored, and fails only   *)
(* when there is none: through the reading, the writes and refusals of      *)
(* three loaders, the sort and the halving search, for every key.           *)
GettersAnswerTheLastLayer ==
  [][pc = "done" =>
       IF Answers
       THEN LET v == CalledFor(lookup[1].key) IN reply' = Reply(v # NoValue, v)
       ELSE UNCHANGED reply]_<<vars, loaderVars>>
=============================================================================
