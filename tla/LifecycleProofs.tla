--------------------------- MODULE LifecycleProofs ---------------------------
(***************************************************************************)
(* Theorems about Lifecycle.  What is held is a function of the line the   *)
(* program is on, and so is nearly all of what a run has done: the two     *)
(* parts of the inductive invariant say which.                             *)
(***************************************************************************)
EXTENDS Lifecycle, SequenceTheorems, TLAPS

Base == {"context", "app", "signal"}

\* What is held when the program is on a line.
Held(line) ==
  CASE line \in {"absent", "context"} -> {}
    [] line \in {"app", "fail_memory_context", "destroy_context"} -> {"context"}
    [] line \in {"signal", "fail_application", "destroy_app"} -> {"context", "app"}
    [] line \in {"sigint", "sigterm", "store", "fail_signal_handler"} -> Base
    [] line = "destroy_store" -> {"context", "app", "store"}
    [] line \in {"arena", "undo_store", "fail_store"} -> Base \cup {"store"}
    [] line \in {"entries", "undo_arena"} -> Base \cup {"store", "arena"}
    [] line = "fail_entries" -> Base \cup {"store", "entries"}
    [] line = "destroy_arena" -> {"context", "app"} \cup StoreParts
    [] line = "destroy_entries" -> {"context", "app", "store", "entries"}
    [] line \in {"open", "environment", "arguments", "sort", "parallel", "fail_config_store", "destroy_signal"} ->
         Base \cup StoreParts
    [] line \in {"file_buffer", "close_unread"} -> Base \cup StoreParts \cup {"file"}
    [] line \in {"read", "close_file", "drop_buffer"} -> Base \cup StoreParts \cup {"file", "file_buffer"}
    [] line = "parse_file" -> Base \cup StoreParts \cup {"file_buffer"}
    [] line = "unsort" -> Base \cup StoreParts \cup {"sort_temp"}
    [] line \in {"assign", "ready", "destroy_parallel"} -> Base \cup StoreParts \cup {"parallel"}

\* Both handlers are installed from the line after sigterm on.
WithoutBoth ==
  {"absent", "context", "app", "signal", "sigint", "sigterm", "fail_signal_handler", "fail_application",
   "fail_memory_context", "destroy_arena", "destroy_entries", "destroy_store", "destroy_app", "destroy_context"}

ResourceInv ==
  /\ pc \in Lines
  /\ live = Held(pc)
  /\ installed \subseteq {"SIGINT", "SIGTERM"}
  /\ installed # {} => "signal" \in live
  /\ pc = "sigterm" => "SIGINT" \in installed
  /\ pc \notin WithoutBoth => installed = {"SIGINT", "SIGTERM"}

-----------------------------------------------------------------------------
(* The tables, line by line.                                                *)

LEMMA CreateDomain ==
  DOMAIN CreateLines = {"context", "app", "signal", "sigint", "sigterm", "store", "arena", "entries", "open",
                        "file_buffer", "read", "environment", "arguments", "sort", "parallel"}
BY DEF CreateLines

LEMMA FreeingDomain ==
  /\ DOMAIN UndoLines = {"undo_arena", "undo_store", "drop_buffer", "close_unread", "close_file", "parse_file", "unsort"}
  /\ DOMAIN FailLabels = {"fail_config_store", "fail_entries", "fail_store", "fail_signal_handler",
                          "fail_application", "fail_memory_context"}
  /\ DOMAIN DestroyLines = {"destroy_parallel", "destroy_signal", "destroy_arena", "destroy_entries",
                            "destroy_store", "destroy_app", "destroy_context"}
BY DEF UndoLines, FailLabels, DestroyLines

LEMMA LinesAre ==
  Lines = {"context", "app", "signal", "sigint", "sigterm", "store", "arena", "entries", "open", "file_buffer",
           "read", "environment", "arguments", "sort", "parallel", "absent", "assign", "ready", "undo_arena", "undo_store", "drop_buffer", "close_unread", "close_file", "parse_file", "unsort",
           "fail_config_store", "fail_entries", "fail_store", "fail_signal_handler", "fail_application",
           "fail_memory_context", "destroy_parallel", "destroy_signal", "destroy_arena", "destroy_entries",
           "destroy_store", "destroy_app", "destroy_context"}
BY CreateDomain, FreeingDomain DEF Lines, FreeingLines

\* Held, one line after the other.
LEMMA HeldInCreate ==
  /\ Held("absent") = {} /\ Held("context") = {} /\ Held("app") = {"context"}
  /\ Held("signal") = {"context", "app"}
  /\ Held("sigint") = {"context", "app", "signal"} /\ Held("sigterm") = {"context", "app", "signal"}
  /\ Held("store") = {"context", "app", "signal"}
  /\ Held("arena") = {"context", "app", "signal", "store"}
  /\ Held("entries") = {"context", "app", "signal", "store", "arena"}
  /\ \A line \in {"open", "environment", "arguments", "sort", "parallel"} :
       Held(line) = {"context", "app", "signal", "store", "arena", "entries"}
  /\ Held("file_buffer") = {"context", "app", "signal", "store", "arena", "entries", "file"}
  /\ Held("read") = {"context", "app", "signal", "store", "arena", "entries", "file", "file_buffer"}
  /\ Held("assign") = {"context", "app", "signal", "store", "arena", "entries", "parallel"}
  /\ Held("ready") = {"context", "app", "signal", "store", "arena", "entries", "parallel"}
BY DEF Held, Base, StoreParts

LEMMA HeldInUndo ==
  /\ Held("undo_arena") = {"context", "app", "signal", "store", "arena"}
  /\ Held("undo_store") = {"context", "app", "signal", "store"}
  /\ Held("drop_buffer") = {"context", "app", "signal", "store", "arena", "entries", "file", "file_buffer"}
  /\ Held("close_file") = {"context", "app", "signal", "store", "arena", "entries", "file", "file_buffer"}
  /\ Held("close_unread") = {"context", "app", "signal", "store", "arena", "entries", "file"}
  /\ Held("parse_file") = {"context", "app", "signal", "store", "arena", "entries", "file_buffer"}
  /\ Held("unsort") = {"context", "app", "signal", "store", "arena", "entries", "sort_temp"}
  /\ Held("fail_config_store") = {"context", "app", "signal", "store", "arena", "entries"}
  /\ Held("fail_entries") = {"context", "app", "signal", "store", "entries"}
  /\ Held("fail_store") = {"context", "app", "signal", "store"}
  /\ Held("fail_signal_handler") = {"context", "app", "signal"}
  /\ Held("fail_application") = {"context", "app"} /\ Held("fail_memory_context") = {"context"}
BY DEF Held, Base, StoreParts

LEMMA HeldInDestroy ==
  /\ Held("destroy_parallel") = {"context", "app", "signal", "store", "arena", "entries", "parallel"}
  /\ Held("destroy_signal") = {"context", "app", "signal", "store", "arena", "entries"}
  /\ Held("destroy_arena") = {"context", "app", "store", "arena", "entries"}
  /\ Held("destroy_entries") = {"context", "app", "store", "entries"}
  /\ Held("destroy_store") = {"context", "app", "store"}
  /\ Held("destroy_app") = {"context", "app"} /\ Held("destroy_context") = {"context"}
BY DEF Held, Base, StoreParts

LEMMA CreateTable ==
  ASSUME NEW line \in DOMAIN CreateLines
  PROVE  /\ CreateLines[line].uses \subseteq Held(line)
         /\ CreateLines[line].next \in Lines
         /\ Held(CreateLines[line].next) = Held(line) \cup CreateLines[line].takes
         /\ CreateLines[line].fail \in Lines
         /\ Held(CreateLines[line].fail) = Held(line)
         /\ CreateLines[line].skip # "never" =>
              CreateLines[line].skip \in Lines /\ Held(CreateLines[line].skip) = Held(line)
<1>1. CASE line = "context"
  <2>1. /\ CreateLines[line].takes = {"context"} /\ CreateLines[line].uses = {}
        /\ CreateLines[line].next = "app" /\ CreateLines[line].fail = "absent"
        /\ CreateLines[line].skip = "never"
    BY <1>1 DEF CreateLines, Taking
  <2>. QED BY <1>1, <2>1, LinesAre, HeldInCreate, HeldInUndo DEF StoreParts
<1>2. CASE line = "app"
  <2>1. /\ CreateLines[line].takes = {"app"} /\ CreateLines[line].uses = {"context"}
        /\ CreateLines[line].next = "signal" /\ CreateLines[line].fail = "fail_memory_context"
        /\ CreateLines[line].skip = "never"
    BY <1>2 DEF CreateLines, Taking
  <2>. QED BY <1>2, <2>1, LinesAre, HeldInCreate, HeldInUndo DEF StoreParts
<1>3. CASE line = "signal"
  <2>1. /\ CreateLines[line].takes = {"signal"} /\ CreateLines[line].uses = {"context", "app"}
        /\ CreateLines[line].next = "sigint" /\ CreateLines[line].fail = "fail_application"
        /\ CreateLines[line].skip = "never"
    BY <1>3 DEF CreateLines, Taking
  <2>. QED BY <1>3, <2>1, LinesAre, HeldInCreate, HeldInUndo DEF StoreParts
<1>4. CASE line = "sigint"
  <2>1. /\ CreateLines[line].takes = {} /\ CreateLines[line].uses = {"app", "signal"}
        /\ CreateLines[line].next = "sigterm" /\ CreateLines[line].fail = "fail_signal_handler"
        /\ CreateLines[line].skip = "never"
    BY <1>4 DEF CreateLines, Taking
  <2>. QED BY <1>4, <2>1, LinesAre, HeldInCreate, HeldInUndo DEF StoreParts
<1>5. CASE line = "sigterm"
  <2>1. /\ CreateLines[line].takes = {} /\ CreateLines[line].uses = {"app", "signal"}
        /\ CreateLines[line].next = "store" /\ CreateLines[line].fail = "fail_signal_handler"
        /\ CreateLines[line].skip = "never"
    BY <1>5 DEF CreateLines, Taking
  <2>. QED BY <1>5, <2>1, LinesAre, HeldInCreate, HeldInUndo DEF StoreParts
<1>6. CASE line = "store"
  <2>1. /\ CreateLines[line].takes = {"store"} /\ CreateLines[line].uses = {"context", "app"}
        /\ CreateLines[line].next = "arena" /\ CreateLines[line].fail = "fail_signal_handler"
        /\ CreateLines[line].skip = "never"
    BY <1>6 DEF CreateLines, Taking
  <2>. QED BY <1>6, <2>1, LinesAre, HeldInCreate, HeldInUndo DEF StoreParts
<1>7. CASE line = "arena"
  <2>1. /\ CreateLines[line].takes = {"arena"} /\ CreateLines[line].uses = {"context", "store"}
        /\ CreateLines[line].next = "entries" /\ CreateLines[line].fail = "undo_store"
        /\ CreateLines[line].skip = "never"
    BY <1>7 DEF CreateLines, Taking
  <2>. QED BY <1>7, <2>1, LinesAre, HeldInCreate, HeldInUndo DEF StoreParts
<1>8. CASE line = "entries"
  <2>1. /\ CreateLines[line].takes = {"entries"} /\ CreateLines[line].uses = {"context", "store"}
        /\ CreateLines[line].next = "open" /\ CreateLines[line].fail = "undo_arena"
        /\ CreateLines[line].skip = "never"
    BY <1>8 DEF CreateLines, Taking
  <2>. QED BY <1>8, <2>1, LinesAre, HeldInCreate, HeldInUndo DEF StoreParts
<1>9. CASE line = "open"
  <2>1. /\ CreateLines[line].takes = {"file"} /\ CreateLines[line].uses = {"app"}
        /\ CreateLines[line].next = "file_buffer" /\ CreateLines[line].fail = "fail_config_store"
        /\ CreateLines[line].skip = "environment"
    BY <1>9 DEF CreateLines, Taking
  <2>. QED BY <1>9, <2>1, LinesAre, HeldInCreate, HeldInUndo DEF StoreParts
<1>10. CASE line = "file_buffer"
  <2>1. /\ CreateLines[line].takes = {"file_buffer"} /\ CreateLines[line].uses = {"context"}
        /\ CreateLines[line].next = "read" /\ CreateLines[line].fail = "close_unread"
        /\ CreateLines[line].skip = "never"
    BY <1>10 DEF CreateLines, Taking
  <2>. QED BY <1>10, <2>1, LinesAre, HeldInCreate, HeldInUndo DEF StoreParts
<1>11. CASE line = "read"
  <2>1. /\ CreateLines[line].takes = {} /\ CreateLines[line].uses = {"context", "file", "file_buffer"}
        /\ CreateLines[line].next = "close_file" /\ CreateLines[line].fail = "drop_buffer"
        /\ CreateLines[line].skip = "never"
    BY <1>11 DEF CreateLines, Taking
  <2>. QED BY <1>11, <2>1, LinesAre, HeldInCreate, HeldInUndo DEF StoreParts
<1>12. CASE line = "environment"
  <2>1. /\ CreateLines[line].takes = {} /\ CreateLines[line].uses = StoreParts
        /\ CreateLines[line].next = "arguments" /\ CreateLines[line].fail = "fail_config_store"
        /\ CreateLines[line].skip = "never"
    BY <1>12 DEF CreateLines, Taking
  <2>. QED BY <1>12, <2>1, LinesAre, HeldInCreate, HeldInUndo DEF StoreParts
<1>13. CASE line = "arguments"
  <2>1. /\ CreateLines[line].takes = {} /\ CreateLines[line].uses = StoreParts
        /\ CreateLines[line].next = "sort" /\ CreateLines[line].fail = "fail_config_store"
        /\ CreateLines[line].skip = "sort"
    BY <1>13 DEF CreateLines, Taking
  <2>. QED BY <1>13, <2>1, LinesAre, HeldInCreate, HeldInUndo DEF StoreParts
<1>14. CASE line = "sort"
  <2>1. /\ CreateLines[line].takes = {"sort_temp"} /\ CreateLines[line].uses = {"context", "store"}
        /\ CreateLines[line].next = "unsort" /\ CreateLines[line].fail = "fail_config_store"
        /\ CreateLines[line].skip = "parallel"
    BY <1>14 DEF CreateLines, Taking
  <2>. QED BY <1>14, <2>1, LinesAre, HeldInCreate, HeldInUndo DEF StoreParts
<1>15. CASE line = "parallel"
  <2>1. /\ CreateLines[line].takes = {"parallel"} /\ CreateLines[line].uses = {"context", "app"}
        /\ CreateLines[line].next = "assign" /\ CreateLines[line].fail = "fail_config_store"
        /\ CreateLines[line].skip = "never"
    BY <1>15 DEF CreateLines, Taking
  <2>. QED BY <1>15, <2>1, LinesAre, HeldInCreate, HeldInUndo DEF StoreParts
<1>. QED BY <1>1, <1>2, <1>3, <1>4, <1>5, <1>6, <1>7, <1>8, <1>9, <1>10, <1>11, <1>12, <1>13, <1>14, <1>15, CreateDomain

LEMMA FreeingTable ==
  ASSUME NEW line \in FreeingLines
  PROVE  /\ FreeingLine(line).uses \cup {FreeingLine(line).frees} \subseteq Held(line)
         /\ FreeingLine(line).next \in Lines
         /\ Held(FreeingLine(line).next) = Held(line) \ {FreeingLine(line).frees}
<1>1. CASE line = "undo_arena"
  BY <1>1, CreateDomain, FreeingDomain, LinesAre, HeldInCreate, HeldInUndo, HeldInDestroy DEF FreeingLine, UndoLines, FailLabels, DestroyLines, Freeing, StoreParts
<1>2. CASE line = "undo_store"
  BY <1>2, CreateDomain, FreeingDomain, LinesAre, HeldInCreate, HeldInUndo, HeldInDestroy DEF FreeingLine, UndoLines, FailLabels, DestroyLines, Freeing, StoreParts
<1>3. CASE line = "drop_buffer"
  BY <1>3, CreateDomain, FreeingDomain, LinesAre, HeldInCreate, HeldInUndo, HeldInDestroy DEF FreeingLine, UndoLines, FailLabels, DestroyLines, Freeing, StoreParts
<1>4. CASE line = "close_unread"
  BY <1>4, CreateDomain, FreeingDomain, LinesAre, HeldInCreate, HeldInUndo, HeldInDestroy DEF FreeingLine, UndoLines, FailLabels, DestroyLines, Freeing, StoreParts
<1>5. CASE line = "close_file"
  BY <1>5, CreateDomain, FreeingDomain, LinesAre, HeldInCreate, HeldInUndo, HeldInDestroy DEF FreeingLine, UndoLines, FailLabels, DestroyLines, Freeing, StoreParts
<1>6. CASE line = "parse_file"
  BY <1>6, CreateDomain, FreeingDomain, LinesAre, HeldInCreate, HeldInUndo, HeldInDestroy DEF FreeingLine, UndoLines, FailLabels, DestroyLines, Freeing, StoreParts
<1>7. CASE line = "unsort"
  BY <1>7, CreateDomain, FreeingDomain, LinesAre, HeldInCreate, HeldInUndo, HeldInDestroy DEF FreeingLine, UndoLines, FailLabels, DestroyLines, Freeing, StoreParts
<1>8. CASE line = "fail_config_store"
  BY <1>8, CreateDomain, FreeingDomain, LinesAre, HeldInCreate, HeldInUndo, HeldInDestroy DEF FreeingLine, UndoLines, FailLabels, DestroyLines, Freeing, StoreParts
<1>9. CASE line = "fail_entries"
  BY <1>9, CreateDomain, FreeingDomain, LinesAre, HeldInCreate, HeldInUndo, HeldInDestroy DEF FreeingLine, UndoLines, FailLabels, DestroyLines, Freeing, StoreParts
<1>10. CASE line = "fail_store"
  BY <1>10, CreateDomain, FreeingDomain, LinesAre, HeldInCreate, HeldInUndo, HeldInDestroy DEF FreeingLine, UndoLines, FailLabels, DestroyLines, Freeing, StoreParts
<1>11. CASE line = "fail_signal_handler"
  BY <1>11, CreateDomain, FreeingDomain, LinesAre, HeldInCreate, HeldInUndo, HeldInDestroy DEF FreeingLine, UndoLines, FailLabels, DestroyLines, Freeing, StoreParts
<1>12. CASE line = "fail_application"
  BY <1>12, CreateDomain, FreeingDomain, LinesAre, HeldInCreate, HeldInUndo, HeldInDestroy DEF FreeingLine, UndoLines, FailLabels, DestroyLines, Freeing, StoreParts
<1>13. CASE line = "fail_memory_context"
  BY <1>13, CreateDomain, FreeingDomain, LinesAre, HeldInCreate, HeldInUndo, HeldInDestroy DEF FreeingLine, UndoLines, FailLabels, DestroyLines, Freeing, StoreParts
<1>14. CASE line = "destroy_parallel"
  BY <1>14, CreateDomain, FreeingDomain, LinesAre, HeldInCreate, HeldInUndo, HeldInDestroy DEF FreeingLine, UndoLines, FailLabels, DestroyLines, Freeing, StoreParts
<1>15. CASE line = "destroy_signal"
  BY <1>15, CreateDomain, FreeingDomain, LinesAre, HeldInCreate, HeldInUndo, HeldInDestroy DEF FreeingLine, UndoLines, FailLabels, DestroyLines, Freeing, StoreParts
<1>16. CASE line = "destroy_arena"
  BY <1>16, CreateDomain, FreeingDomain, LinesAre, HeldInCreate, HeldInUndo, HeldInDestroy DEF FreeingLine, UndoLines, FailLabels, DestroyLines, Freeing, StoreParts
<1>17. CASE line = "destroy_entries"
  BY <1>17, CreateDomain, FreeingDomain, LinesAre, HeldInCreate, HeldInUndo, HeldInDestroy DEF FreeingLine, UndoLines, FailLabels, DestroyLines, Freeing, StoreParts
<1>18. CASE line = "destroy_store"
  BY <1>18, CreateDomain, FreeingDomain, LinesAre, HeldInCreate, HeldInUndo, HeldInDestroy DEF FreeingLine, UndoLines, FailLabels, DestroyLines, Freeing, StoreParts
<1>19. CASE line = "destroy_app"
  BY <1>19, CreateDomain, FreeingDomain, LinesAre, HeldInCreate, HeldInUndo, HeldInDestroy DEF FreeingLine, UndoLines, FailLabels, DestroyLines, Freeing, StoreParts
<1>20. CASE line = "destroy_context"
  BY <1>20, CreateDomain, FreeingDomain, LinesAre, HeldInCreate, HeldInUndo, HeldInDestroy DEF FreeingLine, UndoLines, FailLabels, DestroyLines, Freeing, StoreParts
<1>. QED BY <1>1, <1>2, <1>3, <1>4, <1>5, <1>6, <1>7, <1>8, <1>9, <1>10, <1>11, <1>12, <1>13, <1>14, <1>15, <1>16, <1>17, <1>18, <1>19, <1>20, FreeingDomain DEF FreeingLines

-----------------------------------------------------------------------------
(* Resources.                                                               *)

LEMMA ResourceInit == ASSUME Init PROVE ResourceInv
BY DEF Init, ResourceInv, Lines, Held, WithoutBoth

LEMMA TakeResource == ASSUME ResourceInv, Take PROVE ResourceInv'
<1>1. /\ pc \in DOMAIN CreateLines
      /\ pc' = CreateLines[pc].next
      /\ live' = live \cup CreateLines[pc].takes
      /\ installed' = installed \cup Installs(pc)
  BY DEF Take
<1>2. pc' \in Lines /\ live' = Held(pc')
  BY <1>1, CreateTable DEF ResourceInv
<1>3. /\ installed' \subseteq {"SIGINT", "SIGTERM"}
      /\ Installs(pc) # {} => pc \in {"sigint", "sigterm"}
      /\ pc = "sigint" => "SIGINT" \in installed'
      /\ pc = "sigterm" => installed' = {"SIGINT", "SIGTERM"}
  BY <1>1 DEF Installs, ResourceInv
<1>4. pc \in {"sigint", "sigterm"} => "signal" \in live
  BY DEF ResourceInv, Held, Base
<1>5. installed' # {} => "signal" \in live'
  BY <1>1, <1>3, <1>4 DEF ResourceInv
<1>6. pc' = "sigterm" => pc = "sigint"
  BY <1>1, CreateDomain DEF CreateLines, Taking
<1>7. pc' \notin WithoutBoth => pc \notin WithoutBoth \/ pc = "sigterm"
  BY <1>1, CreateDomain DEF CreateLines, Taking, WithoutBoth
<1>8. pc' \notin WithoutBoth => installed' = {"SIGINT", "SIGTERM"}
  BY <1>1, <1>3, <1>7 DEF ResourceInv
<1>. QED BY <1>2, <1>3, <1>5, <1>6, <1>8 DEF ResourceInv

LEMMA RefusedResource == ASSUME ResourceInv, Refused PROVE ResourceInv'
<1>1. /\ pc \in DOMAIN CreateLines
      /\ pc' = CreateLines[pc].fail
      /\ live' = live /\ installed' = installed
  BY DEF Refused, resourceVars
<1>2. pc' \in Lines /\ live' = Held(pc')
  BY <1>1, CreateTable DEF ResourceInv
<1>3. pc' # "sigterm" /\ (pc' \notin WithoutBoth => pc \notin WithoutBoth)
  BY <1>1, CreateDomain DEF CreateLines, Taking, WithoutBoth
<1>. QED BY <1>1, <1>2, <1>3 DEF ResourceInv

LEMMA SkipResource == ASSUME ResourceInv, Skip PROVE ResourceInv'
<1>1. /\ pc \in DOMAIN CreateLines
      /\ CreateLines[pc].skip # "never"
      /\ pc' = CreateLines[pc].skip
      /\ live' = live /\ installed' = installed
  BY DEF Skip
<1>2. pc' \in Lines /\ live' = Held(pc')
  BY <1>1, CreateTable DEF ResourceInv
<1>3. pc' # "sigterm" /\ (pc' \notin WithoutBoth => pc \notin WithoutBoth)
  BY <1>1, CreateDomain DEF CreateLines, Taking, WithoutBoth
<1>. QED BY <1>1, <1>2, <1>3 DEF ResourceInv

LEMMA FreeResource == ASSUME ResourceInv, Free PROVE ResourceInv'
<1>1. /\ pc \in FreeingLines
      /\ pc' = FreeingLine(pc).next
      /\ live' = live \ {FreeingLine(pc).frees}
      /\ installed' = IF FreeingLine(pc).frees = "signal" THEN {} ELSE installed
  BY DEF Free
<1>2. pc' \in Lines /\ live' = Held(pc')
  BY <1>1, FreeingTable DEF ResourceInv
<1>3. installed' \subseteq installed /\ (installed' # {} => "signal" \in live')
  BY <1>1 DEF ResourceInv
<1>4. /\ pc' # "sigterm"
      /\ pc' \notin WithoutBoth => pc \notin WithoutBoth /\ FreeingLine(pc).frees # "signal"
  BY <1>1, FreeingDomain
     DEF FreeingLine, FreeingLines, UndoLines, FailLabels, DestroyLines, Freeing, WithoutBoth
<1>. QED BY <1>1, <1>2, <1>3, <1>4 DEF ResourceInv

LEMMA OtherResource ==
  ASSUME ResourceInv, [Next]_vars, ~Take, ~Refused, ~Skip, ~Free
  PROVE  ResourceInv'
<1>1. CASE Create
  BY <1>1, CreateDomain DEF Create, ResourceInv, Lines, Held, WithoutBoth
<1>2. CASE Assign
  BY <1>2 DEF Assign, ResourceInv, Lines, Held, WithoutBoth
<1>3. CASE Destroy
  BY <1>3, FreeingDomain DEF Destroy, ResourceInv, Lines, FreeingLines, Held, WithoutBoth
<1>4. CASE UNCHANGED resourceVars
  BY <1>4 DEF resourceVars, ResourceInv
<1>5. ASSUME Signal \/ Run \/ RunFromCallback \/ RunStep \/ FinishRun \/ UNCHANGED vars
      PROVE  UNCHANGED resourceVars
  BY <1>5 DEF Signal, Run, RunFromCallback, RunStep, Refuse, Enter, FinishInit, FinishCleanup, FinishRun, vars
<1>. QED BY <1>1, <1>2, <1>3, <1>4, <1>5 DEF Next, CreateStep

THEOREM Resourceful == Spec => []ResourceInv
<1>1. ResourceInv /\ [Next]_vars => ResourceInv'
  BY TakeResource, RefusedResource, SkipResource, FreeResource, OtherResource
<1>. QED BY <1>1, ResourceInit, PTL DEF Spec

(* No line uses or frees what is not held, and nothing outlives what it was *)
(* carved from.                                                             *)
THEOREM NothingUsedAfterFreeAlways == Spec => []NothingUsedAfterFree
<1>1. ResourceInv => NothingUsedAfterFree
  <2>. SUFFICES ASSUME ResourceInv PROVE NothingUsedAfterFree
    OBVIOUS
  <2>1. LifetimesNest
    BY CreateDomain, FreeingDomain DEF ResourceInv, LifetimesNest, Lines, FreeingLines, Held, Base, StoreParts, Owner
  <2>. QED BY <2>1, CreateTable, FreeingTable DEF ResourceInv, NothingUsedAfterFree
<1>. QED BY <1>1, Resourceful, PTL

(* Creation keeps everything an application is made of or nothing.          *)
THEOREM AllOrNothingAlways == Spec => []AllOrNothing
<1>1. ResourceInv => AllOrNothing
  BY DEF ResourceInv, AllOrNothing, Held, Base, StoreParts, Resources, WithoutBoth
<1>. QED BY <1>1, Resourceful, PTL

-----------------------------------------------------------------------------
(* A run.  The frames are at most a call of bc_runtime_run that has not     *)
(* looked at the state yet, on the frame of the callback that made it.      *)

Idle == activations \in { <<>>, <<Frame("entry", FALSE)>> }
In(callback, ok) ==
  activations \in { <<Frame(callback, ok)>>, <<Frame("entry", FALSE), Frame(callback, ok)>> }

Path == IF "init" \in failed THEN InitFailedPath ELSE FullPath

Phase ==
  \/ state = "CREATED" /\ Idle /\ calls = <<>> /\ failed = {} /\ successes = 0
  \/ state = "INITIALIZED" /\ In("init", FALSE) /\ calls = Called("init") /\ failed = {} /\ successes = 0
  \/ state = "RUNNING" /\ In("run", FALSE) /\ calls = Called("init") \o Called("run") /\ failed = {} /\ successes = 0
  \/ state = "STOPPING" /\ In("cleanup", failed = {}) /\ calls = Path /\ successes = 0
  \/ state = "STOPPED" /\ Idle /\ calls = Path /\ successes = IF failed = {} THEN 1 ELSE 0

RunTypes ==
  /\ state \in States
  /\ callbacks \subseteq Callbacks /\ failed \subseteq Callbacks
  /\ reentries \in 0 .. MaxReentries
  /\ calls \in Seq(Callbacks)
  /\ successes \in Nat
  /\ stop_requested \in BOOLEAN /\ signalled \in BOOLEAN

RunInv ==
  /\ RunTypes
  /\ pc # "ready" => activations = <<>>
  /\ pc = "ready" => Phase

LEMMA CalledType == \A c \in Callbacks : Called(c) \in Seq(Callbacks)
BY DEF Called

LEMMA ConcatPrefix ==
  ASSUME NEW S, NEW p \in Seq(S), NEW q \in Seq(S)
  PROVE  Len(p) <= Len(p \o q) /\ p = SubSeq(p \o q, 1, Len(p))
<1>1. /\ p \o q \in Seq(S) /\ Len(p \o q) = Len(p) + Len(q)
      /\ Len(p) \in Nat /\ Len(q) \in Nat
  BY ConcatProperties
<1>2. CASE p = <<>>
  BY <1>1, <1>2, SubSeqEmpty
<1>3. CASE p # <<>>
  <2>1. 1 \in 1 .. Len(p) /\ Len(p) \in 1 .. Len(p)
    BY <1>3, EmptySeq
  <2>2. SubSeq(p \o q, 1, Len(p)) = SubSeq(p, 1, Len(p))
    BY <2>1, SubSeqOfConcat1
  <2>. QED BY <1>1, <2>2, SubSeqFull
<1>. QED BY <1>2, <1>3

LEMMA PathTypes ==
  /\ FullPath \in Seq(Callbacks)
  /\ InitFailedPath \in Seq(Callbacks)
  /\ Called("init") \o Called("run") \in Seq(Callbacks)
<1>1. Called("init") \in Seq(Callbacks) /\ Called("run") \in Seq(Callbacks) /\ Called("cleanup") \in Seq(Callbacks)
  BY CalledType DEF Callbacks
<1>2. \A p, q \in Seq(Callbacks) : p \o q \in Seq(Callbacks)
  OBVIOUS
<1>. QED BY <1>1, <1>2 DEF FullPath, InitFailedPath

LEMMA RunInit == ASSUME Init PROVE RunInv
<1>1. RunTypes
  <2>1. state \in States /\ reentries \in 0 .. MaxReentries /\ successes \in Nat
    BY ReentriesAssumption DEF Init, States
  <2>2. callbacks \subseteq Callbacks /\ failed \subseteq Callbacks /\ calls \in Seq(Callbacks)
    BY DEF Init
  <2>. QED BY <2>1, <2>2 DEF Init, RunTypes
<1>. QED BY <1>1 DEF Init, RunInv

LEMMA Push ==
  ASSUME NEW f, NEW g
  PROVE  <<f>> \o <<g>> = <<f, g>>
<1> DEFINE S == {f, g}
           p == <<f>> \o <<g>>
           q == <<f, g>>
<1>1. /\ <<f>> \in Seq(S) /\ <<g>> \in Seq(S) /\ <<f, g>> \in Seq(S)
      /\ Len(<<f>>) = 1 /\ Len(<<g>>) = 1 /\ Len(<<f, g>>) = 2
  OBVIOUS
<1>2. /\ p \in Seq(S) /\ Len(p) = 2 /\ p[1] = f /\ p[2] = g
      /\ q \in Seq(S) /\ Len(q) = 2 /\ q[1] = f /\ q[2] = g
  BY <1>1, ConcatProperties
<1>. HIDE DEF p, q
<1>3. \A k \in 1 .. Len(p) : p[k] = q[k]
  BY <1>2
<1>4. p = q
  BY <1>2, <1>3, SeqEqual
<1>. QED BY <1>4 DEF p, q

LEMMA PushOnEmpty ==
  ASSUME NEW f, NEW s, s = <<>>
  PROVE  <<f>> \o s = <<f>>
OBVIOUS

LEMMA OneFrame ==
  ASSUME NEW f, NEW s, s = <<f>>
  PROVE  Head(s) = f /\ Tail(s) = <<>>
OBVIOUS

\* Which frame is on top tells the rest of the stack.
LEMMA InFrames ==
  ASSUME NEW c \in Callbacks, NEW ok \in BOOLEAN, In(c, ok)
  PROVE  /\ activations # <<>>
         /\ Top.at = c \/ Top.at = "entry"
         /\ Top.at = c => activations = <<Frame(c, ok)>> /\ Tail(activations) = <<>> /\ Top.ok = ok
         /\ Top.at = "entry" => activations = <<Frame("entry", FALSE), Frame(c, ok)>> /\ Tail(activations) = <<Frame(c, ok)>>
<1>1. CASE activations = <<Frame(c, ok)>>
  BY <1>1 DEF Top, Frame, Callbacks
<1>2. CASE activations = <<Frame("entry", FALSE), Frame(c, ok)>>
  BY <1>2 DEF Top, Frame, Callbacks
<1>. QED BY <1>1, <1>2 DEF In

LEMMA IdleFrames ==
  ASSUME Idle
  PROVE  activations # <<>> => Top.at = "entry" /\ Tail(activations) = <<>>
<1>1. activations # <<>> => Head(activations) = Frame("entry", FALSE) /\ Tail(activations) = <<>>
  BY OneFrame DEF Idle
<1>. QED BY <1>1 DEF Top, Frame

\* The phase that a callback's frame, or a state, tells of.
LEMMA PhaseAt ==
  ASSUME RunInv, pc = "ready", activations # <<>>
  PROVE  /\ Top.at = "init" => state = "INITIALIZED" /\ In("init", FALSE)
         /\ Top.at = "run" => state = "RUNNING" /\ In("run", FALSE)
         /\ Top.at = "cleanup" => state = "STOPPING" /\ In("cleanup", failed = {})
         /\ Top.at \in Callbacks \cup {"entry"}
<1>1. Phase
  BY DEF RunInv
<1>2. CASE state = "CREATED" \/ state = "STOPPED"
  BY <1>1, <1>2, IdleFrames DEF Phase
<1>3. CASE state = "INITIALIZED"
  BY <1>1, <1>3, InFrames DEF Phase, Callbacks
<1>4. CASE state = "RUNNING"
  BY <1>1, <1>4, InFrames DEF Phase, Callbacks
<1>5. CASE state = "STOPPING"
  BY <1>1, <1>5, InFrames DEF Phase, Callbacks
<1>. QED BY <1>2, <1>3, <1>4, <1>5 DEF RunInv, RunTypes, States

LEMMA RunStarts == ASSUME RunInv, Run PROVE RunInv'
<1>1. /\ UNCHANGED <<state, callbacks, calls, failed, successes>>
      /\ Idle' /\ pc = "ready" /\ pc' = "ready"
  BY DEF Run, Idle, resourceVars
<1>2. state = "CREATED" \/ state = "STOPPED"
  BY InFrames DEF Run, RunInv, Phase, Callbacks
<1>3. Path' = Path
  BY <1>1 DEF Path, FullPath, InitFailedPath, Called
<1>4. Phase'
  BY <1>1, <1>2, <1>3 DEF RunInv, Phase
<1>. QED BY <1>1, <1>4 DEF Run, RunInv, RunTypes, signalVars

LEMMA RunNests == ASSUME RunInv, RunFromCallback PROVE RunInv'
<1>1. /\ UNCHANGED <<state, callbacks, calls, failed, successes>>
      /\ pc = "ready" /\ pc' = "ready" /\ activations # <<>> /\ Top.at \in Callbacks
      /\ activations' = <<Frame("entry", FALSE)>> \o activations
  BY DEF RunFromCallback, InCallback, RunInv, RunTypes, resourceVars
<1>2. \A c \in Callbacks, ok \in BOOLEAN : In(c, ok) /\ Top.at # "entry" => In(c, ok)'
  <2>. SUFFICES ASSUME NEW c \in Callbacks, NEW ok \in BOOLEAN, In(c, ok), Top.at # "entry"
                PROVE  In(c, ok)'
    OBVIOUS
  <2>1. activations = <<Frame(c, ok)>>
    BY InFrames
  <2>2. activations' = <<Frame("entry", FALSE)>> \o <<Frame(c, ok)>>
    BY <1>1, <2>1
  <2>3. activations' = <<Frame("entry", FALSE), Frame(c, ok)>>
    BY <2>2, Push
  <2>. QED BY <2>3 DEF In, Frame
<1>3. Top.at # "entry"
  BY <1>1 DEF Callbacks
<1>4. Path' = Path /\ Called("init")' = Called("init") /\ Called("run")' = Called("run")
  BY <1>1 DEF Path, FullPath, InitFailedPath, Called
<1>5. Phase'
  <2>1. CASE Top.at = "init"
    BY <1>1, <1>2, <1>3, <1>4, <2>1, PhaseAt DEF RunInv, Phase, Callbacks
  <2>2. CASE Top.at = "run"
    BY <1>1, <1>2, <1>3, <1>4, <2>2, PhaseAt DEF RunInv, Phase, Callbacks
  <2>3. CASE Top.at = "cleanup"
    <3>1. In("cleanup", failed = {})'
      BY <1>1, <1>2, <1>3, <2>3, PhaseAt DEF Callbacks
    <3>. QED BY <1>1, <1>4, <2>3, <3>1, PhaseAt DEF RunInv, Phase
  <2>. QED BY <1>1, <2>1, <2>2, <2>3 DEF Callbacks
<1>. QED BY <1>1, <1>5, ReentriesAssumption DEF RunFromCallback, RunInv, RunTypes, signalVars

LEMMA RunRefused == ASSUME RunInv, Refuse PROVE RunInv'
<1>1. /\ UNCHANGED <<state, callbacks, calls, failed, successes>>
      /\ pc = "ready" /\ pc' = "ready" /\ activations # <<>> /\ Top.at = "entry"
      /\ activations' = Tail(activations) /\ state # "CREATED"
  BY DEF Refuse, At, MayRun, resourceVars
<1>2. \A c \in Callbacks, ok \in BOOLEAN : In(c, ok) => In(c, ok)'
  BY <1>1, InFrames DEF In, Frame
<1>3. Idle => Idle'
  BY <1>1, IdleFrames DEF Idle
<1>4. Path' = Path /\ Called("init")' = Called("init") /\ Called("run")' = Called("run")
  BY <1>1 DEF Path, FullPath, InitFailedPath, Called
<1>5. In("cleanup", failed = {}) => In("cleanup", failed = {})'
  BY <1>1, <1>2 DEF Callbacks
<1>6. Phase'
  BY <1>1, <1>2, <1>3, <1>4, <1>5 DEF RunInv, Phase, Callbacks
<1>. QED BY <1>1, <1>6 DEF Refuse, RunInv, RunTypes, signalVars

LEMMA RunEnters == ASSUME RunInv, Enter PROVE RunInv'
<1>1. /\ UNCHANGED <<callbacks, failed, successes>>
      /\ pc = "ready" /\ pc' = "ready" /\ state = "CREATED" /\ state' = "INITIALIZED"
      /\ activations # <<>>
      /\ activations' = <<Frame("init", FALSE)>> \o Tail(activations)
      /\ calls' = calls \o Called("init")
  BY DEF Enter, At, MayRun, Replace, Reaches, resourceVars
<1>2. Idle /\ calls = <<>> /\ failed = {} /\ successes = 0
  BY <1>1 DEF RunInv, Phase
<1>3. activations' = <<Frame("init", FALSE)>>
  BY <1>1, <1>2, IdleFrames, PushOnEmpty
<1>4. Called("init") \in Seq(Callbacks) /\ Called("init")' = Called("init")
  BY <1>1, CalledType DEF Callbacks, Called
<1>5. calls' = Called("init")
  BY <1>1, <1>2, <1>4
<1>6. Phase'
  BY <1>1, <1>2, <1>3, <1>4, <1>5 DEF Phase, In, Frame
<1>7. RunTypes'
  BY <1>1, <1>4, <1>5 DEF Enter, RunInv, RunTypes, States, signalVars
<1>. QED BY <1>1, <1>6, <1>7 DEF RunInv

LEMMA RunAfterInit == ASSUME RunInv, FinishInit PROVE RunInv'
<1>1. /\ pc = "ready" /\ state = "INITIALIZED" /\ In("init", FALSE)
      /\ calls = Called("init") /\ failed = {} /\ successes = 0
      /\ Tail(activations) = <<>>
  BY PhaseAt, InFrames DEF FinishInit, At, RunInv, Phase, Callbacks
<1>2. PICK ok \in Answers("init") :
        /\ state' = IF ok THEN "RUNNING" ELSE "STOPPING"
        /\ Replace(Frame(AfterInit(ok), FALSE))
        /\ Reaches(AfterInit(ok))
        /\ NotFailed("init", ok)
  BY DEF FinishInit
<1>3. UNCHANGED <<resourceVars, signalVars, callbacks, reentries, successes>>
  BY DEF FinishInit
<1>4. Called("init")' = Called("init") /\ Called("run")' = Called("run") /\ Called("cleanup")' = Called("cleanup")
  BY <1>3 DEF Called
<1>5. activations' = <<Frame(AfterInit(ok), FALSE)>>
  BY <1>1, <1>2, PushOnEmpty DEF Replace
<1>6. Phase'
  <2>1. ok \in BOOLEAN
    BY DEF Answers
  <2>2. CASE ok
    BY <1>1, <1>2, <1>3, <1>4, <1>5, <2>2 DEF Phase, In, Reaches, AfterInit, NotFailed, Frame
  <2>3. CASE ~ok
    <3>1. failed' = {"init"} /\ (failed = {})' = FALSE
      BY <1>1, <1>2, <2>3 DEF NotFailed
    <3>2. Path' = Called("init") \o Called("cleanup")
      BY <1>4, <3>1 DEF Path, InitFailedPath
    <3>3. In("cleanup", failed = {})'
      BY <1>5, <2>3, <3>1 DEF In, AfterInit, Frame
    <3>. QED BY <1>1, <1>2, <1>3, <2>3, <3>2, <3>3 DEF Phase, Reaches, AfterInit
  <2>. QED BY <2>1, <2>2, <2>3
<1>7. RunTypes'
  <2>1. calls' \in Seq(Callbacks)
    BY <1>1, <1>2, PathTypes DEF Reaches, AfterInit, InitFailedPath
  <2>. QED BY <1>2, <1>3, <2>1 DEF RunInv, RunTypes, NotFailed, States, Callbacks, signalVars
<1>. QED BY <1>1, <1>3, <1>6, <1>7 DEF RunInv, resourceVars

LEMMA RunAfterRun == ASSUME RunInv, FinishRun PROVE RunInv'
<1>1. /\ pc = "ready" /\ state = "RUNNING"
      /\ calls = Called("init") \o Called("run") /\ failed = {} /\ successes = 0
      /\ Tail(activations) = <<>>
  BY PhaseAt, InFrames DEF FinishRun, At, RunInv, Phase, Callbacks
<1>2. PICK ok \in Answers("run") : Replace(Frame("cleanup", ok)) /\ NotFailed("run", ok)
  BY DEF FinishRun
<1>3. /\ UNCHANGED <<resourceVars, signalVars, callbacks, reentries, successes>>
      /\ state' = "STOPPING" /\ Reaches("cleanup")
  BY DEF FinishRun
<1>4. ok \in BOOLEAN /\ failed' \subseteq {"run"} /\ (failed' = {}) = ok
  BY <1>1, <1>2 DEF Answers, NotFailed
<1>5. calls' = FullPath /\ Path' = FullPath
  BY <1>1, <1>3, <1>4 DEF Reaches, FullPath, Path, Called
<1>6. In("cleanup", failed = {})'
  <2>1. activations' = <<Frame("cleanup", ok)>>
    BY <1>1, <1>2, PushOnEmpty DEF Replace
  <2>2. (failed = {})' = ok
    BY <1>4
  <2>. QED BY <2>1, <2>2 DEF In, Frame
<1>7. Phase'
  BY <1>1, <1>3, <1>5, <1>6 DEF Phase
<1>8. RunTypes'
  BY <1>3, <1>4, <1>5, PathTypes DEF RunInv, RunTypes, States, Callbacks, signalVars
<1>. QED BY <1>1, <1>3, <1>7, <1>8 DEF RunInv, resourceVars

LEMMA RunAfterCleanup == ASSUME RunInv, FinishCleanup PROVE RunInv'
<1>1. /\ pc = "ready" /\ state = "STOPPING"
      /\ calls = Path /\ successes = 0
      /\ Tail(activations) = <<>> /\ Top.ok = (failed = {})
  BY PhaseAt, InFrames DEF FinishCleanup, At, RunInv, Phase, Callbacks
<1>2. /\ UNCHANGED <<resourceVars, signalVars, callbacks, reentries, calls, failed>>
      /\ state' = "STOPPED" /\ activations' = <<>>
      /\ successes' = IF failed = {} THEN 1 ELSE 0
  <2>1. successes' = IF Top.ok THEN successes + 1 ELSE successes
    BY DEF FinishCleanup
  <2>2. CASE failed = {}
    <3>1. Top.ok
      BY <1>1, <2>2
    <3>2. successes' = 1
      BY <1>1, <2>1, <3>1
    <3>. QED BY <1>1, <2>2, <3>2 DEF FinishCleanup
  <2>3. CASE failed # {}
    BY <1>1, <2>1, <2>3 DEF FinishCleanup
  <2>. QED BY <2>2, <2>3
<1>3. Path' = Path
  BY <1>2 DEF Path, FullPath, InitFailedPath, Called
<1>4. Phase'
  BY <1>1, <1>2, <1>3 DEF Phase, Idle
<1>. QED BY <1>1, <1>2, <1>4 DEF RunInv, RunTypes, States, signalVars, resourceVars

LEMMA RunAssigned == ASSUME RunInv, Assign PROVE RunInv'
<1>1. Phase'
  BY DEF Assign, Phase, Idle
<1>2. RunTypes'
  BY ReentriesAssumption DEF Assign, RunInv, RunTypes, States, signalVars
<1>3. pc' = "ready"
  BY DEF Assign
<1>. QED BY <1>1, <1>2, <1>3 DEF RunInv

LEMMA RunOutside ==
  ASSUME RunInv, ResourceInv,
         Create \/ Take \/ Refused \/ Skip \/ Free \/ Destroy \/ Signal \/ UNCHANGED vars
  PROVE  RunInv'
<1>1. UNCHANGED runVars /\ stop_requested' \in BOOLEAN /\ signalled' \in BOOLEAN
  BY DEF Create, Take, Refused, Skip, Free, Destroy, Signal, vars, signalVars, RunInv, RunTypes
<1>2. RunTypes'
  BY <1>1 DEF RunInv, RunTypes, runVars
<1>3. pc' = "ready" => pc = "ready"
  BY CreateDomain, FreeingDomain
     DEF Create, Take, Refused, Skip, Free, Destroy, Signal, vars, resourceVars, CreateLines, Taking,
         FreeingLines, FreeingLine, UndoLines, FailLabels, DestroyLines, Freeing
<1>4. Phase => Phase'
  BY <1>1 DEF Phase, Idle, In, Path, FullPath, InitFailedPath, Called, runVars
<1>5. pc' # "ready" => activations' = <<>>
  <2>1. CASE pc = "ready" /\ ~Destroy
    BY <2>1, CreateDomain, FreeingDomain
       DEF Create, Take, Refused, Skip, Free, Signal, vars, resourceVars, FreeingLines
  <2>2. CASE pc # "ready" \/ Destroy
    BY <1>1, <2>2 DEF Destroy, RunInv, runVars
  <2>. QED BY <2>1, <2>2
<1>. QED BY <1>2, <1>3, <1>4, <1>5 DEF RunInv

-----------------------------------------------------------------------------
(* The inductive invariant, and what follows from it.                       *)

IInv == ResourceInv /\ RunInv

LEMMA StepKeepsRun == ASSUME IInv, [Next]_vars PROVE RunInv'
<1>1. CASE Create \/ Take \/ Refused \/ Skip \/ Free \/ Destroy \/ Signal \/ UNCHANGED vars
  BY <1>1, RunOutside DEF IInv
<1>2. CASE Assign
  BY <1>2, RunAssigned DEF IInv
<1>3. CASE Run \/ RunFromCallback
  BY <1>3, RunStarts, RunNests DEF IInv
<1>4. CASE RunStep \/ FinishRun
  BY <1>4, RunRefused, RunEnters, RunAfterInit, RunAfterRun, RunAfterCleanup DEF IInv, RunStep
<1>. QED BY <1>1, <1>2, <1>3, <1>4 DEF Next, CreateStep

THEOREM Invariance == Spec => []IInv
<1>1. Init => IInv
  BY ResourceInit, RunInit DEF IInv
<1>2. IInv /\ [Next]_vars => RunInv'
  BY StepKeepsRun
<1>3. Spec => [](ResourceInv /\ RunInv)
  BY <1>1, <1>2, Resourceful, PTL DEF Spec, IInv
<1>. QED BY <1>3, PTL DEF IInv

(* Every variable stays in its type.                                        *)
THEOREM TypeCorrect == Spec => []TypeOK
<1>1. IInv => TypeOK
  <2>. SUFFICES ASSUME IInv PROVE TypeOK
    OBVIOUS
  <2>1. live \subseteq Resources
    BY CreateDomain, FreeingDomain DEF IInv, ResourceInv, Lines, FreeingLines, Held, Base, StoreParts, Resources
  <2> DEFINE Frames == [at : {"entry"} \cup Callbacks, ok : BOOLEAN]
  <2>2. activations \in Seq(Frames)
    <3>1. \A c \in {"entry"} \cup Callbacks, ok \in BOOLEAN : Frame(c, ok) \in Frames
      BY DEF Frame
    <3>. HIDE DEF Frames
    <3>0. <<>> \in Seq(Frames) /\ \A f, g \in Frames : <<f>> \in Seq(Frames) /\ <<f, g>> \in Seq(Frames)
      OBVIOUS
    <3>2. Idle => activations \in Seq(Frames)
      BY <3>0, <3>1 DEF Idle
    <3>3. \A c \in Callbacks, ok \in BOOLEAN : In(c, ok) => activations \in Seq(Frames)
      BY <3>0, <3>1 DEF In
    <3>4. Phase => activations \in Seq(Frames)
      BY <3>2, <3>3 DEF Phase, Callbacks
    <3>5. activations = <<>> => activations \in Seq(Frames)
      OBVIOUS
    <3>. QED BY <3>4, <3>5 DEF IInv, RunInv
  <2>. QED BY <2>1, <2>2 DEF IInv, ResourceInv, RunInv, RunTypes, TypeOK
<1>. QED BY <1>1, Invariance, PTL

(* The callbacks are called in order, at most once each, and each is told   *)
(* its own phase, whatever they answer and however often they call          *)
(* bc_runtime_run themselves.                                               *)
THEOREM CallbacksInOrderAlways == Spec => []CallbacksInOrder
<1>1. IInv => CallbacksInOrder
  <2>. SUFFICES ASSUME IInv, pc = "ready" PROVE CallbacksInOrder
    BY DEF CallbacksInOrder
  <2>1. Phase
    BY DEF IInv, RunInv
  <2>2. CallbackSeesItsPhase
    BY <2>1 DEF Phase, Idle, In, Frame, CallbackSeesItsPhase, StateIn
  <2>3. Len(calls) <= Len(Path) /\ calls = SubSeq(Path, 1, Len(calls))
    <3>1. /\ Called("init") \in Seq(Callbacks) /\ Called("run") \in Seq(Callbacks)
          /\ Called("cleanup") \in Seq(Callbacks)
      BY CalledType DEF Callbacks
    <3>2. CASE calls = <<>>
      <4>1. Path \in Seq(Callbacks)
        BY PathTypes DEF Path
      <4>. QED BY <3>2, <4>1, SubSeqEmpty
    <3>3. CASE state = "INITIALIZED"
      <4>1. /\ calls = Called("init") /\ failed = {}
            /\ Path = calls \o (Called("run") \o Called("cleanup"))
        BY <2>1, <3>1, <3>3, ConcatAssociative DEF Phase, Path, FullPath
      <4>. QED BY <3>1, <4>1, ConcatPrefix
    <3>4. CASE state = "RUNNING"
      <4>1. /\ calls = Called("init") \o Called("run") /\ failed = {}
            /\ Path = calls \o Called("cleanup")
        BY <2>1, <3>4 DEF Phase, Path, FullPath
      <4>. QED BY <3>1, <4>1, ConcatPrefix, PathTypes
    <3>5. CASE calls = Path
      BY <3>5, PathTypes, SubSeqFull DEF Path
    <3>. QED BY <2>1, <3>2, <3>3, <3>4, <3>5 DEF Phase
  <2>4. state = "STOPPED" => calls = Path
    BY <2>1 DEF Phase
  <2>. QED BY <2>2, <2>3, <2>4 DEF CallbacksInOrder, Path
<1>. QED BY <1>1, Invariance, PTL

(* bc_runtime_run returns true at most once, and only if nothing failed.    *)
THEOREM OneSuccessAtMostAlways == Spec => []OneSuccessAtMost
<1>1. IInv => OneSuccessAtMost
  <2>. SUFFICES ASSUME IInv, pc = "ready" PROVE OneSuccessAtMost
    BY DEF OneSuccessAtMost
  <2>1. Phase
    BY DEF IInv, RunInv
  <2>2. successes = IF state = "STOPPED" /\ failed = {} THEN 1 ELSE 0
    BY <2>1 DEF Phase
  <2>3. successes = 1 => calls = FullPath
    <3>1. successes = 1 => state = "STOPPED" /\ failed = {}
      BY <2>2
    <3>. QED BY <2>1, <3>1 DEF Phase, Path
  <2>. QED BY <2>2, <2>3 DEF OneSuccessAtMost
<1>. QED BY <1>1, Invariance, PTL
-----------------------------------------------------------------------------
(* Progress.  TLC checks that a signalled run ends, under fairness; what    *)
(* the fairness has to push is proved here: nothing goes round.             *)

\* The order of the lines in bc_runtime_create and in bc_runtime_destroy.
Place ==
  [ context |-> 1, app |-> 2, signal |-> 3, sigint |-> 4, sigterm |-> 5, store |-> 6, arena |-> 7, entries |-> 8,
    open |-> 9, file_buffer |-> 10, read |-> 11, close_file |-> 12, parse_file |-> 13,
    environment |-> 14, arguments |-> 15, sort |-> 16, unsort |-> 17, parallel |-> 18, assign |-> 19, ready |-> 20,
    undo_arena |-> 21, undo_store |-> 22, drop_buffer |-> 23, close_unread |-> 24,
    fail_config_store |-> 25, fail_entries |-> 26, fail_store |-> 27, fail_signal_handler |-> 28,
    fail_application |-> 29, fail_memory_context |-> 30,
    destroy_parallel |-> 31, destroy_signal |-> 32, destroy_arena |-> 33, destroy_entries |-> 34,
    destroy_store |-> 35, destroy_app |-> 36, destroy_context |-> 37, absent |-> 38 ]

\* Create, or a step that stays on its line or goes to a later one.
GoesDown == Create \/ UNCHANGED pc \/ Place[pc'] > Place[pc]

LEMMA TakeGoesDown ==
  ASSUME NEW line \in DOMAIN CreateLines
  PROVE  /\ Place[CreateLines[line].next] > Place[line]
         /\ Place[CreateLines[line].fail] > Place[line]
         /\ CreateLines[line].skip # "never" => Place[CreateLines[line].skip] > Place[line]
BY CreateDomain DEF CreateLines, Taking, Place

LEMMA FreeGoesDown ==
  ASSUME NEW line \in FreeingLines
  PROVE  Place[FreeingLine(line).next] > Place[line]
BY CreateDomain, FreeingDomain
   DEF FreeingLines, FreeingLine, UndoLines, FailLabels, DestroyLines, Freeing, Place

(* Creation, each way of undoing it and destruction only go down their      *)
(* lines, whichever line is refused: no label is jumped back to, so each of *)
(* them comes to its end in at most as many steps as it has lines.          *)
THEOREM LinesGoDown == Spec => [][GoesDown]_vars
<1>1. [Next]_vars => [GoesDown]_vars
  <2>. SUFFICES ASSUME [Next]_vars PROVE GoesDown
    OBVIOUS
  <2>1. CASE Take \/ Refused \/ Skip
    BY <2>1, TakeGoesDown DEF Take, Refused, Skip, GoesDown
  <2>2. CASE Free
    BY <2>2, FreeGoesDown DEF Free, GoesDown
  <2>3. CASE Assign \/ Destroy
    <3>1. Place["ready"] > Place["assign"] /\ Place["destroy_parallel"] > Place["ready"]
      BY DEF Place
    <3>. QED BY <2>3, <3>1 DEF Assign, Destroy, GoesDown
  <2>4. CASE Signal \/ Run \/ RunFromCallback \/ RunStep \/ FinishRun \/ UNCHANGED vars
    BY <2>4 DEF Signal, Run, RunFromCallback, RunStep, Refuse, Enter, FinishInit, FinishCleanup, FinishRun,
                vars, resourceVars, GoesDown
  <2>. QED BY <2>1, <2>2, <2>3, <2>4 DEF Next, CreateStep, GoesDown
<1>. QED BY <1>1, PTL DEF Spec

\* The states in the order an application goes through them.
StateRank == [CREATED |-> 1, INITIALIZED |-> 2, RUNNING |-> 3, STOPPING |-> 4, STOPPED |-> 5]

\* On an application that stays: its state goes on, or what its run has done stays as it is.
Onward ==
  pc = "ready" /\ pc' = "ready" =>
    \/ StateRank[state'] > StateRank[state]
    \/ UNCHANGED <<state, calls, failed, successes>>

(* No call of bc_runtime_run, from outside or from a callback, and no       *)
(* signal takes an application back to a state it has left: a step that     *)
(* calls a callback, or records what one answered, is one that goes on to   *)
(* a later state, so a stopped application never calls its callbacks again. *)
THEOREM StateGoesOnward == Spec => [][Onward]_vars
<1>1. IInv /\ [Next]_vars => [Onward]_vars
  <2>. SUFFICES ASSUME IInv, [Next]_vars, pc = "ready", pc' = "ready" PROVE Onward
    BY DEF Onward
  <2>1. CASE Create \/ CreateStep \/ Destroy
    BY <2>1, CreateDomain, FreeingDomain
       DEF Create, CreateStep, Take, Refused, Skip, Free, Assign, Destroy, FreeingLines
  <2>2. CASE Signal \/ Run \/ RunFromCallback \/ Refuse \/ UNCHANGED vars
    BY <2>2 DEF Signal, Run, RunFromCallback, Refuse, vars, runVars, Onward
  <2>3. CASE Enter
    BY <2>3 DEF Enter, MayRun, StateRank, Onward
  <2>4. CASE FinishInit
    <3>1. state = "INITIALIZED"
      BY <2>4, PhaseAt DEF FinishInit, At, IInv
    <3>. QED BY <2>4, <3>1 DEF FinishInit, StateRank, Onward
  <2>5. CASE FinishRun
    <3>1. state = "RUNNING"
      BY <2>5, PhaseAt DEF FinishRun, At, IInv
    <3>. QED BY <2>5, <3>1 DEF FinishRun, StateRank, Onward
  <2>6. CASE FinishCleanup
    <3>1. state = "STOPPING"
      BY <2>6, PhaseAt DEF FinishCleanup, At, IInv
    <3>. QED BY <2>6, <3>1 DEF FinishCleanup, StateRank, Onward
  <2>. QED BY <2>1, <2>2, <2>3, <2>4, <2>5, <2>6 DEF Next, RunStep
<1>. QED BY <1>1, Invariance, PTL DEF Spec

\* The signal handler's flag while the handler is there.
SignalsAreKept == signalled => stop_requested
StopStays == stop_requested /\ ~stop_requested' => installed = {} /\ activations = <<>>

(* No signal is forgotten: the flag that bc_runtime_should_stop reads is    *)
(* set by the first one and stays set, through the rest of creation and     *)
(* through the run; it is only clear again in a handler just created, when  *)
(* none is installed and nothing runs.                                      *)
THEOREM SignalsAreRemembered == Spec => []SignalsAreKept /\ [][StopStays]_vars
<1>1. Init => SignalsAreKept
  BY DEF Init, SignalsAreKept
<1>2. SignalsAreKept /\ [Next]_vars => SignalsAreKept'
  BY DEF SignalsAreKept, Next, Create, CreateStep, Take, KeepsFlag, Refused, Skip, Free, Assign, Destroy, Signal,
         Run, RunFromCallback, RunStep, Refuse, Enter, FinishInit, FinishCleanup, FinishRun, vars, signalVars
<1>3. IInv /\ [Next]_vars => [StopStays]_vars
  <2>. SUFFICES ASSUME IInv, [Next]_vars, stop_requested, ~stop_requested'
                PROVE  installed = {} /\ activations = <<>>
    BY DEF StopStays
  <2>1. Take /\ pc = "signal"
    BY DEF Next, Create, CreateStep, Take, KeepsFlag, Refused, Skip, Free, Assign, Destroy, Signal,
           Run, RunFromCallback, RunStep, Refuse, Enter, FinishInit, FinishCleanup, FinishRun, vars, signalVars
  <2>2. "signal" \notin live
    BY <2>1, HeldInCreate DEF IInv, ResourceInv
  <2>. QED BY <2>1, <2>2 DEF IInv, ResourceInv, RunInv
<1>. QED BY <1>1, <1>2, <1>3, Invariance, PTL DEF Spec
=============================================================================
