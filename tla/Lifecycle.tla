------------------------------ MODULE Lifecycle ------------------------------
(***************************************************************************)
(* src/app/bc_runtime_lifecycle.c: an application is built from resources  *)
(* that are taken one by one, any of which may be refused, runs its three  *)
(* callbacks once, and is taken apart again.  Signals arrive at any moment *)
(* once their handler is installed, and a callback may call bc_runtime_run *)
(* on the application it is given.                                         *)
(*                                                                         *)
(* Creation, its unwinding and destruction are two tables: the code is     *)
(* straight-line, and what matters is what each line takes, frees and      *)
(* dereferences, and where it goes when it fails.  The store's contents    *)
(* are ConfigStore's subject; here loading only succeeds or fails.         *)
(*                                                                         *)
(* One bound: MaxReentries calls of bc_runtime_run from callbacks.         *)
(*                                                                         *)
(* A definition marked "slip" is a wrong form of the one after it, with    *)
(* which the properties below are tested; no specification uses it.        *)
(***************************************************************************)
EXTENDS Naturals, Sequences

CONSTANT MaxReentries

ASSUME ReentriesAssumption == MaxReentries \in Nat

Callbacks == {"init", "run", "cleanup"}

VARIABLES
  pc,              \* the line of create or destroy; "absent", "ready"
  live,            \* resources held
  installed,       \* signals whose handler is installed
  stop_requested,  \* the flag of the signal handler
  signalled,       \* history: a signal reached that handler
  state,           \* application->state
  callbacks,       \* which of application->callbacks are not NULL
  activations,     \* bc_runtime_run's frames, the innermost first
  reentries,       \* calls of bc_runtime_run from callbacks
  calls,           \* history: callbacks called
  failed,          \* history: callbacks that returned false
  successes        \* history: calls of bc_runtime_run that returned true

resourceVars == <<pc, live, installed>>
runVars      == <<state, callbacks, activations, reentries, calls, failed, successes>>
signalVars   == <<stop_requested, signalled>>
vars         == <<resourceVars, signalVars, runVars>>

-----------------------------------------------------------------------------
(* The tables.  A line that takes: what it takes, what it dereferences,     *)
(* where it goes, where it goes if refused, and where it goes if the        *)
(* configuration makes it unnecessary ("never" if it always runs).          *)

Taking(t, u, n, f, s) == [takes |-> t, uses |-> u, next |-> n, fail |-> f, skip |-> s]
Freeing(t, u, n)      == [frees |-> t, uses |-> u, next |-> n]

StoreParts == {"store", "arena", "entries"}

CreateLines ==
  [ context     |-> Taking({"context"}, {}, "app", "absent", "never"),
    app         |-> Taking({"app"}, {"context"}, "signal", "fail_memory_context", "never"),
    signal      |-> Taking({"signal"}, {"context", "app"}, "sigint", "fail_application", "never"),
    sigint      |-> Taking({}, {"app", "signal"}, "sigterm", "fail_signal_handler", "never"),
    sigterm     |-> Taking({}, {"app", "signal"}, "store", "fail_signal_handler", "never"),
    store       |-> Taking({"store"}, {"context", "app"}, "arena", "fail_signal_handler", "never"),
    arena       |-> Taking({"arena"}, {"context", "store"}, "entries", "undo_store", "never"),
    entries     |-> Taking({"entries"}, {"context", "store"}, "open", "undo_arena", "never"),
    open        |-> Taking({"file"}, {"app"}, "file_buffer", "fail_config_store", "environment"),
    file_buffer |-> Taking({"file_buffer"}, {"context"}, "read", "close_unread", "never"),
    read        |-> Taking({}, {"context", "file", "file_buffer"}, "close_file", "drop_buffer", "never"),
    environment |-> Taking({}, StoreParts, "arguments", "fail_config_store", "never"),
    arguments   |-> Taking({}, StoreParts, "sort", "fail_config_store", "sort"),
    sort        |-> Taking({"sort_temp"}, {"context", "store"}, "unsort", "fail_config_store", "parallel"),
    parallel    |-> Taking({"parallel"}, {"context", "app"}, "assign", "fail_config_store", "never") ]

\* Lines that release: the failing tails of config_store_create and load_file,
\* the labels at the end of bc_runtime_create, and bc_runtime_destroy.
UndoLines ==
  [ undo_arena   |-> Freeing("arena", {"store"}, "undo_store"),
    undo_store   |-> Freeing("store", {"context"}, "fail_signal_handler"),
    drop_buffer  |-> Freeing("file_buffer", {"context"}, "close_unread"),
    close_unread |-> Freeing("file", {}, "fail_config_store"),
    close_file   |-> Freeing("file", {}, "parse_file"),
    parse_file   |-> Freeing("file_buffer", {"context"} \cup StoreParts, "environment"),
    unsort       |-> Freeing("sort_temp", {"context", "store", "entries"}, "parallel") ]

FailLabels ==
  [ fail_config_store   |-> Freeing("arena", {"app", "store"}, "fail_entries"),
    fail_entries        |-> Freeing("entries", {"context", "store"}, "fail_store"),
    fail_store          |-> Freeing("store", {"context"}, "fail_signal_handler"),
    fail_signal_handler |-> Freeing("signal", {"app"}, "fail_application"),
    fail_application    |-> Freeing("app", {"context"}, "fail_memory_context"),
    fail_memory_context |-> Freeing("context", {}, "absent") ]

DestroyLines ==
  [ destroy_parallel |-> Freeing("parallel", {"app"}, "destroy_signal"),
    destroy_signal   |-> Freeing("signal", {"app"}, "destroy_arena"),
    destroy_arena    |-> Freeing("arena", {"app", "store"}, "destroy_entries"),
    destroy_entries  |-> Freeing("entries", {"context", "store"}, "destroy_store"),
    destroy_store    |-> Freeing("store", {"context"}, "destroy_app"),
    destroy_app      |-> Freeing("app", {"context"}, "destroy_context"),
    destroy_context  |-> Freeing("context", {}, "absent") ]

FreeingLine(line) ==
  CASE line \in DOMAIN UndoLines    -> UndoLines[line]
    [] line \in DOMAIN FailLabels   -> FailLabels[line]
    [] line \in DOMAIN DestroyLines -> DestroyLines[line]

FreeingLines == DOMAIN UndoLines \cup DOMAIN FailLabels \cup DOMAIN DestroyLines

-----------------------------------------------------------------------------
Init ==
  /\ pc = "absent"
  /\ live = {} /\ installed = {}
  /\ stop_requested = FALSE /\ signalled = FALSE
  /\ state = "CREATED" /\ callbacks = {}
  /\ activations = <<>> /\ reentries = 0
  /\ calls = <<>> /\ failed = {} /\ successes = 0

Create ==
  /\ pc = "absent"
  /\ pc' = "context"
  /\ UNCHANGED <<live, installed, signalVars, runVars>>

\* Both signals use one handler, whose flag is clear when it is created.
KeepsFlagUntilParallel(line) == line \notin {"signal", "parallel"}   \* slip: cleared again
KeepsFlag(line) == line # "signal"
Installs(line) == CASE line = "sigint" -> {"SIGINT"} [] line = "sigterm" -> {"SIGTERM"} [] OTHER -> {}

Take ==
  /\ pc \in DOMAIN CreateLines
  /\ LET line == CreateLines[pc]
     IN  /\ live' = live \cup line.takes
         /\ pc' = line.next
         /\ installed' = installed \cup Installs(pc)
         /\ stop_requested' = (KeepsFlag(pc) /\ stop_requested)
         /\ signalled' = (pc # "signal" /\ signalled)
  /\ UNCHANGED runVars

\* slip: a failed bc_runtime_config_store_create goes to the wrong label
RefusedToStoreLabel ==
  /\ pc \in DOMAIN CreateLines
  /\ pc' = IF pc = "store" THEN "fail_config_store" ELSE CreateLines[pc].fail
  /\ UNCHANGED <<live, installed, signalVars, runVars>>

\* slip: returns without fclose
RefusedLeavesFile ==
  /\ pc \in DOMAIN CreateLines
  /\ pc' = IF pc = "file_buffer" THEN "fail_config_store" ELSE CreateLines[pc].fail
  /\ UNCHANGED <<live, installed, signalVars, runVars>>

Refused ==
  /\ pc \in DOMAIN CreateLines
  /\ pc' = CreateLines[pc].fail
  /\ UNCHANGED <<live, installed, signalVars, runVars>>

\* No configuration file, no arguments, or at most one entry to sort.
Skip ==
  /\ pc \in DOMAIN CreateLines
  /\ CreateLines[pc].skip # "never"
  /\ pc' = CreateLines[pc].skip
  /\ UNCHANGED <<live, installed, signalVars, runVars>>

\* slip: the application is destroyed before the store it points to
FreeAppEarly ==
  /\ pc \in FreeingLines
  /\ LET line == FreeingLine(pc)
     IN  /\ live' = live \ {line.frees}
         /\ pc' = IF pc = "destroy_signal" THEN "destroy_app" ELSE line.next
         /\ installed' = IF line.frees = "signal" THEN {} ELSE installed
  /\ UNCHANGED <<signalVars, runVars>>

Free ==
  /\ pc \in FreeingLines
  /\ LET line == FreeingLine(pc)
     IN  /\ live' = live \ {line.frees}
         /\ pc' = line.next
         /\ installed' = IF line.frees = "signal" THEN {} ELSE installed
  /\ UNCHANGED <<signalVars, runVars>>

Assign ==
  /\ pc = "assign"
  /\ pc' = "ready"
  /\ callbacks' \in SUBSET Callbacks
  /\ state' = "CREATED"
  /\ activations' = <<>> /\ reentries' = 0
  /\ calls' = <<>> /\ failed' = {} /\ successes' = 0
  /\ UNCHANGED <<live, installed, signalVars>>

Destroy ==
  /\ pc = "ready"
  /\ activations = <<>>
  /\ pc' = "destroy_parallel"
  /\ UNCHANGED <<live, installed, signalVars, runVars>>

\* The handler sets its flag, on whichever line the program is.
Signal ==
  /\ installed # {}
  /\ stop_requested' = TRUE
  /\ signalled' = TRUE
  /\ UNCHANGED <<resourceVars, runVars>>

-----------------------------------------------------------------------------
(* bc_runtime_run.  A frame is where it stands and its run_succeeded.       *)

FrameSucceeds(at, ok) == [at |-> at, ok |-> TRUE]   \* slip: run_succeeded starts true
Frame(at, ok) == [at |-> at, ok |-> ok]
Top == Head(activations)
At(point) == pc = "ready" /\ activations # <<>> /\ Top.at = point
Replace(frame) == activations' = <<frame>> \o Tail(activations)

\* Control reaches the call of a callback: it is called unless it is NULL.
Called(callback) == IF callback \in callbacks THEN <<callback>> ELSE <<>>
Reaches(callback) == calls' = calls \o Called(callback)

\* What a callback may answer; one that is NULL counts as a success.
Answers(callback) == IF callback \in callbacks THEN BOOLEAN ELSE {TRUE}

NotFailed(callback, ok) == failed' = IF ok THEN failed ELSE failed \cup {callback}

MayRunUnlessRunning == state # "RUNNING"            \* slip: wrong state tested
MayRun == state = "CREATED"

Run ==
  /\ pc = "ready"
  /\ activations = <<>>
  /\ activations' = <<Frame("entry", FALSE)>>
  /\ UNCHANGED <<resourceVars, signalVars, state, callbacks, reentries, calls, failed, successes>>

InCallback == activations # <<>> /\ Top.at \in callbacks

RunFromCallback ==
  /\ pc = "ready"
  /\ InCallback
  /\ reentries < MaxReentries
  /\ reentries' = reentries + 1
  /\ activations' = <<Frame("entry", FALSE)>> \o activations
  /\ UNCHANGED <<resourceVars, signalVars, state, callbacks, calls, failed, successes>>

Refuse ==
  /\ At("entry")
  /\ ~MayRun
  /\ activations' = Tail(activations)
  /\ UNCHANGED <<resourceVars, signalVars, state, callbacks, reentries, calls, failed, successes>>

Enter ==
  /\ At("entry")
  /\ MayRun
  /\ state' = "INITIALIZED"
  /\ Replace(Frame("init", FALSE))
  /\ Reaches("init")
  /\ UNCHANGED <<resourceVars, signalVars, callbacks, reentries, failed, successes>>

AfterInitRuns(ok) == "run"                          \* slip: init's answer ignored
AfterInitStops(ok) == IF ok THEN "run" ELSE "stop"   \* slip: cleanup skipped
AfterInit(ok) == IF ok THEN "run" ELSE "cleanup"

FinishInit ==
  /\ At("init")
  /\ \E ok \in Answers("init") :
       /\ state' = IF ok THEN "RUNNING" ELSE "STOPPING"
       /\ Replace(Frame(AfterInit(ok), FALSE))
       /\ Reaches(AfterInit(ok))
       /\ NotFailed("init", ok)
  /\ UNCHANGED <<resourceVars, signalVars, callbacks, reentries, successes>>

FinishRun ==
  /\ At("run")
  /\ \E ok \in Answers("run") :
       /\ Replace(Frame("cleanup", ok))
       /\ NotFailed("run", ok)
  /\ state' = "STOPPING"
  /\ Reaches("cleanup")
  /\ UNCHANGED <<resourceVars, signalVars, callbacks, reentries, successes>>

FinishCleanup ==
  /\ At("cleanup")
  /\ state' = "STOPPED"
  /\ activations' = Tail(activations)
  /\ successes' = IF Top.ok THEN successes + 1 ELSE successes
  /\ UNCHANGED <<resourceVars, signalVars, callbacks, reentries, calls, failed>>

-----------------------------------------------------------------------------
CreateStep == Take \/ Refused \/ Skip \/ Free \/ Assign
RunStep == Refuse \/ Enter \/ FinishInit \/ FinishCleanup

Next ==
  \/ Create \/ CreateStep \/ Destroy \/ Signal
  \/ Run \/ RunFromCallback \/ RunStep \/ FinishRun

Spec == Init /\ [][Next]_vars

\* The thread that calls the library keeps running, init and cleanup return,
\* and a run callback that asks bc_runtime_should_stop returns once told to.
Fairness ==
  /\ WF_vars(CreateStep)
  /\ WF_vars(RunStep)
  /\ WF_vars(FinishRun /\ (stop_requested \/ "run" \notin callbacks))

FairSpec == Spec /\ Fairness

-----------------------------------------------------------------------------
Lines == DOMAIN CreateLines \cup FreeingLines \cup {"absent", "assign", "ready"}

Resources == {"context", "app", "signal", "file", "file_buffer", "sort_temp", "parallel"} \cup StoreParts

States == {"CREATED", "INITIALIZED", "RUNNING", "STOPPING", "STOPPED"}

(* Every variable stays in its type.                                        *)
TypeOK ==
  /\ pc \in Lines
  /\ live \subseteq Resources
  /\ installed \subseteq {"SIGINT", "SIGTERM"}
  /\ stop_requested \in BOOLEAN /\ signalled \in BOOLEAN
  /\ state \in States
  /\ callbacks \subseteq Callbacks
  /\ activations \in Seq([at : {"entry"} \cup Callbacks, ok : BOOLEAN])
  /\ reentries \in 0 .. MaxReentries
  /\ calls \in Seq(Callbacks)
  /\ failed \subseteq Callbacks
  /\ successes \in Nat

\* What a resource was carved from, or is reached through.
Owner(resource) ==
  CASE resource \in {"arena", "entries"} -> "store"
    [] resource \in {"store", "signal", "parallel"} -> "app"
    [] OTHER -> "context"

\* What is carved from another resource is gone before that one is freed.
LifetimesNest ==
  \A r \in live \ {"context", "file"} : Owner(r) \in live

(* No line dereferences or frees what is not held: whichever line of        *)
(* create is refused, the labels it jumps to free each thing once, read no  *)
(* pointer out of storage already freed, and free no storage from under     *)
(* what was carved from it.                                                 *)
NothingUsedAfterFree ==
  /\ LifetimesNest
  /\ pc \in DOMAIN CreateLines => CreateLines[pc].uses \subseteq live
  /\ pc \in FreeingLines => FreeingLine(pc).uses \cup {FreeingLine(pc).frees} \subseteq live

(* bc_runtime_create returns everything an application is made of and       *)
(* nothing temporary, or fails and keeps nothing; so does destroy.          *)
AllOrNothing ==
  /\ pc = "absent" => live = {} /\ installed = {}
  /\ pc \in {"assign", "ready"} =>
       /\ live = Resources \ {"file", "file_buffer", "sort_temp"}
       /\ installed = {"SIGINT", "SIGTERM"}

\* The callbacks a run goes through, whether or not init refuses.
FullPath == Called("init") \o Called("run") \o Called("cleanup")
InitFailedPath == Called("init") \o Called("cleanup")

\* The state bc_runtime_current_state answers inside each callback.
StateIn == [init |-> "INITIALIZED", run |-> "RUNNING", cleanup |-> "STOPPING"]

CallbackSeesItsPhase ==
  \A i \in 1 .. Len(activations) :
    activations[i].at # "entry" => state = StateIn[activations[i].at]

(* Each callback is called at most once in the life of an application,      *)
(* init before run before cleanup, cleanup even when init fails, and run    *)
(* then not at all; also when a callback calls bc_runtime_run again.  A     *)
(* callback that asks for the state is told the phase it is in, during its  *)
(* whole call, also after it called bc_runtime_run in vain.                 *)
CallbacksInOrder ==
  LET path == IF "init" \in failed THEN InitFailedPath ELSE FullPath
  IN  pc = "ready" =>
        /\ CallbackSeesItsPhase
        /\ Len(calls) <= Len(path) /\ calls = SubSeq(path, 1, Len(calls))
        /\ state = "STOPPED" => calls = path

(* bc_runtime_run returns true at most once per application, and then no    *)
(* callback has failed and every one has been called.                       *)
OneSuccessAtMost ==
  pc = "ready" =>
    /\ successes = IF state = "STOPPED" /\ failed = {} THEN 1 ELSE 0
    /\ successes = 1 => calls = FullPath

(* A signal that arrives at any moment after its handler was installed, be  *)
(* it before bc_runtime_run is called, makes a running application stop.    *)
SignalsStopTheRun ==
  (signalled /\ activations # <<>>) ~> (activations = <<>>)
=============================================================================
