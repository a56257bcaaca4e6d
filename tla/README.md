# bc-runtime in TLA+

A verification development for bc-runtime, the application runtime of the bc-*
libraries: TLA+ modules translated from its C sources, TLC configurations that
check them on small instances, and TLAPS proofs of what matters most for every
instance. Every component that keeps state is modelled and has theorems.

## 1. The system

bc-runtime is a static C11 library. A program fills in a configuration and
three callbacks, creates an *application*, runs it, and destroys it. Around
that flow the library offers a configuration store, logging, an error
collector for parallel jobs, metrics, and a command-line parser.

| Component | Source | State | Operations |
|---|---|---|---|
| lifecycle | `app/bc_runtime_lifecycle.c`, `app/bc_runtime_accessors.c` | memory context, application, signal handler, parallel context, `state`, callbacks | create, run, destroy; should_stop, current_state, ... |
| error collector | `app/bc_runtime_error_collector.c` | array of records, relaxed atomic counter, spin lock | create, append, count, flush_to_stderr, destroy |
| configuration store | `config/bc_runtime_config.c:10-289` | array of entries, count, capacity, `sorted`, an arena for the strings | create, set, append, sort, lookup, destroy |
| configuration loading | `config/bc_runtime_config.c:291-521` | none of its own | load_file, load_environment, load_arguments |
| typed getters | `config/bc_runtime_config.c:523-753` | none | get_string, get_integer, get_boolean |
| log | `log/bc_runtime_log.c` | atomic level, atomic count of messages, per-worker buffers (bytes, position, entries, overflows, level copy) | log, set_level, buffer_create, log_to_buffer, drain, buffer_destroy |
| metrics | `metrics/bc_runtime_metrics.c` | none | get_metrics |
| command line | `cli/bc_runtime_cli.c` | none; it fills the store its caller passes | parse, print help, print version |

**How they interact.** `bc_runtime_create` calls the configuration loaders,
which call `bc_runtime_config_store_set` (the file first, then the
environment, then the arguments, so that the later overrides the earlier),
then the sort, which makes the store readable. The command line fills
the store its caller passes with set and append and sorts it; every caller in the
repository passes one it has just created. The log and the metrics live in
fields of the application. Worker threads share the error collector, the log
level, the log counter and stderr; each log buffer belongs to one worker.
The signal handler sets one flag that `bc_runtime_should_stop` reads.
Allocation, the writer of stderr, the signal handler and the threads are
external libraries (bc-allocators, bc-core, bc-concurrency), modelled as they
are used here: an allocation may be refused, a write may fail halfway.

**What is hard.** The append under a spin lock with a counter read outside it;
the level and the counter shared by loggers and drains; a drain that meets an
error on one buffer of several; the unwinding of fifteen fallible steps of
creation; callbacks that call back into `bc_runtime_run`; signals during
creation and init; the `sorted` flag that every write has to keep truthful; a
growth that succeeds before a copy that fails; the halving search.

**What makes each component correct.** The collector: appends are atomic, none
is lost or doubled, all return. The lifecycle: all or nothing, no use after
free, callbacks once and in order, signals end the run. The store: a map that
is readable when sorted. The loaders: the last layer wins, an error is not
taken for success. The getters: the number that was written, or a refusal.
The log: a message is on stderr, in a buffer, or its loss is told, and the
counter counts what is on stderr. The command line: every option at most once
unless it is a list, required ones present, defaults last.

## 2. Modules

| Module | What it is |
|---|---|
| `ErrorLog` | abstract: a log whose appends take effect at one instant |
| `ErrorCollector` | the collector, one action per shared access; implements `ErrorLog` |
| `ErrorCollectorProofs` | its theorems |
| `ConfigMap` | abstract: a map that is readable when sorted, one operator per call |
| `ConfigStore` | the store, one action per call, one per turn of the lookup loop; does call by call what `ConfigMap` says |
| `ConfigStoreProofs` | its theorems, and those of `LoadedStore` |
| `ConfigSort` | the merge sort, one action per turn of its loops; implements the step `Sort` of `ConfigStore` |
| `ConfigSortProofs` | its theorems |
| `ConfigLoad` | the file's, environment's and arguments' loaders over a `ConfigMap` |
| `ConfigLoadProofs` | its theorems |
| `LoadedStore` | `ConfigLoad` over `ConfigStore`: creation fills the array, the application looks keys up in it; implements `ConfigLoad` |
| `TypedGetters` | the conversions of a value to a long or a boolean |
| `TypedGettersProofs` | its theorems |
| `CliParse` | the command-line parser over a `ConfigMap` |
| `CliParseProofs` | its theorems |
| `Lifecycle` | create, its unwinding, run, destroy, signals |
| `LifecycleProofs` | its theorems |
| `Log` | direct logging, level changes, buffers, drains |
| `LogProofs` | its theorems |
| `MC...` | definitions TLC needs for each instance |

`PROJECT.json` lists for every definition the lines it translates.

### ErrorCollector

State: `records` is the typed array, `append_lock` the atomic flag,
`total_count` the counter. Each worker has a `pc` in
`bc_runtime_error_collector_append`: `MeasurePath` is the check of the path
(line 65), `Lock` a test-and-set that finds the flag clear (a spin that finds
it set changes nothing), `PushReserve`/`PushStore` the push of the typed array,
which may be refused memory, `CountRecord` the fetch-add (line 79), `Unlock`
the clear, `Return` the answer. Create and Destroy are the owner's. The flush
has three actions: it reads length and data pointer, hands lines to a writer
that may fail at each, and closes the writer, which may fail too, in which
case only the first of the lines reached the descriptor. Lines are whole here: the
code writes a line in several pieces, so that after a failure the last one on
stderr may be torn, which is below the grain of the model.

The push is split in two although it runs under the lock: were the lock
broken, two pushes would meet. The atomics are relaxed except those of the
lock; the lock's acquire and release order everything the counter and the
array are compared under, so actions over one shared memory are faithful.

The flush does not take the lock. Its callers flush after they joined their
workers, and the model has that as a guard (`Quiescent`). `Destroy` is the same.

### Lifecycle

Creation, its unwinding and destruction are tables of lines: what a line
takes, what it dereferences, where it goes next and where it goes if refused.
`Take`, `Refused`, `Skip` and `Free` interpret them. `config_store_create` and
`load_file` have their own unwinding, in the same tables. The loading of the
environment and arguments takes nothing; it may fail. `bc_runtime_run` is a
stack of activations, since a callback may call it again; one action per
assignment of `state` with the callback call that follows it. A signal may
come between any two actions once a handler is installed.

Assumed of the callbacks: init and cleanup return; the run callback returns
once `bc_runtime_should_stop` answers true.

### ConfigStore

A key is a number, as the comparison of entries is a total order on keys
and nothing else of their text matters. A value is the sequence of the items given
under its key: `append` joins with a separator. `Set` and `AppendItem` are
atomic (one thread uses a store) and have each way of failing: the refused
allocation that changes nothing and the one that leaves a grown array behind.
`Sort` is abstracted to any ordered rearrangement, which `ConfigSort` shows the
loop to be; `LookupProbe` is one turn of the search loop. The string primitives
of bc-core are taken to succeed on the strings they are given.

### ConfigSort

`bc_runtime_config_store_sort` from its allocation to its return. `AllocateBuffer`
or `NoBuffer` is the temporary buffer obtained or refused; `BeginMerge` and
`MergeEnds` are the inner loop over pairs of runs; `TakeLeft` and `TakeRight` are
the turns of the three loops of `merge_entries`; `CopyBack` is the copy of the
whole buffer over the array, with the doubling of the width. A slot of the
buffer that nothing was written to holds `Garbage`, and since the copy takes
all of it, `TypeOK` and `NothingLostNorTwice` say that each pass has written
every slot. Keys are distinct, as they are in a store (`UniqueKeys`).

### ConfigLoad

The three loaders as `bc_runtime_create` calls them, and the sort. The store
they fill is an instance of `ConfigMap`: `ConfigStore` does what its operators
say, so what holds here holds over the array. An input is a sequence of keys, with `NoKey`
for an entry its loader skips; the value of an entry is its place, so that the
checks see which entry decided. The file is read by a loop with a
doubling buffer, a turn of which is `MakeRoom` and `Read`. What `fread` gives is
the environment's choice (`Gives`): some of what is left and fits, or nothing,
which it does at the end of the file, after an error, and when it is given no
room. The loop takes nothing for the end of the file, so a read error looks like
one and may cut the last line inside its value, and a buffer left full would too. A set that fails is ignored for a
line of the file and ends the loading for the other two. Arguments are counted
from `argv[1]`. The limit of 4095 characters on lines and keys is left out.

### LoadedStore

The composition of the loaders with the array. `ConfigLoad` takes the store for
a map whose calls are atomic; here each step of a loader that writes is a call
of `Set`, with the search for the key, the growth and the refusals of the array,
and the loader goes on as the value that call returned tells it (`SetLine`,
`SetEntry`). `SortLoaded` ends creation, and `LookUp` is what an application does
afterwards, a turn of the halving search at a time: `bc_runtime.h` gives it
nothing that writes. The loaders are an instance of `ConfigLoad` with the map read
off the array, so their control is stated once.

### TypedGetters

A text is a sign and digits of a base, with one more character for whatever is
no digit, or one of the words booleans are read from, spelled in lower case or
not. The base and the width of a long are constants: the size_t that gathers
the digits has one bit more than a positive long, whatever that is. `ReadDigit`
is a turn of the loop with its three overflow checks, `AnswerInteger` the
negation in size_t and the cast. `IsIntegerText` and `IsBooleanText` are what
the command line accepts for the two types, so that the two ends of a typed
option are compared: the parser minds the case of a boolean and lets an integer
of any size pass, the getter reads any case and refuses what is no long.

### CliParse

One state machine for `bc_runtime_cli_parse` and the functions it calls. `pc`
is the phase, `index` the argument or the option the phase is at. `Assign` is
the whole of `bc_runtime_cli_handle_assignment`: the option is looked up in the
scope in force, its value validated, its key built, the store written, the
option marked as seen; any of these may end the parse, and every call of the
store may be refused. `ApplyDefault` is one turn of
`bc_runtime_cli_apply_defaults`. The store is a `ConfigMap`;
it is the caller's, and the model takes it to be new, as it is in every call the
repository makes.

Names are sequences of parts, so that keys can coincide as they do in the code
(a command named `global`, or names with dots), and a part takes two bytes, so
that the buffers of keys and prefixes can be too small. The last phase but two
builds the command's prefix again without a check of its length
(`cli.c:564`): for a name that does not fit, the outcome is the status
`undefined`. Two options of one name are allowed; the first is the one found.
An enumeration without a list of allowed values allows all. The branch that
reports a malformed option is left out: no argument reaches it.

What a command line asks for is defined without the loop, from the places of
the words and of `--` (`OptionsEnd`, `CommandPlace`, `Given`, `Stops`), and what
an option promises is what its line of help says (`HelpLine`). The two
properties compare the parser with these.

### Log

A direct log call is read-level-and-format, write, count. A write that failed
may have put its message out or not. A buffer holds records with the place and
the size each has; a record that does not fit is counted in `overflow_count`.
A drain goes through the buffers it is given: warn of the overflow, dump,
count, reset; a failed dump may have put out any first part of the buffer.
Buffers are used by their worker or by a drain, never both: the code does not
keep them apart, so this too is the callers' joining of workers (`Usable`).
Creating a buffer may be refused, which changes nothing and is a stutter.

## 3. What is checked

| Run | Instance | What it shows |
|---|---|---|
| `collector` | 2 workers, 2 appends each, 2 flushes | the counter is never ahead and at most one behind; no accepted record is lost or doubled; a flush prints the records or, after an error, the first of them; every append returns; appends are atomic (refinement of `ErrorLog`) |
| `lifecycle` | every refusal, 8 sets of callbacks, 2 re-entrant calls | no use after free, all or nothing and lifetimes that nest, callback order and `state` as seen inside callbacks, one success at most; a signal ends the run |
| `config_store` | 4 keys, 2 items, capacity from 1, values of 2 items | one entry for a key and room for all (`ArrayIsSound`), truthful flag, search window; every call does to the map what its name and its answer say, and a lookup answers with what is stored under its key (`EachCallAnswers`); lookups end |
| `config_load` | 2 keys (one out of the environment's reach), up to 3 lines, 2 variables, 2 arguments, buffer from 1 line | no read is given a full buffer, so the whole file is read unless a read fails; the last layer naming a key decides; loading ends |
| `loaded_store` | 3 keys (one in the environment's reach), 2 lines, 1 variable, 1 argument, capacity from 1 | through loading, growth, refusals, sort and search a getter answers with the entry of the last layer |
| `config_sort` | every array of up to 5 entries | every pass merges and loses nothing; the sort returns; it is the one step of `ConfigStore` |
| `typed_getters` | base 3, longs of 5 bits, up to 5 digits | the integer is the number or is refused; what the parser accepted is read |
| `cli_parse` | 4 programs, 12 arguments, command lines of up to 4, two options at most, buffers of 4 bytes | the status, command and positionals are those asked for; the store holds what help says; a failure leaves nothing readable; the parse ends |
| `log_drains` | 1 thread, 2 buffers (symmetric), 2 messages each, 2 drains | no silent loss; order per source and nothing twice |
| `log_threads` | 2 threads (symmetric), 1 buffer, records of 1 and 2 in 3 bytes, 2 drains | whole records in the buffer; the counter against stderr |
| `log_levels` | 1 thread, 1 buffer, 2 levels | nothing is written above every level the application had |
| `log_counter` | 1 thread, 1 buffer | *violated*: see section 6 |

**Why these bounds are enough to mean something.** Two workers are the
least with a holder of the lock and a waiter, and no more are needed to see two
pushes meet; what a third could add is covered by the proofs, which hold for any
number. Two appends each let one worker's records be confused and let a failed
push come before a good one. Two flushes let the second differ from the first.
In `loaded_store` the array starts with room for one entry, so that three keys
make it grow twice, and every key can be named by two layers. In `config_load` the buffer starts at one line, so that
a file of three fills it, grows it and fills it again, and two entries per layer
let a key be named twice in one layer and in all three. The store grows twice
from one to four, so that
an addition meets a full array, one just grown and one with room, and a search
over four entries turns both ways. A buffer of three bytes and records of one
and two takes a full buffer, an exact fit and an overflow; two drains of two
buffers in either order let a failure come before a success. Five entries take
three passes, with a last run that is short and one that has no neighbour.
Five digits of base three reach 242, past a `size_t` of five bits (31) and past
the least and the greatest long (-16 and 15). Four arguments are a global
option, a command, an option of its own and a positional, or any disorder of
them; the four programs have each type of option, required and with defaults,
keys that coincide, a key and a prefix too long, a command with one option too
many, and two options of one name in either order.

**Deadlock** is checked for the lifecycle and the store. The collector and
the log stop when their bounded calls are used up, so their configurations turn
that check off, as do sorting, the getters and the parser, which are one call
each, and loading, which ends, with the lookups after it when it succeeds.

**Slips.** Definitions marked "slip" are wrong forms of the definition that
follows them, each a plausible mistake: put in place of the right one, each
makes one property fail, which shows that the property depends on the code it
speaks of.

**Fairness.** A worker inside an append and a flush in progress keep running
(`WF` of their steps): they are threads the system schedules. Weak fairness of
the lock step suffices because calls are finitely many; with unbounded calls
the test-and-set lock would allow starvation, and the property is not claimed
there. The lifecycle's thread keeps running and the run callback is fair only
once a stop was requested. A lookup in progress, the loaders and the sort keep
running. That a parse ends needs no fairness of its own: `AlwaysAdvances` says
that every step moves on in a finite order.

## 4. What is proved

All proofs hold for every value of the constants under the named assumptions
(`CollectorAssumption`, `StoreAssumption`, `SortAssumption`, `LoadAssumption`,
`LoadedAssumption`, `GetterAssumption`, `ParseAssumption`, `ReentriesAssumption`,
`LogAssumption`).
These say little: bounds are naturals, keys are naturals, an initial capacity is
positive, a base is at least two, sizes are positive, texts and specifications
have their fields, and the values the loaders give are among those the store takes. Where the list below has a number it is a bound of the code
that the proof leaves free.

**`ErrorCollectorProofs`**: every invariant of `collector`, mutual
exclusion (`LockIsExclusive`), the order of each worker's records
(`WorkerOrder`) and the refinement of `ErrorLog`. The inductive invariant adds
what ties a worker's program counter to the shared state: while a worker is
between the reading of the length and the store its slot is the array's
length; the counter is one short exactly when a worker has stored and not
counted; records carry numbers no greater than their worker's last call; and
no record of a call in progress is in the array before its store. Mutual
exclusion alone is not inductive without "a holder implies the flag". The
converse, that the flag implies a holder (`LockIsHeld`), is proved as well: no
way out of an append leaves the lock set. With it, of the workers inside an
append there is always one that is not waiting (`SomeoneGoesOn`), and a call
takes at most seven steps of its worker that no other worker undoes
(`AppendsAdvance`).

**`ConfigStoreProofs`**: every property of `config_store` but that
lookups end. The inductive invariant is the conjunction of the invariants: a search is only
right because the flag is truthful, and strict order needs unique keys. The
sort step is proved from its abstraction, a bijection that yields an ordered
array. `EachCallAnswersAlways` is the contract of the store against `ConfigMap`,
call by call: a write that returned true is what a later lookup finds, one that
returned false changed no answer, and a lookup answers with what is stored under
the key it was called with, or with nothing while the store is not sorted. It
needs the search window: when the window is empty the key is nowhere.
Beyond the invariants of the run: a turn of the search at least halves the window
(`SearchHalves`), and the array takes at most twice the room of its entries
(`GrowthStaysBounded`), for which it matters that an array which has grown for an
entry that was then refused is no longer full.

The module also has the theorems of `LoadedStore`. Each step of the composition
that writes is a call of `ConfigStore`, hence, as `EachCallAnswers` says, that
operation of the map, hence a step of `ConfigLoad` (`LoadingRefines`). The invariants of
`ConfigLoadProofs`, instanced over the array, then say which entry is stored for
each key, `EachCallAnswers` says that a lookup answers with it, and the two give
`GettersAnswerAlways`: from the three layers through the refusals, the growth, the
sort and the search to the answer of a getter, for inputs of every length.

**`ConfigSortProofs`**: `PassMerges` and `TypeOK` for arrays of every length,
and that the whole call is that step of `ConfigStore`, so that the chain from the
loop of the merge sort to `ConfigMap` is closed by proof. Three facts make the
invariant inductive: pairs of runs start at multiples of twice the width
(`Aligned`), the array stays a rearrangement of the one given (`Rearranged`),
and what a merge has written is less than what it has yet to take (`MergeInv`).
The permutation of the refinement is read off the distinct keys. `SortAdvances`
says that every step goes on to a later merge or a wider pass.

**`ConfigLoadProofs`**: every invariant of `config_load`. What is loaded of each
layer is a function of the phase (`FileDone`, `EnvironmentDone`,
`ArgumentsDone`), and the invariant is the property itself over what is loaded
so far: the last entry among those decides. That the whole file is read rests on
the buffer having room whenever `fread` is called (`Phased`), which is what the
doubling is for: nothing given is then the end of the file or an error.
`LoadingAdvances` bounds the steps, the reading loop with its growing buffer
included.

**`TypedGettersProofs`**: both properties of `typed_getters`, for every base, every
width of a long and texts of every length. The digits gathered are the number
their prefix denotes, which needs the equation of the recursive function
`Prefixes`; this is had from the existence of a least counterexample, as
induction over an operator is not available. A number that has left the range
never returns to it, as prefixes only grow.

**`CliParseProofs`**: every property of `cli_parse`, for every specification of
options and every command line. In the loop the invariant compares the state
with the line as a whole: no place passed is one of `Stops`, the command is
chosen once `CommandPlace` is passed, an option is seen when it is given at a
place passed, and its key holds what the places passed call for. Each later
phase adds what it has checked (`CompleteBefore`), and a default counts once its
phase has passed the option (`Defaulted`). `CheckedOrDefaultAlways` relates the
store to the checks: after a success what is stored under an option of one value
is an argument that passed the check of that option's type, or its default. The
code does not check defaults, so no more than that can be said.

**`LifecycleProofs`**: every invariant of `lifecycle`. What is held is a function
of the line the program is on (`Held`): the tables of lines are consistent with
it, line by line, and all or nothing follows. For the run, `state` decides which
callbacks were called, which failed and which frames there are: at most a call
of `bc_runtime_run` that has not looked at `state` yet, on top of the callback that
made it (`Phase`). Beyond the invariants of the run: creation, unwinding and
destruction only go down their lines (`LinesGoDown`), `state` only goes onward and
a callback is called only by a step that takes it onward (`StateGoesOnward`), and
the stop flag stays set once a signal set it (`SignalsAreRemembered`).

**`LogProofs`**: every invariant of the log runs that hold.
`BufferHoldsItsRecords` is the arithmetic of records end to end. Order rests on
what comes later: what a thread is about to write, and what a buffer holds
unless it has just been put out, has a greater number than anything of its
source on stderr (`OrderInv`). Silence rests on stderr only growing and on a
drain's answer covering the buffers it has put out (`SilenceInv`). The counter
never ahead is inductive as it stands once what is about to be counted is added
to it: the threads between write and count, and the buffer just put out. A drain
goes through its array once, in the order warning, writing, counting, emptying,
whatever runs beside it (`DrainsAdvance`), and returns with all of its buffers
empty, also those whose write failed (`DrainsLeaveAllEmpty`).

**Only model-checked**: the liveness properties (`EveryAppendReturns`,
`SignalsStopTheRun`, `LookupEnds`, `LoadingEnds`, `SortReturns`), as fairness is out
of the prover's reach. The safety half of the argument for each is proved for
every instance: `AppendsAdvance` and `WorkersNeverAllWait`, `SignalsAreRemembered`
with `StateGoesOnward`, `SearchHalves`, `LoadingAdvances`, `SortAdvances`,
`DrainsAdvance` and, for the parser, `AdvancesAlways`. Each says that a step goes on
in a finite order; that steps are taken is the fairness.

**Only proved**: the properties named in this section that no run lists. TLC found
each to hold on the instance of its component's run before it was proved.

## 5. What is not modelled, and why

- Metrics: reads of other components' fields, no state.
- The accessors other than those that read `state` and the stop flag: they
  return a field.
- The printing of help and version: layout. What help says of an option is in
  `HelpLine`; the buffer it writes through is external.
- Timestamps, prefixes, the text of error lines: layout, no property is about
  them.
- Memory: the arenas and pools are external; storage appears as the resources
  of `Lifecycle` and as refusals elsewhere.
- A flush or a drain that races with workers, and two threads in
  `bc_runtime_run`: the code has no guard against them and nothing in the
  repository does it. `PROJECT.json` lists the first two as hazards with that
  note, and a buffer destroyed before it is drained, which loses what it holds.

## 6. Divergence

`log_messages_written` is the public metric of messages written
(`include/public/bc_runtime.h:55`), and `bc_runtime_log` counts a message only
after its write succeeded. `bc_runtime_log_drain` adds the buffer's entries
also when the write failed (`log/bc_runtime_log.c:268-271`), then discards
them: run `log_counter` shows the counter ahead of stderr after one refused
write. `CounterNeverAhead` states what does hold: no drain failed, no excess.

## 7. Plan

Done: every component that keeps state, each with its theorems; the chain from
the merge sort over the array of entries to the map that the loaders and the
parser use; the loaders over the array, down to the answer of a getter.

Left: the parser over the array, as `LoadedStore` does it for the loaders, with
`append` as a second writer; a composition of `Lifecycle` with `ConfigLoad` in one
instance, so that a loader's failure meets the unwinding with its real cause
(today `Lifecycle` lets each loader fail at will, which covers every such case);
and a check of the byte layer of the loaders (lines, trimming, the limit of 4095
characters), which is cheaper to test than to model.
