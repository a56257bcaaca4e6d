------------------------------ MODULE CliParse ------------------------------
(***************************************************************************)
(* bc_runtime_cli_parse of src/cli/bc_runtime_cli.c: one pass over the     *)
(* arguments, then the defaults, then the sort, over the ConfigMap that    *)
(* ConfigStore implements.  Each call of the store may be refused.         *)
(*                                                                         *)
(* A name is the sequence of its parts between dots, so that the key of an *)
(* option is its prefix and its name joined, and two options may share a   *)
(* key as they may in the code.  Every part is one character long: n parts *)
(* take 2n bytes with the closing NUL.  A value is a string; the texts the *)
(* parser takes for an integer or a boolean are constants.  The arguments  *)
(* are those from argv[1] on.  The store is the caller's; it is taken to   *)
(* be new, as it is wherever the repository calls the parser.              *)
(*                                                                         *)
(* One bound: MaxArguments.                                                *)
(*                                                                         *)
(* A definition marked "slip" is a wrong form of the one after it, with    *)
(* which the properties below are tested; no specification uses it.        *)
(***************************************************************************)
EXTENDS Naturals, Sequences

CONSTANTS
  Programs,          \* the specifications that may be given
  Arguments,         \* what may stand in argv
  MaxArguments,
  Values,
  NoValue,
  IntegerTexts,
  BooleanTexts,
  MaxOptions,        \* 64 in the code
  KeyBufferSize      \* 256 in the code

OptionTypes == {"string", "integer", "boolean", "enum", "flag", "list"}

Option(name, type, allowed, default, required) ==
  [name |-> name, type |-> type, allowed |-> allowed, default |-> default, required |-> required]

Command(name, options, min, max) ==
  [name |-> name, options |-> options, positional_min |-> min, positional_max |-> max]

Argument(kind, name, value) == [kind |-> kind, name |-> name, value |-> value]

Names == Seq(STRING) \ {<<>>}

OptionSpecs ==
  [ name : Names, type : OptionTypes, allowed : SUBSET Values, default : Values \cup {NoValue}, required : BOOLEAN ]

CommandSpecs == [name : Names, options : Seq(OptionSpecs), positional_min : Nat, positional_max : Nat]

ASSUME ParseAssumption ==
  /\ \A p \in Programs : p \in [globals : Seq(OptionSpecs), commands : Seq(CommandSpecs)]
  /\ \A a \in Arguments :
       a \in [kind : {"option", "word", "separator"}, name : Names, value : Values \cup {NoValue}]
  /\ NoValue \notin Values /\ "true" \in Values
  /\ IntegerTexts \subseteq Values /\ BooleanTexts \subseteq Values
  /\ MaxArguments \in Nat /\ MaxOptions \in Nat /\ KeyBufferSize \in Nat

VARIABLES
  program, arguments,      \* the inputs
  pc,
  index,                   \* the next argument, then the next option to default
  command,                 \* <<>> or <<the command chosen>>
  seen,                    \* for each scope, the options that were given
  positional_start,        \* 0 if no positional has started
  status, parsed,          \* what is returned
  refused,                 \* history: the store refused a call
  map, readable, reply

inputVars  == <<program, arguments>>
storeVars  == <<map, readable, reply>>
resultVars == <<status, parsed>>
vars == <<inputVars, pc, index, command, seen, positional_start, resultVars, refused, storeVars>>

\* The two arrays of options and the prefixes of their keys.
Scopes == {"global", "command"}
Options(scope) == IF scope = "global" THEN program.globals ELSE command[1].options
Prefix(scope)  == IF scope = "global" THEN <<"global">> ELSE command[1].name

Key(prefix, name) == prefix \o name

Keys ==
  UNION { { Key(<<"global">>, p.globals[i].name) : i \in DOMAIN p.globals }
          \cup UNION { { Key(p.commands[c].name, p.commands[c].options[i].name)
                         : i \in DOMAIN p.commands[c].options } : c \in DOMAIN p.commands }
          : p \in Programs }
Items == Values

Store == INSTANCE ConfigMap

NothingParsed == [command |-> <<>>, positionals |-> <<>>]

Init ==
  /\ program \in Programs
  /\ arguments \in UNION { [1 .. n -> Arguments] : n \in 0 .. MaxArguments }
  /\ pc = "check"
  /\ index = 1
  /\ command = <<>>
  /\ seen = [scope \in Scopes |-> {}]
  /\ positional_start = 0
  /\ status = "none"
  /\ parsed = NothingParsed
  /\ refused = FALSE
  /\ Store!MapInit

-----------------------------------------------------------------------------
GoTo(step) ==
  /\ pc' = step
  /\ index' = 1
  /\ UNCHANGED <<inputVars, command, seen, positional_start, resultVars, refused, storeVars>>

Return(s) ==
  /\ pc' = "done"
  /\ status' = s
  /\ UNCHANGED <<inputVars, index, command, seen, positional_start>>

Error == Return("error") /\ UNCHANGED <<parsed, refused, storeVars>>

StoreRefuses == Return("error") /\ Store!Fail /\ refused' = TRUE /\ UNCHANGED parsed

\* The arrays of flags on the stack hold MaxOptions each.
TooManyOptions ==
  \/ Len(program.globals) > MaxOptions
  \/ \E c \in DOMAIN program.commands : Len(program.commands[c].options) > MaxOptions

CheckCounts ==
  /\ pc = "check"
  /\ IF TooManyOptions THEN Error ELSE GoTo("arguments")

-----------------------------------------------------------------------------
(* The loop over the arguments.                                             *)

Current == arguments[index]
AtArgument(kind) == pc = "arguments" /\ index <= Len(arguments) /\ Current.kind = kind

StepForgotten == index' = index                         \* slip: continue without the step
StepPastOption == index' = index + 1

StayInLoop == UNCHANGED <<inputVars, pc, positional_start, resultVars, refused>>
NextArgument == index' = index + 1 /\ StayInLoop

First(places) == CHOOSE i \in places : \A j \in places : i <= j
Called(named, name) == { i \in DOMAIN named : named[i].name = name }

Bytes(name) == 2 * Len(name)
KeyFits(prefix, name) == Bytes(Key(prefix, name)) <= KeyBufferSize
PrefixFits(name) == Bytes(name) + 1 <= KeyBufferSize    \* the closing dot comes on top

\* Only flags go without a value, and bc_runtime_cli_validate_value.
Accepts(o, value) ==
  IF o.type = "flag" THEN value = NoValue
  ELSE /\ value # NoValue
       /\ o.type = "enum"    => value \in o.allowed
       /\ o.type = "integer" => value \in IntegerTexts
       /\ o.type = "boolean" => value \in BooleanTexts

HelpName == <<"help">>
VersionName == <<"version">>
Builtin(a) == a.kind = "option" /\ a.name \in {HelpName, VersionName}

Help ==
  /\ AtArgument("option") /\ Current.name = HelpName
  /\ Return(IF command = <<>> THEN "help global" ELSE "help command")
  /\ parsed' = [NothingParsed EXCEPT !.command = command]
  /\ UNCHANGED <<refused, storeVars>>

Version ==
  /\ AtArgument("option") /\ Current.name = VersionName
  /\ Return("version")
  /\ UNCHANGED <<parsed, refused, storeVars>>

\* bc_runtime_cli_handle_assignment.
MarkSeenAt(scope, i) == seen' = [seen EXCEPT ![scope] = @ \cup {index}]   \* slip: the argument's index
MarkSeen(scope, i) == seen' = [seen EXCEPT ![scope] = @ \cup {i}]

Write(o, k, value) ==
  CASE o.type = "flag" -> Store!Put(k, "true")
    [] o.type = "list" -> Store!Extend(k, value)
    [] OTHER           -> Store!Put(k, value)

Assign ==
  /\ AtArgument("option") /\ ~Builtin(Current)
  /\ LET scope == IF command = <<>> THEN "global" ELSE "command"
         found == Called(Options(scope), Current.name)
         i     == First(found)
         o     == Options(scope)[i]
         legal == /\ scope = "command" => PrefixFits(command[1].name)
                  /\ found # {}
                  /\ Accepts(o, Current.value)
                  /\ KeyFits(Prefix(scope), o.name)
     IN  \/ ~legal /\ Error
         \/ /\ legal
            /\ Write(o, Key(Prefix(scope), o.name), Current.value)
            /\ MarkSeen(scope, i)
            /\ StepPastOption
            /\ StayInLoop
            /\ UNCHANGED command
         \/ legal /\ StoreRefuses

ChooseCommand ==
  /\ AtArgument("word") /\ command = <<>>
  /\ LET found == Called(program.commands, Current.name)
     IN  \/ found = {} /\ Error
         \/ /\ found # {}
            /\ command' = <<program.commands[First(found)]>>
            /\ NextArgument
            /\ UNCHANGED <<seen, storeVars>>

AfterArguments == IF command = <<>> THEN Error ELSE GoTo("global")

StartPositionals(start) ==
  IF command = <<>> THEN Error
  ELSE /\ pc' = "global"
       /\ index' = 1
       /\ positional_start' = start
       /\ UNCHANGED <<inputVars, command, seen, resultVars, refused, storeVars>>

SeparatorKept == AtArgument("separator") /\ StartPositionals(index)   \* slip: "--" left in
Separator == AtArgument("separator") /\ StartPositionals(index + 1)

FirstPositional == AtArgument("word") /\ command # <<>> /\ StartPositionals(index)

ArgumentsEnd == pc = "arguments" /\ index > Len(arguments) /\ AfterArguments

-----------------------------------------------------------------------------
(* bc_runtime_cli_apply_defaults, for the global options and then for the   *)
(* command's.  The command's prefix is built between the two with no check  *)
(* of its length: one too long overruns its array, which is undefined.      *)

DefaultEvenSeen(scope) == FALSE                          \* slip: defaults written over
Skipped(scope) == index \in seen[scope]

ApplyDefault(scope) ==
  /\ pc = scope
  /\ index <= Len(Options(scope))
  /\ LET o     == Options(scope)[index]
         unset == ~o.required /\ o.default = NoValue
     IN  \/ /\ Skipped(scope) \/ unset
            /\ NextArgument
            /\ UNCHANGED <<command, seen, storeVars>>
         \/ /\ ~Skipped(scope)
            /\ o.required \/ (~unset /\ ~KeyFits(Prefix(scope), o.name))
            /\ Error
         \/ /\ ~Skipped(scope) /\ ~o.required /\ ~unset
            /\ KeyFits(Prefix(scope), o.name)
            /\ \/ /\ Store!Put(Key(Prefix(scope), o.name), o.default)
                  /\ NextArgument
                  /\ UNCHANGED <<command, seen>>
               \/ StoreRefuses

DefaultsEnd(scope) ==
  /\ pc = scope
  /\ index > Len(Options(scope))
  /\ \/ scope = "command" /\ GoTo("positionals")
     \/ scope = "global" /\ PrefixFits(command[1].name) /\ GoTo("command")
     \/ /\ scope = "global" /\ ~PrefixFits(command[1].name)
        /\ Return("undefined")
        /\ UNCHANGED <<parsed, refused, storeVars>>

-----------------------------------------------------------------------------
Positionals ==
  IF positional_start = 0 THEN <<>> ELSE SubSeq(arguments, positional_start, Len(arguments))

CountFits(c, n) == n >= c.positional_min /\ (c.positional_max > 0 => n <= c.positional_max)

ErrorAfterSort ==                                       \* slip: sorted before the check
  Return("error") /\ Store!MakeReadable /\ UNCHANGED <<parsed, refused>>
CountError == Error

CountPositionals ==
  /\ pc = "positionals"
  /\ IF CountFits(command[1], Len(Positionals)) THEN GoTo("sort") ELSE CountError

Sort ==
  /\ pc = "sort"
  /\ \/ /\ Store!MakeReadable
        /\ Return("ok")
        /\ parsed' = [command |-> command, positionals |-> Positionals]
        /\ UNCHANGED refused
     \/ StoreRefuses

-----------------------------------------------------------------------------
ArgumentStep ==
  Help \/ Version \/ Assign \/ ChooseCommand \/ Separator \/ FirstPositional \/ ArgumentsEnd

DefaultStep == \E scope \in Scopes : ApplyDefault(scope) \/ DefaultsEnd(scope)

Next == CheckCounts \/ ArgumentStep \/ DefaultStep \/ CountPositionals \/ Sort

Spec == Init /\ [][Next]_vars

-----------------------------------------------------------------------------
(* What help prints of an option, layout aside.                             *)
HelpLine(o) ==
  [ takes_value |-> o.type # "flag",
    required    |-> o.required,
    default     |-> IF o.required THEN NoValue ELSE o.default,
    repeatable  |-> o.type = "list" ]

-----------------------------------------------------------------------------
(* Every variable stays in its type.                                        *)
TypeOK ==
  /\ program \in Programs
  /\ arguments \in Seq(Arguments)
  /\ pc \in {"check", "arguments", "positionals", "sort", "done"} \cup Scopes
  /\ index \in Nat \ {0}
  /\ command = <<>> \/ \E c \in DOMAIN program.commands : command = <<program.commands[c]>>
  /\ seen \in [Scopes -> SUBSET Nat]
  /\ \A scope \in Scopes : seen[scope] # {} =>
       (scope = "global" \/ command # <<>>) /\ seen[scope] \subseteq DOMAIN Options(scope)
  /\ positional_start \in 0 .. Len(arguments) + 1
  /\ status \in {"none", "ok", "help global", "help command", "version", "error", "undefined"}
  /\ parsed \in [command : {<<>>, command}, positionals : Seq(Arguments)]
  /\ refused \in BOOLEAN
  /\ map \in [Keys -> Seq(Seq(Values))]
  /\ readable \in BOOLEAN
  /\ reply \in [ok : BOOLEAN, value : Seq(Seq(Values))]

-----------------------------------------------------------------------------
(* What the arguments ask for, read off them without the loop.  Options end *)
(* at the first "--" or the second word; the first word is the command.     *)

Places(kind) == { i \in DOMAIN arguments : arguments[i].kind = kind }

EndPlaces == Places("separator") \cup { i \in Places("word") : \E j \in Places("word") : j < i }
OptionsEnd == IF EndPlaces = {} THEN Len(arguments) + 1 ELSE First(EndPlaces)

Words == { i \in Places("word") : i < OptionsEnd }
CommandPlace == IF Words = {} THEN OptionsEnd ELSE First(Words)

AskedCommands == { c \in DOMAIN program.commands :
                     \E i \in Words : program.commands[c].name = arguments[i].name }
AskedCommand == program.commands[First(AskedCommands)]

AskedOptions(scope) ==
  IF scope = "global" THEN program.globals
  ELSE IF AskedCommands = {} THEN <<>> ELSE AskedCommand.options

AskedPrefix(scope) == IF scope = "global" THEN <<"global">> ELSE AskedCommand.name

AskedPositionals ==
  SubSeq(arguments, IF OptionsEnd \in Places("separator") THEN OptionsEnd + 1 ELSE OptionsEnd,
         Len(arguments))

\* Where the options of a scope stand, and where one of them is given.
ScopePlaces(scope) == IF scope = "global" THEN 1 .. CommandPlace - 1 ELSE CommandPlace + 1 .. OptionsEnd - 1
Given(scope, name) == { i \in ScopePlaces(scope) : arguments[i].name = name }

\* Of two options with one name in a scope, the first is meant.
IsMeant(scope, j, name) ==
  LET named == Called(AskedOptions(scope), name) IN named # {} /\ j = First(named)

Legal(i) ==
  LET a     == arguments[i]
      scope == IF i < CommandPlace THEN "global" ELSE "command"
  IN  IF a.kind = "word" THEN AskedCommands # {}
      ELSE \E j \in DOMAIN AskedOptions(scope) :
             LET o == AskedOptions(scope)[j]
             IN  /\ IsMeant(scope, j, a.name)
                 /\ Accepts(o, a.value)
                 /\ KeyFits(AskedPrefix(scope), o.name)
                 /\ scope = "command" => PrefixFits(AskedCommand.name)

\* The arguments that end the parse where they stand.
Stops == { i \in 1 .. OptionsEnd - 1 : Builtin(arguments[i]) \/ ~Legal(i) }

CompleteAt(scope, i) ==
  LET o == AskedOptions(scope)[i]
  IN  \/ Given(scope, o.name) # {} /\ IsMeant(scope, i, o.name)
      \/ ~o.required /\ (o.default = NoValue \/ KeyFits(AskedPrefix(scope), o.name))

Complete(scope) == \A i \in DOMAIN AskedOptions(scope) : CompleteAt(scope, i)

StopVerdict(i) ==
  IF ~Builtin(arguments[i]) THEN "error"
  ELSE IF arguments[i].name = VersionName THEN "version"
  ELSE IF i < CommandPlace THEN "help global" ELSE "help command"

Verdict ==
  IF TooManyOptions THEN "error"
  ELSE IF Stops # {} THEN StopVerdict(First(Stops))
  ELSE IF Words = {} \/ ~Complete("global") THEN "error"
  ELSE IF ~PrefixFits(AskedCommand.name) THEN "undefined"
  ELSE IF Complete("command") /\ CountFits(AskedCommand, Len(AskedPositionals)) THEN "ok"
  ELSE "error"

(* The status is the one the arguments call for: the first help, version or *)
(* mistake decides, a word or "--" ends the options, and a correct command  *)
(* line is refused only when the store refuses.  On success the command and *)
(* the positionals returned are the ones asked for.                         *)
StatusFollowsArguments ==
  pc = "done" =>
    /\ status = Verdict \/ (refused /\ status = "error")
    /\ status = "ok" => parsed = [command |-> <<AskedCommand>>, positionals |-> AskedPositionals]

KeyOf(scope, i) == Key(AskedPrefix(scope), AskedOptions(scope)[i].name)

KeyIsOwn(scope, i) ==
  \A other \in Scopes : \A j \in DOMAIN AskedOptions(other) :
    KeyOf(other, j) = KeyOf(scope, i) => other = scope /\ j = i

\* A sequence has the values given at some places, in the order of the places.
InOrder(s, places) ==
  \E at \in [1 .. Len(s) -> places] :
    /\ \A i, j \in 1 .. Len(s) : i < j => at[i] < at[j]
    /\ \A p \in places : \E i \in 1 .. Len(s) : at[i] = p
    /\ \A i \in 1 .. Len(s) : s[i] = arguments[at[i]].value

\* What help leads one to expect under the key of an option given at some places.
AsHelpSays(line, given, value) ==
  IF given = {} THEN value = IF line.default = NoValue THEN <<>> ELSE <<<<line.default>>>>
  ELSE IF ~line.takes_value THEN value = <<<<"true">>>>
  ELSE IF line.repeatable THEN Len(value) = 1 /\ InOrder(value[1], given)
  ELSE \E i \in given : (\A j \in given : j <= i) /\ value = <<<<arguments[i].value>>>>

(* After a success the store can be read and holds what help says of each   *)
(* option: one marked required was given, a default stands where nothing    *)
(* was given and only there, a repeatable option has all its values in      *)
(* order, any other its last, and one that was not given and has no default *)
(* is absent.  Options whose keys coincide (a command named "global", or    *)
(* names with dots) are excepted: they overwrite each other.                *)
StoreHoldsWhatHelpSays ==
  status = "ok" =>
    /\ readable
    /\ \A scope \in Scopes : \A i \in DOMAIN AskedOptions(scope) :
         LET o     == AskedOptions(scope)[i]
             line  == HelpLine(o)
             given == Given(scope, o.name)
         IN  /\ line.required => given # {}
             /\ KeyIsOwn(scope, i) => AsHelpSays(line, given, map[KeyOf(scope, i)])

(* A parse that does not succeed leaves nothing behind that can be read,    *)
(* whatever it had stored when it stopped.                                  *)
UnreadUnlessOk == readable => status = "ok"

(* Every step of the parse takes it further: to the next argument or option *)
(* of a phase, or to a later phase.  So every parse ends.                   *)
Phases == <<"check", "arguments", "global", "command", "positionals", "sort", "done">>
Phase(step) == CHOOSE n \in DOMAIN Phases : Phases[n] = step
AlwaysAdvances == [][Phase(pc') > Phase(pc) \/ (pc' = pc /\ index' > index)]_vars
=============================================================================
