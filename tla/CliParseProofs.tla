--------------------------- MODULE CliParseProofs ---------------------------
(***************************************************************************)
(* Theorems about CliParse.  The loop over the arguments is followed       *)
(* against what the whole line asks for: the places before the current one *)
(* are no Stops, the command is chosen once its place is passed, and the   *)
(* store holds what the places passed so far call for.  Each later phase   *)
(* adds what it has checked.                                               *)
(***************************************************************************)
EXTENDS CliParse, SequenceTheorems, WellFoundedInduction, TLAPS

Later == {"global", "command", "positionals", "sort"}

\* The loop.
LoopInv ==
  pc = "arguments" =>
    /\ ~TooManyOptions
    /\ index \in 1 .. OptionsEnd
    /\ \A i \in 1 .. index - 1 : i \notin Stops
    /\ IF command = <<>> THEN index <= CommandPlace
       ELSE CommandPlace < index /\ Words # {} /\ AskedCommands # {} /\ command = <<AskedCommand>>

\* After the loop: what has been found right so far.
ArgumentsRight ==
  /\ ~TooManyOptions /\ Stops = {} /\ Words # {}
  /\ AskedCommands # {} /\ command = <<AskedCommand>>
  /\ Positionals = AskedPositionals

CompleteBefore(scope, n) == \A i \in DOMAIN AskedOptions(scope) : i < n => CompleteAt(scope, i)

PhaseInv ==
  /\ pc \in Later => ArgumentsRight
  /\ pc = "global" => CompleteBefore("global", index)
  /\ pc \in {"command", "positionals", "sort"} => Complete("global") /\ PrefixFits(AskedCommand.name)
  /\ pc = "command" => CompleteBefore("command", index)
  /\ pc \in {"positionals", "sort"} => Complete("command")
  /\ pc = "sort" => CountFits(AskedCommand, Len(AskedPositionals))
  /\ pc # "done" => status = "none" /\ ~readable
  /\ pc = "check" => command = <<>> /\ index = 1
  /\ pc \in {"check", "arguments"} => positional_start = 0

\* The places of the arguments that are handled, and an option's among them.
Handled == IF pc = "check" THEN 1 ELSE IF pc = "arguments" THEN index ELSE OptionsEnd
GivenBefore(scope, name, n) == { i \in Given(scope, name) : i < n }
GivenSoFar(scope, i) == GivenBefore(scope, AskedOptions(scope)[i].name, Handled)

SeenInv ==
  pc # "done" =>
    \A scope \in Scopes : \A i \in Nat :
      i \in seen[scope] <=> /\ i \in DOMAIN AskedOptions(scope)
                            /\ GivenSoFar(scope, i) # {}
                            /\ IsMeant(scope, i, AskedOptions(scope)[i].name)

Defaulted(scope, i) ==
  \/ pc = scope /\ i < index
  \/ pc \in {"positionals", "sort", "done"}
  \/ pc = "command" /\ scope = "global"

\* What help says of an option, its default left out until it has been applied.
LineSoFar(scope, i) ==
  IF Defaulted(scope, i) THEN HelpLine(AskedOptions(scope)[i])
  ELSE [HelpLine(AskedOptions(scope)[i]) EXCEPT !.default = NoValue]

StoreInv ==
  pc # "done" \/ status = "ok" =>
    \A scope \in Scopes : \A i \in DOMAIN AskedOptions(scope) :
      KeyIsOwn(scope, i) => AsHelpSays(LineSoFar(scope, i), GivenSoFar(scope, i), map[KeyOf(scope, i)])

EndInv ==
  /\ StatusFollowsArguments
  /\ UnreadUnlessOk
  /\ status = "ok" => pc = "done" /\ readable /\ Complete("global") /\ Complete("command")

Inv == TypeOK /\ LoopInv /\ PhaseInv /\ SeenInv /\ StoreInv /\ EndInv
-----------------------------------------------------------------------------
(* Choosing the first.                                                      *)

LEMMA FirstIsLeast ==
  ASSUME NEW S \in SUBSET Nat, S # {}
  PROVE  First(S) \in S /\ \A j \in S : First(S) <= j
<1> DEFINE less == OpToRel(<, Nat)
<1>1. IsWellFoundedOn(less, Nat)
  BY NatLessThanWellFounded
<1>2. \A i, j \in Nat : i < j => <<i, j>> \in less
  BY DEF OpToRel
<1> HIDE DEF less
<1>3. PICK m \in S : \A j \in S : <<j, m>> \notin less
  BY <1>1, WFMin
<1>4. \A j \in S : m <= j
  <2> SUFFICES ASSUME NEW j \in S, ~(m <= j) PROVE FALSE
    OBVIOUS
  <2>1. j \in Nat /\ m \in Nat /\ j < m
    OBVIOUS
  <2> QED
    BY <1>2, <1>3, <2>1
<1> QED
  BY <1>3, <1>4 DEF First

LEMMA FirstIs ==
  ASSUME NEW S \in SUBSET Nat, NEW n \in S, \A j \in S : n <= j
  PROVE  First(S) = n
<1>1. First(S) \in S /\ First(S) <= n /\ n <= First(S)
  BY FirstIsLeast
<1>2. First(S) \in Nat /\ n \in Nat
  BY <1>1
<1> QED
  BY <1>1, <1>2

-----------------------------------------------------------------------------
(* What the arguments ask for.                                              *)

\* The inputs have their types.
InputsOK == program \in Programs /\ arguments \in Seq(Arguments)

LEMMA InputTypes ==
  ASSUME InputsOK
  PROVE  /\ program.globals \in Seq(OptionSpecs)
         /\ program.commands \in Seq(CommandSpecs)
         /\ Len(arguments) \in Nat
         /\ DOMAIN arguments = 1 .. Len(arguments)
         /\ \A i \in 1 .. Len(arguments) :
              /\ arguments[i].kind \in {"option", "word", "separator"}
              /\ arguments[i].name \in Names
              /\ arguments[i].value \in Values \cup {NoValue}
<1>1. program \in [globals : Seq(OptionSpecs), commands : Seq(CommandSpecs)]
  BY ParseAssumption DEF InputsOK
<1>2. \A i \in 1 .. Len(arguments) : arguments[i] \in Arguments
  BY DEF InputsOK
<1>3. \A i \in 1 .. Len(arguments) :
        arguments[i] \in [kind : {"option", "word", "separator"}, name : Names, value : Values \cup {NoValue}]
  BY <1>2, ParseAssumption
<1> QED
  BY <1>1, <1>3 DEF InputsOK

LEMMA EndIsFirst ==
  ASSUME InputsOK
  PROVE  /\ OptionsEnd \in 1 .. Len(arguments) + 1
         /\ \A i \in 1 .. OptionsEnd - 1 : i \in 1 .. Len(arguments) /\ i \notin EndPlaces
         /\ OptionsEnd <= Len(arguments) => OptionsEnd \in EndPlaces
<1>1. Len(arguments) \in Nat /\ EndPlaces \subseteq 1 .. Len(arguments)
  BY InputTypes DEF EndPlaces, Places
<1>2. CASE EndPlaces = {}
  BY <1>1, <1>2 DEF OptionsEnd
<1>3. CASE EndPlaces # {}
  <2>1. EndPlaces \in SUBSET Nat
    BY <1>1
  <2>2. OptionsEnd \in EndPlaces /\ \A j \in EndPlaces : OptionsEnd <= j
    BY <1>3, <2>1, FirstIsLeast DEF OptionsEnd
  <2>3. OptionsEnd \in 1 .. Len(arguments)
    BY <1>1, <2>2
  <2>4. \A i \in 1 .. OptionsEnd - 1 : ~(OptionsEnd <= i)
    BY <2>3
  <2> QED
    BY <1>1, <2>2, <2>3, <2>4
<1> QED
  BY <1>2, <1>3

LEMMA WordIsFirst ==
  ASSUME InputsOK
  PROVE  /\ Words = {} => CommandPlace = OptionsEnd
         /\ Words # {} => Words = {CommandPlace} /\ CommandPlace \in 1 .. OptionsEnd - 1
                          /\ arguments[CommandPlace].kind = "word"
         /\ CommandPlace \in 1 .. OptionsEnd
<1>1. OptionsEnd \in 1 .. Len(arguments) + 1 /\ Len(arguments) \in Nat
  BY EndIsFirst, InputTypes
<1>2. Words \subseteq 1 .. OptionsEnd - 1 /\ Words \subseteq Places("word")
  BY <1>1, InputTypes DEF Words, Places
<1>3. CASE Words = {}
  BY <1>1, <1>3 DEF CommandPlace
<1>4. CASE Words # {}
  <2>1. Words \in SUBSET Nat
    BY <1>1, <1>2
  <2>2. CommandPlace \in Words /\ \A j \in Words : CommandPlace <= j
    BY <1>4, <2>1, FirstIsLeast DEF CommandPlace
  <2>3. ASSUME NEW j \in Words, j # CommandPlace PROVE FALSE
    <3>1. CommandPlace < j
      BY <2>1, <2>2, <2>3
    <3>2. j \in EndPlaces
      BY <1>2, <2>2, <3>1 DEF EndPlaces
    <3> QED
      BY <1>2, <3>2, EndIsFirst
  <2>4. Words = {CommandPlace}
    BY <2>2, <2>3
  <2>5. arguments[CommandPlace].kind = "word"
    BY <1>2, <2>2 DEF Places
  <2>6. CommandPlace \in 1 .. OptionsEnd
    BY <1>1, <1>2, <2>2
  <2> QED
    BY <1>2, <1>4, <2>2, <2>4, <2>5, <2>6
<1> QED
  BY <1>3, <1>4

\* Before the end of the options there are the command and options only.
LEMMA OptionsElsewhere ==
  ASSUME InputsOK, NEW i \in 1 .. OptionsEnd - 1
  PROVE  /\ i = CommandPlace => arguments[i].kind = "word"
         /\ i # CommandPlace => arguments[i].kind = "option"
<1>1. i \in 1 .. Len(arguments) /\ i \notin EndPlaces
  BY EndIsFirst
<1>2. arguments[i].kind \in {"option", "word"}
  BY <1>1, InputTypes DEF EndPlaces, Places
<1>3. arguments[i].kind = "word" => i \in Words
  BY <1>1, EndIsFirst, InputTypes DEF Words, Places
<1>4. OptionsEnd # i
  BY EndIsFirst, InputTypes
<1> QED
  BY <1>2, <1>3, <1>4, WordIsFirst

LEMMA AskedTypes ==
  ASSUME InputsOK
  PROVE  /\ Words # {} => AskedCommands = Called(program.commands, arguments[CommandPlace].name)
         /\ AskedCommands # {} => /\ First(AskedCommands) \in DOMAIN program.commands
                                  /\ AskedCommand \in CommandSpecs
         /\ \A scope \in Scopes : AskedOptions(scope) \in Seq(OptionSpecs)
<1>1. Words # {} => AskedCommands = Called(program.commands, arguments[CommandPlace].name)
  BY WordIsFirst DEF AskedCommands, Called
<1>2. ASSUME AskedCommands # {}
      PROVE  First(AskedCommands) \in DOMAIN program.commands /\ AskedCommand \in CommandSpecs
  <2>1. program.commands \in Seq(CommandSpecs)
    BY InputTypes
  <2>2. AskedCommands \subseteq DOMAIN program.commands /\ AskedCommands \in SUBSET Nat
    BY <2>1 DEF AskedCommands
  <2>3. First(AskedCommands) \in DOMAIN program.commands
    BY <1>2, <2>2, FirstIsLeast
  <2> QED
    BY <2>1, <2>3 DEF AskedCommand
<1>3. ASSUME NEW scope \in Scopes PROVE AskedOptions(scope) \in Seq(OptionSpecs)
  <2>1. CASE scope = "global"
    BY <2>1, InputTypes DEF AskedOptions
  <2>2. CASE scope # "global" /\ AskedCommands = {}
    BY <2>2 DEF AskedOptions
  <2>3. CASE scope # "global" /\ AskedCommands # {}
    BY <1>2, <2>3 DEF AskedOptions, CommandSpecs
  <2> QED
    BY <2>1, <2>2, <2>3
<1> QED
  BY <1>1, <1>2, <1>3

LEMMA OptionTypesHold ==
  ASSUME InputsOK, NEW scope \in Scopes, NEW i \in DOMAIN AskedOptions(scope)
  PROVE  /\ i \in Nat
         /\ AskedOptions(scope)[i] \in OptionSpecs
         /\ KeyOf(scope, i) \in Keys
<1>1. AskedOptions(scope) \in Seq(OptionSpecs)
  BY AskedTypes
<1>2. i \in Nat /\ AskedOptions(scope)[i] \in OptionSpecs
  BY <1>1
<1>3. CASE scope = "global"
  <2>1. program \in Programs /\ i \in DOMAIN program.globals
    BY <1>3 DEF InputsOK, AskedOptions
  <2>2. KeyOf(scope, i) \in { Key(<<"global">>, program.globals[n].name) : n \in DOMAIN program.globals }
    BY <1>3, <2>1 DEF KeyOf, AskedPrefix, AskedOptions
  <2> QED
    BY <1>2, <2>1, <2>2 DEF Keys
<1>4. CASE scope = "command"
  <2>1. AskedCommands # {}
    BY <1>4 DEF AskedOptions
  <2> DEFINE c == First(AskedCommands)
  <2>2. program \in Programs /\ c \in DOMAIN program.commands
    BY <2>1, AskedTypes DEF InputsOK
  <2>3. AskedOptions(scope) = program.commands[c].options /\ AskedPrefix(scope) = program.commands[c].name
    BY <1>4, <2>1 DEF AskedOptions, AskedPrefix, AskedCommand
  <2> HIDE DEF c
  <2>4. KeyOf(scope, i) \in { Key(program.commands[c].name, program.commands[c].options[n].name)
                              : n \in DOMAIN program.commands[c].options }
    BY <2>3 DEF KeyOf
  <2> QED
    BY <1>2, <2>2, <2>4 DEF Keys
<1> QED
  BY <1>2, <1>3, <1>4 DEF Scopes

\* The inputs do not change, and nothing that is read off them does.
LEMMA AskedIsFixed ==
  ASSUME UNCHANGED inputVars
  PROVE  /\ OptionsEnd' = OptionsEnd /\ Words' = Words /\ CommandPlace' = CommandPlace
         /\ AskedCommands' = AskedCommands /\ AskedCommand' = AskedCommand
         /\ AskedPositionals' = AskedPositionals /\ Verdict' = Verdict /\ Stops' = Stops
         /\ TooManyOptions' = TooManyOptions
         /\ \A scope : /\ AskedOptions(scope)' = AskedOptions(scope)
                       /\ Complete(scope)' = Complete(scope)
         /\ \A scope, name : Given(scope, name)' = Given(scope, name)
         /\ \A scope, i : /\ KeyOf(scope, i)' = KeyOf(scope, i)
                          /\ KeyIsOwn(scope, i)' = KeyIsOwn(scope, i)
                          /\ CompleteAt(scope, i)' = CompleteAt(scope, i)
         /\ \A scope, i, name : IsMeant(scope, i, name)' = IsMeant(scope, i, name)
<1>1. /\ OptionsEnd' = OptionsEnd /\ Words' = Words /\ CommandPlace' = CommandPlace
      /\ AskedCommands' = AskedCommands /\ AskedCommand' = AskedCommand
      /\ TooManyOptions' = TooManyOptions
  BY DEF inputVars, OptionsEnd, Words, CommandPlace, AskedCommands, AskedCommand, EndPlaces, Places, TooManyOptions
<1>2. /\ AskedPositionals' = AskedPositionals
      /\ \A scope : AskedOptions(scope)' = AskedOptions(scope) /\ AskedPrefix(scope)' = AskedPrefix(scope)
      /\ \A scope, name : Given(scope, name)' = Given(scope, name)
  BY <1>1 DEF inputVars, AskedPositionals, AskedOptions, AskedPrefix, Given, ScopePlaces, Places
<1>3. /\ \A scope, i : KeyOf(scope, i)' = KeyOf(scope, i)
      /\ \A scope, i, name : IsMeant(scope, i, name)' = IsMeant(scope, i, name)
  BY <1>2 DEF KeyOf, IsMeant
<1>4. \A scope, i : /\ KeyIsOwn(scope, i)' = KeyIsOwn(scope, i)
                    /\ CompleteAt(scope, i)' = CompleteAt(scope, i)
  BY <1>2, <1>3 DEF KeyIsOwn, CompleteAt
<1>5. \A scope : Complete(scope)' = Complete(scope)
  BY <1>2, <1>4 DEF Complete
<1>6. \A i : Legal(i)' = Legal(i)
  BY <1>1, <1>2, <1>3 DEF inputVars, Legal
<1>7. Stops' = Stops
  BY <1>1, <1>6 DEF inputVars, Stops
<1>8. Verdict' = Verdict
  BY <1>1, <1>2, <1>5, <1>7 DEF inputVars, Verdict, StopVerdict
<1> QED
  BY <1>1, <1>2, <1>3, <1>4, <1>5, <1>7, <1>8

-----------------------------------------------------------------------------
(* Options and their keys.                                                  *)

LEMMA MeantIsNamed ==
  ASSUME InputsOK, NEW scope \in Scopes, NEW name
  PROVE  /\ Called(AskedOptions(scope), name) \in SUBSET Nat
         /\ Called(AskedOptions(scope), name) # {} =>
              IsMeant(scope, First(Called(AskedOptions(scope), name)), name)
         /\ \A j : IsMeant(scope, j, name) => /\ j \in DOMAIN AskedOptions(scope)
                                              /\ AskedOptions(scope)[j].name = name
<1>1. AskedOptions(scope) \in Seq(OptionSpecs)
  BY AskedTypes
<1>2. Called(AskedOptions(scope), name) \in SUBSET Nat
  BY <1>1 DEF Called
<1>3. ASSUME NEW j, IsMeant(scope, j, name) PROVE j \in Called(AskedOptions(scope), name)
  BY <1>2, <1>3, FirstIsLeast DEF IsMeant
<1> QED
  BY <1>2, <1>3 DEF IsMeant, Called

\* An option whose key is its own is the one its name means.
LEMMA OwnIsMeant ==
  ASSUME InputsOK, NEW scope \in Scopes, NEW i \in DOMAIN AskedOptions(scope), KeyIsOwn(scope, i)
  PROVE  IsMeant(scope, i, AskedOptions(scope)[i].name)
<1> DEFINE name == AskedOptions(scope)[i].name
           first == First(Called(AskedOptions(scope), name))
<1>1. Called(AskedOptions(scope), name) # {}
  BY DEF Called
<1>2. IsMeant(scope, first, name)
  BY <1>1, MeantIsNamed
<1>3. first \in DOMAIN AskedOptions(scope) /\ AskedOptions(scope)[first].name = name
  BY <1>2, MeantIsNamed
<1>4. KeyOf(scope, first) = KeyOf(scope, i)
  BY <1>3 DEF KeyOf
<1>5. first = i
  BY <1>3, <1>4 DEF KeyIsOwn
<1> QED
  BY <1>2, <1>5

-----------------------------------------------------------------------------
(* What a store under the key of an option leaves there.                    *)

Written(o, old, value) ==
  CASE o.type = "flag" -> <<<<"true">>>>
    [] o.type = "list" -> IF old = <<>> THEN <<<<value>>>> ELSE <<Append(old[1], value)>>
    [] OTHER           -> <<<<value>>>>

LEMMA WriteTypes ==
  ASSUME TypeOK, NEW k \in Keys, NEW o \in OptionSpecs, NEW value \in Values \cup {NoValue},
         Accepts(o, value), Write(o, k, value)
  PROVE  /\ map' = [map EXCEPT ![k] = Written(o, map[k], value)]
         /\ map' \in [Keys -> Seq(Seq(Values))]
         /\ readable' \in BOOLEAN /\ (~readable => ~readable')
         /\ reply' \in [ok : BOOLEAN, value : Seq(Seq(Values))]
<1>1. map[k] \in Seq(Seq(Values)) /\ map \in [Keys -> Seq(Seq(Values))] /\ readable \in BOOLEAN
  BY DEF TypeOK
<1>2. \A v \in Values : <<<<v>>>> \in Seq(Seq(Values))
  OBVIOUS
<1>3. \A v \in Values : map[k] # <<>> => <<Append(map[k][1], v)>> \in Seq(Seq(Values))
  <2> SUFFICES ASSUME NEW v \in Values, map[k] # <<>> PROVE <<Append(map[k][1], v)>> \in Seq(Seq(Values))
    OBVIOUS
  <2>1. map[k][1] \in Seq(Values)
    BY <1>1
  <2>2. Append(map[k][1], v) \in Seq(Values)
    BY <2>1
  <2> QED
    BY <2>2
<1>4. o.type # "flag" => value \in Values
  BY DEF Accepts
<1>5. "true" \in Values
  BY ParseAssumption
<1>6. Written(o, map[k], value) \in Seq(Seq(Values))
  BY <1>2, <1>3, <1>4, <1>5 DEF Written
<1>7. /\ map' = [map EXCEPT ![k] = Written(o, map[k], value)]
      /\ readable' = (readable /\ Store!Present(k))
      /\ reply' = [ok |-> TRUE, value |-> <<>>]
  <2>1. CASE o.type = "flag"
    BY <2>1 DEF Write, Written, Store!Put, Store!Write, Store!Reply, Store!Absent
  <2>2. CASE o.type = "list"
    BY <2>2 DEF Write, Written, Store!Extend, Store!Write, Store!Reply, Store!Absent, Store!Present
  <2>3. CASE o.type \notin {"flag", "list"}
    BY <2>3 DEF Write, Written, Store!Put, Store!Write, Store!Reply, Store!Absent
  <2> QED
    BY <2>1, <2>2, <2>3
<1>8. map' \in [Keys -> Seq(Seq(Values))]
  BY <1>1, <1>6, <1>7
<1>9. readable' \in BOOLEAN /\ (~readable => ~readable')
  BY <1>1, <1>7, Zenon DEF Store!Present
<1>10. reply' \in [ok : BOOLEAN, value : Seq(Seq(Values))]
  BY <1>7
<1> QED
  BY <1>7, <1>8, <1>9, <1>10

LEMMA OrderGrows ==
  ASSUME NEW n \in Nat, NEW places, \A i \in places : i \in 1 .. n - 1,
         NEW s \in Seq(Values), InOrder(s, places)
  PROVE  InOrder(Append(s, arguments[n].value), places \cup {n})
<1> DEFINE value == arguments[n].value
           t == Append(s, value)
<1>1. PICK at \in [1 .. Len(s) -> places] :
        /\ \A i, j \in 1 .. Len(s) : i < j => at[i] < at[j]
        /\ \A p \in places : \E i \in 1 .. Len(s) : at[i] = p
        /\ \A i \in 1 .. Len(s) : s[i] = arguments[at[i]].value
  BY DEF InOrder
<1>2. Len(s) \in Nat /\ Len(t) = Len(s) + 1 /\ t[Len(s) + 1] = value
      /\ \A i \in 1 .. Len(s) : t[i] = s[i]
  OBVIOUS
<1> HIDE DEF t
<1> DEFINE to == [i \in 1 .. Len(t) |-> IF i = Len(t) THEN n ELSE at[i]]
<1>3. \A i \in 1 .. Len(t) : i = Len(t) \/ i \in 1 .. Len(s)
  BY <1>2
<1>4. /\ to \in [1 .. Len(t) -> places \cup {n}]
      /\ \A i \in 1 .. Len(s) : i \in 1 .. Len(t) /\ i # Len(t) /\ to[i] = at[i]
      /\ Len(t) \in 1 .. Len(t) /\ to[Len(t)] = n
  BY <1>1, <1>2, <1>3
<1> HIDE DEF to
<1>5. \A i, j \in 1 .. Len(t) : i < j => to[i] < to[j]
  <2> SUFFICES ASSUME NEW i \in 1 .. Len(t), NEW j \in 1 .. Len(t), i < j PROVE to[i] < to[j]
    OBVIOUS
  <2>1. i \in 1 .. Len(s)
    BY <1>2
  <2>2. CASE j = Len(t)
    <3>1. at[i] \in 1 .. n - 1
      BY <1>1, <2>1
    <3> QED
      BY <1>4, <2>1, <2>2, <3>1
  <2>3. CASE j # Len(t)
    BY <1>1, <1>3, <1>4, <2>1, <2>3
  <2> QED
    BY <2>2, <2>3
<1>6. \A p \in places \cup {n} : \E i \in 1 .. Len(t) : to[i] = p
  BY <1>1, <1>4
<1>7. \A i \in 1 .. Len(t) : t[i] = arguments[to[i]].value
  BY <1>1, <1>2, <1>3, <1>4
<1> QED
  BY <1>4, <1>5, <1>6, <1>7 DEF InOrder, t

LEMMA OnlyElement ==
  ASSUME NEW S, NEW q \in Seq(S), Len(q) = 1
  PROVE  q # <<>> /\ q[1] \in S
<1>1. q[1] \in S
  BY ElementOfSeq, 1 \in 1 .. 1
<1>2. q # <<>>
  BY EmptySeq
<1> QED
  BY <1>1, <1>2

LEMMA OrderOfOne ==
  ASSUME NEW n
  PROVE  InOrder(<<arguments[n].value>>, {n})
<1> DEFINE s == <<arguments[n].value>>
           at == [i \in 1 .. 1 |-> n]
<1>1. Len(s) = 1 /\ s[1] = arguments[n].value
  OBVIOUS
<1>2. /\ at \in [1 .. Len(s) -> {n}]
      /\ \A i, j \in 1 .. Len(s) : ~(i < j)
      /\ \A p \in {n} : \E i \in 1 .. Len(s) : at[i] = p
      /\ \A i \in 1 .. Len(s) : s[i] = arguments[at[i]].value
  BY <1>1
<1> QED
  BY <1>2 DEF InOrder

\* One more value, while the default has not been applied.
LEMMA WriteSays ==
  ASSUME NEW o, NEW line, line.takes_value = (o.type # "flag"), line.repeatable = (o.type = "list"),
         line.default = NoValue,
         NEW n \in Nat, NEW given, \A i \in given : i \in 1 .. n - 1,
         NEW old \in Seq(Seq(Values)), AsHelpSays(line, given, old)
  PROVE  AsHelpSays(line, given \cup {n}, Written(o, old, arguments[n].value))
<1>1. given \cup {n} # {}
  OBVIOUS
<1>2. CASE o.type = "flag"
  BY <1>1, <1>2 DEF AsHelpSays, Written
<1>3. CASE o.type = "list" /\ given = {}
  <2>1. old = <<>>
    BY <1>3 DEF AsHelpSays
  <2>2. Written(o, old, arguments[n].value) = <<<<arguments[n].value>>>>
    BY <1>3, <2>1 DEF Written
  <2>3. Len(<<<<arguments[n].value>>>>) = 1 /\ <<<<arguments[n].value>>>>[1] = <<arguments[n].value>>
    OBVIOUS
  <2>4. InOrder(<<arguments[n].value>>, given \cup {n})
    BY <1>3, OrderOfOne
  <2> QED
    BY <1>1, <1>3, <2>2, <2>3, <2>4 DEF AsHelpSays
<1>4. CASE o.type = "list" /\ given # {}
  <2>1. Len(old) = 1 /\ InOrder(old[1], given)
    BY <1>4 DEF AsHelpSays
  <2>2. old # <<>> /\ old[1] \in Seq(Values)
    BY <2>1, OnlyElement
  <2> DEFINE longer == Append(old[1], arguments[n].value)
  <2>3. InOrder(longer, given \cup {n})
    BY <2>1, <2>2, OrderGrows
  <2> HIDE DEF longer
  <2>4. Len(<<longer>>) = 1 /\ <<longer>>[1] = longer
    OBVIOUS
  <2>5. Written(o, old, arguments[n].value) = <<longer>>
    BY <1>4, <2>2 DEF Written, longer
  <2> QED
    BY <1>1, <1>4, <2>3, <2>4, <2>5 DEF AsHelpSays
<1>5. CASE o.type \notin {"flag", "list"}
  <2>1. Written(o, old, arguments[n].value) = <<<<arguments[n].value>>>>
    BY <1>5 DEF Written
  <2>2. n \in given \cup {n} /\ \A j \in given \cup {n} : j <= n
    OBVIOUS
  <2> QED
    BY <1>1, <1>5, <2>1, <2>2 DEF AsHelpSays
<1> QED
  BY <1>2, <1>3, <1>4, <1>5

-----------------------------------------------------------------------------
(* The ways the parse ends without success.                                 *)

LEMMA TypesGive ==
  ASSUME TypeOK
  PROVE  /\ InputsOK /\ index \in Nat \ {0}
         /\ \A scope \in Scopes : seen[scope] \in SUBSET Nat
BY DEF TypeOK, InputsOK

LEMMA EndsBadly ==
  ASSUME Inv, UNCHANGED <<inputVars, index, command, seen, positional_start, map, readable>>,
         pc # "done", pc' = "done",
         status' \in {"help global", "help command", "version", "error", "undefined"},
         status' = Verdict \/ (refused' /\ status' = "error"),
         parsed' \in [command : {<<>>, command}, positionals : Seq(Arguments)],
         refused' \in BOOLEAN, reply' \in [ok : BOOLEAN, value : Seq(Seq(Values))]
  PROVE  Inv'
<1>1. TypeOK'
  <2>1. \A scope : Options(scope)' = Options(scope)
    BY DEF Options, inputVars
  <2> QED
    BY <2>1 DEF Inv, TypeOK, inputVars
<1>2. LoopInv' /\ PhaseInv' /\ SeenInv'
  BY DEF LoopInv, PhaseInv, SeenInv, Later
<1>3. StoreInv'
  BY DEF StoreInv
<1>4. ~readable /\ Verdict' = Verdict
  BY AskedIsFixed DEF Inv, PhaseInv
<1>5. EndInv'
  BY <1>4 DEF EndInv, StatusFollowsArguments, UnreadUnlessOk
<1> QED
  BY <1>1, <1>2, <1>3, <1>5 DEF Inv

LEMMA ErrorStep ==
  ASSUME Inv, pc # "done", Error, Verdict = "error"
  PROVE  Inv'
<1>1. /\ UNCHANGED <<inputVars, index, command, seen, positional_start, map, readable>>
      /\ pc' = "done" /\ status' = "error"
      /\ UNCHANGED <<parsed, refused, reply>>
  BY DEF Error, Return, storeVars
<1>2. /\ parsed \in [command : {<<>>, command}, positionals : Seq(Arguments)]
      /\ refused \in BOOLEAN /\ reply \in [ok : BOOLEAN, value : Seq(Seq(Values))]
  BY DEF Inv, TypeOK
<1> QED
  BY <1>1, <1>2, EndsBadly

LEMMA StoreRefusesStep ==
  ASSUME Inv, pc # "done", StoreRefuses
  PROVE  Inv'
<1>1. /\ UNCHANGED <<inputVars, index, command, seen, positional_start, map, readable, parsed>>
      /\ pc' = "done" /\ status' = "error" /\ refused' = TRUE
      /\ reply' = [ok |-> FALSE, value |-> <<>>]
  BY DEF StoreRefuses, Return, Store!Fail, Store!Reply, Store!Absent
<1>2. reply' \in [ok : BOOLEAN, value : Seq(Seq(Values))]
  BY <1>1
<1>3. parsed \in [command : {<<>>, command}, positionals : Seq(Arguments)]
  BY DEF Inv, TypeOK
<1> QED
  BY <1>1, <1>2, <1>3, EndsBadly

\* In the loop, the first argument that is a stop decides.
LEMMA StopDecides ==
  ASSUME Inv, pc = "arguments", index \in Stops
  PROVE  Verdict = StopVerdict(index)
<1>1. InputsOK /\ index \in Nat
  BY TypesGive DEF Inv
<1>2. OptionsEnd \in Nat
  BY <1>1, EndIsFirst, InputTypes
<1>3. Stops \in SUBSET Nat
  BY <1>2 DEF Stops
<1>4. \A i \in Stops : index <= i
  <2> SUFFICES ASSUME NEW i \in Stops, ~(index <= i) PROVE FALSE
    OBVIOUS
  <2>1. i \in 1 .. OptionsEnd - 1
    BY DEF Stops
  <2>2. i \in 1 .. index - 1
    BY <1>1, <1>2, <2>1
  <2> QED
    BY <2>2 DEF Inv, LoopInv
<1>5. First(Stops) = index
  BY <1>3, <1>4, FirstIs
<1> QED
  BY <1>5 DEF Verdict, Inv, LoopInv

-----------------------------------------------------------------------------
(* Steps that store nothing.                                                *)

LEMMA GivenKept ==
  ASSUME UNCHANGED inputVars, Handled' = Handled
  PROVE  \A scope, i : GivenSoFar(scope, i)' = GivenSoFar(scope, i)
BY AskedIsFixed DEF GivenSoFar, GivenBefore

LEMMA SeenKept ==
  ASSUME Inv, UNCHANGED <<inputVars, seen>>, pc # "done",
         \A scope \in Scopes : \A i : GivenSoFar(scope, i)' = GivenSoFar(scope, i)
  PROVE  SeenInv'
BY AskedIsFixed DEF Inv, SeenInv

LEMMA StoreKept ==
  ASSUME Inv, UNCHANGED <<inputVars, map>>, pc # "done",
         \A scope \in Scopes : \A i : GivenSoFar(scope, i)' = GivenSoFar(scope, i),
         \A scope \in Scopes : \A i \in DOMAIN AskedOptions(scope) : (Defaulted(scope, i)' <=> Defaulted(scope, i))
  PROVE  StoreInv'
<1>2. ASSUME NEW scope \in Scopes, NEW i \in DOMAIN AskedOptions(scope), KeyIsOwn(scope, i)
      PROVE  AsHelpSays(LineSoFar(scope, i)', GivenSoFar(scope, i), map[KeyOf(scope, i)])
  <2>1. LineSoFar(scope, i)' = LineSoFar(scope, i)
    BY AskedIsFixed DEF LineSoFar
  <2>2. AsHelpSays(LineSoFar(scope, i), GivenSoFar(scope, i), map[KeyOf(scope, i)])
    BY <1>2 DEF Inv, StoreInv
  <2> QED
    BY <2>1, <2>2
<1>4. ASSUME NEW scope \in Scopes, NEW i \in (DOMAIN AskedOptions(scope))', KeyIsOwn(scope, i)'
      PROVE  AsHelpSays(LineSoFar(scope, i), GivenSoFar(scope, i), map[KeyOf(scope, i)])'
  <2>1. i \in DOMAIN AskedOptions(scope) /\ KeyIsOwn(scope, i)
    BY <1>4, AskedIsFixed
  <2>2. AsHelpSays(LineSoFar(scope, i)', GivenSoFar(scope, i), map[KeyOf(scope, i)])
    BY <1>2, <2>1
  <2>3. GivenSoFar(scope, i)' = GivenSoFar(scope, i) /\ (map[KeyOf(scope, i)])' = map[KeyOf(scope, i)]
    BY AskedIsFixed
  <2> QED
    BY <2>2, <2>3 DEF AsHelpSays, InOrder, inputVars
<1> QED
  BY <1>4 DEF StoreInv

\* A step that changes neither the command, nor what was seen, nor the result.
LEMMA RunningTypes ==
  ASSUME TypeOK, UNCHANGED <<inputVars, command, seen, resultVars, refused>>,
         pc' \in {"check", "arguments", "positionals", "sort", "done"} \cup Scopes,
         index' \in Nat \ {0}, positional_start' \in 0 .. Len(arguments) + 1,
         map' \in [Keys -> Seq(Seq(Values))], readable' \in BOOLEAN,
         reply' \in [ok : BOOLEAN, value : Seq(Seq(Values))]
  PROVE  TypeOK'
<1>1. \A scope : Options(scope)' = Options(scope)
  BY DEF Options, inputVars
<1>2. UNCHANGED <<program, arguments, status, parsed>>
  BY DEF inputVars, resultVars
<1> QED
  BY <1>1, <1>2 DEF TypeOK

-----------------------------------------------------------------------------
(* The loop over the arguments.                                             *)

Scope == IF command = <<>> THEN "global" ELSE "command"
Named == Called(Options(Scope), Current.name)
Chosen == First(Named)
ChosenOption == Options(Scope)[Chosen]

AssignLegal ==
  /\ Scope = "command" => PrefixFits(command[1].name)
  /\ Named # {}
  /\ Accepts(ChosenOption, Current.value)
  /\ KeyFits(Prefix(Scope), ChosenOption.name)

LEMMA AssignIs ==
  Assign => /\ AtArgument("option") /\ ~Builtin(Current)
            /\ \/ ~AssignLegal /\ Error
               \/ /\ AssignLegal
                  /\ Write(ChosenOption, Key(Prefix(Scope), ChosenOption.name), Current.value)
                  /\ MarkSeen(Scope, Chosen)
                  /\ StepPastOption
                  /\ StayInLoop
                  /\ UNCHANGED command
               \/ AssignLegal /\ StoreRefuses
BY DEF Assign, AssignLegal, Scope, Named, Chosen, ChosenOption

\* An option where the loop stands is one of the options in scope.
LEMMA InScope ==
  ASSUME Inv, AtArgument("option")
  PROVE  /\ InputsOK /\ Scope \in Scopes /\ index \in Nat
         /\ index \in 1 .. OptionsEnd - 1 /\ index # CommandPlace
         /\ index < CommandPlace <=> command = <<>>
         /\ Scope = "command" => command[1] = AskedCommand
         /\ Options(Scope) = AskedOptions(Scope) /\ Prefix(Scope) = AskedPrefix(Scope)
         /\ \A s \in Scopes : index \in ScopePlaces(s) <=> s = Scope
<1>1. InputsOK /\ index \in Nat /\ Len(arguments) \in Nat
  BY TypesGive, InputTypes DEF Inv
<1>2. OptionsEnd \in Nat /\ CommandPlace \in Nat /\ CommandPlace <= OptionsEnd
  BY <1>1, EndIsFirst, WordIsFirst
<1>3. index # OptionsEnd
  <2>1. index \notin EndPlaces
    BY DEF AtArgument, Current, EndPlaces, Places
  <2>2. index <= Len(arguments)
    BY DEF AtArgument
  <2> QED
    BY <1>1, <2>1, <2>2, EndIsFirst
<1>4. index \in 1 .. OptionsEnd - 1
  BY <1>1, <1>2, <1>3 DEF Inv, LoopInv, AtArgument
<1>5. index # CommandPlace
  BY <1>1, <1>4, OptionsElsewhere DEF AtArgument, Current
<1>6. /\ command = <<>> => index < CommandPlace
      /\ command # <<>> => /\ CommandPlace < index
                           /\ AskedCommands # {} /\ command[1] = AskedCommand
  BY <1>1, <1>2, <1>5 DEF Inv, LoopInv, AtArgument
<1>7. index < CommandPlace <=> command = <<>>
  BY <1>1, <1>2, <1>6
<1>8. \A s \in Scopes : index \in ScopePlaces(s) <=> s = Scope
  <2>1. index \in 1 .. CommandPlace - 1 <=> command = <<>>
    BY <1>1, <1>2, <1>4, <1>7
  <2>2. index \in CommandPlace + 1 .. OptionsEnd - 1 <=> command # <<>>
    BY <1>1, <1>2, <1>4, <1>6
  <2> QED
    BY <2>1, <2>2 DEF Scopes, ScopePlaces, Scope
<1> QED
  BY <1>1, <1>4, <1>5, <1>6, <1>7, <1>8 DEF Scope, Scopes, Options, AskedOptions, Prefix, AskedPrefix

\* It ends the parse unless its assignment is legal.
LEMMA LegalIs ==
  ASSUME Inv, AtArgument("option"), ~Builtin(Current)
  PROVE  index \in Stops <=> ~AssignLegal
<1>1. /\ index \in 1 .. OptionsEnd - 1
      /\ index < CommandPlace <=> command = <<>>
      /\ Scope = "command" => command[1] = AskedCommand
      /\ Options(Scope) = AskedOptions(Scope) /\ Prefix(Scope) = AskedPrefix(Scope)
      /\ InputsOK /\ Scope \in Scopes
  BY InScope
<1>2. (IF index < CommandPlace THEN "global" ELSE "command") = Scope
  BY <1>1 DEF Scope
<1>3. Current = arguments[index] /\ Current.kind = "option"
  BY DEF Current, AtArgument
<1>4. \A j : IsMeant(Scope, j, Current.name) <=> Named # {} /\ j = Chosen
  BY <1>1 DEF IsMeant, Named, Chosen
<1>5. Named # {} => Chosen \in DOMAIN AskedOptions(Scope)
  BY <1>1, <1>4, MeantIsNamed
<1>6. Legal(index) <=>
        \E j \in DOMAIN AskedOptions(Scope) :
          /\ IsMeant(Scope, j, Current.name)
          /\ Accepts(AskedOptions(Scope)[j], Current.value)
          /\ KeyFits(AskedPrefix(Scope), AskedOptions(Scope)[j].name)
          /\ Scope = "command" => PrefixFits(AskedCommand.name)
  BY <1>2, <1>3 DEF Legal
<1>7. Legal(index) <=> AssignLegal
  BY <1>1, <1>4, <1>5, <1>6 DEF AssignLegal, ChosenOption
<1> QED
  BY <1>1, <1>3, <1>7 DEF Stops

LEMMA HelpStep == Inv /\ Help => Inv'
<1> SUFFICES ASSUME Inv, Help PROVE Inv'
  OBVIOUS
<1>1. /\ AtArgument("option") /\ Current.name = HelpName /\ pc = "arguments"
      /\ pc' = "done" /\ status' = (IF command = <<>> THEN "help global" ELSE "help command")
      /\ UNCHANGED <<inputVars, index, command, seen, positional_start, map, readable, refused, reply>>
      /\ parsed' = [NothingParsed EXCEPT !.command = command]
  BY DEF Help, Return, storeVars, AtArgument
<1>2. index \in 1 .. OptionsEnd - 1 /\ (index < CommandPlace <=> command = <<>>)
  BY <1>1, InScope
<1>3. Builtin(arguments[index]) /\ arguments[index].name # VersionName
  <2>1. HelpName[1] = "help" /\ VersionName[1] = "version"
    BY DEF HelpName, VersionName
  <2> QED
    BY <1>1, <2>1 DEF Builtin, Current, AtArgument
<1>4. index \in Stops /\ Verdict = StopVerdict(index)
  BY <1>1, <1>2, <1>3, StopDecides DEF Stops
<1>5. status' = Verdict
  BY <1>1, <1>2, <1>3, <1>4 DEF StopVerdict
<1>6. parsed' = [command |-> command, positionals |-> <<>>]
  BY <1>1 DEF NothingParsed
<1>7. parsed' \in [command : {<<>>, command}, positionals : Seq(Arguments)]
  <2>1. <<>> \in Seq(Arguments)
    BY EmptySeq
  <2> QED
    BY <1>6, <2>1
<1>8. refused \in BOOLEAN /\ reply \in [ok : BOOLEAN, value : Seq(Seq(Values))]
  BY DEF Inv, TypeOK
<1> QED
  BY <1>1, <1>5, <1>7, <1>8, EndsBadly

LEMMA VersionStep == Inv /\ Version => Inv'
<1> SUFFICES ASSUME Inv, Version PROVE Inv'
  OBVIOUS
<1>1. /\ AtArgument("option") /\ Current.name = VersionName /\ pc = "arguments"
      /\ pc' = "done" /\ status' = "version"
      /\ UNCHANGED <<inputVars, index, command, seen, positional_start, map, readable, refused, reply, parsed>>
  BY DEF Version, Return, storeVars, AtArgument
<1>2. index \in 1 .. OptionsEnd - 1
  BY <1>1, InScope
<1>3. Builtin(arguments[index]) /\ arguments[index].name = VersionName
  BY <1>1 DEF Builtin, Current, AtArgument
<1>4. index \in Stops /\ Verdict = StopVerdict(index)
  BY <1>1, <1>2, <1>3, StopDecides DEF Stops
<1>5. status' = Verdict
  BY <1>1, <1>3, <1>4 DEF StopVerdict
<1>6. /\ refused \in BOOLEAN /\ reply \in [ok : BOOLEAN, value : Seq(Seq(Values))]
      /\ parsed \in [command : {<<>>, command}, positionals : Seq(Arguments)]
  BY DEF Inv, TypeOK
<1> QED
  BY <1>1, <1>5, <1>6, EndsBadly

LEMMA CheckCountsStep == Inv /\ CheckCounts => Inv'
<1> SUFFICES ASSUME Inv, CheckCounts PROVE Inv'
  OBVIOUS
<1>1. CASE TooManyOptions
  <2>1. Verdict = "error" /\ Error /\ pc # "done"
    BY <1>1 DEF CheckCounts, Verdict
  <2> QED
    BY <2>1, ErrorStep
<1>2. CASE ~TooManyOptions
  <2>1. /\ pc = "check" /\ pc' = "arguments" /\ index' = 1
        /\ UNCHANGED <<inputVars, command, seen, positional_start, resultVars, refused, storeVars>>
    BY <1>2 DEF CheckCounts, GoTo
  <2>2. InputsOK
    BY TypesGive DEF Inv
  <2>3. /\ OptionsEnd \in Nat /\ 1 <= OptionsEnd /\ CommandPlace \in Nat /\ 1 <= CommandPlace
    BY <2>2, EndIsFirst, WordIsFirst, InputTypes
  <2>4. TypeOK'
    <3>1. TypeOK
      BY DEF Inv
    <3>2. UNCHANGED <<map, readable, reply>> /\ index' \in Nat \ {0}
      BY <2>1 DEF storeVars
    <3> QED
      BY <2>1, <3>1, <3>2, RunningTypes DEF TypeOK
  <2>5. LoopInv'
    BY <1>2, <2>1, <2>3, AskedIsFixed DEF Inv, PhaseInv, LoopInv
  <2>6. PhaseInv'
    BY <2>1 DEF Inv, PhaseInv, Later, resultVars, storeVars
  <2>7. Handled' = Handled
    BY <2>1 DEF Handled
  <2>8. SeenInv' /\ StoreInv'
    <3>1. \A scope \in Scopes : \A i \in DOMAIN AskedOptions(scope) : (Defaulted(scope, i)' <=> Defaulted(scope, i))
      BY <2>1 DEF Defaulted, Scopes
    <3> QED
      BY <2>1, <2>7, <3>1, GivenKept, SeenKept, StoreKept DEF storeVars
  <2>9. EndInv'
    BY <2>1 DEF Inv, EndInv, PhaseInv, StatusFollowsArguments, UnreadUnlessOk, resultVars, storeVars
  <2> QED
    BY <2>4, <2>5, <2>6, <2>8, <2>9 DEF Inv
<1> QED
  BY <1>1, <1>2

\* The places handled grow by the argument that is passed.
LEMMA GivenGrows ==
  ASSUME Inv, pc = "arguments", pc' = "arguments", index' = index + 1, UNCHANGED inputVars,
         NEW s \in Scopes, NEW i
  PROVE  /\ \A p \in GivenSoFar(s, i) : p \in 1 .. index - 1
         /\ GivenSoFar(s, i)' = IF index \in Given(s, AskedOptions(s)[i].name)
                                THEN GivenSoFar(s, i) \cup {index} ELSE GivenSoFar(s, i)
<1>1. InputsOK /\ index \in Nat
  BY TypesGive DEF Inv
<1>2. OptionsEnd \in Nat /\ CommandPlace \in 1 .. OptionsEnd
  BY <1>1, EndIsFirst, WordIsFirst, InputTypes
<1>3. \A name : \A p \in Given(s, name) : p \in Nat /\ 1 <= p
  BY <1>2 DEF Given, ScopePlaces
<1> DEFINE given == Given(s, AskedOptions(s)[i].name)
<1>4. given' = given
  BY AskedIsFixed
<1>5. GivenSoFar(s, i) = { p \in given : p < index } /\ GivenSoFar(s, i)' = { p \in given : p < index + 1 }
  BY <1>4, AskedIsFixed DEF GivenSoFar, GivenBefore, Handled
<1>6. \A p \in given : p \in Nat /\ 1 <= p
  BY <1>3
<1> HIDE DEF given
<1>7. \A p \in given : p < index + 1 <=> p < index \/ p = index
  BY <1>1, <1>6
<1>8. \A p \in given : p < index => p \in 1 .. index - 1
  BY <1>1, <1>6
<1>9. GivenSoFar(s, i)' = IF index \in given THEN GivenSoFar(s, i) \cup {index} ELSE GivenSoFar(s, i)
  BY <1>5, <1>7
<1> QED
  BY <1>5, <1>8, <1>9 DEF given

LEMMA StillRunning ==
  ASSUME pc' # "done", status' = "none", ~readable'
  PROVE  EndInv'
BY DEF EndInv, StatusFollowsArguments, UnreadUnlessOk

LEMMA AssignStep == Inv /\ Assign => Inv'
<1> SUFFICES ASSUME Inv, Assign PROVE Inv'
  OBVIOUS
<1>1. /\ AtArgument("option") /\ ~Builtin(Current) /\ pc = "arguments"
      /\ Current = arguments[index]
  BY AssignIs DEF AtArgument, Current
<1>2. CASE ~AssignLegal /\ Error
  <2>1. index \in Stops
    BY <1>1, <1>2, LegalIs
  <2>2. Verdict = "error"
    BY <1>1, <2>1, StopDecides DEF StopVerdict
  <2> QED
    BY <1>1, <1>2, <2>2, ErrorStep
<1>3. CASE StoreRefuses
  BY <1>1, <1>3, StoreRefusesStep
<1>4. CASE /\ AssignLegal
           /\ Write(ChosenOption, Key(Prefix(Scope), ChosenOption.name), Current.value)
           /\ MarkSeen(Scope, Chosen)
           /\ StepPastOption
           /\ StayInLoop
           /\ UNCHANGED command
  <2>1. /\ InputsOK /\ Scope \in Scopes /\ index \in Nat
        /\ index \in 1 .. OptionsEnd - 1 /\ index # CommandPlace
        /\ index < CommandPlace <=> command = <<>>
        /\ Options(Scope) = AskedOptions(Scope) /\ Prefix(Scope) = AskedPrefix(Scope)
        /\ \A s \in Scopes : index \in ScopePlaces(s) <=> s = Scope
    BY <1>1, InScope
  <2>2. /\ pc' = "arguments" /\ index' = index + 1
        /\ UNCHANGED <<inputVars, command, positional_start, resultVars, refused>>
        /\ seen' = [seen EXCEPT ![Scope] = @ \cup {Chosen}]
    BY <1>1, <1>4 DEF StepPastOption, StayInLoop, MarkSeen
  <2>3. IsMeant(Scope, Chosen, Current.name)
    BY <1>4, <2>1, MeantIsNamed DEF AssignLegal, Named, Chosen
  <2>4. Chosen \in DOMAIN AskedOptions(Scope) /\ ChosenOption = AskedOptions(Scope)[Chosen]
        /\ ChosenOption.name = Current.name
    <3>1. Chosen \in DOMAIN AskedOptions(Scope) /\ AskedOptions(Scope)[Chosen].name = Current.name
      BY <2>1, <2>3, MeantIsNamed
    <3>2. ChosenOption = AskedOptions(Scope)[Chosen]
      BY <2>1 DEF ChosenOption
    <3> QED
      BY <3>1, <3>2
  <2>5. Chosen \in Nat /\ ChosenOption \in OptionSpecs /\ KeyOf(Scope, Chosen) \in Keys
    BY <2>1, <2>4, OptionTypesHold
  <2>6. Current.value \in Values \cup {NoValue}
    BY <1>1, <2>1, EndIsFirst, InputTypes
  <2>7. Write(ChosenOption, KeyOf(Scope, Chosen), Current.value) /\ Accepts(ChosenOption, Current.value)
    BY <1>4, <2>1, <2>4 DEF KeyOf, AssignLegal
  <2> DEFINE k == KeyOf(Scope, Chosen)
  <2>8. /\ map' = [map EXCEPT ![k] = Written(ChosenOption, map[k], Current.value)]
        /\ map' \in [Keys -> Seq(Seq(Values))]
        /\ readable' \in BOOLEAN /\ (~readable => ~readable')
        /\ reply' \in [ok : BOOLEAN, value : Seq(Seq(Values))]
    BY <2>5, <2>6, <2>7, WriteTypes DEF Inv
  <2>a. \A q \in Keys : map'[q] = IF q = k THEN Written(ChosenOption, map[q], Current.value) ELSE map[q]
    <3>1. map \in [Keys -> Seq(Seq(Values))]
      BY DEF Inv, TypeOK
    <3> HIDE DEF k
    <3> QED
      BY <2>8, <3>1
  <2>9. \A s \in Scopes : \A i \in DOMAIN AskedOptions(s) :
          index \in Given(s, AskedOptions(s)[i].name) <=> s = Scope /\ AskedOptions(s)[i].name = Current.name
    BY <1>1, <2>1 DEF Given
  <2>10. TypeOK'
    <3>1. \A s : Options(s)' = Options(s)
      BY <2>2 DEF Options, inputVars
    <3>2. seen' \in [Scopes -> SUBSET Nat]
      BY <2>1, <2>2, <2>5 DEF Inv, TypeOK
    <3>3. \A s \in Scopes : seen'[s] # {} => (s = "global" \/ command # <<>>) /\ seen'[s] \subseteq DOMAIN Options(s)
      <4> SUFFICES ASSUME NEW s \in Scopes, seen'[s] # {}
                   PROVE  (s = "global" \/ command # <<>>) /\ seen'[s] \subseteq DOMAIN Options(s)
        OBVIOUS
      <4>1. CASE s = Scope
        <5>1. seen'[s] = seen[s] \cup {Chosen}
          BY <2>1, <2>2, <4>1 DEF Inv, TypeOK
        <5>2. s = "global" \/ command # <<>>
          BY <4>1 DEF Scope
        <5>3. Chosen \in DOMAIN Options(s)
          BY <2>1, <2>4, <4>1
        <5> QED
          BY <5>1, <5>2, <5>3 DEF Inv, TypeOK
      <4>2. CASE s # Scope
        BY <2>1, <2>2, <4>2 DEF Inv, TypeOK
      <4> QED
        BY <4>1, <4>2
    <3>4. pc' \in {"check", "arguments", "positionals", "sort", "done"} \cup Scopes /\ index' \in Nat \ {0}
      BY <2>1, <2>2
    <3>5. UNCHANGED <<program, arguments, status, parsed>>
      BY <2>2 DEF inputVars, resultVars
    <3> QED
      BY <2>2, <2>8, <3>1, <3>2, <3>3, <3>4, <3>5 DEF Inv, TypeOK
  <2>11. LoopInv'
    <3>1. OptionsEnd \in Nat /\ CommandPlace \in Nat
      BY <2>1, EndIsFirst, WordIsFirst, InputTypes
    <3>2. index \notin Stops
      BY <1>1, <1>4, LegalIs
    <3>3. \A i \in 1 .. index' - 1 : i \notin Stops
      <4>1. \A i \in 1 .. index' - 1 : i = index \/ i \in 1 .. index - 1
        BY <2>1, <2>2
      <4> QED
        BY <1>1, <3>2, <4>1 DEF Inv, LoopInv
    <3>4. index' \in 1 .. OptionsEnd
      BY <2>1, <2>2, <3>1
    <3>5. IF command = <<>> THEN index' <= CommandPlace
          ELSE CommandPlace < index' /\ Words # {} /\ AskedCommands # {} /\ command = <<AskedCommand>>
      BY <1>1, <2>1, <2>2, <3>1 DEF Inv, LoopInv
    <3> QED
      BY <1>1, <2>2, <3>3, <3>4, <3>5, AskedIsFixed DEF Inv, LoopInv
  <2>12. PhaseInv' /\ EndInv'
    <3>1. ~readable' /\ status' = "none" /\ positional_start' = 0
      BY <1>1, <2>2, <2>8 DEF Inv, PhaseInv, resultVars
    <3> QED
      BY <2>2, <3>1, StillRunning DEF PhaseInv, Later
  <2>13. \A s \in Scopes, i \in Nat : i \in seen'[s] <=> i \in seen[s] \/ (s = Scope /\ i = Chosen)
    BY <2>1, <2>2 DEF Inv, TypeOK
  <2>14. SeenInv'
    <3>1. SUFFICES ASSUME NEW s \in Scopes, NEW i \in Nat
                   PROVE  i \in seen'[s] <=> /\ i \in DOMAIN AskedOptions(s)
                                             /\ GivenSoFar(s, i)' # {}
                                             /\ IsMeant(s, i, AskedOptions(s)[i].name)
      BY <2>2, AskedIsFixed DEF SeenInv
    <3>2. GivenSoFar(s, i)' = IF index \in Given(s, AskedOptions(s)[i].name)
                              THEN GivenSoFar(s, i) \cup {index} ELSE GivenSoFar(s, i)
      BY <1>1, <2>2, GivenGrows
    <3>3. i \in seen[s] <=> /\ i \in DOMAIN AskedOptions(s)
                            /\ GivenSoFar(s, i) # {}
                            /\ IsMeant(s, i, AskedOptions(s)[i].name)
      BY <1>1 DEF Inv, SeenInv
    <3>4. CASE s = Scope /\ i = Chosen
      BY <2>3, <2>4, <2>9, <2>13, <3>2, <3>4
    <3>5. CASE ~(s = Scope /\ i = Chosen)
      <4>1. ASSUME index \in Given(s, AskedOptions(s)[i].name), i \in DOMAIN AskedOptions(s),
                   IsMeant(s, i, AskedOptions(s)[i].name)
            PROVE  FALSE
        <5>1. s = Scope /\ AskedOptions(s)[i].name = Current.name
          BY <2>9, <4>1
        <5>2. i = Chosen
          BY <2>3, <4>1, <5>1 DEF IsMeant
        <5> QED
          BY <3>5, <5>1, <5>2
      <4> QED
        BY <2>13, <3>2, <3>3, <3>5, <4>1
    <3> QED
      BY <3>4, <3>5
  <2>15. StoreInv'
    <3>1. SUFFICES ASSUME NEW s \in Scopes, NEW i \in DOMAIN AskedOptions(s), KeyIsOwn(s, i)
                   PROVE  AsHelpSays(LineSoFar(s, i), GivenSoFar(s, i), map[KeyOf(s, i)])'
      BY <2>2, AskedIsFixed DEF StoreInv
    <3> DEFINE line == LineSoFar(s, i)
               given == GivenSoFar(s, i)
               old == map[KeyOf(s, i)]
    <3>2. AsHelpSays(line, given, old)
      BY <1>1, <3>1 DEF Inv, StoreInv
    <3>3. ~Defaulted(s, i) /\ ~Defaulted(s, i)'
      BY <1>1, <2>2 DEF Defaulted, Scopes
    <3>4. line' = line /\ line.default = NoValue
          /\ line.takes_value = (AskedOptions(s)[i].type # "flag")
          /\ line.repeatable = (AskedOptions(s)[i].type = "list")
      BY <2>2, <3>3, AskedIsFixed DEF LineSoFar, HelpLine
    <3>5. /\ \A p \in given : p \in 1 .. index - 1
          /\ given' = IF index \in Given(s, AskedOptions(s)[i].name) THEN given \cup {index} ELSE given
      BY <1>1, <2>2, GivenGrows
    <3>6. KeyOf(s, i) \in Keys /\ old \in Seq(Seq(Values))
      BY <2>1, OptionTypesHold DEF Inv, TypeOK
    <3>7. KeyOf(s, i)' = KeyOf(s, i)
      BY <2>2, AskedIsFixed
    <3> HIDE DEF line, given, old
    <3>8. CASE s = Scope /\ i = Chosen
      <4>1. given' = given \cup {index}
        BY <2>4, <2>9, <3>5, <3>8
      <4>2. old' = Written(ChosenOption, old, arguments[index].value)
        BY <1>1, <2>a, <3>6, <3>7, <3>8 DEF old
      <4>3. AsHelpSays(line, given \cup {index}, Written(ChosenOption, old, arguments[index].value))
        BY <2>1, <2>4, <3>2, <3>4, <3>5, <3>6, <3>8, WriteSays
      <4>4. AsHelpSays(line, given', old')
        BY <4>1, <4>2, <4>3
      <4>5. arguments' = arguments
        BY <2>2 DEF inputVars
      <4>6. AsHelpSays(line, given, old)'
        BY <3>4, <4>4, <4>5 DEF AsHelpSays, InOrder
      <4> QED
        BY <4>6 DEF line, given, old
    <3>9. CASE ~(s = Scope /\ i = Chosen)
      <4>1. KeyOf(s, i) # k
        BY <2>1, <2>4, <3>1, <3>9 DEF KeyIsOwn
      <4>2. old' = old
        BY <2>a, <3>6, <3>7, <4>1 DEF old
      <4>3. ~(s = Scope /\ AskedOptions(s)[i].name = Current.name)
        BY <2>4, <4>1 DEF KeyOf
      <4>4. given' = given
        BY <2>9, <3>5, <4>3
      <4>5. arguments' = arguments
        BY <2>2 DEF inputVars
      <4>6. AsHelpSays(line, given', old')
        BY <3>2, <4>2, <4>4
      <4>7. AsHelpSays(line, given, old)'
        BY <3>4, <4>5, <4>6 DEF AsHelpSays, InOrder
      <4> QED
        BY <4>7 DEF line, given, old
    <3> QED
      BY <3>8, <3>9
  <2> QED
    BY <2>10, <2>11, <2>12, <2>14, <2>15 DEF Inv
<1> QED
  BY <1>2, <1>3, <1>4, AssignIs

\* The first word is the command.
LEMMA CommandHere ==
  ASSUME Inv, AtArgument("word"), command = <<>>
  PROVE  /\ InputsOK /\ index \in Nat /\ index = CommandPlace /\ index \in 1 .. OptionsEnd - 1
         /\ Words # {} /\ AskedCommands = Called(program.commands, Current.name)
<1>1. InputsOK /\ index \in Nat /\ index \in 1 .. Len(arguments) /\ Len(arguments) \in Nat
  <2>1. InputsOK /\ index \in Nat \ {0} /\ index <= Len(arguments)
    BY TypesGive DEF Inv, AtArgument
  <2> QED
    BY <2>1, InputTypes
<1>2. /\ OptionsEnd \in Nat /\ CommandPlace \in Nat
      /\ index \in 1 .. OptionsEnd /\ index <= CommandPlace
  BY <1>1, EndIsFirst, WordIsFirst, InputTypes DEF Inv, LoopInv, AtArgument
<1>3. \A j \in 1 .. index - 1 : arguments[j].kind # "word"
  <2> SUFFICES ASSUME NEW j \in 1 .. index - 1 PROVE arguments[j].kind # "word"
    OBVIOUS
  <2>1. j \in 1 .. OptionsEnd - 1 /\ j # CommandPlace
    BY <1>2
  <2> QED
    BY <1>1, <2>1, OptionsElsewhere
<1>4. arguments[index].kind = "word"
  BY DEF AtArgument, Current
<1>5. index \notin EndPlaces
  <2>1. \A j \in Places("word") : j < index => j \in 1 .. index - 1
    BY <1>1, InputTypes DEF Places
  <2>2. \A j \in Places("word") : ~(j < index)
    BY <1>3, <2>1 DEF Places
  <2> QED
    BY <1>4, <2>2 DEF EndPlaces, Places
<1>6. index \in 1 .. OptionsEnd - 1
  <2>1. index # OptionsEnd
    BY <1>1, <1>5, EndIsFirst
  <2> QED
    BY <1>2, <2>1
<1>7. index = CommandPlace
  BY <1>1, <1>4, <1>6, OptionsElsewhere
<1>8. index \in Words
  <2>1. index < OptionsEnd
    BY <1>2, <1>6
  <2> QED
    BY <1>1, <1>4, <2>1, InputTypes DEF Words, Places
<1> QED
  BY <1>1, <1>6, <1>7, <1>8, AskedTypes DEF Current

LEMMA ChooseCommandStep == Inv /\ ChooseCommand => Inv'
<1> SUFFICES ASSUME Inv, ChooseCommand PROVE Inv'
  OBVIOUS
<1>1. AtArgument("word") /\ command = <<>> /\ pc = "arguments" /\ Current = arguments[index]
  BY DEF ChooseCommand, AtArgument, Current
<1>2. /\ InputsOK /\ index \in Nat /\ index = CommandPlace /\ index \in 1 .. OptionsEnd - 1
      /\ Words # {} /\ AskedCommands = Called(program.commands, Current.name)
  BY <1>1, CommandHere
<1>3. Current.kind = "word"
  BY <1>1 DEF AtArgument
<1>4. Legal(index) <=> AskedCommands # {}
  BY <1>1, <1>3 DEF Legal
<1>5. ~Builtin(arguments[index])
  BY <1>1, <1>3 DEF Builtin
<1>6. index \in Stops <=> AskedCommands = {}
  BY <1>2, <1>4, <1>5 DEF Stops
<1>7. CASE AskedCommands = {}
  <2>1. Verdict = "error"
    BY <1>1, <1>5, <1>6, <1>7, StopDecides DEF StopVerdict
  <2>2. Error
    BY <1>2, <1>7 DEF ChooseCommand
  <2> QED
    BY <1>1, <2>1, <2>2, ErrorStep
<1>8. CASE AskedCommands # {}
  <2>1. /\ command' = <<AskedCommand>> /\ index' = index + 1 /\ pc' = "arguments"
        /\ UNCHANGED <<inputVars, positional_start, resultVars, refused, seen, storeVars>>
    BY <1>1, <1>2, <1>8 DEF ChooseCommand, NextArgument, StayInLoop, AskedCommand
  <2>2. \A s \in Scopes : \A name : index \notin Given(s, name)
    <3>1. OptionsEnd \in Nat
      BY <1>2, EndIsFirst, InputTypes
    <3> QED
      BY <1>2, <3>1 DEF Given, ScopePlaces
  <2>3. \A s \in Scopes : \A i : GivenSoFar(s, i)' = GivenSoFar(s, i)
    BY <1>1, <2>1, <2>2, GivenGrows
  <2>4. \A s \in Scopes : \A i \in DOMAIN AskedOptions(s) : (Defaulted(s, i)' <=> Defaulted(s, i))
    BY <1>1, <2>1 DEF Defaulted, Scopes
  <2>5. SeenInv' /\ StoreInv'
    BY <1>1, <2>1, <2>3, <2>4, SeenKept, StoreKept DEF storeVars
  <2>6. TypeOK'
    <3>1. First(AskedCommands) \in DOMAIN program.commands
      BY <1>2, <1>8, AskedTypes
    <3>2. \E c \in DOMAIN program.commands : command' = <<program.commands[c]>>
      BY <2>1, <3>1 DEF AskedCommand
    <3>3. \A s \in Scopes : seen[s] # {} => s = "global"
      BY <1>1 DEF Inv, TypeOK
    <3>4. Options("global")' = Options("global")
      BY <2>1 DEF Options, inputVars
    <3>5. \A s \in Scopes : seen'[s] # {} => s = "global" /\ seen'[s] \subseteq DOMAIN Options(s)'
      BY <2>1, <3>3, <3>4 DEF Inv, TypeOK
    <3>6. parsed' \in [command : {<<>>, command'}, positionals : Seq(Arguments)]
      <4>1. parsed \in [command : {<<>>}, positionals : Seq(Arguments)] /\ parsed' = parsed
        BY <1>1, <2>1 DEF Inv, TypeOK, resultVars
      <4> QED
        BY <4>1
    <3>7. index' \in Nat \ {0}
      BY <1>2, <2>1
    <3> QED
      BY <2>1, <3>2, <3>5, <3>6, <3>7 DEF Inv, TypeOK, inputVars, resultVars, storeVars
  <2>7. LoopInv'
    <3>1. OptionsEnd \in Nat /\ CommandPlace \in Nat
      BY <1>2, EndIsFirst, InputTypes
    <3>2. \A i \in 1 .. index' - 1 : i \notin Stops
      <4>1. \A i \in 1 .. index' - 1 : i = index \/ i \in 1 .. index - 1
        BY <1>2, <2>1
      <4> QED
        BY <1>1, <1>6, <1>8, <4>1 DEF Inv, LoopInv
    <3>3. index' \in 1 .. OptionsEnd /\ CommandPlace < index'
      BY <1>2, <2>1, <3>1
    <3>4. command' # <<>>
      BY <2>1
    <3> QED
      BY <1>1, <1>2, <1>8, <2>1, <3>2, <3>3, <3>4, AskedIsFixed DEF Inv, LoopInv
  <2>8. PhaseInv' /\ EndInv'
    <3>1. ~readable' /\ status' = "none" /\ positional_start' = 0
      BY <1>1, <2>1 DEF Inv, PhaseInv, resultVars, storeVars
    <3> QED
      BY <2>1, <3>1, StillRunning DEF PhaseInv, Later
  <2> QED
    BY <2>5, <2>6, <2>7, <2>8 DEF Inv
<1> QED
  BY <1>7, <1>8

\* The loop ends where the options do.
LEMMA NothingStops ==
  ASSUME Inv, pc = "arguments", index = OptionsEnd
  PROVE  /\ InputsOK /\ Stops = {} /\ ~TooManyOptions
         /\ command = <<>> => Verdict = "error"
<1>1. InputsOK
  BY TypesGive DEF Inv
<1>2. Stops = {} /\ ~TooManyOptions
  BY DEF Inv, LoopInv, Stops
<1>3. command = <<>> => Words = {}
  <2>1. OptionsEnd \in Nat
    BY <1>1, EndIsFirst, InputTypes
  <2>2. command = <<>> => OptionsEnd <= CommandPlace
    BY DEF Inv, LoopInv
  <2>3. Words # {} => CommandPlace \in 1 .. OptionsEnd - 1
    BY <1>1, WordIsFirst
  <2> QED
    BY <2>1, <2>2, <2>3
<1> QED
  BY <1>1, <1>2, <1>3 DEF Verdict

LEMMA GoGlobal ==
  ASSUME Inv, pc = "arguments", index = OptionsEnd, command # <<>>, pc' = "global", index' = 1,
         UNCHANGED <<inputVars, command, seen, resultVars, refused, storeVars>>,
         positional_start' \in 0 .. Len(arguments) + 1, Positionals' = AskedPositionals
  PROVE  Inv'
<1>1. TypeOK'
  <2>1. TypeOK /\ UNCHANGED <<map, readable, reply>>
    BY DEF Inv, storeVars
  <2>2. /\ map' \in [Keys -> Seq(Seq(Values))] /\ readable' \in BOOLEAN
        /\ reply' \in [ok : BOOLEAN, value : Seq(Seq(Values))]
    BY <2>1 DEF TypeOK
  <2>3. pc' \in {"check", "arguments", "positionals", "sort", "done"} \cup Scopes /\ index' \in Nat \ {0}
    BY DEF Scopes
  <2> QED
    BY <2>1, <2>2, <2>3, RunningTypes
<1>2. Handled' = Handled
  BY AskedIsFixed DEF Handled
<1>3. SeenInv' /\ StoreInv'
  <2>1. \A s \in Scopes : \A i \in DOMAIN AskedOptions(s) : (Defaulted(s, i)' <=> Defaulted(s, i))
    <3>1. \A s \in Scopes : \A i \in DOMAIN AskedOptions(s) : i \in Nat /\ ~(i < 1)
      BY NothingStops, AskedTypes
    <3> QED
      BY <3>1 DEF Defaulted, Scopes
  <2> QED
    BY <1>2, <2>1, GivenKept, SeenKept, StoreKept DEF storeVars
<1>4. LoopInv'
  BY DEF LoopInv
<1>5. PhaseInv' /\ EndInv'
  <2>1. ~readable' /\ status' = "none"
    BY DEF Inv, PhaseInv, resultVars, storeVars
  <2>2. ArgumentsRight'
    BY NothingStops, AskedIsFixed DEF ArgumentsRight, Inv, LoopInv
  <2>3. CompleteBefore("global", index)'
    <3>1. \A i \in DOMAIN AskedOptions("global") : i \in Nat /\ ~(i < 1)
      BY NothingStops, AskedTypes DEF Scopes
    <3> QED
      BY <3>1, AskedIsFixed DEF CompleteBefore
  <2> QED
    BY <2>1, <2>2, <2>3, StillRunning DEF PhaseInv, Later
<1> QED
  BY <1>1, <1>3, <1>4, <1>5 DEF Inv

LEMMA StartPositionalsStep ==
  ASSUME Inv, pc = "arguments", index = OptionsEnd, NEW start \in 1 .. Len(arguments) + 1,
         AskedPositionals = SubSeq(arguments, start, Len(arguments)), StartPositionals(start)
  PROVE  Inv'
<1>1. CASE command = <<>>
  <2>1. Error
    BY <1>1 DEF StartPositionals
  <2> QED
    BY <1>1, <2>1, NothingStops, ErrorStep
<1>2. CASE command # <<>>
  <2>1. /\ pc' = "global" /\ index' = 1 /\ positional_start' = start
        /\ UNCHANGED <<inputVars, command, seen, resultVars, refused, storeVars>>
    BY <1>2 DEF StartPositionals
  <2>2. Len(arguments) \in Nat
    BY NothingStops, InputTypes
  <2>3. Positionals' = AskedPositionals
    BY <2>1, <2>2 DEF Positionals, inputVars
  <2>4. positional_start' \in 0 .. Len(arguments) + 1
    BY <2>1, <2>2
  <2> QED
    BY <1>2, <2>1, <2>3, <2>4, GoGlobal
<1> QED
  BY <1>1, <1>2

LEMMA LoopEndSteps == Inv /\ (Separator \/ FirstPositional \/ ArgumentsEnd) => Inv'
<1> SUFFICES ASSUME Inv, Separator \/ FirstPositional \/ ArgumentsEnd PROVE Inv'
  OBVIOUS
<1>1. /\ InputsOK /\ index \in Nat \ {0} /\ Len(arguments) \in Nat
      /\ DOMAIN arguments = 1 .. Len(arguments) /\ pc = "arguments"
  BY TypesGive, InputTypes DEF Inv, Separator, FirstPositional, ArgumentsEnd, AtArgument
<1>2. /\ OptionsEnd \in 1 .. Len(arguments) + 1 /\ index \in 1 .. OptionsEnd
      /\ \A i \in 1 .. OptionsEnd - 1 : i \notin EndPlaces
  BY <1>1, EndIsFirst DEF Inv, LoopInv
<1>3. index \in EndPlaces => index = OptionsEnd
  BY <1>1, <1>2
<1>4. CASE Separator
  <2>1. index \in DOMAIN arguments /\ arguments[index].kind = "separator" /\ StartPositionals(index + 1)
    BY <1>1, <1>4 DEF Separator, AtArgument, Current
  <2>2. index \in EndPlaces /\ index \in Places("separator")
    BY <2>1 DEF EndPlaces, Places
  <2>3. index = OptionsEnd /\ AskedPositionals = SubSeq(arguments, index + 1, Len(arguments))
    BY <1>3, <2>2 DEF AskedPositionals
  <2>4. index + 1 \in 1 .. Len(arguments) + 1
    BY <1>1, <2>1
  <2> QED
    BY <1>1, <2>1, <2>3, <2>4, StartPositionalsStep
<1>5. CASE FirstPositional
  <2>1. /\ index \in DOMAIN arguments /\ arguments[index].kind = "word" /\ StartPositionals(index)
        /\ command # <<>>
    BY <1>1, <1>5 DEF FirstPositional, AtArgument, Current
  <2>2. CommandPlace < index /\ Words # {}
    BY <1>1, <2>1 DEF Inv, LoopInv
  <2>3. CommandPlace \in Places("word")
    BY <1>1, <2>2, WordIsFirst DEF Words
  <2>4. index \in EndPlaces /\ index \notin Places("separator")
    BY <2>1, <2>2, <2>3 DEF EndPlaces, Places
  <2>5. index = OptionsEnd /\ AskedPositionals = SubSeq(arguments, index, Len(arguments))
    BY <1>3, <2>4 DEF AskedPositionals
  <2>6. index \in 1 .. Len(arguments) + 1
    BY <1>1, <2>1
  <2> QED
    BY <1>1, <2>1, <2>5, <2>6, StartPositionalsStep
<1>6. CASE ArgumentsEnd
  <2>1. index = OptionsEnd /\ OptionsEnd = Len(arguments) + 1
    BY <1>1, <1>2, <1>6 DEF ArgumentsEnd
  <2>2. CASE command = <<>>
    <3>1. Error
      BY <1>6, <2>2 DEF ArgumentsEnd, AfterArguments
    <3> QED
      BY <1>1, <2>1, <2>2, <3>1, NothingStops, ErrorStep
  <2>3. CASE command # <<>>
    <3>1. /\ pc' = "global" /\ index' = 1
          /\ UNCHANGED <<inputVars, command, seen, positional_start, resultVars, refused, storeVars>>
      BY <1>6, <2>3 DEF ArgumentsEnd, AfterArguments, GoTo
    <3>2. positional_start = 0
      BY <1>1 DEF Inv, PhaseInv
    <3>3. Positionals' = <<>>
      BY <3>1, <3>2 DEF Positionals
    <3>4. OptionsEnd \notin Places("separator")
      BY <1>1, <2>1 DEF Places
    <3>5. AskedPositionals = SubSeq(arguments, Len(arguments) + 1, Len(arguments))
      BY <2>1, <3>4 DEF AskedPositionals
    <3>6. SubSeq(arguments, Len(arguments) + 1, Len(arguments)) = <<>>
      BY <1>1 DEF InputsOK
    <3>7. positional_start' \in 0 .. Len(arguments) + 1
      BY <1>1, <3>1, <3>2
    <3> QED
      BY <1>1, <2>1, <2>3, <3>1, <3>3, <3>5, <3>6, <3>7, GoGlobal
  <2> QED
    BY <2>2, <2>3
<1> QED
  BY <1>4, <1>5, <1>6

-----------------------------------------------------------------------------
(* The defaults.                                                            *)

LEMMA AllGiven ==
  ASSUME InputsOK, NEW s \in Scopes, NEW name
  PROVE  GivenBefore(s, name, OptionsEnd) = Given(s, name)
<1>1. OptionsEnd \in Nat /\ CommandPlace \in 1 .. OptionsEnd
  BY EndIsFirst, WordIsFirst, InputTypes
<1>2. \A p \in Given(s, name) : p < OptionsEnd
  BY <1>1 DEF Given, ScopePlaces
<1> QED
  BY <1>2 DEF GivenBefore

\* What is known once the loop has ended.
LEMMA AfterLoop ==
  ASSUME Inv, pc \in Later
  PROVE  /\ InputsOK /\ ArgumentsRight /\ index \in Nat \ {0}
         /\ command # <<>> /\ command[1] = AskedCommand /\ Handled = OptionsEnd
         /\ \A s \in Scopes : Options(s) = AskedOptions(s) /\ Prefix(s) = AskedPrefix(s)
         /\ \A s \in Scopes : /\ DOMAIN AskedOptions(s) = 1 .. Len(AskedOptions(s))
                              /\ Len(AskedOptions(s)) \in Nat
         /\ \A s \in Scopes : \A i : GivenSoFar(s, i) = Given(s, AskedOptions(s)[i].name)
<1>1. InputsOK /\ ArgumentsRight /\ index \in Nat \ {0}
  BY TypesGive DEF Inv, PhaseInv
<1>2. command # <<>> /\ command[1] = AskedCommand /\ AskedCommands # {}
  BY <1>1 DEF ArgumentsRight
<1>3. Handled = OptionsEnd
  BY DEF Handled, Later
<1>4. \A s \in Scopes : Options(s) = AskedOptions(s) /\ Prefix(s) = AskedPrefix(s)
  BY <1>2 DEF Options, AskedOptions, Prefix, AskedPrefix
<1>5. \A s \in Scopes : /\ DOMAIN AskedOptions(s) = 1 .. Len(AskedOptions(s))
                        /\ Len(AskedOptions(s)) \in Nat
  BY <1>1, AskedTypes
<1>6. \A s \in Scopes : \A i : GivenSoFar(s, i) = Given(s, AskedOptions(s)[i].name)
  BY <1>1, <1>3, AllGiven DEF GivenSoFar
<1> QED
  BY <1>1, <1>2, <1>3, <1>4, <1>5, <1>6

\* A step from one phase after the loop to another.
LEMMA LaterStep ==
  ASSUME Inv, pc \in Later, pc' \in Later, index' \in Nat \ {0},
         UNCHANGED <<inputVars, command, seen, positional_start, resultVars, refused>>,
         map' \in [Keys -> Seq(Seq(Values))], readable' \in BOOLEAN, ~readable',
         reply' \in [ok : BOOLEAN, value : Seq(Seq(Values))],
         pc' = "global" => CompleteBefore("global", index'),
         pc' \in {"command", "positionals", "sort"} => Complete("global") /\ PrefixFits(AskedCommand.name),
         pc' = "command" => CompleteBefore("command", index'),
         pc' \in {"positionals", "sort"} => Complete("command"),
         pc' = "sort" => CountFits(AskedCommand, Len(AskedPositionals)),
         StoreInv'
  PROVE  Inv'
<1>1. TypeOK'
  <2>1. TypeOK
    BY DEF Inv
  <2>2. positional_start' \in 0 .. Len(arguments) + 1
    BY <2>1 DEF TypeOK
  <2>3. pc' \in {"check", "arguments", "positionals", "sort", "done"} \cup Scopes
    BY DEF Later, Scopes
  <2> QED
    BY <2>1, <2>2, <2>3, RunningTypes
<1>2. LoopInv'
  BY DEF LoopInv, Later
<1>3. SeenInv'
  <2>1. Handled' = Handled
    BY AskedIsFixed DEF Handled, Later
  <2> QED
    BY <2>1, GivenKept, SeenKept DEF Later
<1>4. status' = "none"
  BY DEF Inv, PhaseInv, Later, resultVars
<1>5. PhaseInv'
  <2>1. ArgumentsRight'
    BY AfterLoop, AskedIsFixed DEF ArgumentsRight, Positionals, inputVars
  <2>2. \A s, n : (\A i \in DOMAIN AskedOptions(s) : i < n => CompleteAt(s, i))
                    => (\A i \in (DOMAIN AskedOptions(s))' : i < n => CompleteAt(s, i)')
    BY AskedIsFixed
  <2>3. \A s : CompleteBefore(s, index') => CompleteBefore(s, index)'
    BY <2>2 DEF CompleteBefore
  <2> QED
    BY <1>4, <2>1, <2>3, AskedIsFixed DEF PhaseInv, Later
<1>6. EndInv'
  BY <1>4, StillRunning DEF Later
<1> QED
  BY <1>1, <1>2, <1>3, <1>5, <1>6 DEF Inv

\* Where the defaults stand, for what has been said of help so far.
LEMMA NextDefault ==
  ASSUME Inv, NEW scope \in Scopes, pc = scope, pc' = scope, index' = index + 1,
         NEW s \in Scopes, NEW i \in Nat
  PROVE  Defaulted(s, i)' <=> Defaulted(s, i) \/ (s = scope /\ i = index)
<1>1. index \in Nat
  BY TypesGive DEF Inv
<1>2. i < index + 1 <=> i < index \/ i = index
  BY <1>1
<1> QED
  BY <1>2 DEF Defaulted, Scopes

LEMMA ApplyDefaultStep ==
  ASSUME NEW scope \in Scopes, Inv, ApplyDefault(scope)
  PROVE  Inv'
<1> DEFINE o == AskedOptions(scope)[index]
           unset == ~o.required /\ o.default = NoValue
<1>1. pc = scope /\ pc \in Later /\ pc # "done"
  BY DEF ApplyDefault, Scopes, Later
<1>2. /\ InputsOK /\ ArgumentsRight /\ index \in Nat \ {0}
      /\ command # <<>> /\ command[1] = AskedCommand /\ Handled = OptionsEnd
      /\ Options(scope) = AskedOptions(scope) /\ Prefix(scope) = AskedPrefix(scope)
      /\ DOMAIN AskedOptions(scope) = 1 .. Len(AskedOptions(scope)) /\ Len(AskedOptions(scope)) \in Nat
      /\ \A s \in Scopes : \A i : GivenSoFar(s, i) = Given(s, AskedOptions(s)[i].name)
  BY <1>1, AfterLoop
<1>3. index \in DOMAIN AskedOptions(scope)
  BY <1>2 DEF ApplyDefault
<1>4. o \in OptionSpecs /\ KeyOf(scope, index) \in Keys /\ KeyOf(scope, index) = Key(Prefix(scope), o.name)
  BY <1>2, <1>3, OptionTypesHold DEF KeyOf
<1>5. Skipped(scope) <=> Given(scope, o.name) # {} /\ IsMeant(scope, index, o.name)
  BY <1>1, <1>2, <1>3 DEF Skipped, Inv, SeenInv
<1>6. CompleteAt(scope, index) <=>
        Skipped(scope) \/ unset \/ (~o.required /\ KeyFits(Prefix(scope), o.name))
  BY <1>2, <1>5 DEF CompleteAt
<1>7. \/ /\ Skipped(scope) \/ unset
         /\ NextArgument
         /\ UNCHANGED <<command, seen, storeVars>>
      \/ /\ ~Skipped(scope)
         /\ o.required \/ (~unset /\ ~KeyFits(Prefix(scope), o.name))
         /\ Error
      \/ /\ ~Skipped(scope) /\ ~o.required /\ ~unset
         /\ KeyFits(Prefix(scope), o.name)
         /\ \/ /\ Store!Put(Key(Prefix(scope), o.name), o.default)
               /\ NextArgument
               /\ UNCHANGED <<command, seen>>
            \/ StoreRefuses
  BY <1>2 DEF ApplyDefault
<1>8. /\ scope = "global" => CompleteBefore("global", index)
      /\ scope = "command" => Complete("global") /\ PrefixFits(AskedCommand.name) /\ CompleteBefore("command", index)
  BY <1>1 DEF Inv, PhaseInv
<1>9. ASSUME CompleteAt(scope, index), NextArgument, UNCHANGED <<command, seen>>, StoreInv',
             map' \in [Keys -> Seq(Seq(Values))], readable' \in BOOLEAN, ~readable',
             reply' \in [ok : BOOLEAN, value : Seq(Seq(Values))]
      PROVE  Inv'
  <2>1. /\ index' = index + 1 /\ pc' = pc
        /\ UNCHANGED <<inputVars, positional_start, resultVars, refused>>
    BY <1>9 DEF NextArgument, StayInLoop
  <2>2. \A i \in DOMAIN AskedOptions(scope) : i < index + 1 => i < index \/ i = index
    BY <1>2
  <2>3. CompleteBefore(scope, index') <=> CompleteBefore(scope, index)
    BY <1>2, <1>9, <2>1, <2>2 DEF CompleteBefore
  <2>4. index' \in Nat \ {0}
    BY <1>2, <2>1
  <2> QED
    BY <1>1, <1>8, <1>9, <2>1, <2>3, <2>4, LaterStep DEF Scopes
<1>10. TypeOK /\ ~readable
  BY <1>1 DEF Inv, PhaseInv
<1>11. CASE /\ Skipped(scope) \/ unset
            /\ NextArgument
            /\ UNCHANGED <<command, seen, storeVars>>
  <2>1. index' = index + 1 /\ pc' = pc /\ UNCHANGED inputVars /\ UNCHANGED <<map, readable, reply>>
    BY <1>11 DEF NextArgument, StayInLoop, storeVars
  <2>2. StoreInv'
    <3>1. SUFFICES ASSUME NEW s \in Scopes, NEW i \in DOMAIN AskedOptions(s), KeyIsOwn(s, i)
                   PROVE  AsHelpSays(LineSoFar(s, i), GivenSoFar(s, i), map[KeyOf(s, i)])'
      BY <2>1, AskedIsFixed DEF StoreInv
    <3> DEFINE line == LineSoFar(s, i)
               given == GivenSoFar(s, i)
               old == map[KeyOf(s, i)]
    <3>2. AsHelpSays(line, given, old)
      BY <1>1, <3>1 DEF Inv, StoreInv
    <3>3. Handled' = Handled
      BY <1>1, <2>1, AskedIsFixed DEF Handled, Later
    <3>4. given' = given /\ old' = old /\ arguments' = arguments
      BY <2>1, <3>3, GivenKept, AskedIsFixed DEF inputVars
    <3>5. i \in Nat
      BY <1>2, OptionTypesHold
    <3>6. Defaulted(s, i)' <=> Defaulted(s, i) \/ (s = scope /\ i = index)
      BY <1>1, <2>1, <3>5, NextDefault
    <3>7. AsHelpSays(line', given, old)
      <4>1. CASE ~(s = scope /\ i = index)
        <5>1. line' = line
          BY <2>1, <3>6, <4>1, AskedIsFixed DEF LineSoFar
        <5> QED
          BY <3>2, <5>1
      <4>2. CASE s = scope /\ i = index
        <5>1. /\ line'.takes_value = line.takes_value /\ line'.repeatable = line.repeatable
              /\ unset => line'.default = line.default
          BY <2>1, <3>6, <4>2, AskedIsFixed DEF LineSoFar, HelpLine
        <5>2. Skipped(scope) => given # {}
          BY <1>2, <1>5, <4>2
        <5> HIDE DEF line, given, old
        <5> QED
          BY <1>11, <3>2, <5>1, <5>2 DEF AsHelpSays
      <4> QED
        BY <4>1, <4>2
    <3> HIDE DEF line, given, old
    <3>8. AsHelpSays(line, given, old)'
      BY <3>4, <3>7 DEF AsHelpSays, InOrder
    <3> QED
      BY <3>8 DEF line, given, old
  <2>3. CompleteAt(scope, index)
    BY <1>6, <1>11
  <2> QED
    BY <1>9, <1>10, <1>11, <2>1, <2>2, <2>3 DEF TypeOK
<1>12. CASE /\ ~Skipped(scope)
            /\ o.required \/ (~unset /\ ~KeyFits(Prefix(scope), o.name))
            /\ Error
  <2>1. ~CompleteAt(scope, index)
    BY <1>6, <1>12
  <2>2. ~Complete(scope)
    BY <1>3, <2>1 DEF Complete
  <2>3. Verdict = "error"
    BY <1>2, <1>8, <2>2 DEF Verdict, ArgumentsRight, Scopes
  <2> QED
    BY <1>1, <1>12, <2>3, ErrorStep
<1>13. CASE StoreRefuses
  BY <1>1, <1>13, StoreRefusesStep
<1>14. CASE /\ ~Skipped(scope) /\ ~o.required /\ ~unset
            /\ KeyFits(Prefix(scope), o.name)
            /\ Store!Put(Key(Prefix(scope), o.name), o.default)
            /\ NextArgument
            /\ UNCHANGED <<command, seen>>
  <2>1. index' = index + 1 /\ pc' = pc /\ UNCHANGED inputVars
    BY <1>14 DEF NextArgument, StayInLoop
  <2> DEFINE k == KeyOf(scope, index)
  <2>2. o.default \in Values
    BY <1>4, <1>14 DEF OptionSpecs
  <2>3. <<<<o.default>>>> \in Seq(Seq(Values))
    BY <2>2
  <2>4. /\ map' = [map EXCEPT ![k] = <<<<o.default>>>>]
        /\ readable' = (readable /\ Store!Present(k))
        /\ reply' = [ok |-> TRUE, value |-> <<>>]
    BY <1>4, <1>14 DEF Store!Put, Store!Write, Store!Reply, Store!Absent
  <2>5. map \in [Keys -> Seq(Seq(Values))]
    BY <1>10 DEF TypeOK
  <2> HIDE DEF k, o
  <2>6. map' \in [Keys -> Seq(Seq(Values))] /\ ~readable' /\ readable' \in BOOLEAN
        /\ reply' \in [ok : BOOLEAN, value : Seq(Seq(Values))]
    <3>1. map' \in [Keys -> Seq(Seq(Values))]
      BY <2>3, <2>4, <2>5
    <3>2. ~readable' /\ readable' \in BOOLEAN
      BY <1>10, <2>4
    <3>3. reply' \in [ok : BOOLEAN, value : Seq(Seq(Values))]
      BY <2>4
    <3> QED
      BY <3>1, <3>2, <3>3
  <2>7. \A q \in Keys : map'[q] = IF q = k THEN <<<<o.default>>>> ELSE map[q]
    BY <2>4, <2>5
  <2>8. StoreInv'
    <3>1. SUFFICES ASSUME NEW s \in Scopes, NEW i \in DOMAIN AskedOptions(s), KeyIsOwn(s, i)
                   PROVE  AsHelpSays(LineSoFar(s, i), GivenSoFar(s, i), map[KeyOf(s, i)])'
      BY <2>1, AskedIsFixed DEF StoreInv
    <3> DEFINE line == LineSoFar(s, i)
               given == GivenSoFar(s, i)
               old == map[KeyOf(s, i)]
    <3>2. AsHelpSays(line, given, old)
      BY <1>1, <3>1 DEF Inv, StoreInv
    <3>3. Handled' = Handled
      BY <1>1, <2>1, AskedIsFixed DEF Handled, Later
    <3>4. given' = given /\ arguments' = arguments
      BY <2>1, <3>3, GivenKept DEF inputVars
    <3>5. i \in Nat /\ KeyOf(s, i) \in Keys /\ KeyOf(s, i)' = KeyOf(s, i)
      BY <1>2, <2>1, OptionTypesHold, AskedIsFixed
    <3>6. Defaulted(s, i)' <=> Defaulted(s, i) \/ (s = scope /\ i = index)
      BY <1>1, <2>1, <3>5, NextDefault
    <3>7. old' = IF KeyOf(s, i) = k THEN <<<<o.default>>>> ELSE old
      BY <2>7, <3>5
    <3>8. AsHelpSays(line', given', old')
      <4>1. CASE ~(s = scope /\ i = index)
        <5>1. line' = line
          BY <2>1, <3>6, <4>1, AskedIsFixed DEF LineSoFar
        <5>2. KeyOf(s, i) # k
          BY <1>3, <3>1, <4>1 DEF KeyIsOwn, k
        <5> HIDE DEF line, given, old
        <5> QED
          BY <3>2, <3>4, <3>7, <5>1, <5>2
      <4>2. CASE s = scope /\ i = index
        <5>1. line' = HelpLine(o)
          BY <2>1, <3>6, <4>2, AskedIsFixed DEF LineSoFar, o
        <5>2. line'.default = o.default /\ o.default # NoValue
          BY <1>14, <5>1 DEF HelpLine
        <5>3. IsMeant(scope, index, o.name)
          BY <1>2, <1>3, <3>1, <4>2, OwnIsMeant DEF o
        <5>4. given = {}
          BY <1>2, <1>5, <1>14, <4>2, <5>3 DEF o
        <5>5. old' = <<<<o.default>>>>
          BY <3>7, <4>2 DEF k
        <5> HIDE DEF line, given, old
        <5> QED
          BY <3>4, <5>2, <5>4, <5>5 DEF AsHelpSays
      <4> QED
        BY <4>1, <4>2
    <3> HIDE DEF line, given, old
    <3>9. AsHelpSays(line, given, old)'
      BY <3>4, <3>8 DEF AsHelpSays, InOrder
    <3> QED
      BY <3>9 DEF line, given, old
  <2>9. CompleteAt(scope, index)
    BY <1>6, <1>14
  <2> QED
    BY <1>9, <1>14, <2>6, <2>8, <2>9
<1> QED
  BY <1>7, <1>11, <1>12, <1>13, <1>14

\* A step to a later phase that changes nothing else.
LEMMA GoToStep ==
  ASSUME Inv, pc \in Later, NEW step \in Later, GoTo(step),
         step = "global" => CompleteBefore("global", 1),
         step \in {"command", "positionals", "sort"} => Complete("global") /\ PrefixFits(AskedCommand.name),
         step \in {"positionals", "sort"} => Complete("command"),
         step = "sort" => CountFits(AskedCommand, Len(AskedPositionals)),
         \A s \in Scopes : \A i \in DOMAIN AskedOptions(s) : (Defaulted(s, i)' <=> Defaulted(s, i))
  PROVE  Inv'
<1>1. /\ pc' = step /\ index' = 1 /\ UNCHANGED <<map, readable, reply>>
      /\ UNCHANGED <<inputVars, command, seen, positional_start, resultVars, refused>>
  BY DEF GoTo, storeVars
<1>2. /\ map' \in [Keys -> Seq(Seq(Values))] /\ readable' \in BOOLEAN /\ ~readable'
      /\ reply' \in [ok : BOOLEAN, value : Seq(Seq(Values))]
  BY <1>1 DEF Inv, TypeOK, PhaseInv, Later
<1>3. Handled' = Handled
  BY <1>1, AskedIsFixed DEF Handled, Later
<1>4. StoreInv'
  BY <1>1, <1>3, GivenKept, StoreKept DEF Later
<1>5. CompleteBefore("command", 1)
  <2>1. \A i \in DOMAIN AskedOptions("command") : i \in Nat /\ ~(i < 1)
    BY AfterLoop DEF Scopes
  <2> QED
    BY <2>1 DEF CompleteBefore
<1> QED
  BY <1>1, <1>2, <1>4, <1>5, LaterStep

LEMMA DefaultsEndStep ==
  ASSUME NEW scope \in Scopes, Inv, DefaultsEnd(scope)
  PROVE  Inv'
<1>1. pc = scope /\ pc \in Later /\ pc # "done"
  BY DEF DefaultsEnd, Scopes, Later
<1>2. /\ InputsOK /\ ArgumentsRight /\ index \in Nat \ {0}
      /\ command[1] = AskedCommand /\ Options(scope) = AskedOptions(scope)
      /\ \A s \in Scopes : DOMAIN AskedOptions(s) = 1 .. Len(AskedOptions(s)) /\ Len(AskedOptions(s)) \in Nat
  BY <1>1, AfterLoop
<1>3. \A i \in DOMAIN AskedOptions(scope) : i < index
  BY <1>2 DEF DefaultsEnd
<1>4. Complete(scope)
  BY <1>1, <1>3 DEF Complete, Inv, PhaseInv, CompleteBefore, Scopes
<1>5. CASE scope = "command"
  <2>1. GoTo("positionals") /\ pc' = "positionals"
    <3>1. GoTo("positionals")
      BY <1>5 DEF DefaultsEnd
    <3> QED
      BY <3>1 DEF GoTo
  <2>2. Complete("global") /\ PrefixFits(AskedCommand.name)
    BY <1>1, <1>5 DEF Inv, PhaseInv
  <2>3. \A s \in Scopes : \A i \in DOMAIN AskedOptions(s) : Defaulted(s, i) /\ Defaulted(s, i)'
    BY <1>1, <1>3, <1>5, <2>1 DEF Defaulted, Scopes
  <2> QED
    BY <1>1, <1>4, <1>5, <2>1, <2>2, <2>3, GoToStep DEF Later
<1>6. CASE scope = "global" /\ PrefixFits(command[1].name)
  <2>1. GoTo("command") /\ pc' = "command" /\ index' = 1
    BY <1>6 DEF DefaultsEnd, GoTo
  <2>2. \A i \in DOMAIN AskedOptions("command") : ~(i < 1)
    BY <1>2 DEF Scopes
  <2>3. \A s \in Scopes : \A i \in DOMAIN AskedOptions(s) : (Defaulted(s, i)' <=> Defaulted(s, i))
    BY <1>1, <1>3, <1>6, <2>1, <2>2 DEF Defaulted, Scopes
  <2> QED
    BY <1>1, <1>2, <1>4, <1>6, <2>1, <2>3, GoToStep DEF Later
<1>7. CASE scope = "global" /\ ~PrefixFits(command[1].name)
  <2>1. /\ pc' = "done" /\ status' = "undefined"
        /\ UNCHANGED <<inputVars, index, command, seen, positional_start, map, readable, reply, parsed, refused>>
    BY <1>7 DEF DefaultsEnd, Return, storeVars
  <2>2. Verdict = "undefined"
    BY <1>2, <1>4, <1>7 DEF Verdict, ArgumentsRight
  <2>3. /\ refused \in BOOLEAN /\ reply \in [ok : BOOLEAN, value : Seq(Seq(Values))]
        /\ parsed \in [command : {<<>>, command}, positionals : Seq(Arguments)]
    BY DEF Inv, TypeOK
  <2> QED
    BY <1>1, <2>1, <2>2, <2>3, EndsBadly
<1> QED
  BY <1>5, <1>6, <1>7 DEF Scopes

-----------------------------------------------------------------------------
(* The count of the positionals and the sort.                               *)

LEMMA CountPositionalsStep == Inv /\ CountPositionals => Inv'
<1> SUFFICES ASSUME Inv, CountPositionals PROVE Inv'
  OBVIOUS
<1>1. pc = "positionals" /\ pc \in Later /\ pc # "done"
  BY DEF CountPositionals, Later
<1>2. ArgumentsRight /\ command[1] = AskedCommand /\ Positionals = AskedPositionals
  BY <1>1, AfterLoop DEF ArgumentsRight
<1>3. Complete("global") /\ PrefixFits(AskedCommand.name) /\ Complete("command")
  BY <1>1 DEF Inv, PhaseInv
<1>4. CASE CountFits(AskedCommand, Len(AskedPositionals))
  <2>1. GoTo("sort") /\ pc' = "sort"
    BY <1>2, <1>4 DEF CountPositionals, GoTo
  <2>2. \A s \in Scopes : \A i \in DOMAIN AskedOptions(s) : Defaulted(s, i) /\ Defaulted(s, i)'
    BY <1>1, <2>1 DEF Defaulted
  <2> QED
    BY <1>1, <1>3, <1>4, <2>1, <2>2, GoToStep DEF Later
<1>5. CASE ~CountFits(AskedCommand, Len(AskedPositionals))
  <2>1. Error
    BY <1>2, <1>5 DEF CountPositionals, CountError
  <2>2. Verdict = "error"
    BY <1>2, <1>3, <1>5 DEF Verdict, ArgumentsRight
  <2> QED
    BY <1>1, <2>1, <2>2, ErrorStep
<1> QED
  BY <1>4, <1>5

LEMMA SortStep == Inv /\ Sort => Inv'
<1> SUFFICES ASSUME Inv, Sort PROVE Inv'
  OBVIOUS
<1>1. pc = "sort" /\ pc \in Later /\ pc # "done"
  BY DEF Sort, Later
<1>2. CASE StoreRefuses
  BY <1>1, <1>2, StoreRefusesStep
<1>3. CASE /\ Store!MakeReadable
           /\ Return("ok")
           /\ parsed' = [command |-> command, positionals |-> Positionals]
           /\ UNCHANGED refused
  <2>1. /\ pc' = "done" /\ status' = "ok" /\ readable' = TRUE /\ reply' = [ok |-> TRUE, value |-> <<>>]
        /\ UNCHANGED <<inputVars, index, command, seen, positional_start, map, refused>>
    BY <1>3 DEF Return, Store!MakeReadable, Store!Reply, Store!Absent
  <2>2. /\ InputsOK /\ ArgumentsRight /\ command = <<AskedCommand>> /\ Positionals = AskedPositionals
    BY <1>1, AfterLoop DEF ArgumentsRight
  <2>3. Complete("global") /\ PrefixFits(AskedCommand.name) /\ Complete("command")
        /\ CountFits(AskedCommand, Len(AskedPositionals))
    BY <1>1 DEF Inv, PhaseInv
  <2>4. Verdict = "ok"
    BY <2>2, <2>3 DEF Verdict, ArgumentsRight
  <2>5. Positionals \in Seq(Arguments)
    <3>1. arguments \in Seq(Arguments) /\ positional_start \in 0 .. Len(arguments) + 1
      BY DEF Inv, TypeOK
    <3>2. CASE positional_start = 0
      BY <3>2, EmptySeq DEF Positionals
    <3>3. CASE positional_start # 0
      <4>1. Len(arguments) \in Nat
        BY <3>1
      <4>2. positional_start \in 1 .. Len(arguments) + 1 /\ Len(arguments) \in positional_start - 1 .. Len(arguments)
        BY <3>1, <3>3, <4>1
      <4>3. SubSeq(arguments, positional_start, Len(arguments)) \in Seq(Arguments)
        BY <3>1, <4>2, SubSeqProperties
      <4> QED
        BY <3>3, <4>3 DEF Positionals
    <3> QED
      BY <3>2, <3>3
  <2>6. TypeOK'
    <3>1. \A s : Options(s)' = Options(s)
      BY <2>1 DEF Options, inputVars
    <3>2. parsed' \in [command : {<<>>, command}, positionals : Seq(Arguments)]
      BY <1>3, <2>5
    <3>3. reply' \in [ok : BOOLEAN, value : Seq(Seq(Values))]
      BY <2>1
    <3> QED
      BY <2>1, <3>1, <3>2, <3>3 DEF Inv, TypeOK, inputVars
  <2>7. StoreInv'
    <3>1. Handled' = Handled
      BY <1>1, <2>1, AskedIsFixed DEF Handled
    <3>2. \A s \in Scopes : \A i \in DOMAIN AskedOptions(s) : Defaulted(s, i) /\ Defaulted(s, i)'
      BY <1>1, <2>1 DEF Defaulted
    <3> QED
      BY <1>1, <2>1, <3>1, <3>2, GivenKept, StoreKept
  <2>8. LoopInv' /\ PhaseInv' /\ SeenInv'
    BY <2>1 DEF LoopInv, PhaseInv, SeenInv, Later
  <2>9. EndInv'
    BY <1>3, <2>1, <2>2, <2>3, <2>4, AskedIsFixed DEF EndInv, StatusFollowsArguments, UnreadUnlessOk
  <2> QED
    BY <2>6, <2>7, <2>8, <2>9 DEF Inv
<1> QED
  BY <1>2, <1>3 DEF Sort

-----------------------------------------------------------------------------
(* All together.                                                            *)

LEMMA InitInv == Init => Inv
<1> SUFFICES ASSUME Init PROVE Inv
  OBVIOUS
<1>1. /\ program \in Programs /\ pc = "check" /\ index = 1 /\ command = <<>>
      /\ seen = [scope \in Scopes |-> {}] /\ positional_start = 0 /\ status = "none"
      /\ parsed = [command |-> <<>>, positionals |-> <<>>] /\ refused = FALSE
      /\ map = [k \in Keys |-> <<>>] /\ readable = FALSE /\ reply = [ok |-> TRUE, value |-> <<>>]
  BY DEF Init, NothingParsed, Store!MapInit, Store!Reply, Store!Absent
<1>2. arguments \in Seq(Arguments)
  <2>1. PICK n \in 0 .. MaxArguments : arguments \in [1 .. n -> Arguments]
    BY DEF Init
  <2>2. n \in Nat
    BY ParseAssumption
  <2> QED
    BY <2>1, <2>2
<1>3. InputsOK
  BY <1>1, <1>2 DEF InputsOK
<1>4. TypeOK
  <2>1. <<>> \in Seq(Arguments) /\ <<>> \in Seq(Seq(Values))
    BY EmptySeq
  <2>2. positional_start \in 0 .. Len(arguments) + 1
    BY <1>1, <1>3, InputTypes
  <2>3. map \in [Keys -> Seq(Seq(Values))] /\ reply \in [ok : BOOLEAN, value : Seq(Seq(Values))]
    BY <1>1, <2>1
  <2>4. parsed \in [command : {<<>>, command}, positionals : Seq(Arguments)]
    BY <1>1, <2>1
  <2>5. pc \in {"check", "arguments", "positionals", "sort", "done"} \cup Scopes /\ index \in Nat \ {0}
    BY <1>1
  <2>6. command = <<>> \/ \E c \in DOMAIN program.commands : command = <<program.commands[c]>>
    BY <1>1
  <2>7. /\ seen \in [Scopes -> SUBSET Nat]
        /\ \A scope \in Scopes : seen[scope] = {}
    BY <1>1
  <2>8. \A scope \in Scopes : seen[scope] # {} =>
          (scope = "global" \/ command # <<>>) /\ seen[scope] \subseteq DOMAIN Options(scope)
    BY <2>7
  <2>9. /\ status \in {"none", "ok", "help global", "help command", "version", "error", "undefined"}
        /\ refused \in BOOLEAN /\ readable \in BOOLEAN /\ program \in Programs
    BY <1>1
  <2> QED
    BY <1>2, <2>2, <2>3, <2>4, <2>5, <2>6, <2>7, <2>8, <2>9, Zenon DEF TypeOK
<1>5. \A s \in Scopes : \A i : GivenSoFar(s, i) = {}
  <2>1. OptionsEnd \in Nat /\ CommandPlace \in 1 .. OptionsEnd
    BY <1>3, EndIsFirst, WordIsFirst, InputTypes
  <2>2. \A s \in Scopes : \A name : \A p \in Given(s, name) : ~(p < 1)
    BY <2>1 DEF Given, ScopePlaces
  <2>3. Handled = 1
    BY <1>1 DEF Handled
  <2> QED
    BY <2>2, <2>3 DEF GivenSoFar, GivenBefore
<1>6. LoopInv /\ PhaseInv
  BY <1>1 DEF LoopInv, PhaseInv, Later
<1>7. SeenInv
  BY <1>1, <1>5 DEF SeenInv
<1>8. StoreInv
  <2> SUFFICES ASSUME NEW s \in Scopes, NEW i \in DOMAIN AskedOptions(s)
               PROVE  AsHelpSays(LineSoFar(s, i), GivenSoFar(s, i), map[KeyOf(s, i)])
    BY DEF StoreInv
  <2>1. map[KeyOf(s, i)] = <<>>
    BY <1>1, <1>3, OptionTypesHold
  <2>2. ~Defaulted(s, i)
    BY <1>1 DEF Defaulted, Scopes
  <2>3. LineSoFar(s, i).default = NoValue
    BY <2>2 DEF LineSoFar, HelpLine
  <2> QED
    BY <1>5, <2>1, <2>3 DEF AsHelpSays
<1>9. EndInv
  BY <1>1 DEF EndInv, StatusFollowsArguments, UnreadUnlessOk
<1> QED
  BY <1>4, <1>6, <1>7, <1>8, <1>9 DEF Inv

LEMMA StutterInv == Inv /\ UNCHANGED vars => Inv'
<1> SUFFICES ASSUME Inv, UNCHANGED vars PROVE Inv'
  OBVIOUS
<1>1. UNCHANGED <<inputVars, pc, index, command, seen, positional_start, resultVars, refused, storeVars,
                  program, arguments, status, parsed, map, readable, reply>>
  BY DEF vars, inputVars, resultVars, storeVars
<1>2. TypeOK'
  BY <1>1, RunningTypes DEF Inv, TypeOK
<1>3. Handled' = Handled
  BY <1>1, AskedIsFixed DEF Handled
<1>4. \A s, i : GivenSoFar(s, i)' = GivenSoFar(s, i) /\ (Defaulted(s, i)' <=> Defaulted(s, i))
  BY <1>1, <1>3, GivenKept DEF Defaulted
<1>5. SeenInv'
  BY <1>1, <1>4, AskedIsFixed DEF Inv, SeenInv
<1>6. StoreInv'
  <2>1. SUFFICES ASSUME pc # "done" \/ status = "ok",
                        NEW s \in Scopes, NEW i \in DOMAIN AskedOptions(s), KeyIsOwn(s, i)
                 PROVE  AsHelpSays(LineSoFar(s, i), GivenSoFar(s, i), map[KeyOf(s, i)])'
    BY <1>1, AskedIsFixed DEF StoreInv
  <2>2. AsHelpSays(LineSoFar(s, i), GivenSoFar(s, i), map[KeyOf(s, i)])
    BY <2>1 DEF Inv, StoreInv
  <2>3. LineSoFar(s, i)' = LineSoFar(s, i)
    BY <1>1, <1>4, AskedIsFixed DEF LineSoFar
  <2>4. GivenSoFar(s, i)' = GivenSoFar(s, i) /\ (map[KeyOf(s, i)])' = map[KeyOf(s, i)]
    BY <1>1, <1>4, AskedIsFixed
  <2> QED
    BY <1>1, <2>2, <2>3, <2>4 DEF AsHelpSays, InOrder
<1>7. LoopInv' /\ PhaseInv'
  <2>1. \A s : CompleteBefore(s, index)' <=> CompleteBefore(s, index)
    BY <1>1, AskedIsFixed DEF CompleteBefore
  <2>2. Positionals' = Positionals
    BY <1>1 DEF Positionals
  <2> QED
    BY <1>1, <2>1, <2>2, AskedIsFixed DEF Inv, LoopInv, PhaseInv, ArgumentsRight
<1>8. EndInv'
  BY <1>1, AskedIsFixed DEF Inv, EndInv, StatusFollowsArguments, UnreadUnlessOk
<1> QED
  BY <1>2, <1>5, <1>6, <1>7, <1>8 DEF Inv

LEMMA NextInv == Inv /\ [Next]_vars => Inv'
<1> SUFFICES ASSUME Inv, [Next]_vars PROVE Inv'
  OBVIOUS
<1>1. CASE CheckCounts
  BY <1>1, CheckCountsStep
<1>2. CASE ArgumentStep
  BY <1>2, HelpStep, VersionStep, AssignStep, ChooseCommandStep, LoopEndSteps DEF ArgumentStep
<1>3. CASE DefaultStep
  BY <1>3, ApplyDefaultStep, DefaultsEndStep DEF DefaultStep
<1>4. CASE CountPositionals
  BY <1>4, CountPositionalsStep
<1>5. CASE Sort
  BY <1>5, SortStep
<1>6. CASE UNCHANGED vars
  BY <1>6, StutterInv
<1> QED
  BY <1>1, <1>2, <1>3, <1>4, <1>5, <1>6 DEF Next

THEOREM Invariance == Spec => []Inv
BY InitInv, NextInv, PTL DEF Spec

(* Every variable of a parse stays in its type, for any specification of    *)
(* the options and any command line (bc_runtime_cli_parse).                 *)
THEOREM TypeCorrect == Spec => []TypeOK
<1>1. Inv => TypeOK
  BY DEF Inv
<1> QED
  BY <1>1, Invariance, PTL

(* The status is the one the arguments call for, and on success the command *)
(* and the positionals are the ones asked for, for every specification and  *)
(* every command line (the loop and the returns of bc_runtime_cli_parse).   *)
THEOREM StatusFollowsArgumentsAlways == Spec => []StatusFollowsArguments
<1>1. Inv => StatusFollowsArguments
  BY DEF Inv, EndInv
<1> QED
  BY <1>1, Invariance, PTL

LEMMA HelpIsTrue == Inv => StoreHoldsWhatHelpSays
<1> SUFFICES ASSUME Inv, status = "ok", NEW scope \in Scopes, NEW i \in DOMAIN AskedOptions(scope)
             PROVE  LET line  == HelpLine(AskedOptions(scope)[i])
                        given == Given(scope, AskedOptions(scope)[i].name)
                    IN  /\ readable
                        /\ line.required => given # {}
                        /\ KeyIsOwn(scope, i) => AsHelpSays(line, given, map[KeyOf(scope, i)])
  BY DEF StoreHoldsWhatHelpSays, Inv, EndInv
<1>1. pc = "done" /\ readable /\ CompleteAt(scope, i)
  BY DEF Inv, EndInv, Complete, Scopes
<1>2. InputsOK
  BY TypesGive DEF Inv
<1>3. GivenSoFar(scope, i) = Given(scope, AskedOptions(scope)[i].name)
  BY <1>1, <1>2, AllGiven DEF GivenSoFar, Handled
<1>4. LineSoFar(scope, i) = HelpLine(AskedOptions(scope)[i])
  BY <1>1 DEF LineSoFar, Defaulted
<1>5. KeyIsOwn(scope, i) => AsHelpSays(LineSoFar(scope, i), GivenSoFar(scope, i), map[KeyOf(scope, i)])
  BY DEF Inv, StoreInv
<1>6. HelpLine(AskedOptions(scope)[i]).required => Given(scope, AskedOptions(scope)[i].name) # {}
  BY <1>1 DEF CompleteAt, HelpLine
<1> QED
  BY <1>1, <1>3, <1>4, <1>5, <1>6

(* After a success the store holds what help says of every option whose key *)
(* is its own (bc_runtime_cli_handle_assignment and                         *)
(* bc_runtime_cli_apply_defaults against bc_runtime_cli_print_option_line). *)
THEOREM StoreHoldsWhatHelpSaysAlways == Spec => []StoreHoldsWhatHelpSays
BY HelpIsTrue, Invariance, PTL

\* What is found under the key of an option with one value: the value of an
\* argument, which was checked, or the default, which nothing checks.
CheckedOrDefault ==
  status = "ok" =>
    \A scope \in Scopes : \A i \in DOMAIN AskedOptions(scope) :
      LET o == AskedOptions(scope)[i]
      IN  KeyIsOwn(scope, i) /\ o.type \notin {"flag", "list"} =>
            \A n \in DOMAIN map[KeyOf(scope, i)] : \E v \in Values :
              /\ map[KeyOf(scope, i)][n] = <<v>>
              /\ IF Given(scope, o.name) # {} THEN Accepts(o, v) ELSE v = o.default

LEMMA GivenIsAccepted ==
  ASSUME InputsOK, Stops = {}, NEW scope \in Scopes, NEW i \in DOMAIN AskedOptions(scope), KeyIsOwn(scope, i),
         NEW g \in Given(scope, AskedOptions(scope)[i].name)
  PROVE  Accepts(AskedOptions(scope)[i], arguments[g].value) /\ g \in 1 .. Len(arguments)
<1> DEFINE name == AskedOptions(scope)[i].name
<1>1. g \in ScopePlaces(scope) /\ arguments[g].name = name
  BY DEF Given
<1>2. OptionsEnd \in Nat /\ CommandPlace \in 1 .. OptionsEnd
  BY EndIsFirst, WordIsFirst, InputTypes
<1>3. /\ g \in 1 .. OptionsEnd - 1 /\ g # CommandPlace
      /\ (IF g < CommandPlace THEN "global" ELSE "command") = scope
  BY <1>1, <1>2 DEF ScopePlaces, Scopes
<1>4. arguments[g].kind = "option" /\ g \in 1 .. Len(arguments)
  BY <1>3, OptionsElsewhere, EndIsFirst
<1>5. Legal(g)
  BY <1>3 DEF Stops
<1>6. PICK j \in DOMAIN AskedOptions(scope) :
        IsMeant(scope, j, name) /\ Accepts(AskedOptions(scope)[j], arguments[g].value)
  BY <1>1, <1>3, <1>4, <1>5 DEF Legal
<1>7. j = i
  BY <1>6, OwnIsMeant DEF IsMeant
<1> QED
  BY <1>4, <1>6, <1>7

(* Whatever the program reads of an option of one value after a success is  *)
(* an argument that passed bc_runtime_cli_validate_value for the type of    *)
(* this very option, or its default: no value reaches a key by another      *)
(* option's name, from the wrong scope or past the check.                   *)
THEOREM CheckedOrDefaultAlways == Spec => []CheckedOrDefault
<1>1. Inv => CheckedOrDefault
  <2> SUFFICES ASSUME Inv, status = "ok", NEW scope \in Scopes, NEW i \in DOMAIN AskedOptions(scope),
                      KeyIsOwn(scope, i), AskedOptions(scope)[i].type \notin {"flag", "list"},
                      NEW n \in DOMAIN map[KeyOf(scope, i)]
               PROVE  \E v \in Values :
                        /\ map[KeyOf(scope, i)][n] = <<v>>
                        /\ IF Given(scope, AskedOptions(scope)[i].name) # {} THEN Accepts(AskedOptions(scope)[i], v)
                           ELSE v = AskedOptions(scope)[i].default
    BY DEF CheckedOrDefault
  <2> DEFINE o     == AskedOptions(scope)[i]
             line  == HelpLine(o)
             given == Given(scope, o.name)
             value == map[KeyOf(scope, i)]
  <2>1. InputsOK /\ AsHelpSays(line, given, value) /\ o \in OptionSpecs
    BY HelpIsTrue, TypesGive, OptionTypesHold DEF Inv, StoreHoldsWhatHelpSays
  <2>2. Stops = {}
    <3>1. Verdict = "ok"
      BY DEF Inv, EndInv, StatusFollowsArguments
    <3> QED
      BY <3>1 DEF Verdict, StopVerdict
  <2>3. CASE given = {}
    <3>1. value = IF line.default = NoValue THEN <<>> ELSE <<<<line.default>>>>
      BY <2>1, <2>3 DEF AsHelpSays
    <3>2. line.default # NoValue
      BY <3>1
    <3>3. line.default = o.default /\ o.default \in Values
      BY <2>1, <3>2 DEF HelpLine, OptionSpecs
    <3>4. value[n] = <<o.default>>
      BY <3>1, <3>2, <3>3
    <3> QED
      BY <2>3, <3>3, <3>4
  <2>4. CASE given # {}
    <3>1. line.takes_value /\ ~line.repeatable
      BY DEF HelpLine
    <3>2. PICK g \in given : value = <<<<arguments[g].value>>>>
      BY <2>1, <2>4, <3>1 DEF AsHelpSays
    <3>3. Accepts(o, arguments[g].value) /\ g \in 1 .. Len(arguments)
      BY <2>1, <2>2, GivenIsAccepted
    <3>4. arguments[g].value \in Values
      BY <2>1, <3>3, InputTypes DEF Accepts
    <3>5. value[n] = <<arguments[g].value>>
      BY <3>2
    <3> QED
      BY <2>4, <3>3, <3>4, <3>5
  <2> QED
    BY <2>3, <2>4
<1> QED
  BY <1>1, Invariance, PTL

(* A parse that does not succeed leaves nothing that can be read (the sort  *)
(* of bc_runtime_cli_parse comes last).                                     *)
THEOREM UnreadUnlessOkAlways == Spec => []UnreadUnlessOk
<1>1. Inv => UnreadUnlessOk
  BY DEF Inv, EndInv
<1> QED
  BY <1>1, Invariance, PTL

\* The places of the steps among the phases.
LEMMA PhasesAre ==
  /\ Phase("check") = 1 /\ Phase("arguments") = 2 /\ Phase("global") = 3 /\ Phase("command") = 4
  /\ Phase("positionals") = 5 /\ Phase("sort") = 6 /\ Phase("done") = 7
BY DEF Phase, Phases

(* Every step of a parse goes to the next argument or option, or to a later *)
(* phase (the two loops of bc_runtime_cli_parse and what follows them).     *)
THEOREM AdvancesAlways == Spec => AlwaysAdvances
<1>1. TypeOK /\ [Next]_vars => [Phase(pc') > Phase(pc) \/ (pc' = pc /\ index' > index)]_vars
  <2> SUFFICES ASSUME TypeOK, Next PROVE Phase(pc') > Phase(pc) \/ (pc' = pc /\ index' > index)
    OBVIOUS
  <2>1. index \in Nat
    BY DEF TypeOK
  <2>2. CASE CheckCounts
    BY <2>2, PhasesAre DEF CheckCounts, GoTo, Error, Return
  <2>3. CASE ArgumentStep
    <3>1. pc = "arguments"
      BY <2>3 DEF ArgumentStep, AtArgument, Help, Version, Assign, ChooseCommand, Separator,
                  FirstPositional, ArgumentsEnd
    <3>2. pc' = "global" \/ pc' = "done" \/ (pc' = pc /\ index' = index + 1)
      <4>1. CASE Help \/ Version
        BY <4>1 DEF Help, Version, Return
      <4>2. CASE Assign
        BY <4>2 DEF Assign, Error, StoreRefuses, Return, StepPastOption, StayInLoop
      <4>3. CASE ChooseCommand
        BY <4>3 DEF ChooseCommand, Error, Return, NextArgument, StayInLoop
      <4>4. CASE Separator \/ FirstPositional \/ ArgumentsEnd
        BY <4>4 DEF Separator, FirstPositional, ArgumentsEnd, StartPositionals, AfterArguments,
                    GoTo, Error, Return
      <4> QED
        BY <2>3, <4>1, <4>2, <4>3, <4>4 DEF ArgumentStep
    <3> QED
      BY <2>1, <3>1, <3>2, PhasesAre
  <2>4. CASE DefaultStep
    <3>1. PICK scope \in Scopes : ApplyDefault(scope) \/ DefaultsEnd(scope)
      BY <2>4 DEF DefaultStep
    <3>2. pc = scope /\ (pc' = "done" \/ (pc' = pc /\ index' = index + 1)
                         \/ (scope = "command" /\ pc' = "positionals") \/ (scope = "global" /\ pc' = "command"))
      <4>1. CASE ApplyDefault(scope)
        BY <4>1 DEF ApplyDefault, Error, StoreRefuses, Return, NextArgument, StayInLoop
      <4>2. CASE DefaultsEnd(scope)
        BY <4>2 DEF DefaultsEnd, GoTo, Return
      <4> QED
        BY <3>1, <4>1, <4>2
    <3> QED
      BY <2>1, <3>1, <3>2, PhasesAre DEF Scopes
  <2>5. CASE CountPositionals
    BY <2>5, PhasesAre DEF CountPositionals, GoTo, CountError, Error, Return
  <2>6. CASE Sort
    BY <2>6, PhasesAre DEF Sort, StoreRefuses, Return
  <2> QED
    BY <2>2, <2>3, <2>4, <2>5, <2>6 DEF Next
<1> QED
  BY <1>1, TypeCorrect, PTL DEF Spec, AlwaysAdvances
=============================================================================
