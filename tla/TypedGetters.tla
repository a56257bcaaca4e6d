---------------------------- MODULE TypedGetters ----------------------------
(***************************************************************************)
(* The typed getters of src/config/bc_runtime_config.c: a lookup, then the *)
(* conversion of the value found to a long or a boolean.  The getters on   *)
(* the application and on a store are the same code.                       *)
(*                                                                         *)
(* A text is a sign and the characters after it, digits of base Base, with *)
(* Base itself for any other character.  The words that booleans are read  *)
(* from are texts too, spelled in lower case ("exact") or not.  Base and   *)
(* LongMax are 10 and 2^63 - 1 in the code, where size_t has one bit more  *)
(* than a positive long.                                                   *)
(*                                                                         *)
(* One bound: MaxCharacters, on the texts.                                 *)
(*                                                                         *)
(* A definition marked "slip" is a wrong form of the one after it, with    *)
(* which the properties below are tested; no specification uses it.        *)
(***************************************************************************)
EXTENDS Integers, Sequences

CONSTANTS Base, LongMax, MaxCharacters

ASSUME GetterAssumption ==
  /\ Base \in Nat /\ Base >= 2
  /\ LongMax \in Nat
  /\ MaxCharacters \in Nat

SizeMax == 2 * LongMax + 1

Characters == 0 .. Base
OtherCharacter == Base

TrueWords  == {"true", "yes"}
FalseWords == {"false", "no"}

Texts ==
  [ word : {""}, exact : {TRUE}, sign : {"", "+", "-"},
    characters : UNION { [1 .. n -> Characters] : n \in 0 .. MaxCharacters } ]
  \cup
  [ word : TrueWords \cup FalseWords, exact : BOOLEAN, sign : {""}, characters : {<<OtherCharacter>>} ]

Digit(d) == [word |-> "", exact |-> TRUE, sign |-> "", characters |-> <<d>>]
One  == Digit(1)
Zero == Digit(0)

VARIABLES
  wanted,      \* the type asked for
  found,       \* <<>>, or <<the text>> that the lookup gives
  pc,
  i,           \* characters read
  result,      \* the size_t that gathers the digits
  answer       \* <<>>, or <<what is written to *out_value>>

vars == <<wanted, found, pc, i, result, answer>>

text == found[1]

Init ==
  /\ wanted \in {"integer", "boolean"}
  /\ found \in {<<>>} \cup { <<t>> : t \in Texts }
  /\ pc = "begin"
  /\ i = 0
  /\ result = 0
  /\ answer = <<>>

Refuse == pc' = "refused" /\ UNCHANGED <<wanted, found, i, result, answer>>
Answer(value) == pc' = "answered" /\ answer' = <<value>> /\ UNCHANGED <<wanted, found, i, result>>

Missing ==
  /\ pc = "begin"
  /\ found = <<>>
  /\ Refuse

-----------------------------------------------------------------------------
(* bc_runtime_config_get_integer.                                           *)

BeginInteger ==
  /\ pc = "begin" /\ found # <<>> /\ wanted = "integer"
  /\ \/ text.characters = <<>> /\ Refuse           \* the empty text, or a sign alone
     \/ /\ text.characters # <<>>
        /\ pc' = "digits"
        /\ UNCHANGED <<wanted, found, i, result, answer>>

Negative == text.sign = "-"

LimitUnsigned == SizeMax                            \* slip: the type that gathers, not the one returned
Limit == IF Negative THEN LongMax + 1 ELSE LongMax

Multiplied == result * Base
Added == Multiplied + text.characters[i + 1]

Exceeds == Multiplied > SizeMax \/ Added > SizeMax \/ Added > Limit

ReadDigit ==
  /\ pc = "digits" /\ i < Len(text.characters)
  /\ \/ /\ text.characters[i + 1] = OtherCharacter \/ Exceeds
        /\ Refuse
     \/ /\ text.characters[i + 1] # OtherCharacter /\ ~Exceeds
        /\ result' = Added
        /\ i' = i + 1
        /\ UNCHANGED <<wanted, found, pc, answer>>

AsUnsigned(u) == u                                  \* slip: no cast
\* The cast of a size_t to long.
AsLong(u) == IF u > LongMax THEN u - (SizeMax + 1) ELSE u

\* 0 - u in size_t.
Negated(u) == IF u = 0 THEN 0 ELSE SizeMax + 1 - u

AnswerInteger ==
  /\ pc = "digits" /\ i = Len(text.characters)
  /\ Answer(AsLong(IF Negative THEN Negated(result) ELSE result))

-----------------------------------------------------------------------------
(* bc_runtime_config_get_boolean: case does not matter.                     *)

IsTrue  == text.word \in TrueWords \/ text = One
FalseWithoutZero == text.word \in FalseWords        \* slip: the digit left out
IsFalse == text.word \in FalseWords \/ text = Zero

ReadBoolean ==
  /\ pc = "begin" /\ found # <<>> /\ wanted = "boolean"
  /\ \/ IsTrue /\ Answer(TRUE)
     \/ ~IsTrue /\ IsFalse /\ Answer(FALSE)
     \/ ~IsTrue /\ ~IsFalse /\ Refuse

-----------------------------------------------------------------------------
Next == Missing \/ BeginInteger \/ ReadDigit \/ AnswerInteger \/ ReadBoolean

Spec == Init /\ [][Next]_vars

-----------------------------------------------------------------------------
(* What the command line accepts as a value: bc_runtime_cli_value_is_integer *)
(* and bc_runtime_cli_value_is_boolean, which minds the case.                *)

IsIntegerText(t) ==
  t.characters # <<>> /\ \A n \in DOMAIN t.characters : t.characters[n] # OtherCharacter

IsBooleanText(t) ==
  \/ t.word \in TrueWords \cup FalseWords /\ t.exact
  \/ t \in {One, Zero}

\* The number that the first n of the digits s denote, for each n.
Prefixes(s) ==
  LET upTo[n \in 0 .. Len(s)] == IF n = 0 THEN 0 ELSE upTo[n - 1] * Base + s[n]
  IN  upTo

Number(s) == Prefixes(s)[Len(s)]

Denotes(t) == IF t.sign = "-" THEN -Number(t.characters) ELSE Number(t.characters)

Longs == -(LongMax + 1) .. LongMax

-----------------------------------------------------------------------------
(* Every variable stays in its type; the gathering never leaves size_t.     *)
TypeOK ==
  /\ wanted \in {"integer", "boolean"}
  /\ found \in Seq(Texts) /\ Len(found) <= 1
  /\ pc \in {"begin", "digits", "refused", "answered"}
  /\ i \in Nat /\ (found # <<>> => i <= Len(text.characters))
  /\ result \in 0 .. SizeMax
  /\ answer \in IF wanted = "integer" THEN Seq(Longs) ELSE Seq(BOOLEAN)
  /\ Len(answer) <= 1

(* The integer getter answers with the number the text denotes, the least   *)
(* and the greatest long included, and refuses exactly when there is no     *)
(* value, the text is not a number, or the number is not a long: it never   *)
(* wraps, and the checks on the way refuse no number that fits.             *)
IntegerIsTheNumber ==
  wanted = "integer" =>
    /\ pc = "answered" => IsIntegerText(text) /\ answer = <<Denotes(text)>>
    /\ pc = "refused" /\ found # <<>> /\ IsIntegerText(text) => Denotes(text) \notin Longs

(* A value the command line accepted for an integer or boolean option is    *)
(* read by the getter of that type, except an integer that is no long,      *)
(* which the command line lets pass.  A refusal writes nothing.             *)
AcceptedIsRead ==
  pc = "refused" =>
    /\ answer = <<>>
    /\ found # <<>> => IF wanted = "boolean" THEN ~IsBooleanText(text)
                       ELSE IsIntegerText(text) => Denotes(text) \notin Longs
=============================================================================
