------------------------- MODULE TypedGettersProofs -------------------------
(***************************************************************************)
(* What holds of the typed getters for any base and any width of integers, *)
(* 10 and 64 bits among them, and texts of any length: the integer getter  *)
(* gives the number that the text denotes, or there is none to give.       *)
(***************************************************************************)
EXTENDS TypedGetters, SequenceTheorems, WellFoundedInduction, TLAPS

-----------------------------------------------------------------------------
(* A set of numbers has a least one, from which induction is had below.     *)
LEMMA LeastNumber ==
  ASSUME NEW T \in SUBSET Nat, T # {}
  PROVE  \E m \in T : \A n \in T : m <= n
<1>1. PICK m \in T : \A n \in T : ~(<<n, m>> \in OpToRel(<, Nat))
  BY WFMin, NatLessThanWellFounded
<1>2. \A n \in T : ~(n < m)
  BY <1>1 DEF OpToRel
<1>. QED BY <1>2

LEMMA SetInduction ==
  ASSUME NEW n \in Nat, NEW S, 0 \in S, \A k \in 1 .. n : k - 1 \in S => k \in S
  PROVE  0 .. n \subseteq S
<1>1. SUFFICES ASSUME 0 .. n \ S # {} PROVE FALSE
  OBVIOUS
<1>2. PICK m \in 0 .. n \ S : \A k \in 0 .. n \ S : m <= k
  <2>1. 0 .. n \ S \in SUBSET Nat
    OBVIOUS
  <2>. QED BY <1>1, <2>1, LeastNumber
<1>3. m \in 1 .. n /\ m - 1 \in 0 .. n
  BY <1>2
<1>4. m - 1 \in S
  BY <1>2, <1>3
<1>. QED BY <1>2, <1>3, <1>4

-----------------------------------------------------------------------------
(* The recursive function Prefixes is what its equation says.               *)
LEMMA Product == ASSUME NEW a \in Nat, NEW b \in Nat PROVE a * b \in Nat
OBVIOUS

LEMMA PrefixFacts ==
  ASSUME NEW s \in Seq(Nat)
  PROVE  /\ Prefixes(s)[0] = 0
         /\ \A k \in 1 .. Len(s) : Prefixes(s)[k] = Prefixes(s)[k - 1] * Base + s[k]
         /\ \A k \in 0 .. Len(s) : Prefixes(s)[k] \in Nat
<1> DEFINE Value(g, m) == IF m = 0 THEN 0 ELSE g[m - 1] * Base + s[m]
           Solved == { n \in 0 .. Len(s) :
                         \E g \in [0 .. n -> Nat] : \A m \in 0 .. n : g[m] = Value(g, m) }
<1>0. /\ Len(s) \in Nat /\ Base \in Nat
      /\ \A k \in 1 .. Len(s) : s[k] \in Nat
  BY GetterAssumption
<1>1. 0 \in Solved
  <2> DEFINE g == [m \in 0 .. 0 |-> 0]
  <2>1. g \in [0 .. 0 -> Nat] /\ \A m \in 0 .. 0 : g[m] = Value(g, m)
    OBVIOUS
  <2>. HIDE DEF g
  <2>. QED BY <2>1, <1>0
<1>2. ASSUME NEW k \in 1 .. Len(s), k - 1 \in Solved
      PROVE  k \in Solved
  <2>1. PICK g \in [0 .. k - 1 -> Nat] : \A m \in 0 .. k - 1 : g[m] = Value(g, m)
    BY <1>2
  <2> DEFINE next == g[k - 1] * Base + s[k]
             h == [m \in 0 .. k |-> IF m = k THEN next ELSE g[m]]
  <2>2. next \in Nat
    <3>1. g[k - 1] \in Nat /\ s[k] \in Nat
      BY <1>0
    <3>2. g[k - 1] * Base \in Nat
      BY <1>0, <3>1, Product
    <3>. QED BY <3>1, <3>2
  <2>3. h \in [0 .. k -> Nat]
    BY <1>0, <2>2
  <2>4. ASSUME NEW m \in 0 .. k PROVE h[m] = Value(h, m)
    <3>1. CASE m = k
      <4>1. h[k - 1] = g[k - 1] /\ h[k] = next
        BY <1>0
      <4>. QED BY <3>1, <4>1
    <3>2. CASE m # k
      <4>1. m \in 0 .. k - 1 /\ (m # 0 => m - 1 \in 0 .. k - 1)
        BY <3>2
      <4>2. h[m] = g[m] /\ (m # 0 => h[m - 1] = g[m - 1])
        BY <4>1
      <4>3. g[m] = Value(g, m)
        BY <4>1, <2>1
      <4>. QED BY <4>2, <4>3
    <3>. QED BY <3>1, <3>2
  <2>. HIDE DEF h, Value
  <2>5. k \in 0 .. Len(s)
    BY <1>0
  <2>. QED BY <2>3, <2>4, <2>5
<1>3. Len(s) \in Solved
  <2>. HIDE DEF Solved
  <2>1. 0 .. Len(s) \subseteq Solved
    BY <1>0, <1>1, <1>2, SetInduction
  <2>. QED BY <1>0, <2>1
<1>4. PICK g \in [0 .. Len(s) -> Nat] : \A m \in 0 .. Len(s) : g[m] = Value(g, m)
  BY <1>3
<1>5. g = [m \in 0 .. Len(s) |-> Value(g, m)]
  BY <1>4
<1>6. Prefixes(s) = [m \in 0 .. Len(s) |-> Value(Prefixes(s), m)]
  BY <1>5 DEF Prefixes
<1> DEFINE P == Prefixes(s)
<1> HIDE DEF P
<1>7. \A m \in 0 .. Len(s) : P[m] = Value(P, m)
  BY <1>6 DEF P
<1>8. P[0] = 0
  BY <1>0, <1>7
<1>9. \A k \in 1 .. Len(s) : P[k] = P[k - 1] * Base + s[k]
  BY <1>0, <1>7
<1>10. \A k \in 0 .. Len(s) : P[k] \in Nat
  <2> DEFINE Numbers == { k \in 0 .. Len(s) : P[k] \in Nat }
  <2>1. 0 \in Numbers
    BY <1>0, <1>8
  <2>2. ASSUME NEW k \in 1 .. Len(s), k - 1 \in Numbers PROVE k \in Numbers
    <3>1. P[k - 1] \in Nat /\ s[k] \in Nat /\ P[k] = P[k - 1] * Base + s[k]
      BY <1>0, <1>9, <2>2
    <3>2. P[k - 1] * Base \in Nat
      BY <1>0, <3>1, Product
    <3>. QED BY <1>0, <3>1, <3>2
  <2>. HIDE DEF Numbers
  <2>3. 0 .. Len(s) \subseteq Numbers
    BY <1>0, <2>1, <2>2, SetInduction
  <2>. QED BY <2>3 DEF Numbers
<1>. QED BY <1>8, <1>9, <1>10 DEF P

(* Digits that follow only make the number greater.                         *)
LEMMA PrefixesGrow ==
  ASSUME NEW s \in Seq(Nat), NEW k \in 0 .. Len(s)
  PROVE  Prefixes(s)[k] <= Number(s)
<1> DEFINE P == Prefixes(s)
           Greater == { m \in 0 .. Len(s) : m >= k => P[k] <= P[m] }
<1>0. /\ Len(s) \in Nat /\ Base \in Nat \ {0}
      /\ \A m \in 1 .. Len(s) : s[m] \in Nat
  BY GetterAssumption
<1>1. /\ \A m \in 1 .. Len(s) : P[m] = P[m - 1] * Base + s[m]
      /\ \A m \in 0 .. Len(s) : P[m] \in Nat
  BY PrefixFacts
<1> HIDE DEF P
<1>2. 0 \in Greater
  BY <1>0, <1>1
<1>3. ASSUME NEW m \in 1 .. Len(s), m - 1 \in Greater PROVE m \in Greater
  <2>1. P[m - 1] \in Nat /\ s[m] \in Nat /\ P[m] \in Nat
    BY <1>0, <1>1
  <2>2. \A a \in Nat : \A b \in Nat \ {0} : a <= a * b
    <3>. SUFFICES ASSUME NEW a \in Nat, NEW b \in Nat \ {0} PROVE a <= a * b
      OBVIOUS
    <3>. DEFINE less == a * (b - 1)
    <3>1. less \in Nat
      BY Product
    <3>2. a * b = less + a
      OBVIOUS
    <3>. HIDE DEF less
    <3>. QED BY <3>1, <3>2
  <2>3. P[m - 1] <= P[m - 1] * Base /\ P[m - 1] * Base \in Nat
    BY <1>0, <2>1, <2>2, Product
  <2>4. P[m - 1] <= P[m]
    BY <1>1, <2>1, <2>3
  <2>5. m \in 0 .. Len(s) /\ m \in Nat
    BY <1>0
  <2>6. CASE m > k
    <3>1. m - 1 >= k
      BY <2>5, <2>6
    <3>2. P[k] <= P[m - 1]
      BY <1>3, <3>1
    <3>3. P[k] \in Nat
      BY <1>1
    <3>4. P[k] <= P[m]
      BY <2>1, <2>4, <3>2, <3>3
    <3>. QED BY <2>5, <3>4
  <2>7. CASE m = k
    <3>1. P[k] <= P[m]
      BY <2>1, <2>7
    <3>. QED BY <2>5, <3>1
  <2>8. CASE m < k
    <3>1. ~(m >= k)
      BY <2>5, <2>8
    <3>. QED BY <2>5, <3>1
  <2>. QED BY <2>5, <2>6, <2>7, <2>8
<1>4. Len(s) \in Greater
  <2>. HIDE DEF Greater
  <2>1. 0 .. Len(s) \subseteq Greater
    BY <1>0, <1>2, <1>3, SetInduction
  <2>. QED BY <1>0, <2>1
<1>. QED BY <1>0, <1>4 DEF Number, P

-----------------------------------------------------------------------------
(* The inductive invariant: the number gathered is the one that the digits  *)
(* read so far denote, and none of them was no digit.                       *)
Gathered ==
  /\ text.characters # <<>>
  /\ result = Prefixes(text.characters)[i]
  /\ result <= Limit
  /\ \A n \in 1 .. i : text.characters[n] # OtherCharacter

NoLong(t) == ~(IsIntegerText(t) /\ Denotes(t) \in Longs)

IntegerInv ==
  wanted = "integer" /\ found # <<>> =>
    /\ pc = "begin" => i = 0 /\ result = 0
    /\ pc \in {"digits", "answered"} => Gathered
    /\ pc = "answered" => i = Len(text.characters) /\ answer = <<Denotes(text)>>
    /\ pc = "refused" => NoLong(text)

BooleanInv ==
  wanted = "boolean" =>
    /\ pc # "digits"
    /\ found # <<>> /\ pc = "refused" => ~IsBooleanText(text)

PhaseInv ==
  /\ pc # "answered" => answer = <<>>
  /\ found = <<>> => pc \in {"begin", "refused"}

IInv == TypeOK /\ IntegerInv /\ BooleanInv /\ PhaseInv

-----------------------------------------------------------------------------
LEMMA TextFacts ==
  ASSUME NEW t \in Texts
  PROVE  /\ t.characters \in Seq(Characters) /\ t.characters \in Seq(Nat)
         /\ Len(t.characters) \in Nat
         /\ \A n \in 1 .. Len(t.characters) : t.characters[n] \in Characters
         /\ (t.characters = <<>>) <=> (Len(t.characters) = 0)
         /\ DOMAIN t.characters = 1 .. Len(t.characters)
<1>1. t.characters \in Seq(Characters)
  <2>1. CASE \E n \in Nat : t.characters \in [1 .. n -> Characters]
    BY <2>1, IsASeq
  <2>2. CASE t.characters = <<OtherCharacter>>
    <3>1. OtherCharacter \in Characters
      BY GetterAssumption DEF OtherCharacter, Characters
    <3>. QED BY <2>2, <3>1
  <2>3. \/ t.characters \in UNION { [1 .. n -> Characters] : n \in 0 .. MaxCharacters }
        \/ t.characters = <<OtherCharacter>>
    BY DEF Texts
  <2>4. 0 .. MaxCharacters \subseteq Nat
    BY GetterAssumption
  <2>. QED BY <2>1, <2>2, <2>3, <2>4
<1>2. Characters \subseteq Nat
  BY GetterAssumption DEF Characters
<1>3. t.characters \in Seq(Nat)
  BY <1>1, <1>2, SeqMonotonic
<1>. QED BY <1>1, <1>3, EmptySeq, LenProperties, ElementOfSeq

LEMMA Found ==
  ASSUME TypeOK, found # <<>>
  PROVE  text \in Texts
<1>1. found \in Seq(Texts)
  BY DEF TypeOK
<1>2. Len(found) \in Nat /\ Len(found) # 0
  BY <1>1, EmptySeq, LenProperties
<1>. QED BY <1>1, <1>2, ElementOfSeq DEF text

(* The cast of what was gathered, negated or not, is the number denoted.    *)
LEMMA CastIsExact ==
  ASSUME NEW negative \in BOOLEAN, NEW u \in Nat,
         u <= IF negative THEN LongMax + 1 ELSE LongMax
  PROVE  LET value == AsLong(IF negative THEN Negated(u) ELSE u)
         IN  value = (IF negative THEN -u ELSE u) /\ value \in Longs
BY GetterAssumption DEF AsLong, Negated, SizeMax, Longs

\* An integer text is a long if and only if its digits stay within the limit.
LEMMA DenotesLimit ==
  ASSUME NEW t \in Texts, t.characters # <<>>,
         NEW limit, limit = IF t.sign = "-" THEN LongMax + 1 ELSE LongMax
  PROVE  /\ Number(t.characters) \in Nat
         /\ Denotes(t) \in Longs => Number(t.characters) <= limit
<1>1. Number(t.characters) \in Nat
  BY TextFacts, PrefixFacts DEF Number
<1>. QED BY <1>1, GetterAssumption DEF Denotes, Longs

-----------------------------------------------------------------------------
LEMMA InitIInv == Init => IInv
<1> SUFFICES ASSUME Init PROVE IInv
  OBVIOUS
<1>1. found \in Seq(Texts) /\ Len(found) <= 1
  <2>1. CASE found = <<>>
    BY <2>1, EmptySeq
  <2>2. CASE \E t \in Texts : found = <<t>>
    BY <2>2
  <2>. QED BY <2>1, <2>2 DEF Init
<1>2. answer = <<>> /\ answer \in Seq(Longs) /\ answer \in Seq(BOOLEAN) /\ Len(answer) <= 1
  BY EmptySeq DEF Init
<1>3. found # <<>> => 0 <= Len(text.characters)
  <2>1. ASSUME found # <<>> PROVE text \in Texts
    BY <2>1, <1>1, EmptySeq, LenProperties, ElementOfSeq DEF text
  <2>. QED BY <2>1, TextFacts
<1>4. TypeOK
  BY <1>1, <1>2, <1>3, GetterAssumption DEF Init, TypeOK, SizeMax
<1>. QED BY <1>2, <1>4 DEF Init, IInv, IntegerInv, BooleanInv, PhaseInv

LEMMA RefuseIInv ==
  ASSUME IInv, Refuse, pc \in {"begin", "digits"},
         wanted = "integer" /\ found # <<>> => NoLong(text),
         wanted = "boolean" /\ found # <<>> => ~IsBooleanText(text)
  PROVE  IInv'
<1>1. UNCHANGED <<wanted, found, i, result, answer>> /\ pc' = "refused" /\ text' = text
  BY DEF Refuse, text
<1>2. TypeOK'
  BY <1>1 DEF IInv, TypeOK
<1>3. IntegerInv' /\ BooleanInv' /\ PhaseInv'
  BY <1>1 DEF IInv, IntegerInv, BooleanInv, PhaseInv, NoLong
<1>. QED BY <1>2, <1>3 DEF IInv

LEMMA BeginIntegerIInv == ASSUME IInv, BeginInteger PROVE IInv'
<1>0. text \in Texts
  BY Found DEF IInv, BeginInteger
<1>1. CASE text.characters = <<>> /\ Refuse
  BY <1>1, RefuseIInv DEF BeginInteger, NoLong, IsIntegerText
<1>2. CASE text.characters # <<>> /\ pc' = "digits" /\ UNCHANGED <<wanted, found, i, result, answer>>
  <2>1. text' = text /\ i = 0 /\ result = 0
    BY <1>2 DEF text, BeginInteger, IInv, IntegerInv
  <2>2. TypeOK'
    BY <1>2 DEF IInv, TypeOK, text
  <2>3. Prefixes(text.characters)[0] = 0 /\ 0 <= Limit
    BY <1>0, TextFacts, PrefixFacts, GetterAssumption DEF Limit
  <2>4. Gathered'
    BY <1>2, <2>1, <2>3 DEF Gathered, Limit, Negative
  <2>5. IntegerInv' /\ BooleanInv' /\ PhaseInv'
    BY <1>2, <2>4 DEF BeginInteger, IInv, IntegerInv, BooleanInv, PhaseInv
  <2>. QED BY <2>2, <2>5 DEF IInv
<1>. QED BY <1>1, <1>2 DEF BeginInteger

LEMMA ReadDigitIInv == ASSUME IInv, ReadDigit PROVE IInv'
<1> DEFINE s == text.characters
           c == s[i + 1]
<1>0. /\ wanted = "integer" /\ found # <<>> /\ text \in Texts
      /\ Gathered
  <2>1. wanted = "integer" /\ found # <<>>
    BY DEF ReadDigit, IInv, TypeOK, BooleanInv, PhaseInv
  <2>. QED BY <2>1, Found DEF ReadDigit, IInv, IntegerInv
<1>1. /\ s \in Seq(Nat) /\ Len(s) \in Nat
      /\ i \in Nat /\ i + 1 \in 1 .. Len(s) /\ i \in 0 .. Len(s)
      /\ c \in Nat /\ s # <<>>
  BY <1>0, TextFacts DEF ReadDigit, IInv, TypeOK, Characters
<1>2. /\ Prefixes(s)[i] = result /\ result \in Nat
      /\ Prefixes(s)[i + 1] = Prefixes(s)[i] * Base + c
      /\ Prefixes(s)[i + 1] \in Nat
  <2>1. /\ \A k \in 1 .. Len(s) : Prefixes(s)[k] = Prefixes(s)[k - 1] * Base + s[k]
        /\ \A k \in 0 .. Len(s) : Prefixes(s)[k] \in Nat
    <3>1. s \in Seq(Nat)
      BY <1>1
    <3>. HIDE DEF s
    <3>. QED BY <3>1, PrefixFacts
  <2>2. /\ i + 1 - 1 = i
        /\ i + 1 \in 0 .. Len(s)
    BY <1>1
  <2>. QED BY <2>1, <2>2, <1>0 DEF Gathered, IInv, TypeOK, SizeMax
<1>3. Added = Prefixes(s)[i + 1]
  BY <1>2 DEF Added, Multiplied
<1>4. Limit \in Nat /\ Limit <= SizeMax /\ SizeMax \in Nat
  BY GetterAssumption DEF Limit, SizeMax
<1>5. CASE c = OtherCharacter /\ Refuse
  <2>1. NoLong(text)
    BY <1>1, <1>5, <1>0, TextFacts DEF NoLong, IsIntegerText
  <2>. QED BY <1>0, <1>5, <2>1, RefuseIInv DEF ReadDigit
<1>6. CASE Exceeds /\ Refuse
  <2>1. Multiplied \in Nat /\ Multiplied <= Added
    <3>1. Multiplied \in Nat
      BY <1>2, GetterAssumption, Product DEF Multiplied
    <3>. QED BY <3>1, <1>1 DEF Added
  <2>2. Added > Limit
    BY <2>1, <1>2, <1>3, <1>4, <1>6 DEF Exceeds
  <2>3. Number(s) > Limit
    <3>1. Prefixes(s)[i + 1] <= Number(s) /\ Number(s) \in Nat
      BY <1>0, <1>1, PrefixesGrow, DenotesLimit
    <3>. QED BY <3>1, <2>2, <1>2, <1>3, <1>4
  <2>4. NoLong(text)
    <3>1. Number(s) \in Nat /\ (Denotes(text) \in Longs => Number(s) <= Limit)
      BY <1>0, <1>1, DenotesLimit DEF Limit, Negative
    <3>. QED BY <3>1, <2>3, <1>4 DEF NoLong
  <2>. QED BY <1>0, <1>6, <2>4, RefuseIInv DEF ReadDigit
<1>7. CASE /\ c # OtherCharacter /\ ~Exceeds
           /\ result' = Added /\ i' = i + 1
           /\ UNCHANGED <<wanted, found, pc, answer>>
  <2>1. text' = text /\ Limit' = Limit
    BY <1>7 DEF text, Limit, Negative
  <2>2. Added <= Limit
    BY <1>2, <1>3, <1>4, <1>7 DEF Exceeds
  <2>3. TypeOK'
    BY <1>1, <1>2, <1>3, <1>4, <1>7, <2>1, <2>2 DEF IInv, TypeOK
  <2>4. Gathered'
    BY <1>0, <1>1, <1>3, <1>7, <2>1, <2>2 DEF Gathered
  <2>5. IntegerInv' /\ BooleanInv' /\ PhaseInv'
    BY <1>0, <1>7, <2>4 DEF ReadDigit, IInv, IntegerInv, BooleanInv, PhaseInv
  <2>. QED BY <2>3, <2>5 DEF IInv
<1>. QED BY <1>5, <1>6, <1>7 DEF ReadDigit

LEMMA AnswerIntegerIInv == ASSUME IInv, AnswerInteger PROVE IInv'
<1> DEFINE s == text.characters
           value == AsLong(IF Negative THEN Negated(result) ELSE result)
<1>0. /\ wanted = "integer" /\ found # <<>> /\ text \in Texts
      /\ Gathered
  <2>1. wanted = "integer" /\ found # <<>>
    BY DEF AnswerInteger, IInv, TypeOK, BooleanInv, PhaseInv
  <2>. QED BY <2>1, Found DEF AnswerInteger, IInv, IntegerInv
<1>1. /\ answer' = <<value>> /\ pc' = "answered" /\ i = Len(s)
      /\ UNCHANGED <<wanted, found, i, result>> /\ text' = text
  BY DEF AnswerInteger, Answer, text
<1>2. result = Number(s) /\ result \in Nat
  BY <1>0, <1>1 DEF Gathered, Number, IInv, TypeOK, SizeMax
<1>3. value = Denotes(text) /\ value \in Longs
  <2>1. Negative \in BOOLEAN /\ result <= IF Negative THEN LongMax + 1 ELSE LongMax
    BY <1>0 DEF Gathered, Limit, Negative
  <2>2. value = (IF Negative THEN -result ELSE result) /\ value \in Longs
    BY <2>1, <1>2, CastIsExact
  <2>. QED BY <2>2, <1>2 DEF Denotes, Negative
<1> HIDE DEF value
<1>4. TypeOK'
  BY <1>0, <1>1, <1>3 DEF IInv, TypeOK
<1>5. Gathered'
  BY <1>0, <1>1 DEF Gathered, Limit, Negative
<1>6. IntegerInv' /\ BooleanInv' /\ PhaseInv'
  <2>1. answer' = <<Denotes(text')>>
    BY <1>1, <1>3
  <2>. QED BY <1>0, <1>1, <1>5, <2>1 DEF IntegerInv, BooleanInv, PhaseInv
<1>. QED BY <1>4, <1>6 DEF IInv

LEMMA ReadBooleanIInv == ASSUME IInv, ReadBoolean PROVE IInv'
<1>0. wanted = "boolean" /\ found # <<>> /\ pc = "begin"
  BY DEF ReadBoolean
<1>1. CASE ~IsTrue /\ ~IsFalse /\ Refuse
  <2>1. ~IsBooleanText(text)
    BY <1>1 DEF IsTrue, IsFalse, IsBooleanText
  <2>. QED BY <1>0, <1>1, <2>1, RefuseIInv
<1>2. ASSUME NEW value \in BOOLEAN, Answer(value) PROVE IInv'
  <2>1. /\ answer' = <<value>> /\ pc' = "answered" /\ text' = text
        /\ UNCHANGED <<wanted, found, i, result>>
    BY <1>2 DEF Answer, text
  <2>2. TypeOK'
    BY <1>0, <2>1 DEF IInv, TypeOK
  <2>. QED BY <1>0, <2>1, <2>2 DEF IInv, IntegerInv, BooleanInv, PhaseInv
<1>. QED BY <1>1, <1>2 DEF ReadBoolean

THEOREM Invariance == Spec => []IInv
<1>1. IInv /\ [Next]_vars => IInv'
  <2> SUFFICES ASSUME IInv, [Next]_vars PROVE IInv'
    OBVIOUS
  <2>1. CASE Missing
    BY <2>1, RefuseIInv DEF Missing
  <2>2. CASE BeginInteger
    BY <2>2, BeginIntegerIInv
  <2>3. CASE ReadDigit
    BY <2>3, ReadDigitIInv
  <2>4. CASE AnswerInteger
    BY <2>4, AnswerIntegerIInv
  <2>5. CASE ReadBoolean
    BY <2>5, ReadBooleanIInv
  <2>6. CASE UNCHANGED vars
    BY <2>6 DEF vars, IInv, TypeOK, IntegerInv, BooleanInv, PhaseInv, Gathered, Limit, Negative, text
  <2>. QED BY <2>1, <2>2, <2>3, <2>4, <2>5, <2>6 DEF Next
<1>. QED BY <1>1, InitIInv, PTL DEF Spec

(* The integer getter is exact for any base and any width of long: it gives *)
(* the number the text denotes, and refuses none that is a long.            *)
THEOREM IntegerExact == Spec => []IntegerIsTheNumber
<1>1. IInv => IntegerIsTheNumber
  <2> SUFFICES ASSUME IInv, wanted = "integer" PROVE IntegerIsTheNumber
    BY DEF IntegerIsTheNumber
  <2>1. ASSUME pc = "answered" PROVE IsIntegerText(text) /\ answer = <<Denotes(text)>>
    <3>1. found # <<>>
      BY <2>1 DEF IInv, PhaseInv
    <3>2. Gathered /\ i = Len(text.characters) /\ answer = <<Denotes(text)>>
      BY <2>1, <3>1 DEF IInv, IntegerInv
    <3>. QED BY <3>1, <3>2, Found, TextFacts DEF IInv, Gathered, IsIntegerText
  <2>2. ASSUME pc = "refused", found # <<>> PROVE NoLong(text)
    BY <2>2 DEF IInv, IntegerInv
  <2>. QED BY <2>1, <2>2 DEF IntegerIsTheNumber, NoLong
<1>. QED BY <1>1, Invariance, PTL

(* What the command line's tests let through is read by the getter of its   *)
(* type, an integer that is no long excepted, and a refusal writes nothing. *)
THEOREM AcceptedIsReadAlways == Spec => []AcceptedIsRead
<1>1. IInv => AcceptedIsRead
  BY DEF IInv, TypeOK, IntegerInv, BooleanInv, PhaseInv, NoLong, AcceptedIsRead
<1>. QED BY <1>1, Invariance, PTL
=============================================================================
