----------------------------- MODULE WriterText -----------------------------
(***************************************************************************)
(* The theorems about what a writer puts: whatever the buffers are, the    *)
(* bytes are those of the text that JsonText promises of the token, and a  *)
(* token fails only for a reason.  The invariant says at each label which  *)
(* part of the text is still to come; a step takes from its front the      *)
(* bytes it puts.                                                          *)
(***************************************************************************)
EXTENDS WriterProof, FiniteSetTheorems

-----------------------------------------------------------------------------
(* The invariant of the text. *)

Levels(n) == J!FlattenSeq([i \in 1 .. n |-> indent])

\* The white space and punctuation that are still to come in front of the token.
AheadOfToken ==
  IF state = "START" /\ write_func \in Ends
  THEN IF Top \in {"a", "o"} THEN J!Newline(stack_current - 1, indent) ELSE <<>>
  ELSE IF state = "START"
  THEN IF Top = "none" THEN <<>>
       ELSE IF Top = "k" THEN (IF indent = NULL THEN <<58>> ELSE <<58, 32>>)
       ELSE (IF Top \in {"a", "o"} THEN <<44>> ELSE <<>>) \o J!Newline(stack_current, indent)
  ELSE IF state = "comma" THEN J!Newline(stack_current, indent)
  ELSE IF state = "newline" THEN Levels(stack_current)
  ELSE IF state = "more" THEN Levels(stack_current - nesting_written - 1)
  ELSE <<>>

\* The letters of the token, what is left of them behind the first k, and of its bytes.
Letters(t) == [i \in DOMAIN t.points |-> J!Letter(t.points[i], "ASCII" \in flags)]
Closing(t) == IF t.wellformed THEN <<34>> ELSE <<>>
From(s, k) == J!FlattenSeq(SubSeq(s, k + 1, Len(s)))
LettersFrom(k) == From(Letters(token), k) \o Closing(token)
BytesFrom(k) == From(Spellings(token), k) \o TailOf(token)

\* The i-th digit of a unit, and the digits from it on.
HexDigitOf(unit, i) == J!HexDigits[1 + ((unit \div J!Power16[5 - i]) % 16)]
HexFrom(unit, i) == [j \in 1 .. 5 - i |-> HexDigitOf(unit, i + j - 1)]

\* The second unit of a pair.
SecondEscape == IF value.utf16[2] = 0 THEN <<>> ELSE J!Escape(value.utf16[2])

\* The last two digits of the escape of a control character are left, or one.
TwoDigits(here, part) ==
  \E ch \in 0 .. 159 : here = <<ch>> /\ HighNibble(ch) = ch \div 16 /\ part = HexFrom(ch, 3)
OneDigit(here, part) == \E ch \in 0 .. 159 : here = <<ch>> /\ part = HexFrom(ch, 4)

\* Within a letter: the bytes of it not yet skipped, and the part of it not yet put.
Within(here, part) ==
  \/ state = "char" /\ here = <<>> /\ part = <<>>
  \/ state = "skip" /\ Len(here) = 1 /\ part = <<>>
  \/ state = "high" /\ TwoDigits(here, part)
  \/ state = "low" /\ OneDigit(here, part)
  \/ state = "copy" /\ part = here /\ Len(here) = value.count
  \/ state = "copied" /\ here # <<>> /\ part = Tail(here) /\ Len(here) = value.count
  \/ /\ here = <<>> /\ value.utf16 \in (0 .. MaxUnit) \X (0 .. MaxUnit)
     /\ \/ state = "pair" /\ value.utf16[2] # 0 /\ part = SecondEscape
        \/ \E i \in 1 .. 4 : /\ state = HexLabel[i]
                             /\ part = HexFrom(value.utf16[1], i) \o SecondEscape
        \/ \E i \in 1 .. 4 : state = HexLabel[i + 4] /\ part = HexFrom(value.utf16[2], i)

\* The text of a string that is still to come behind the opening quote.
StringLeft(text) ==
  \E k \in 0 .. Len(token.points) : \E here, part \in Seq(Byte) :
    /\ Within(here, part)
    /\ Rest = here \o BytesFrom(k)
    /\ value.encoding = token.value.encoding
    /\ text = part \o LettersFrom(k)

\* The text of an integer that is still to come behind the sign.
IntegerLeft(text) ==
  \/ /\ state = "magnitude" /\ value = token.value /\ value.integer # 0
     /\ text = J!Numeral(IF value.integer < 0 THEN -value.integer ELSE value.integer)
  \/ /\ state = "scale" /\ value.integer > 0
     /\ \E j \in 0 .. 19 : value.div = J!Power10[j] /\ value.integer < J!Power10[j + 1]
     /\ text = J!Numeral(value.integer)
  \/ /\ state = "digit" /\ value.integer \in Nat
     /\ \/ value.div = 0 /\ text = <<>>
        \/ \E j \in 0 .. 19 : value.div = J!Power10[j] /\ text = J!LastDigits(value.integer, j + 1)

\* The text of the token that is still to come behind what is pending.
Left(text) ==
  IF state = "done" THEN text = <<>> /\ (token.function = "string" => token.wellformed)
  ELSE IF write_func \in Ends \cup {"prelude"} THEN text = AheadOfToken \o TextOf(token)
  ELSE IF state = "START" THEN text = TextOf(token)
  ELSE IF write_func = "string" THEN StringLeft(text)
  ELSE write_func = "integer" /\ IntegerLeft(text)

\* What a token fails for: its string, or the stack that did not grow.
Reason ==
  \/ token.function = "string" /\ ~token.wellformed /\ due = out
  \/ write_func \in Begins /\ token.function \in Begins /\ stack_current + 1 = stack_size

\* The functions that look at their argument.
WithArgument == {"boolean", "number", "integer", "string"}
ArgumentKept ==
  write_func = "prelude" \/ state = "START" =>
    (token.function \in WithArgument => value = token.value)

\* The bytes due are those put, those pending and the text that is left; a call returned
\* when its buffer was full or all was put.
Underway ==
  IF state = "error" THEN Reason
  ELSE /\ ArgumentKept
       /\ \E text \in Seq(Byte) : due = out \o (pending \o text) /\ Left(text)
       /\ phase = "token" /\ ~busy =>
            /\ written = Len(out)
            /\ IF pending # <<>> THEN written = size ELSE state = "done"

TextOK ==
  /\ phase # "token" => out = <<>>
  /\ phase # "free" => \E n \in 0 .. MaxCalls : token \in Tokens(n)
  /\ phase # "free" /\ accepted /\ ~broken => Underway

-----------------------------------------------------------------------------
(* Sequences put together. *)

\* A set of naturals that is not empty has a smallest element.
LEMMA Smallest ==
  ASSUME NEW T \in SUBSET Nat, T # {}
  PROVE  \E x \in T : \A y \in T : x <= y
<1> DEFINE R == StrictSubsetOrdering(Nat)
           S == FiniteSubsetsOf(Nat)
           U == {0 .. k : k \in T}
<1>1. IsWellFoundedOn(R, S)
  BY FS_StrictSubsetOrderingWellFounded
<1>2. U \subseteq S /\ U # {}
  <2>1. ASSUME NEW k \in T PROVE 0 .. k \in S
    <3>1. IsFiniteSet(0 .. k)
      BY FS_Interval
    <3>2. 0 .. k \subseteq Nat
      OBVIOUS
    <3> QED BY <3>1, <3>2 DEF FiniteSubsetsOf
  <2> HIDE DEF S
  <2> QED BY <2>1
<1>3. \E u \in U : \A v \in U : ~ (<<v, u>> \in R)
  <2> HIDE DEF R, S, U
  <2> QED BY <1>1, <1>2, WFMin
<1>4. PICK x \in T : \A y \in T : ~ (<<0 .. y, 0 .. x>> \in R)
  BY <1>3
<1>5. ASSUME NEW y \in T, y < x PROVE FALSE
  <2>1. 0 .. y \subseteq 0 .. x /\ x \in 0 .. x /\ x \notin 0 .. y
    BY <1>5
  <2>2. <<0 .. y, 0 .. x>> \in R
    BY <2>1 DEF StrictSubsetOrdering
  <2> QED BY <2>2, <1>4
<1> QED BY <1>5

\* Induction, with the set of the numbers for which a statement holds.
LEMMA InductionOnNat ==
  ASSUME NEW S, 0 \in S, \A n \in Nat : n \in S => n + 1 \in S
  PROVE  Nat \subseteq S
<1> SUFFICES ASSUME NEW n \in Nat, n \notin S PROVE FALSE
  OBVIOUS
<1> DEFINE T == Nat \ S
<1>1. PICK x \in T : \A y \in T : x <= y
  BY Smallest
<1>2. x # 0 /\ x - 1 \in Nat /\ x - 1 \in S
  BY <1>1
<1> QED BY <1>1, <1>2

LEMMA Associative ==
  ASSUME NEW B, NEW a \in Seq(B), NEW b \in Seq(B), NEW c \in Seq(B)
  PROVE  (a \o b) \o c = a \o (b \o c)
BY ConcatAssociative

\* What the first sequences are put together to, as a function of how many they are.
PutTogether(B, s, f, n) ==
  /\ f \in [0 .. n -> Seq(B)]
  /\ f[0] = <<>>
  /\ \A k \in 1 .. n : f[k] = f[k - 1] \o s[k]

LEMMA PutTogetherExists ==
  ASSUME NEW B, NEW s \in Seq(Seq(B))
  PROVE  \E f : PutTogether(B, s, f, Len(s))
<1> DEFINE S == {n \in Nat : n <= Len(s) => \E f : PutTogether(B, s, f, n)}
<1>1. 0 \in S
  <2>1. PutTogether(B, s, [k \in 0 .. 0 |-> <<>>], 0)
    BY DEF PutTogether
  <2> QED BY <2>1
<1>2. ASSUME NEW n \in Nat, n \in S PROVE n + 1 \in S
  <2> SUFFICES ASSUME n + 1 <= Len(s) PROVE \E f : PutTogether(B, s, f, n + 1)
    OBVIOUS
  <2>1. n <= Len(s) /\ s[n + 1] \in Seq(B)
    OBVIOUS
  <2>2. PICK f : PutTogether(B, s, f, n)
    BY <1>2, <2>1
  <2> DEFINE next == f[n] \o s[n + 1]
             g == [k \in 0 .. n + 1 |-> IF k = n + 1 THEN next ELSE f[k]]
  <2>3. next \in Seq(B)
    <3>1. f[n] \in Seq(B)
      BY <2>2 DEF PutTogether
    <3> QED BY <2>1, <3>1
  <2> HIDE DEF next
  <2>4. g \in [0 .. n + 1 -> Seq(B)] /\ g[0] = <<>>
    BY <2>2, <2>3 DEF PutTogether
  <2>5. ASSUME NEW k \in 1 .. n + 1 PROVE g[k] = g[k - 1] \o s[k]
    <3>1. CASE k = n + 1
      <4>1. k - 1 = n /\ k - 1 \in 0 .. n + 1 /\ k \in 0 .. n + 1 /\ k - 1 # n + 1
        BY <3>1
      <4>2. g[k] = next /\ g[k - 1] = f[n]
        BY <3>1, <4>1
      <4> QED BY <3>1, <4>2 DEF next
    <3>2. CASE k # n + 1
      <4>1. k \in 1 .. n /\ k - 1 \in 0 .. n + 1 /\ k \in 0 .. n + 1 /\ k - 1 # n + 1
        BY <3>2
      <4>2. g[k] = f[k] /\ g[k - 1] = f[k - 1]
        BY <3>2, <4>1
      <4> QED BY <2>2, <4>1, <4>2 DEF PutTogether
    <3> QED BY <3>1, <3>2
  <2> QED BY <2>4, <2>5 DEF PutTogether
<1>3. Nat \subseteq S
  <2> HIDE DEF S
  <2> QED BY <1>1, <1>2, InductionOnNat
<1> QED BY <1>3

\* FlattenSeq() is what such a function has for all of them.
LEMMA FlattenIs ==
  ASSUME NEW B, NEW s \in Seq(Seq(B)), NEW f, PutTogether(B, s, f, Len(s))
  PROVE  J!FlattenSeq(s) = f[Len(s)]
<1>1. CASE s = <<>>
  BY <1>1 DEF J!FlattenSeq, PutTogether
<1>2. CASE s # <<>>
  <2> DEFINE n == Len(s)
             Eq(g) == g = [i \in 1 .. Len(s) |-> IF i = 1 THEN s[i] ELSE g[i - 1] \o s[i]]
             flatten == CHOOSE g : Eq(g)
             h == [i \in 1 .. Len(s) |-> f[i]]
  <2>1. n \in Nat /\ n >= 1
    BY <1>2
  <2>2. Eq(h)
    <3>1. ASSUME NEW i \in 1 .. Len(s) PROVE f[i] = IF i = 1 THEN s[i] ELSE h[i - 1] \o s[i]
      <4>1. f[i] = f[i - 1] \o s[i] /\ s[i] \in Seq(B)
        BY DEF PutTogether
      <4>2. CASE i = 1
        <5>1. f[0] = <<>>
          BY DEF PutTogether
        <5>2. i - 1 = 0
          BY <4>2
        <5>3. f[i] = <<>> \o s[i] /\ s[i] \in Seq(B)
          BY <4>1, <5>1, <5>2
        <5> QED BY <4>2, <5>3, ConcatEmptySeq
      <4>3. CASE i # 1
        <5>1. i - 1 \in 1 .. Len(s)
          BY <4>3
        <5>2. h[i - 1] = f[i - 1]
          BY <5>1
        <5> QED BY <4>1, <4>3, <5>2
      <4> QED BY <4>2, <4>3
    <3> QED BY <3>1
  <2>3. Eq(flatten)
    <3> HIDE DEF Eq, h
    <3> QED BY <2>2
  <2>4. flatten = [i \in 1 .. Len(s) |-> IF i = 1 THEN s[i] ELSE flatten[i - 1] \o s[i]]
    BY <2>3
  <2> HIDE DEF flatten
  <2> DEFINE S == {k \in Nat : k \in 1 .. n => flatten[k] = f[k]}
  <2>5. 0 \in S
    OBVIOUS
  <2>6. ASSUME NEW k \in Nat, k \in S PROVE k + 1 \in S
    <3> SUFFICES ASSUME k + 1 \in 1 .. n PROVE flatten[k + 1] = f[k + 1]
      OBVIOUS
    <3>1. flatten[k + 1] = IF k + 1 = 1 THEN s[k + 1] ELSE flatten[(k + 1) - 1] \o s[k + 1]
      BY <2>4
    <3>2. f[k + 1] = IF k + 1 = 1 THEN s[k + 1] ELSE h[(k + 1) - 1] \o s[k + 1]
      BY <2>2
    <3>3. k + 1 # 1 => flatten[k] = f[k] /\ h[k] = f[k] /\ (k + 1) - 1 = k
      BY <2>6
    <3> QED BY <3>1, <3>2, <3>3
  <2>7. Nat \subseteq S
    <3> HIDE DEF S
    <3> QED BY <2>5, <2>6, InductionOnNat
  <2>8. flatten[n] = f[n]
    BY <2>1, <2>7
  <2>9. J!FlattenSeq(s) = flatten[Len(s)]
    <3>1. Len(s) # 0
      BY <1>2
    <3> QED BY <3>1, Zenon DEF J!FlattenSeq, flatten
  <2> QED BY <2>8, <2>9
<1> QED BY <1>1, <1>2

\* Sequences are put together from the front.
LEMMA FlattenFront ==
  ASSUME NEW B, NEW s \in Seq(Seq(B))
  PROVE  /\ J!FlattenSeq(s) \in Seq(B)
         /\ s = <<>> => J!FlattenSeq(s) = <<>>
         /\ s # <<>> => J!FlattenSeq(s) = s[1] \o J!FlattenSeq(Tail(s))
<1>1. PICK f : PutTogether(B, s, f, Len(s))
  BY PutTogetherExists
<1>2. J!FlattenSeq(s) = f[Len(s)] /\ f[Len(s)] \in Seq(B)
  <2>1. Len(s) \in 0 .. Len(s)
    OBVIOUS
  <2> QED BY <1>1, <2>1, FlattenIs DEF PutTogether
<1>3. s = <<>> => J!FlattenSeq(s) = <<>>
  BY <1>1, <1>2 DEF PutTogether
<1>4. ASSUME s # <<>> PROVE J!FlattenSeq(s) = s[1] \o J!FlattenSeq(Tail(s))
  <2> DEFINE t == Tail(s)
             n == Len(t)
  <2>1. t \in Seq(Seq(B)) /\ n \in Nat /\ Len(s) = n + 1 /\ \A i \in 1 .. n : t[i] = s[i + 1]
    BY <1>4
  <2>2. PICK g : PutTogether(B, t, g, n)
    BY <2>1, PutTogetherExists
  <2>3. J!FlattenSeq(t) = g[n]
    BY <2>1, <2>2, FlattenIs
  <2> HIDE DEF t
  <2> HIDE DEF n
  <2> DEFINE P(k) == k <= n => f[k + 1] = s[1] \o g[k]
             S == {k \in Nat : P(k)}
  <2>0. s[1] \in Seq(B) /\ n \in Nat
    <3>1. 1 \in 1 .. Len(s)
      BY <2>1 DEF n
    <3> QED BY <2>1, <3>1, ElementOfSeq DEF n
  <2>4. P(0)
    <3>1. 1 \in 1 .. Len(s) /\ 1 - 1 = 0 /\ 0 + 1 = 1
      BY <2>1 DEF n
    <3>2. f[1] = f[1 - 1] \o s[1] /\ f[0] = <<>> /\ g[0] = <<>>
      BY <1>1, <2>2, <3>1, Zenon DEF PutTogether
    <3>3. f[1] = s[1] /\ s[1] \o g[0] = s[1]
      BY <2>0, <3>1, <3>2, ConcatEmptySeq
    <3> QED BY <3>1, <3>3
  <2>5. ASSUME NEW k \in Nat, P(k) PROVE P(k + 1)
    <3> SUFFICES ASSUME k + 1 <= n PROVE f[(k + 1) + 1] = s[1] \o g[k + 1]
      OBVIOUS
    <3>0. /\ (k + 1) + 1 \in 1 .. Len(s) /\ k + 1 \in 1 .. n /\ k \in 0 .. n
          /\ ((k + 1) + 1) - 1 = k + 1 /\ (k + 1) - 1 = k /\ k <= n
      BY <2>0, <2>1 DEF n
    <3>1. f[(k + 1) + 1] = f[((k + 1) + 1) - 1] \o s[(k + 1) + 1]
      BY <1>1, <3>0, Zenon DEF PutTogether
    <3>2. f[k + 1] = s[1] \o g[k]
      BY <2>5, <3>0
    <3>3. s[(k + 1) + 1] = t[k + 1] /\ t[k + 1] \in Seq(B)
      <4>1. t[k + 1] = s[(k + 1) + 1]
        BY <2>1, <3>0, Zenon DEF n
      <4>2. t[k + 1] \in Seq(B)
        BY <2>1, <3>0, ElementOfSeq DEF n
      <4> QED BY <4>1, <4>2
    <3>4. g[k + 1] = g[(k + 1) - 1] \o t[k + 1]
      BY <2>2, <3>0, Zenon DEF PutTogether
    <3>5. g[k] \in Seq(B)
      BY <2>2, <3>0, Zenon DEF PutTogether
    <3>6. (s[1] \o g[k]) \o t[k + 1] = s[1] \o (g[k] \o t[k + 1])
      <4> DEFINE a == s[1]
                 b == g[k]
                 c == t[k + 1]
      <4>1. a \in Seq(B) /\ b \in Seq(B) /\ c \in Seq(B)
        BY <2>0, <3>3, <3>5
      <4> HIDE DEF a, b, c
      <4>2. (a \o b) \o c = a \o (b \o c)
        BY <4>1, Associative
      <4> QED BY <4>2 DEF a, b, c
    <3>7. f[(k + 1) + 1] = (s[1] \o g[k]) \o t[k + 1]
      BY <3>0, <3>1, <3>2, <3>3
    <3>8. g[k + 1] = g[k] \o t[k + 1]
      BY <3>0, <3>4
    <3> QED BY <3>6, <3>7, <3>8
  <2>6. Nat \subseteq S
    <3> HIDE DEF P
    <3>1. 0 \in S /\ \A k \in Nat : k \in S => k + 1 \in S
      BY <2>4, <2>5
    <3> HIDE DEF S
    <3> QED BY <3>1, InductionOnNat
  <2>7. f[n + 1] = s[1] \o g[n]
    <3>1. P(n)
      <4> HIDE DEF P
      <4> QED BY <2>0, <2>6
    <3>2. n <= n
      BY <2>0
    <3> HIDE DEF S
    <3> QED BY <3>1, <3>2, Zenon
  <2> QED BY <1>2, <2>1, <2>3, <2>7 DEF t, n
<1> QED BY <1>2, <1>3, <1>4

\* What is left behind the first k of some sequences.
LEMMA FromFacts ==
  ASSUME NEW B, NEW s \in Seq(Seq(B)), NEW k \in 0 .. Len(s)
  PROVE  /\ From(s, k) \in Seq(B)
         /\ From(s, 0) = J!FlattenSeq(s)
         /\ k = Len(s) => From(s, k) = <<>>
         /\ k < Len(s) => From(s, k) = s[k + 1] \o From(s, k + 1)
<1> DEFINE left(i) == SubSeq(s, i + 1, Len(s))
<1>1. left(k) \in Seq(Seq(B)) /\ left(0) = s
  OBVIOUS
<1>2. k = Len(s) => left(k) = <<>>
  OBVIOUS
<1>3. ASSUME k < Len(s) PROVE left(k) # <<>> /\ left(k)[1] = s[k + 1] /\ Tail(left(k)) = left(k + 1)
  <2>1. Len(left(k)) = Len(s) - k /\ \A i \in 1 .. Len(s) - k : left(k)[i] = s[k + i]
    OBVIOUS
  <2>2. Len(left(k + 1)) = Len(s) - k - 1 /\ \A i \in 1 .. Len(s) - k - 1 : left(k + 1)[i] = s[k + 1 + i]
    BY <1>3
  <2>3. left(k + 1) \in Seq(Seq(B))
    BY <1>3
  <2> HIDE DEF left
  <2>4. left(k) # <<>> /\ left(k)[1] = s[k + 1]
    <3>1. Len(left(k)) > 0 /\ 1 \in 1 .. Len(s) - k
      BY <1>3, <2>1
    <3> QED BY <1>1, <2>1, <3>1
  <2>5. /\ Tail(left(k)) \in Seq(Seq(B)) /\ Len(Tail(left(k))) = Len(left(k)) - 1
        /\ \A i \in 1 .. Len(left(k)) - 1 : Tail(left(k))[i] = left(k)[i + 1]
    BY <1>1, <2>4
  <2>6. \A i \in 1 .. Len(s) - k - 1 : Tail(left(k))[i] = left(k + 1)[i]
    <3> SUFFICES ASSUME NEW i \in 1 .. Len(s) - k - 1 PROVE Tail(left(k))[i] = left(k + 1)[i]
      OBVIOUS
    <3>1. i \in 1 .. Len(left(k)) - 1 /\ i + 1 \in 1 .. Len(s) - k /\ k + (i + 1) = k + 1 + i
      BY <2>1
    <3> QED BY <2>1, <2>2, <2>5, <3>1
  <2>7. Tail(left(k)) = left(k + 1)
    <3>1. Len(Tail(left(k))) = Len(left(k + 1)) /\ Len(left(k + 1)) = Len(s) - k - 1
      BY <2>1, <2>2, <2>5
    <3> QED BY <2>3, <2>5, <2>6, <3>1, SeqEqual
  <2> QED BY <2>4, <2>7
<1>4. From(s, k) = J!FlattenSeq(left(k)) /\ From(s, k + 1) = J!FlattenSeq(left(k + 1))
      /\ From(s, 0) = J!FlattenSeq(left(0))
  BY DEF From
<1> HIDE DEF left
<1> QED BY <1>1, <1>2, <1>3, <1>4, FlattenFront

-----------------------------------------------------------------------------
(* Numerals. *)

LEMMA PowerFacts ==
  /\ J!Power10[0] = 1
  /\ \A k \in 0 .. 20 : J!Power10[k] \in Nat /\ J!Power10[k] > 0
  /\ \A k \in 0 .. 19 : J!Power10[k + 1] = 10 * J!Power10[k]
<1> DEFINE Eq(f) == f = [k \in 0 .. 20 |-> IF k = 0 THEN 1 ELSE 10 * f[k - 1]]
           power == CHOOSE f : Eq(f)
           OK(n) == \E f : /\ f \in [0 .. n -> Nat \ {0}] /\ f[0] = 1
                           /\ \A k \in 1 .. n : f[k] = 10 * f[k - 1]
           S == {n \in Nat : OK(n)}
<1>1. OK(0)
  <2>1. LET f == [k \in 0 .. 0 |-> 1]
        IN  f \in [0 .. 0 -> Nat \ {0}] /\ f[0] = 1 /\ \A k \in 1 .. 0 : f[k] = 10 * f[k - 1]
    OBVIOUS
  <2> QED BY <2>1
<1>2. ASSUME NEW n \in Nat, OK(n) PROVE OK(n + 1)
  <2>1. PICK f : /\ f \in [0 .. n -> Nat \ {0}] /\ f[0] = 1
                 /\ \A k \in 1 .. n : f[k] = 10 * f[k - 1]
    BY <1>2
  <2> DEFINE g == [k \in 0 .. n + 1 |-> IF k = n + 1 THEN 10 * f[n] ELSE f[k]]
  <2>2. f[n] \in Nat \ {0} /\ 10 * f[n] \in Nat \ {0}
    <3>1. f[n] \in Nat \ {0}
      BY <2>1
    <3> QED BY <3>1
  <2>3. g \in [0 .. n + 1 -> Nat \ {0}] /\ g[0] = 1
    BY <2>1, <2>2
  <2>4. ASSUME NEW k \in 1 .. n + 1 PROVE g[k] = 10 * g[k - 1]
    <3>1. CASE k = n + 1
      BY <2>1, <3>1
    <3>2. CASE k # n + 1
      BY <2>1, <3>2
    <3> QED BY <3>1, <3>2
  <2> HIDE DEF g
  <2> QED BY <2>3, <2>4
<1>3. Nat \subseteq S
  <2> HIDE DEF OK
  <2>1. 0 \in S /\ \A n \in Nat : n \in S => n + 1 \in S
    BY <1>1, <1>2
  <2> HIDE DEF S
  <2> QED BY <2>1, InductionOnNat
<1>4. PICK f : /\ f \in [0 .. 20 -> Nat \ {0}] /\ f[0] = 1
               /\ \A k \in 1 .. 20 : f[k] = 10 * f[k - 1]
  <2>1. OK(20)
    <3> HIDE DEF OK
    <3> QED BY <1>3
  <2> QED BY <2>1
<1>5. Eq(f)
  BY <1>4
<1>6. Eq(power)
  <2> HIDE DEF Eq
  <2> QED BY <1>5
<1>7. power = J!Power10
  BY DEF J!Power10
<1>8. J!Power10 = [k \in 0 .. 20 |-> IF k = 0 THEN 1 ELSE 10 * J!Power10[k - 1]]
  BY <1>6, <1>7, Zenon
<1> HIDE DEF power
<1>9. \A k \in 0 .. 19 : J!Power10[k + 1] = 10 * J!Power10[k]
  <2> SUFFICES ASSUME NEW k \in 0 .. 19 PROVE J!Power10[k + 1] = 10 * J!Power10[k]
    OBVIOUS
  <2>1. k + 1 \in 0 .. 20 /\ k + 1 # 0 /\ (k + 1) - 1 = k
    OBVIOUS
  <2>2. J!Power10[k + 1] = 10 * J!Power10[(k + 1) - 1]
    BY <1>8, <2>1
  <2> QED BY <2>1, <2>2
<1> DEFINE Q(k) == k <= 20 => J!Power10[k] \in Nat /\ J!Power10[k] > 0
           T == {k \in Nat : Q(k)}
<1>10. J!Power10[0] = 1
  BY <1>8
<1>11. Q(0)
  BY <1>10
<1>12. ASSUME NEW k \in Nat, Q(k) PROVE Q(k + 1)
  <2> SUFFICES ASSUME k + 1 <= 20 PROVE J!Power10[k + 1] \in Nat /\ J!Power10[k + 1] > 0
    OBVIOUS
  <2>1. J!Power10[k + 1] = 10 * J!Power10[k] /\ J!Power10[k] \in Nat /\ J!Power10[k] > 0
    BY <1>9, <1>12
  <2> QED BY <2>1
<1>13. Nat \subseteq T
  <2> HIDE DEF Q
  <2>1. 0 \in T /\ \A k \in Nat : k \in T => k + 1 \in T
    BY <1>11, <1>12
  <2> HIDE DEF T
  <2> QED BY <2>1, InductionOnNat
<1>14. ASSUME NEW k \in 0 .. 20 PROVE J!Power10[k] \in Nat /\ J!Power10[k] > 0
  <2>1. Q(k)
    <3> HIDE DEF Q
    <3> QED BY <1>13
  <2> QED BY <2>1
<1> QED BY <1>9, <1>10, <1>14

\* Powers grow.
LEMMA PowersGrow ==
  ASSUME NEW i \in 0 .. 20, NEW j \in 0 .. 20, i <= j
  PROVE  J!Power10[i] <= J!Power10[j]
<1> DEFINE P(k) == i + k <= 20 => J!Power10[i] <= J!Power10[i + k]
           S == {k \in Nat : P(k)}
<1>1. P(0)
  BY PowerFacts
<1>2. ASSUME NEW k \in Nat, P(k) PROVE P(k + 1)
  <2> SUFFICES ASSUME i + (k + 1) <= 20 PROVE J!Power10[i] <= J!Power10[i + (k + 1)]
    OBVIOUS
  <2>1. i + k \in 0 .. 19 /\ i + (k + 1) = (i + k) + 1
    OBVIOUS
  <2>2. J!Power10[i] \in Nat /\ J!Power10[i + k] \in Nat /\ J!Power10[(i + k) + 1] = 10 * J!Power10[i + k]
    BY <2>1, PowerFacts
  <2>3. J!Power10[i] <= J!Power10[i + k]
    BY <1>2, <2>1
  <2> QED BY <2>1, <2>2, <2>3
<1>3. Nat \subseteq S
  <2> HIDE DEF P
  <2>1. 0 \in S /\ \A k \in Nat : k \in S => k + 1 \in S
    BY <1>1, <1>2
  <2> HIDE DEF S
  <2> QED BY <2>1, InductionOnNat
<1>4. P(j - i)
  <2> HIDE DEF P
  <2> QED BY <1>3
<1>5. i + (j - i) = j
  OBVIOUS
<1> QED BY <1>4, <1>5

\* The first of some digits.
LEMMA FirstDigit ==
  ASSUME NEW n \in Nat, NEW j \in 0 .. 19
  PROVE  /\ J!LastDigits(n, j + 1) \in Seq(Byte) /\ J!LastDigits(n, 0) = <<>>
         /\ J!LastDigits(n, j) \in Seq(Byte)
         /\ J!LastDigits(n, j + 1) = <<48 + ((n \div J!Power10[j]) % 10)>> \o J!LastDigits(n, j)
<1> DEFINE D(k) == 48 + ((n \div J!Power10[k]) % 10)
           all == J!LastDigits(n, j + 1)
           rest == J!LastDigits(n, j)
<1>1. ASSUME NEW k \in 0 .. 20 PROVE D(k) \in Byte
  <2> DEFINE p == J!Power10[k]
  <2>1. p \in Nat /\ p > 0
    BY PowerFacts
  <2> HIDE DEF p
  <2>2. n \div p \in Nat
    BY <2>1
  <2>3. (n \div p) % 10 \in 0 .. 9
    BY <2>2
  <2> QED BY <2>3 DEF p, Byte
<1>2. all = [i \in 1 .. j + 1 |-> D(j + 1 - i)] /\ rest = [i \in 1 .. j |-> D(j - i)]
  BY DEF J!LastDigits
<1>3. \A i \in 1 .. j + 1 : D(j + 1 - i) \in Byte
  BY <1>1
<1>4. \A i \in 1 .. j : D(j - i) \in Byte
  BY <1>1
<1>5. <<D(j)>> \in Seq(Byte)
  BY <1>1, BytesAreSeq
<1> DEFINE E(k) == D(k)
<1> HIDE DEF D
<1>6. all \in Seq(Byte) /\ Len(all) = j + 1 /\ rest \in Seq(Byte) /\ Len(rest) = j
  <2> HIDE DEF all, rest
  <2> QED BY <1>2, <1>3, <1>4
<1>7. J!LastDigits(n, 0) = <<>>
  BY DEF J!LastDigits
<1>8. all = <<D(j)>> \o rest
  <2> DEFINE one == <<D(j)>>
  <2>1. one \in Seq(Byte) /\ Len(one) = 1 /\ one[1] = D(j)
    BY <1>5
  <2> HIDE DEF all, rest, one
  <2>2. /\ one \o rest \in Seq(Byte) /\ Len(one \o rest) = j + 1
        /\ \A i \in 1 .. j + 1 : (one \o rest)[i] = IF i <= 1 THEN one[i] ELSE rest[i - 1]
    <3>1. /\ one \o rest \in Seq(Byte) /\ Len(one \o rest) = Len(one) + Len(rest)
          /\ \A i \in 1 .. Len(one) + Len(rest) :
               (one \o rest)[i] = IF i <= Len(one) THEN one[i] ELSE rest[i - Len(one)]
      BY <1>6, <2>1, ConcatProperties
    <3>2. Len(one) + Len(rest) = j + 1
      BY <1>6, <2>1
    <3> QED BY <2>1, <3>1, <3>2
  <2>3. ASSUME NEW i \in 1 .. j + 1 PROVE all[i] = (one \o rest)[i]
    <3>1. all[i] = D(j + 1 - i)
      BY <1>2
    <3>2. CASE i = 1
      <4>1. j + 1 - i = j
        BY <3>2
      <4> QED BY <2>1, <2>2, <3>1, <3>2, <4>1
    <3>3. CASE i # 1
      <4>1. i - 1 \in 1 .. j /\ j - (i - 1) = j + 1 - i
        BY <3>3
      <4>2. rest[i - 1] = D(j - (i - 1))
        BY <1>2, <4>1
      <4> QED BY <2>2, <3>1, <3>3, <4>1, <4>2
    <3> QED BY <3>2, <3>3
  <2>4. all = one \o rest
    BY <1>6, <2>2, <2>3, SeqEqual
  <2> QED BY <2>4 DEF one
<1> QED BY <1>6, <1>7, <1>8 DEF D

\* The quotient tells whether a number is smaller.
LEMMA DivZero ==
  ASSUME NEW n \in Nat, NEW p \in Nat, p > 0
  PROVE  n \div p = 0 <=> n < p
<1> DEFINE q == n \div p
           r == n % p
<1>1. n = p * q + r /\ r \in 0 .. p - 1 /\ q \in Nat
  OBVIOUS
<1> HIDE DEF q, r
<1>2. q = 0 => n < p
  BY <1>1
<1>3. q >= 1 => p * q >= p
  BY <1>1
<1>4. q # 0 => n >= p
  BY <1>1, <1>3
<1> QED BY <1>1, <1>2, <1>4 DEF q

\* The numeral of a positive number has the digits from the first that is not zero.
LEMMA NumeralDigits ==
  ASSUME NEW n \in Nat, NEW j \in 0 .. 19, J!Power10[j] <= n, n < J!Power10[j + 1]
  PROVE  J!Numeral(n) = J!LastDigits(n, j + 1)
<1> DEFINE Fits(d) == n < J!Power10[d] /\ (d = 1 \/ n >= J!Power10[d - 1])
           digits == CHOOSE d \in 1 .. 20 : Fits(d)
<1>1. j + 1 \in 1 .. 20 /\ (j + 1) - 1 = j
  OBVIOUS
<1>2. Fits(j + 1)
  BY <1>1
<1>3. ASSUME NEW d \in 1 .. 20, Fits(d) PROVE d = j + 1
  <2>1. /\ J!Power10[d] \in Nat /\ J!Power10[d - 1] \in Nat
        /\ J!Power10[j] \in Nat /\ J!Power10[j + 1] \in Nat
    BY PowerFacts
  <2>2. CASE d <= j
    <3>1. J!Power10[d] <= J!Power10[j]
      BY <2>2, PowersGrow
    <3> QED BY <1>3, <2>1, <3>1
  <2>3. CASE d > j + 1
    <3>1. J!Power10[j + 1] <= J!Power10[d - 1]
      BY <2>3, PowersGrow
    <3> QED BY <1>3, <2>1, <2>3, <3>1
  <2> QED BY <2>2, <2>3
<1>4. digits \in 1 .. 20 /\ Fits(digits)
  <2> HIDE DEF Fits
  <2> QED BY <1>1, <1>2
<1>5. digits = j + 1
  <2> HIDE DEF digits, Fits
  <2> QED BY <1>3, <1>4
<1>6. J!Numeral(n) = <<>> \o J!LastDigits(n, digits)
  <2>1. ~(n < 0)
    OBVIOUS
  <2> QED BY <2>1, Zenon DEF J!Numeral
<1>7. J!LastDigits(n, j + 1) \in Seq(Byte)
  BY FirstDigit
<1> HIDE DEF digits
<1> QED BY <1>5, <1>6, <1>7, ConcatEmptySeq

-----------------------------------------------------------------------------
(* Hexadecimal digits, units and code points. *)

LEMMA Maxima == MaxUnit = 65535 /\ MaxCodepoint = 1114111
BY SMT DEF MaxUnit, MaxCodepoint

LEMMA MaximaAreNat == MaxUnit \in Nat /\ MaxCodepoint \in Nat
BY SMT DEF MaxUnit, MaxCodepoint

\* A digit of a unit is the one the writer puts.
LEMMA HexDigitIs ==
  ASSUME NEW unit \in Nat, unit <= MaxUnit, NEW i \in 1 .. 4
  PROVE  /\ HexDigitOf(unit, i) = ToHex((unit \div Place[i]) % 16)
         /\ HexDigitOf(unit, i) = ToHex((unit \div Place[i + 4]) % 16)
         /\ HexDigitOf(unit, i) \in Byte
<1> DEFINE digit == (unit \div Place[i]) % 16
<1>1. Place[i] = J!Power16[5 - i] /\ Place[i + 4] = Place[i]
  BY DEF Place, J!Power16
<1>2. digit \in 0 .. 15
  <2>1. Place[i] \in {1, 16, 256, 4096} /\ unit \in Nat
    BY DEF Place
  <2> QED BY <2>1
<1>3. HexDigitOf(unit, i) = J!HexDigits[1 + digit]
  BY <1>1 DEF HexDigitOf
<1> HIDE DEF digit
<1>4. J!HexDigits[1 + digit] = ToHex(digit)
  BY <1>2 DEF J!HexDigits, ToHex
<1>5. ToHex(digit) \in Byte
  BY <1>2 DEF ToHex, Byte
<1> QED BY <1>1, <1>3, <1>4, <1>5 DEF digit

\* The digits from the first one on.
LEMMA HexFromFacts ==
  ASSUME NEW unit \in Nat, unit <= MaxUnit
  PROVE  /\ HexFrom(unit, 5) = <<>>
         /\ \A i \in 1 .. 4 : /\ HexFrom(unit, i) \in Seq(Byte)
                              /\ HexFrom(unit, i) = <<HexDigitOf(unit, i)>> \o HexFrom(unit, i + 1)
         /\ HexFrom(unit, 5) \in Seq(Byte)
         /\ J!Escape(unit) = <<92, 117>> \o HexFrom(unit, 1)
<1> DEFINE D(i) == HexDigitOf(unit, i)
<1>1. \A i \in 1 .. 4 : D(i) \in Byte
  BY HexDigitIs
<1>2. J!Escape(unit) = <<92, 117>> \o [i \in 1 .. 4 |-> D(i)]
  BY DEF J!Escape, HexDigitOf
<1> HIDE DEF D
<1>3. /\ HexFrom(unit, 5) = <<>>
      /\ HexFrom(unit, 4) = <<D(4)>>
      /\ HexFrom(unit, 3) = <<D(3), D(4)>>
      /\ HexFrom(unit, 2) = <<D(2), D(3), D(4)>>
      /\ HexFrom(unit, 1) = <<D(1), D(2), D(3), D(4)>>
  BY DEF HexFrom, D
<1>4. [i \in 1 .. 4 |-> D(i)] = <<D(1), D(2), D(3), D(4)>>
  OBVIOUS
<1>5. /\ <<D(4)>> = <<D(4)>> \o <<>>
      /\ <<D(3), D(4)>> = <<D(3)>> \o <<D(4)>>
      /\ <<D(2), D(3), D(4)>> = <<D(2)>> \o <<D(3), D(4)>>
      /\ <<D(1), D(2), D(3), D(4)>> = <<D(1)>> \o <<D(2), D(3), D(4)>>
  OBVIOUS
<1>6. /\ <<>> \in Seq(Byte) /\ <<D(4)>> \in Seq(Byte) /\ <<D(3), D(4)>> \in Seq(Byte)
      /\ <<D(2), D(3), D(4)>> \in Seq(Byte) /\ <<D(1), D(2), D(3), D(4)>> \in Seq(Byte)
  BY <1>1
<1>7. \A i \in 1 .. 4 : /\ HexFrom(unit, i) \in Seq(Byte)
                        /\ HexFrom(unit, i) = <<D(i)>> \o HexFrom(unit, i + 1)
  <2> SUFFICES ASSUME NEW i \in 1 .. 4
               PROVE  HexFrom(unit, i) \in Seq(Byte) /\ HexFrom(unit, i) = <<D(i)>> \o HexFrom(unit, i + 1)
    OBVIOUS
  <2>0. 1 + 1 = 2 /\ 2 + 1 = 3 /\ 3 + 1 = 4 /\ 4 + 1 = 5
    OBVIOUS
  <2>1. CASE i = 1
    BY <1>3, <1>5, <1>6, <2>0, <2>1
  <2>2. CASE i = 2
    BY <1>3, <1>5, <1>6, <2>0, <2>2
  <2>3. CASE i = 3
    BY <1>3, <1>5, <1>6, <2>0, <2>3
  <2>4. CASE i = 4
    BY <1>3, <1>5, <1>6, <2>0, <2>4
  <2> QED BY <2>1, <2>2, <2>3, <2>4
<1> QED BY <1>2, <1>3, <1>4, <1>6, <1>7 DEF D

\* The units of a code point.
LEMMA Units ==
  ASSUME NEW cp \in Nat, cp <= MaxCodepoint
  PROVE  /\ cp <= MaxUnit => Utf16(cp) = <<cp, 0>>
         /\ ~(cp <= MaxUnit) =>
              \E u, v \in Nat : /\ Utf16(cp) = <<u, v>>
                               /\ u <= MaxUnit /\ v <= MaxUnit /\ v # 0
                               /\ 55296 + ((cp - 65536) \div 1024) = u
                               /\ 56320 + ((cp - 65536) % 1024) = v
<1>1. CASE cp <= MaxUnit
  <2>1. cp < 65536
    BY <1>1, Maxima, SMT
  <2> QED BY <1>1, <2>1, SMT DEF Utf16
<1>2. CASE ~(cp <= MaxUnit)
  <2> DEFINE u == (cp \div 1024) + 55232
             v == (cp % 1024) + 56320
  <2>1. cp \in Int /\ cp >= 65536 /\ cp <= 1114111
    BY <1>2, Maxima, SMT
  <2>2. Utf16(cp) = <<u, v>>
    BY <2>1, SMT DEF Utf16
  <2>3. u \in Nat /\ v \in Nat /\ u <= 65535 /\ v >= 56320 /\ v <= 57343
    BY <2>1, SMT
  <2>4. 55296 + ((cp - 65536) \div 1024) = u /\ 56320 + ((cp - 65536) % 1024) = v
    BY <2>1, SMT
  <2> HIDE DEF u, v
  <2>5. u <= MaxUnit /\ v <= MaxUnit /\ v # 0
    BY <2>3, Maxima, SMT
  <2> QED BY <1>2, <2>2, <2>3, <2>4, <2>5, SMT
<1> QED BY <1>1, <1>2, SMT

\* The escape of a unit, and of a code point by its units.
LEMMA EscapeBytes ==
  ASSUME NEW unit \in Nat, unit <= MaxUnit
  PROVE  J!Escape(unit) \in Seq(Byte)
<1>1. HexFrom(unit, 1) \in Seq(Byte) /\ J!Escape(unit) = <<92, 117>> \o HexFrom(unit, 1)
  <2>1. 1 \in 1 .. 4
    OBVIOUS
  <2> QED BY <2>1, HexFromFacts
<1>2. <<92, 117>> \in Seq(Byte)
  BY DEF Byte
<1> QED BY <1>1, <1>2

LEMMA EscapesOfUnits ==
  ASSUME NEW cp \in Nat, cp <= MaxCodepoint
  PROVE  /\ Utf16(cp) \in (0 .. MaxUnit) \X (0 .. MaxUnit)
         /\ J!Escapes(cp) \in Seq(Byte)
         /\ J!Escapes(cp) = J!Escape(Utf16(cp)[1])
                              \o IF Utf16(cp)[2] = 0 THEN <<>> ELSE J!Escape(Utf16(cp)[2])
<1>0. J!MaxUnit = MaxUnit
  BY SMT DEF J!MaxUnit, MaxUnit
<1>1. CASE cp <= MaxUnit
  <2>1. Utf16(cp) = <<cp, 0>> /\ cp \in 0 .. MaxUnit /\ 0 \in 0 .. MaxUnit
    BY <1>1, Units, MaximaAreNat, SMT
  <2>2. J!Escape(cp) \in Seq(Byte)
    BY <1>1, EscapeBytes
  <2>3. J!Escapes(cp) = J!Escape(cp)
    <3>1. cp <= J!MaxUnit
      BY <1>0, <1>1
    <3> QED BY <3>1, SMT DEF J!Escapes
  <2>4. Utf16(cp) \in (0 .. MaxUnit) \X (0 .. MaxUnit) /\ Utf16(cp)[1] = cp /\ Utf16(cp)[2] = 0
    BY <2>1, SMT
  <2>5. J!Escape(cp) \o <<>> = J!Escape(cp)
    BY <2>2, ConcatEmptySeq
  <2> QED BY <2>2, <2>3, <2>4, <2>5, SMT
<1>2. CASE ~(cp <= MaxUnit)
  <2>1. PICK u \in Nat, v \in Nat : /\ Utf16(cp) = <<u, v>>
                                    /\ u <= MaxUnit /\ v <= MaxUnit /\ v # 0
                                    /\ 55296 + ((cp - 65536) \div 1024) = u
                                    /\ 56320 + ((cp - 65536) % 1024) = v
    BY <1>2, Units, SMT
  <2>2. J!Escape(u) \in Seq(Byte) /\ J!Escape(v) \in Seq(Byte)
    BY <2>1, EscapeBytes
  <2>3. J!Escapes(cp) = J!Escape(u) \o J!Escape(v)
    BY <1>0, <1>2, <2>1, SMT DEF J!Escapes
  <2>4. Utf16(cp) \in (0 .. MaxUnit) \X (0 .. MaxUnit) /\ Utf16(cp)[1] = u /\ Utf16(cp)[2] = v
    BY <2>1, MaximaAreNat, SMT
  <2> QED BY <2>1, <2>2, <2>3, <2>4, SMT
<1> QED BY <1>1, <1>2

-----------------------------------------------------------------------------
(* UTF-8 and letters. *)

LEMMA SequenceLengths ==
  ASSUME NEW a \in Byte
  PROVE  /\ a \in 194 .. 223 => SequenceLength(a) = 2
         /\ a \in 224 .. 239 => SequenceLength(a) = 3
         /\ a \in 240 .. 244 => SequenceLength(a) = 4
         /\ a < 128 => SequenceLength(a) = 1
<1>1. a \in Int
  BY DEF Byte
<1>2. CASE a \in 194 .. 223
  <2>1. ~(a < 128) /\ a \notin 224 .. 239 /\ a \notin 240 .. 244
    BY <1>2
  <2> QED BY <1>2, <2>1, SMT DEF SequenceLength
<1>3. CASE a \in 224 .. 239
  <2>1. ~(a < 128) /\ a \notin 194 .. 223 /\ a \notin 240 .. 244
    BY <1>3
  <2> QED BY <1>3, <2>1, SMT DEF SequenceLength
<1>4. CASE a \in 240 .. 244
  <2>1. ~(a < 128) /\ a \notin 194 .. 223 /\ a \notin 224 .. 239
    BY <1>4
  <2> QED BY <1>4, <2>1, SMT DEF SequenceLength
<1>5. CASE a < 128
  <2>1. a \notin 194 .. 223 /\ a \notin 224 .. 239 /\ a \notin 240 .. 244
    BY <1>1, <1>5
  <2> QED BY <1>5, <2>1, Zenon DEF SequenceLength
<1> QED BY <1>1, <1>2, <1>3, <1>4, <1>5

\* A sequence of the right bytes is counted.
LEMMA CountedSequence ==
  ASSUME NEW bytes, NEW n \in 2 .. 4, SequenceLength(bytes[1]) = n, Len(bytes) \in Nat, Len(bytes) >= n,
         bytes[2] \in SecondUnits(bytes[1]),
         n >= 3 => bytes[3] \in Continuation, n = 4 => bytes[4] \in Continuation
  PROVE  DecodedCount(bytes) = n
BY DEF DecodedCount

\* The bytes of a code point are decoded, whatever comes behind them.
LEMMA Utf8Decodes ==
  ASSUME NEW cp \in Nat, cp <= MaxCodepoint, cp >= 128, NEW rest \in Seq(Byte)
  PROVE  /\ Utf8(cp) \in Seq(Byte) /\ Len(Utf8(cp)) \in 2 .. 4 /\ Utf8(cp)[1] >= 128
         /\ (Utf8(cp) \o rest)[1] >= 128
         /\ DecodedCount(Utf8(cp) \o rest) = Len(Utf8(cp))
         /\ DecodedCodepoint(Utf8(cp) \o rest, Len(Utf8(cp))) = cp
<1>1. cp <= 1114111
  BY Maxima, SMT
<1> DEFINE c1 == ((cp \div 1) % 64) + 128
           c2 == ((cp \div 64) % 64) + 128
           c3 == ((cp \div 4096) % 64) + 128
<1>2. /\ c1 \in Continuation /\ c2 \in Continuation /\ c3 \in Continuation
  BY SMT DEF Continuation
<1>3. Continuation \subseteq Byte /\ Continuation \subseteq Int
  BY DEF Continuation, Byte
<1>4. CASE cp <= 2047
  <2> DEFINE a == (cp \div 64) + 192
             s == <<a, c1>>
             b == s \o rest
  <2>1. Utf8(cp) = s
    BY <1>4, SMT DEF Utf8
  <2>2. a \in 194 .. 223 /\ a \in Byte
    BY <1>4, SMT DEF Byte
  <2>3. cp = a * 64 + c1 - 12416
    BY SMT
  <2> HIDE DEF a, c1, c2, c3
  <2>4. s \in Seq(Byte) /\ Len(s) = 2 /\ s[1] = a
    BY <1>2, <1>3, <2>2
  <2>5. b[1] = a /\ b[2] = c1 /\ Len(b) \in Nat /\ Len(b) >= 2
    BY <2>4
  <2>6. SequenceLength(a) = 2
    BY <2>2, SequenceLengths
  <2>7. c1 \in SecondUnits(a)
    <3>1. a # 224 /\ a # 240 /\ a # 244
      BY <2>2
    <3> QED BY <1>2, <3>1, Zenon DEF SecondUnits
  <2> HIDE DEF s, b
  <2>8. DecodedCount(b) = 2
    BY <2>5, <2>6, <2>7, CountedSequence
  <2>9. DecodedCodepoint(b, 2) = (b[1] * 64 + b[2]) - 12416
    BY DEF DecodedCodepoint, Marks
  <2>10. a \in Int /\ c1 \in Int
    BY <1>2, <1>3, <2>2
  <2>11. DecodedCodepoint(b, 2) = cp
    BY <2>3, <2>5, <2>9, <2>10
  <2>12. a >= 128
    BY <2>2
  <2> QED BY <2>1, <2>4, <2>5, <2>8, <2>11, <2>12 DEF b
<1>5. CASE cp > 2047 /\ cp <= 65535
  <2> DEFINE a == (cp \div 4096) + 224
             s == <<a, c2, c1>>
             b == s \o rest
  <2>1. Utf8(cp) = s
    BY <1>5, SMT DEF Utf8
  <2>2. a \in 224 .. 239 /\ a \in Byte /\ (a = 224 => c2 \in 160 .. 191)
    <3>1. a \in 224 .. 239
      BY <1>5, SMT
    <3>2. a = 224 => c2 \in 160 .. 191
      BY <1>5, SMT
    <3> HIDE DEF a, c2
    <3> QED BY <3>1, <3>2 DEF Byte
  <2>3. cp = (a * 64 + c2) * 64 + c1 - 925824
    BY SMT
  <2> HIDE DEF a, c1, c2, c3
  <2>4. s \in Seq(Byte) /\ Len(s) = 3 /\ s[1] = a
    BY <1>2, <1>3, <2>2
  <2>5. b[1] = a /\ b[2] = c2 /\ b[3] = c1 /\ Len(b) \in Nat /\ Len(b) >= 3
    BY <2>4
  <2>6. SequenceLength(a) = 3
    BY <2>2, SequenceLengths
  <2>7. c2 \in SecondUnits(a)
    <3>1. a # 240 /\ a # 244
      BY <2>2
    <3> QED BY <1>2, <2>2, <3>1 DEF SecondUnits
  <2> HIDE DEF s, b
  <2>8. DecodedCount(b) = 3
    BY <1>2, <2>5, <2>6, <2>7, CountedSequence
  <2>9. DecodedCodepoint(b, 3) = ((b[1] * 64 + b[2]) * 64 + b[3]) - 925824
    BY SMT DEF DecodedCodepoint, Marks
  <2>10. a \in Int /\ c1 \in Int /\ c2 \in Int
    BY <1>2, <1>3, <2>2
  <2>11. DecodedCodepoint(b, 3) = cp
    BY <2>3, <2>5, <2>9, <2>10, SMT
  <2>12. a >= 128
    BY <2>2
  <2> QED BY <2>1, <2>4, <2>5, <2>8, <2>11, <2>12, SMT DEF b
<1>6. CASE cp > 65535
  <2> DEFINE a == (cp \div 262144) + 240
             s == <<a, c3, c2, c1>>
             b == s \o rest
  <2>1. Utf8(cp) = s
    BY <1>6, SMT DEF Utf8
  <2>2. /\ a \in 240 .. 244 /\ a \in Byte
        /\ a = 240 => c3 \in 144 .. 191
        /\ a = 244 => c3 \in 128 .. 143
    <3>1. a \in 240 .. 244
      BY <1>1, <1>6, SMT
    <3>2. a = 240 => c3 \in 144 .. 191
      BY <1>6, SMT
    <3>3. a = 244 => c3 \in 128 .. 143
      BY <1>1, <1>6, SMT
    <3> HIDE DEF a, c3
    <3> QED BY <3>1, <3>2, <3>3 DEF Byte
  <2>3. cp = ((a * 64 + c3) * 64 + c2) * 64 + c1 - 63447168
    BY SMT
  <2> HIDE DEF a, c1, c2, c3
  <2>4. s \in Seq(Byte) /\ Len(s) = 4 /\ s[1] = a
    BY <1>2, <1>3, <2>2
  <2>5. b[1] = a /\ b[2] = c3 /\ b[3] = c2 /\ b[4] = c1 /\ Len(b) \in Nat /\ Len(b) >= 4
    BY <2>4
  <2>6. SequenceLength(a) = 4
    BY <2>2, SequenceLengths
  <2>7. c3 \in SecondUnits(a)
    <3>1. a # 224 /\ a \in {240, 241, 242, 243, 244}
      BY <2>2
    <3>2. CASE a = 240
      BY <2>2, <3>2, SMT DEF SecondUnits
    <3>3. CASE a = 244
      BY <2>2, <3>3, SMT DEF SecondUnits
    <3>4. CASE a # 240 /\ a # 244
      BY <1>2, <3>1, <3>4, SMT DEF SecondUnits
    <3> QED BY <3>2, <3>3, <3>4
  <2> HIDE DEF s, b
  <2>8. DecodedCount(b) = 4
    BY <1>2, <2>5, <2>6, <2>7, CountedSequence
  <2>9. DecodedCodepoint(b, 4) = (((b[1] * 64 + b[2]) * 64 + b[3]) * 64 + b[4]) - 63447168
    BY SMT DEF DecodedCodepoint, Marks
  <2>10. a \in Int /\ c1 \in Int /\ c2 \in Int /\ c3 \in Int
    BY <1>2, <1>3, <2>2
  <2>11. DecodedCodepoint(b, 4) = cp
    BY <2>3, <2>5, <2>9, <2>10, SMT
  <2>12. a >= 128
    BY <2>2
  <2> QED BY <2>1, <2>4, <2>5, <2>8, <2>11, <2>12, SMT DEF b
<1> QED BY <1>4, <1>5, <1>6

\* The operators of Bytes are those JsonText is given.
LEMMA SameBytes ==
  /\ \A cp : J!Utf8(cp) = Utf8(cp)
  /\ \A ch : J!Unescape(ch) = Unescape(ch)
  /\ J!Escapable = Escapable
BY DEF J!Utf8, Utf8, J!Unescape, Unescape, J!Escapable, Escapable

\* The letters of code points.
LEMMA LetterCases ==
  ASSUME NEW cp \in Nat, cp <= MaxCodepoint, NEW ascii \in BOOLEAN
  PROVE  /\ cp \in HasShortEscape => J!Letter(cp, ascii) = <<92, ShortEscape(cp)>>
         /\ cp \notin HasShortEscape /\ (cp \in 0 .. 31 \cup 127 .. 159 \/ (ascii /\ cp > 127)) =>
              J!Letter(cp, ascii) = J!Escapes(cp)
         /\ cp \notin HasShortEscape /\ ~(cp \in 0 .. 31 \cup 127 .. 159 \/ (ascii /\ cp > 127)) =>
              J!Letter(cp, ascii) = Utf8(cp)
<1> DEFINE short == {letter \in J!Escapable \ {47} : J!Unescape(letter) = cp}
<1>1. short = {letter \in ShortEscapes : Unescape(letter) = cp}
  BY SameBytes DEF ShortEscapes
<1>2. cp \in HasShortEscape <=> short # {}
  BY <1>1 DEF HasShortEscape
<1>3. J!Letter(cp, ascii) =
        IF short # {} THEN <<92, CHOOSE letter \in short : TRUE>>
        ELSE IF cp \in 0 .. 31 \cup 127 .. 159 \/ (ascii /\ cp > 127) THEN J!Escapes(cp)
        ELSE J!Utf8(cp)
  BY DEF J!Letter
<1>4. ASSUME cp \in HasShortEscape PROVE (CHOOSE letter \in short : TRUE) = ShortEscape(cp)
  <2>1. \A l, m \in ShortEscapes : Unescape(l) = Unescape(m) => l = m
    BY DEF ShortEscapes, Escapable, Unescape
  <2>2. ShortEscape(cp) \in short
    <3>1. \E letter : letter \in ShortEscapes /\ Unescape(letter) = cp
      BY <1>4 DEF HasShortEscape
    <3>2. ShortEscape(cp) \in ShortEscapes /\ Unescape(ShortEscape(cp)) = cp
      BY <3>1 DEF ShortEscape
    <3> QED BY <1>1, <3>2
  <2> DEFINE chosen == CHOOSE letter \in short : TRUE
  <2>3. chosen \in short
    <3> HIDE DEF short
    <3> QED BY <2>2
  <2>4. chosen \in ShortEscapes /\ ShortEscape(cp) \in ShortEscapes
        /\ Unescape(chosen) = cp /\ Unescape(ShortEscape(cp)) = cp
    <3> HIDE DEF short, chosen
    <3> QED BY <1>1, <2>2, <2>3
  <2> HIDE DEF chosen
  <2>5. chosen = ShortEscape(cp)
    BY <2>1, <2>4
  <2> QED BY <2>5 DEF chosen
<1> HIDE DEF short
<1>5. CASE cp \in HasShortEscape
  BY <1>2, <1>3, <1>4, <1>5
<1>6. CASE cp \notin HasShortEscape
  <2>1. J!Letter(cp, ascii) =
          IF cp \in 0 .. 31 \cup 127 .. 159 \/ (ascii /\ cp > 127) THEN J!Escapes(cp) ELSE Utf8(cp)
    BY <1>2, <1>3, <1>6, SameBytes, Zenon
  <2> QED BY <1>6, <2>1, Zenon
<1> QED BY <1>5, <1>6

\* A letter is bytes.
LEMMA LetterBytes ==
  ASSUME NEW cp \in Nat, cp <= MaxCodepoint, NEW ascii \in BOOLEAN
  PROVE  J!Letter(cp, ascii) \in Seq(Byte)
<1>1. CASE cp \in HasShortEscape
  <2>1. ShortEscape(cp) \in Byte
    BY <1>1, ShortEscapeByte
  <2>2. <<92, ShortEscape(cp)>> \in Seq(Byte)
    BY <2>1, AsciiBytes, BytesAreSeq
  <2> QED BY <1>1, <2>2, LetterCases
<1>2. CASE cp \notin HasShortEscape
  <2>1. J!Escapes(cp) \in Seq(Byte)
    BY EscapesOfUnits
  <2>2. Utf8(cp) \in Seq(Byte)
    <3>1. CASE cp >= 128
      <4>1. <<>> \in Seq(Byte)
        OBVIOUS
      <4> QED BY <3>1, <4>1, Utf8Decodes
    <3>2. CASE ~(cp >= 128)
      <4>1. Utf8(cp) = <<cp>> /\ cp \in Byte
        BY <3>2, SMT DEF Utf8, Byte
      <4> QED BY <4>1, BytesAreSeq
    <3> QED BY <3>1, <3>2
  <2> QED BY <1>2, <2>1, <2>2, LetterCases, Zenon
<1> QED BY <1>1, <1>2

-----------------------------------------------------------------------------
(* The texts of tokens. *)

LEMMA TextCases ==
  ASSUME NEW t, NEW f, f = t.function
  PROVE  /\ f = "begin_array" => TextOf(t) = <<91>>
         /\ f = "end_array" => TextOf(t) = <<93>>
         /\ f = "begin_object" => TextOf(t) = <<123>>
         /\ f = "end_object" => TextOf(t) = <<125>>
         /\ f = "null" => TextOf(t) = Text.null
         /\ f = "boolean" => TextOf(t) = IF t.value.boolean THEN Text.true ELSE Text.false
         /\ f = "number" => TextOf(t) = IF t.value.number = NULL THEN Text.null ELSE t.value.number
         /\ f = "integer" => TextOf(t) = J!Numeral(t.value.integer)
         /\ f = "string" => TextOf(t) = J!StringText(t.points, t.wellformed, "ASCII" \in flags)
<1> DEFINE brackets == {"begin_array", "end_array", "begin_object", "end_object"}
<1>1. DOMAIN J!Bracket = brackets
  BY DEF J!Bracket
<1>2. CASE f \in brackets
  <2>1. TextOf(t) = J!Bracket[f]
    BY <1>1, <1>2, Zenon DEF TextOf
  <2> QED BY <1>2, <2>1 DEF J!Bracket
<1>3. CASE f \notin brackets
  <2>1. f \notin DOMAIN J!Bracket
    BY <1>1, <1>3
  <2>2. f = "null" => TextOf(t) = Text.null
    BY <2>1, Zenon DEF TextOf
  <2>3. f = "boolean" => TextOf(t) = IF t.value.boolean THEN Text.true ELSE Text.false
    BY <2>1, Zenon DEF TextOf
  <2>4. f = "number" => TextOf(t) = IF t.value.number = NULL THEN Text.null ELSE t.value.number
    BY <2>1, Zenon DEF TextOf
  <2>5. f = "integer" => TextOf(t) = J!Numeral(t.value.integer)
    BY <2>1, Zenon DEF TextOf
  <2>6. f = "string" => TextOf(t) = J!StringText(t.points, t.wellformed, "ASCII" \in flags)
    BY <2>1, Zenon DEF TextOf
  <2> QED BY <1>3, <2>2, <2>3, <2>4, <2>5, <2>6
<1> QED BY <1>2, <1>3

LEMMA SomeBytes ==
  /\ <<10>> \in Seq(Byte) /\ <<34>> \in Seq(Byte) /\ <<44>> \in Seq(Byte) /\ <<45>> \in Seq(Byte)
  /\ <<48>> \in Seq(Byte) /\ <<58>> \in Seq(Byte) /\ <<58, 32>> \in Seq(Byte)
  /\ <<91>> \in Seq(Byte) /\ <<93>> \in Seq(Byte) /\ <<123>> \in Seq(Byte) /\ <<125>> \in Seq(Byte)
  /\ <<92, 117>> \in Seq(Byte) /\ <<92, 117, 48, 48>> \in Seq(Byte) /\ <<>> \in Seq(Byte)
<1>1. {10, 32, 34, 44, 45, 48, 58, 91, 92, 93, 117, 123, 125} \subseteq Byte
  BY DEF Byte
<1> QED BY <1>1

\* The numerals of integers.
LEMMA NumeralZero == J!Numeral(0) = <<48>>
<1> DEFINE Fits(d) == 0 < J!Power10[d] /\ (d = 1 \/ 0 >= J!Power10[d - 1])
           digits == CHOOSE d \in 1 .. 20 : Fits(d)
<1>1. 0 \in 0 .. 20 /\ 0 \in 0 .. 19 /\ J!Power10[0] = 1 /\ J!Power10[0 + 1] = 10
  BY PowerFacts
<1>2. Fits(1) /\ 1 \in 1 .. 20
  BY <1>1
<1>3. ASSUME NEW d \in 1 .. 20, Fits(d) PROVE d = 1
  <2>1. d - 1 \in 0 .. 20
    OBVIOUS
  <2>2. J!Power10[d - 1] \in Nat /\ J!Power10[d - 1] > 0
    BY <2>1, PowerFacts
  <2> QED BY <1>3, <2>2
<1>4. digits = 1
  <2> HIDE DEF Fits
  <2> QED BY <1>2, <1>3, Zenon
<1>5. J!Numeral(0) = <<>> \o J!LastDigits(0, digits)
  <2>1. ~(0 < 0)
    OBVIOUS
  <2> QED BY <2>1, Zenon DEF J!Numeral
<1>6. J!LastDigits(0, 0 + 1) = <<48 + ((0 \div 1) % 10)>> \o J!LastDigits(0, 0) /\ J!LastDigits(0, 0) = <<>>
  BY <1>1, FirstDigit
<1>7. 48 + ((0 \div 1) % 10) = 48 /\ 0 + 1 = 1
  OBVIOUS
<1>8. J!LastDigits(0, 1) = <<48>>
  BY <1>6, <1>7
<1> HIDE DEF digits
<1> QED BY <1>4, <1>5, <1>8

LEMMA HowManyDigits ==
  ASSUME NEW n \in Nat, n > 0, n < J!Power10[20]
  PROVE  \E j \in 0 .. 19 : J!Power10[j] <= n /\ n < J!Power10[j + 1]
<1> DEFINE Above == {k \in 0 .. 20 : n < J!Power10[k]}
<1>1. PICK k \in Above : \A i \in Above : k <= i
  <2>1. 20 \in Above /\ Above \subseteq Nat
    OBVIOUS
  <2> QED BY <2>1, Smallest
<1>2. k \in 0 .. 20 /\ n < J!Power10[k]
  OBVIOUS
<1>3. k # 0
  BY <1>2, PowerFacts
<1>4. k - 1 \in 0 .. 19 /\ (k - 1) + 1 = k /\ k - 1 \notin Above
  BY <1>1, <1>2, <1>3
<1>5. J!Power10[k - 1] \in Nat
  BY <1>4, PowerFacts
<1> QED BY <1>2, <1>4, <1>5

LEMMA NumeralType ==
  ASSUME NEW n \in Nat, n < J!Power10[20]
  PROVE  J!Numeral(n) \in Seq(Byte)
<1>1. CASE n = 0
  BY <1>1, NumeralZero, SomeBytes
<1>2. CASE n > 0
  <2>1. PICK j \in 0 .. 19 : J!Power10[j] <= n /\ n < J!Power10[j + 1]
    BY <1>2, HowManyDigits
  <2> QED BY <2>1, NumeralDigits, FirstDigit
<1> QED BY <1>1, <1>2

LEMMA NumeralSign ==
  ASSUME NEW n \in Int, n < 0, -n < J!Power10[20]
  PROVE  J!Numeral(n) = <<45>> \o J!Numeral(-n)
<1> DEFINE m == -n
           Fits(d) == m < J!Power10[d] /\ (d = 1 \/ m >= J!Power10[d - 1])
           some == CHOOSE d \in 1 .. 20 : Fits(d)
           digits == J!LastDigits(m, some)
<1>1. m \in Nat /\ m > 0 /\ ~(m < 0)
  OBVIOUS
<1>2. J!Numeral(n) = <<45>> \o digits
  BY Zenon DEF J!Numeral
<1>3. J!Numeral(m) = <<>> \o digits
  <2> HIDE DEF m
  <2> QED BY <1>1, Zenon DEF J!Numeral
<1>4. some \in 1 .. 20
  <2>1. PICK j \in 0 .. 19 : J!Power10[j] <= m /\ m < J!Power10[j + 1]
    BY <1>1, HowManyDigits
  <2>2. J!Power10[j] \in Nat /\ j + 1 \in 1 .. 20 /\ (j + 1) - 1 = j
    BY PowerFacts
  <2> HIDE DEF m
  <2>3. Fits(j + 1)
    BY <1>1, <2>1, <2>2
  <2> HIDE DEF Fits
  <2> QED BY <2>2, <2>3, Zenon
<1> HIDE DEF some
<1>5. digits \in Seq(Byte)
  <2>1. some - 1 \in 0 .. 19 /\ (some - 1) + 1 = some
    BY <1>4
  <2> HIDE DEF m
  <2> QED BY <1>1, <2>1, FirstDigit
<1> QED BY <1>2, <1>3, <1>5
-----------------------------------------------------------------------------
(* Strings, and the levels of an indentation. *)

LEMMA CodepointRange ==
  ASSUME NEW encoding, NEW cp \in Codepoints(encoding)
  PROVE  /\ cp \in Nat /\ cp <= MaxCodepoint
         /\ encoding # "UTF8" => cp <= 159
         /\ encoding # "UTF8" /\ CharIsSigned => cp <= 127
<1>1. CASE encoding = "UTF8"
  <2>1. cp \in 0 .. MaxCodepoint
    BY <1>1, Zenon DEF Codepoints
  <2> QED BY <1>1, <2>1, MaximaAreNat, SMT
<1>2. CASE encoding # "UTF8"
  <2>1. cp \in IF CharIsSigned THEN 0 .. 127 ELSE 0 .. 159
    BY <1>2, Zenon DEF Codepoints
  <2>2. cp \in Nat /\ cp <= 159 /\ (CharIsSigned => cp <= 127)
    BY <2>1, SMT
  <2> QED BY <1>2, <2>2, Maxima, SMT
<1> QED BY <1>1, <1>2

LEMMA SpellingBytes ==
  ASSUME NEW encoding, NEW cp \in Codepoints(encoding)
  PROVE  /\ Spelling(cp, encoding) \in Seq(Byte)
         /\ encoding # "UTF8" \/ cp < 128 => Spelling(cp, encoding) = <<cp>> /\ cp \in Byte
         /\ encoding = "UTF8" => Spelling(cp, encoding) = Utf8(cp)
<1>1. /\ cp \in Nat /\ cp <= MaxCodepoint
      /\ encoding # "UTF8" => cp <= 159
  BY CodepointRange
<1>2. CASE encoding = "UTF8" /\ cp >= 128
  <2>1. <<>> \in Seq(Byte)
    OBVIOUS
  <2>2. Utf8(cp) \in Seq(Byte)
    BY <1>1, <1>2, <2>1, Utf8Decodes
  <2>3. ~(cp < 128)
    BY <1>1, <1>2, SMT
  <2> QED BY <1>2, <2>2, <2>3 DEF Spelling
<1>3. CASE encoding # "UTF8" \/ cp < 128
  <2>1. cp \in Byte
    BY <1>1, <1>3, SMT DEF Byte
  <2>2. <<cp>> \in Seq(Byte)
    BY <2>1, BytesAreSeq
  <2>3. Spelling(cp, encoding) = <<cp>>
    BY <1>3, SMT DEF Spelling, Utf8
  <2>4. encoding = "UTF8" => Spelling(cp, encoding) = Utf8(cp)
    BY DEF Spelling
  <2> QED BY <2>1, <2>2, <2>3, <2>4
<1>4. (encoding = "UTF8" /\ cp >= 128) \/ encoding # "UTF8" \/ cp < 128
  BY <1>1, SMT
<1> QED BY <1>2, <1>3, <1>4

\* The code points of a string, their letters and their bytes.
LEMMA StringParts ==
  ASSUME NEW t, Spelled(t), t.value \in Strings
  PROVE  /\ Len(t.points) \in Nat
         /\ Letters(t) \in Seq(Seq(Byte)) /\ Len(Letters(t)) = Len(t.points)
         /\ Spellings(t) \in Seq(Seq(Byte)) /\ Len(Spellings(t)) = Len(t.points)
         /\ \A i \in 1 .. Len(t.points) :
              /\ t.points[i] \in Codepoints(t.value.encoding)
              /\ Letters(t)[i] = J!Letter(t.points[i], "ASCII" \in flags)
              /\ Spellings(t)[i] = Spelling(t.points[i], t.value.encoding)
         /\ TailOf(t) \in Seq(Byte) /\ Closing(t) \in Seq(Byte)
<1> DEFINE points == t.points
           encoding == t.value.encoding
           n == Len(points)
           ascii == "ASCII" \in flags
           L(i) == J!Letter(points[i], ascii)
           S(i) == Spelling(points[i], encoding)
<1>1. points \in Seq(Codepoints(encoding)) /\ n \in Nat /\ DOMAIN points = 1 .. n
  BY DEF Spelled
<1>2. Letters(t) = [i \in 1 .. n |-> L(i)] /\ Spellings(t) = [i \in 1 .. n |-> S(i)]
  BY <1>1 DEF Letters, Spellings
<1>3. ASSUME NEW i \in 1 .. n
      PROVE  points[i] \in Codepoints(encoding) /\ L(i) \in Seq(Byte) /\ S(i) \in Seq(Byte)
  <2> HIDE DEF points, encoding, n, ascii
  <2> DEFINE cp == points[i]
  <2>1. cp \in Codepoints(encoding)
    BY <1>1, <1>3, ElementOfSeq DEF n
  <2>2. ascii \in BOOLEAN
    BY DEF ascii
  <2> HIDE DEF cp
  <2>3. cp \in Nat /\ cp <= MaxCodepoint
    BY <2>1, CodepointRange
  <2>4. J!Letter(cp, ascii) \in Seq(Byte)
    BY <2>2, <2>3, LetterBytes
  <2>5. Spelling(cp, encoding) \in Seq(Byte)
    BY <2>1, SpellingBytes
  <2> QED BY <2>1, <2>4, <2>5 DEF cp
<1>4. \A i \in 1 .. n : Letters(t)[i] = L(i) /\ Spellings(t)[i] = S(i)
  BY <1>2
<1>5. /\ Letters(t) \in Seq(Seq(Byte)) /\ Len(Letters(t)) = n
      /\ Spellings(t) \in Seq(Seq(Byte)) /\ Len(Spellings(t)) = n
  <2>1. [i \in 1 .. n |-> L(i)] \in Seq(Seq(Byte)) /\ [i \in 1 .. n |-> S(i)] \in Seq(Seq(Byte))
    <3> HIDE DEF L, S, n
    <3> QED BY <1>1, <1>3
  <2>2. Len([i \in 1 .. n |-> L(i)]) = n /\ Len([i \in 1 .. n |-> S(i)]) = n
    <3> HIDE DEF L, S, n
    <3> QED BY <1>1
  <2> HIDE DEF L, S, n
  <2> QED BY <1>2, <2>1, <2>2
<1>6. t.value.string \in Seq(Byte)
  BY DEF Strings
<1>7. TailOf(t) \in Seq(Byte)
  <2> DEFINE string == t.value.string
             from == Len(J!FlattenSeq(Spellings(t))) + 1
  <2>1. J!FlattenSeq(Spellings(t)) \in Seq(Byte)
    BY <1>5, FlattenFront
  <2>2. from \in 1 .. Len(string) + 1 \/ from > Len(string)
    BY <1>6, <2>1
  <2>3. TailOf(t) = SubSeq(string, from, Len(string)) /\ string \in Seq(Byte) /\ from \in Nat \ {0}
    BY <1>6, <2>1 DEF TailOf
  <2> HIDE DEF string, from
  <2> QED BY <2>3
<1>8. Closing(t) \in Seq(Byte)
  BY SomeBytes DEF Closing
<1> QED BY <1>1, <1>3, <1>4, <1>5, <1>7, <1>8

LEMMA StringTexts ==
  ASSUME NEW t, Spelled(t), t.value \in Strings, t.function = "string"
  PROVE  /\ J!FlattenSeq(Letters(t)) \in Seq(Byte)
         /\ TextOf(t) = <<34>> \o (J!FlattenSeq(Letters(t)) \o Closing(t))
         /\ TextOf(t) \in Seq(Byte)
<1> DEFINE letters == J!FlattenSeq(Letters(t))
<1>1. letters \in Seq(Byte) /\ Closing(t) \in Seq(Byte) /\ <<34>> \in Seq(Byte)
  BY StringParts, FlattenFront, SomeBytes
<1>2. TextOf(t) = (<<34>> \o letters) \o Closing(t)
  <2>1. TextOf(t) = J!StringText(t.points, t.wellformed, "ASCII" \in flags)
    BY TextCases
  <2> QED BY <2>1, Zenon DEF J!StringText, Letters, Closing
<1> HIDE DEF letters
<1>3. TextOf(t) = <<34>> \o (letters \o Closing(t))
  BY <1>1, <1>2, Associative
<1>4. TextOf(t) \in Seq(Byte)
  BY <1>1, <1>3
<1> QED BY <1>1, <1>3, <1>4 DEF letters

\* The levels of an indentation.
LEMMA LevelsFacts ==
  ASSUME indent \in Seq(Byte), NEW n \in Int
  PROVE  /\ n <= 0 => Levels(n) = <<>>
         /\ Levels(n) \in Seq(Byte)
         /\ n > 0 => Levels(n) = indent \o Levels(n - 1)
         /\ J!Newline(n, indent) = IF indent = NULL THEN <<>> ELSE <<10>> \o Levels(n)
<1> DEFINE all(k) == [i \in 1 .. k |-> indent]
<1>1. ASSUME NEW k \in Int
      PROVE  /\ k <= 0 => all(k) = <<>>
             /\ all(k) \in Seq(Seq(Byte)) /\ Levels(k) = J!FlattenSeq(all(k))
  <2>1. k <= 0 => all(k) = <<>>
    OBVIOUS
  <2>2. CASE k <= 0
    <3>1. all(k) \in Seq(Seq(Byte))
      BY <2>1, <2>2
    <3> QED BY <2>1, <3>1 DEF Levels
  <2>3. CASE k > 0
    <3>1. all(k) \in Seq(Seq(Byte))
      BY <2>3
    <3> QED BY <2>1, <3>1 DEF Levels
  <2> QED BY <2>2, <2>3
<1>2. Levels(n) \in Seq(Byte)
  BY <1>1, FlattenFront
<1>3. n <= 0 => Levels(n) = <<>>
  BY <1>1, FlattenFront
<1>4. ASSUME n > 0 PROVE Levels(n) = indent \o Levels(n - 1)
  <2>1. all(n) # <<>> /\ all(n)[1] = indent
    BY <1>4
  <2>2. Tail(all(n)) = all(n - 1)
    BY <1>4
  <2> HIDE DEF all
  <2>3. all(n) \in Seq(Seq(Byte)) /\ Levels(n) = J!FlattenSeq(all(n)) /\ Levels(n - 1) = J!FlattenSeq(all(n - 1))
    BY <1>1
  <2>4. J!FlattenSeq(all(n)) = all(n)[1] \o J!FlattenSeq(Tail(all(n)))
    BY <2>1, <2>3, FlattenFront
  <2> QED BY <2>1, <2>2, <2>3, <2>4
<1>5. J!Newline(n, indent) = IF indent = NULL THEN <<>> ELSE <<10>> \o Levels(n)
  BY Zenon DEF J!Newline, Levels
<1> QED BY <1>2, <1>3, <1>4, <1>5

LEMMA NoLevels ==
  ASSUME indent = <<>>
  PROVE  \A n \in Nat : Levels(n) = <<>>
<1> DEFINE P(n) == Levels(n) = <<>>
           S == {n \in Nat : P(n)}
<1>1. indent \in Seq(Byte)
  OBVIOUS
<1>2. P(0)
  BY <1>1, LevelsFacts
<1>3. ASSUME NEW n \in Nat, P(n) PROVE P(n + 1)
  <2>1. n + 1 \in Int /\ n + 1 > 0 /\ (n + 1) - 1 = n
    OBVIOUS
  <2>2. Levels(n + 1) = indent \o Levels((n + 1) - 1)
    BY <1>1, <2>1, LevelsFacts
  <2>3. Levels(n + 1) = <<>> \o <<>>
    BY <1>3, <2>1, <2>2
  <2> QED BY <2>3, ConcatEmptySeq
<1> HIDE DEF P
<1>4. 0 \in S /\ \A n \in Nat : n \in S => n + 1 \in S
  BY <1>2, <1>3
<1> HIDE DEF S
<1>5. Nat \subseteq S
  BY <1>4, InductionOnNat
<1> QED BY <1>5 DEF S, P

LEMMA NewlineFacts ==
  ASSUME indent = NULL \/ indent \in Seq(Byte), NEW n \in Int
  PROVE  /\ J!Newline(n, indent) \in Seq(Byte)
         /\ indent = NULL => J!Newline(n, indent) = <<>>
         /\ indent # NULL => J!Newline(n, indent) = <<10>> \o Levels(n)
<1>1. CASE indent = NULL
  BY <1>1 DEF J!Newline
<1>2. CASE indent # NULL
  <2>1. Levels(n) \in Seq(Byte) /\ J!Newline(n, indent) = <<10>> \o Levels(n)
    BY <1>2, LevelsFacts
  <2>2. <<10>> \in Seq(Byte)
    BY SomeBytes
  <2> QED BY <1>2, <2>1, <2>2
<1> QED BY <1>1, <1>2

\* The tokens a program writes have texts.
LEMMA TextsAreBytes ==
  ASSUME StringsAreSpelled, NEW n \in 0 .. MaxCalls, NEW t \in Tokens(n)
  PROVE  /\ TextOf(t) \in Seq(Byte)
         /\ t.function = "string" => Spelled(t) /\ t.value \in Strings
<1>1. /\ t.function \in Values \cup Ends
      /\ t.function = "boolean" => t.value \in Booleans
      /\ t.function = "number"  => t.value \in Numbers
      /\ t.function = "integer" => t.value \in Integers64
      /\ t.function = "string"  => t.value \in Strings
  BY TokenAssumption
<1>2. t.function = "string" => Spelled(t)
  BY DEF StringsAreSpelled
<1>3. ASSUME t.function \in Begins \cup Ends PROVE TextOf(t) \in Seq(Byte)
  BY <1>3, TextCases, SomeBytes DEF Begins, Ends
<1>4. ASSUME t.function \in {"null", "boolean"} PROVE TextOf(t) \in Seq(Byte)
  BY <1>4, TextCases, TextBytes
<1>5. ASSUME t.function = "number" PROVE TextOf(t) \in Seq(Byte)
  <2>1. t.value.number = NULL \/ t.value.number \in Seq(Byte)
    BY <1>1, <1>5 DEF Numbers
  <2> QED BY <1>5, <2>1, TextCases, TextBytes
<1>6. ASSUME t.function = "integer" PROVE TextOf(t) \in Seq(Byte)
  <2> DEFINE m == t.value.integer
  <2>1. m \in 1 - 10 * MaxDivisor .. 10 * MaxDivisor - 1
    BY <1>6, RangeAssumption
  <2>2. PICK k \in 0 .. 19 : MaxDivisor = J!Power10[k]
    BY DivisorAssumption
  <2>3. /\ J!Power10[k] \in Nat /\ J!Power10[k + 1] = 10 * J!Power10[k]
        /\ J!Power10[k + 1] <= J!Power10[20] /\ J!Power10[20] \in Nat
    <3>1. k + 1 \in 0 .. 20 /\ 20 \in 0 .. 20 /\ k + 1 <= 20 /\ k \in 0 .. 20
      OBVIOUS
    <3> QED BY <3>1, PowerFacts, PowersGrow
  <2>4. TextOf(t) = J!Numeral(m)
    BY <1>6, TextCases
  <2> HIDE DEF m
  <2>5. m \in Int /\ m < J!Power10[20] /\ -m < J!Power10[20]
    BY <2>1, <2>2, <2>3
  <2>6. CASE m < 0
    <3>1. -m \in Nat
      BY <2>5, <2>6
    <3>2. J!Numeral(m) = <<45>> \o J!Numeral(-m) /\ J!Numeral(-m) \in Seq(Byte)
      BY <2>5, <2>6, <3>1, NumeralSign, NumeralType
    <3>3. <<45>> \in Seq(Byte)
      BY SomeBytes
    <3>4. <<45>> \o J!Numeral(-m) \in Seq(Byte)
      BY <3>2, <3>3
    <3> QED BY <2>4, <3>2, <3>4
  <2>7. CASE m \in Nat
    <3>1. J!Numeral(m) \in Seq(Byte)
      BY <2>5, <2>7, NumeralType
    <3> QED BY <2>4, <3>1
  <2> QED BY <2>5, <2>6, <2>7
<1>7. ASSUME t.function = "string" PROVE TextOf(t) \in Seq(Byte)
  BY <1>1, <1>2, <1>7, StringTexts
<1> QED BY <1>1, <1>2, <1>3, <1>4, <1>5, <1>6, <1>7 DEF Values, Begins
-----------------------------------------------------------------------------
(* What a step keeps. *)

LEMMA DueIs ==
  ASSUME OutputOK, pending = <<>>, NEW text \in Seq(Byte), due = out \o (pending \o text)
  PROVE  due = out \o text
<1>1. pending \o text = text
  BY ConcatEmptySeq
<1> QED BY <1>1

LEMMA CutInTwo ==
  ASSUME NEW s \in Seq(Byte), NEW n \in 0 .. Len(s)
  PROVE  \E a, b \in Seq(Byte) : /\ a = SubSeq(s, 1, n) /\ b = SubSeq(s, n + 1, Len(s))
                                 /\ Len(a) = n /\ Len(b) = Len(s) - n /\ a \o b = s
<1> DEFINE a == SubSeq(s, 1, n)
           b == SubSeq(s, n + 1, Len(s))
<1>1. a \in Seq(Byte) /\ Len(a) = n /\ b \in Seq(Byte) /\ Len(b) = Len(s) - n
  OBVIOUS
<1>2. a \o b = s
  <2>1. \A i \in 1 .. n : a[i] = s[i]
    OBVIOUS
  <2>2. \A i \in n + 1 .. Len(s) : b[i - n] = s[i]
    OBVIOUS
  <2> HIDE DEF a, b
  <2>3. a \o b \in Seq(Byte) /\ Len(a \o b) = Len(s)
    BY <1>1, ConcatProperties
  <2>4. \A i \in 1 .. Len(s) : (a \o b)[i] = s[i]
    BY <1>1, <2>1, <2>2
  <2> QED BY <2>3, <2>4, SeqEqual
<1> QED BY <1>1, <1>2

LEMMA Regroup ==
  \A a, b, c, d \in Seq(Byte) : (a \o b) \o (c \o d) = a \o ((b \o c) \o d)
<1>1. \A x, y, z \in Seq(Byte) : (x \o y) \o z = x \o (y \o z)
  <2>1. ASSUME NEW x \in Seq(Byte), NEW y \in Seq(Byte), NEW z \in Seq(Byte)
        PROVE  (x \o y) \o z = x \o (y \o z)
    BY Associative
  <2> QED BY <2>1
<1>2. ASSUME NEW a \in Seq(Byte), NEW b \in Seq(Byte), NEW c \in Seq(Byte), NEW d \in Seq(Byte)
      PROVE  (a \o b) \o (c \o d) = a \o ((b \o c) \o d)
  <2>1. c \o d \in Seq(Byte)
    BY ConcatProperties
  <2>2. \A z \in Seq(Byte) : (a \o b) \o z = a \o (b \o z)
    BY <1>1, Zenon
  <2>3. (a \o b) \o (c \o d) = a \o (b \o (c \o d))
    BY <2>1, <2>2, Zenon
  <2>4. (b \o c) \o d = b \o (c \o d)
    BY <1>1, Zenon
  <2> QED BY <2>3, <2>4, Zenon
<1> QED BY <1>2

\* Bytes are put, and the text behind them is left.
LEMMA PutText ==
  ASSUME OutputOK, busy, NEW bytes \in Seq(Byte), NEW text \in Seq(Byte), NEW label, label # "error",
         due = out \o (bytes \o text), Put(bytes, label), size' = size, due' = due,
         Left(text)', ArgumentKept'
  PROVE  Underway'
<1> DEFINE nfree == size - Len(out)
<1>0. nfree \in Nat /\ Len(out) \in Nat /\ Len(bytes) \in Nat /\ out \in Seq(Byte) /\ size \in Nat
  BY DEF OutputOK
<1>1. state' = label
  BY DEF Put
<1>2. /\ due = out' \o (pending' \o text)
      /\ ~busy' => written' = Len(out') /\ pending' # <<>> /\ written' = size
  <2>1. CASE Len(bytes) <= nfree
    <3>1. out' = out \o bytes /\ pending' = <<>> /\ busy'
      BY <2>1 DEF Put
    <3>2. (out \o bytes) \o text = out \o (bytes \o text) /\ pending' \o text = text
      BY <1>0, <3>1, Associative, ConcatEmptySeq
    <3> QED BY <3>1, <3>2
  <2>2. CASE ~(Len(bytes) <= nfree)
    <3>1. /\ out' = out \o SubSeq(bytes, 1, nfree)
          /\ pending' = SubSeq(bytes, nfree + 1, Len(bytes)) /\ written' = size
      BY <2>2 DEF Put, Return
    <3>2. PICK pre, post \in Seq(Byte) :
            /\ pre = SubSeq(bytes, 1, nfree) /\ post = SubSeq(bytes, nfree + 1, Len(bytes))
            /\ Len(pre) = nfree /\ Len(post) = Len(bytes) - nfree /\ pre \o post = bytes
      <4>1. nfree \in 0 .. Len(bytes)
        BY <1>0, <2>2
      <4> HIDE DEF nfree
      <4> QED BY <4>1, CutInTwo
    <3>3. Len(out') = size
      BY <1>0, <3>1, <3>2
    <3>4. pending' # <<>>
      <4>1. Len(post) > 0
        BY <1>0, <2>2, <3>2
      <4>2. post # <<>>
        BY <4>1
      <4> QED BY <3>1, <3>2, <4>2, Zenon
    <3>5. (out \o pre) \o (post \o text) = out \o ((pre \o post) \o text)
      <4>1. out \in Seq(Byte)
        BY <1>0
      <4>2. \A b, c, d \in Seq(Byte) : (out \o b) \o (c \o d) = out \o ((b \o c) \o d)
        BY <4>1, Regroup, Zenon
      <4>3. \A d \in Seq(Byte) : (out \o pre) \o (post \o d) = out \o ((pre \o post) \o d)
        BY <4>2, Zenon
      <4> QED BY <4>3, Zenon
    <3>6. due = out' \o (pending' \o text)
      BY <3>1, <3>2, <3>5, Zenon
    <3> QED BY <3>1, <3>3, <3>4, <3>6
  <2> QED BY <2>1, <2>2
<1>3. \E rest \in Seq(Byte) : due' = out' \o (pending' \o rest) /\ Left(rest)'
  <2> HIDE DEF nfree
  <2> WITNESS text \in Seq(Byte)
  <2> QED BY <1>2
<1>4. (phase = "token" /\ ~busy =>
         written = Len(out) /\ IF pending # <<>> THEN written = size ELSE state = "done")'
  BY <1>2
<1> QED BY <1>1, <1>3, <1>4 DEF Underway

\* Nothing is put.
LEMMA GotoText ==
  ASSUME OutputOK, busy, pending = <<>>, NEW text \in Seq(Byte), NEW label, label # "error",
         due = out \o text, Goto(label), due' = due, Left(text)', ArgumentKept'
  PROVE  Underway'
<1>1. state' = label /\ out' = out /\ pending' = <<>> /\ busy'
  BY DEF Goto, callVars
<1>2. due' = out' \o (pending' \o text)
  BY <1>1, ConcatEmptySeq
<1>3. \E rest \in Seq(Byte) : due' = out' \o (pending' \o rest) /\ Left(rest)'
  <2> WITNESS text \in Seq(Byte)
  <2> QED BY <1>2
<1> QED BY <1>1, <1>3 DEF Underway

\* What is known while a token runs that JSON allows.
Runs == SInv /\ Mirror /\ TextOK /\ StringsAreSpelled /\ busy /\ accepted /\ ~broken

LEMMA RunsFacts ==
  ASSUME Runs
  PROVE  /\ OutputOK /\ StackOK /\ ValueOK /\ LabelsOK /\ Progress /\ state # "error" /\ phase = "token"
         /\ indent = NULL \/ indent \in Seq(Byte)
         /\ \E n \in 0 .. MaxCalls : token \in Tokens(n)
         /\ ArgumentKept
         /\ TextOf(token) \in Seq(Byte)
         /\ token.function = "string" => Spelled(token) /\ token.value \in Strings
         /\ \E text \in Seq(Byte) : due = out \o (pending \o text) /\ Left(text)
         /\ pending = <<>> => \E text \in Seq(Byte) : due = out \o text /\ Left(text)
<1>1. /\ OutputOK /\ StackOK /\ ValueOK /\ LabelsOK /\ (indent = NULL \/ indent \in Seq(Byte))
      /\ SInv /\ Mirror /\ busy /\ ~broken /\ accepted
  BY DEF Runs, SInv
<1>2. phase = "token" /\ Progress /\ state # "error"
  BY <1>1, RunningFacts
<1>3. (\E n \in 0 .. MaxCalls : token \in Tokens(n)) /\ Underway
  BY <1>1, <1>2 DEF Runs, TextOK
<1>4. ArgumentKept /\ \E text \in Seq(Byte) : due = out \o (pending \o text) /\ Left(text)
  BY <1>2, <1>3 DEF Underway
<1>5. /\ TextOf(token) \in Seq(Byte)
      /\ token.function = "string" => Spelled(token) /\ token.value \in Strings
  BY <1>3, TextsAreBytes DEF Runs
<1>6. ASSUME pending = <<>> PROVE \E text \in Seq(Byte) : due = out \o text /\ Left(text)
  <2>1. PICK text \in Seq(Byte) : due = out \o (pending \o text) /\ Left(text)
    BY <1>4
  <2>2. due = out \o text
    BY <1>1, <1>6, <2>1, DueIs
  <2> QED BY <2>1, <2>2
<1> QED BY <1>1, <1>2, <1>3, <1>4, <1>5, <1>6

LEMMA SameText ==
  ASSUME token' = token, UNCHANGED configVars
  PROVE  /\ TextOf(token)' = TextOf(token)
         /\ \A n : Levels(n)' = Levels(n)
         /\ Letters(token)' = Letters(token) /\ Closing(token)' = Closing(token)
         /\ \A k : LettersFrom(k)' = LettersFrom(k) /\ BytesFrom(k)' = BytesFrom(k)
<1>1. flags' = flags /\ indent' = indent
  BY DEF configVars
<1>2. TextOf(token)' = TextOf(token)
  BY <1>1, Zenon DEF TextOf
<1>3. Letters(token)' = Letters(token) /\ Closing(token)' = Closing(token)
  BY <1>1 DEF Letters, Closing
<1>4. \A n : Levels(n)' = Levels(n)
  BY <1>1 DEF Levels
<1>5. \A k : LettersFrom(k)' = LettersFrom(k)
  BY <1>3 DEF LettersFrom
<1>6. Spellings(token)' = Spellings(token) /\ TailOf(token)' = TailOf(token)
  BY DEF Spellings, TailOf
<1>7. \A k : BytesFrom(k)' = BytesFrom(k)
  BY <1>6 DEF BytesFrom
<1> QED BY <1>2, <1>3, <1>4, <1>5, <1>7
-----------------------------------------------------------------------------
(* The steps of literals, numbers and integers. *)

LEMMA ArgumentPassed ==
  ASSUME write_func' # "prelude", state' # "START"
  PROVE  ArgumentKept'
BY DEF ArgumentKept

\* The last bytes of a token are put.
LEMMA LastBytes ==
  ASSUME OutputOK, busy, NEW bytes \in Seq(Byte), due = out \o bytes, Put(bytes, "done"),
         size' = size, UNCHANGED programVars, write_func' # "prelude",
         token.function = "string" => token.wellformed
  PROVE  Underway'
<1>1. state' = "done" /\ due' = due /\ token' = token
  BY DEF Put, programVars
<1>2. Left(<<>>)'
  BY <1>1 DEF Left
<1>3. ArgumentKept'
  BY <1>1, ArgumentPassed
<1>4. bytes \o <<>> = bytes /\ <<>> \in Seq(Byte)
  BY ConcatEmptySeq
<1>5. due = out \o (bytes \o <<>>)
  BY <1>4
<1> QED BY <1>1, <1>2, <1>3, <1>4, <1>5, PutText

\* The function of a leaf, a number's for one, runs behind the prelude for such a token.
LEMMA AtFunction ==
  ASSUME Runs, NEW f \in Values \cup Ends, NEW label, At(f, label)
  PROVE  /\ token.function = f /\ write_func = f /\ f # "prelude" /\ state = label /\ pending = <<>>
         /\ \E text \in Seq(Byte) : due = out \o text /\ Left(text)
         /\ label = "START" /\ f \in WithArgument => value = token.value
<1>1. write_func = f /\ state = label /\ pending = <<>> /\ f # "prelude"
  BY DEF At, Values, Ends
<1>2. token.function = f
  BY <1>1, RunsFacts DEF Progress
<1>3. (\E text \in Seq(Byte) : due = out \o text /\ Left(text)) /\ ArgumentKept
  BY <1>1, RunsFacts
<1> QED BY <1>1, <1>2, <1>3 DEF ArgumentKept

LEMMA AtStart ==
  ASSUME Runs, NEW f \in Values, At(f, "START")
  PROVE  due = out \o TextOf(token)
<1>1. write_func = f /\ state = "START" /\ f \notin Ends \cup {"prelude"}
  BY DEF At, Values, Ends
<1>2. PICK text \in Seq(Byte) : due = out \o text /\ Left(text)
  BY AtFunction
<1>3. text = TextOf(token)
  BY <1>1, <1>2 DEF Left
<1> QED BY <1>2, <1>3

LEMMA LiteralText == Runs /\ Literal /\ UNCHANGED programVars => Underway'
<1> SUFFICES ASSUME Runs, Literal, UNCHANGED programVars PROVE Underway'
  OBVIOUS
<1>1. OutputOK /\ busy /\ size' = size /\ write_func' = write_func
  BY RunsFacts DEF Literal, Runs
<1>2. CASE At("null", "START")
  <2>1. "null" \in Values /\ write_func = "null"
    BY <1>2 DEF Values, At
  <2>2. due = out \o TextOf(token) /\ token.function = "null"
    BY <1>2, <2>1, AtStart, AtFunction
  <2>3. TextOf(token) = Text.null
    BY <2>2, TextCases
  <2>4. Put(Text.null, "done")
    BY <2>1 DEF Literal, At
  <2> QED BY <1>1, <2>1, <2>2, <2>3, <2>4, TextBytes, LastBytes
<1>3. CASE At("boolean", "START")
  <2> DEFINE bytes == IF value.boolean THEN Text.true ELSE Text.false
  <2>1. "boolean" \in Values /\ write_func = "boolean" /\ "boolean" \in WithArgument
    BY <1>3 DEF Values, At, WithArgument
  <2>2. due = out \o TextOf(token) /\ token.function = "boolean" /\ value = token.value
    BY <1>3, <2>1, AtStart, AtFunction
  <2>3. TextOf(token) = bytes
    BY <2>2, TextCases
  <2>4. Put(bytes, "done")
    BY <2>1 DEF Literal, At
  <2>5. bytes \in Seq(Byte)
    BY TextBytes
  <2> HIDE DEF bytes
  <2> QED BY <1>1, <2>1, <2>2, <2>3, <2>4, <2>5, LastBytes
<1> QED BY <1>2, <1>3 DEF Literal

\* A number has room in value.number.buffer: it is put as it is.
LEMMA NumberPut ==
  ASSUME OutputOK, NEW text, text = NULL \/ (text \in Seq(Byte) /\ Len(text) < NUMBER_SIZE), PutNumber(text)
  PROVE  Put(IF text = NULL THEN Text.null ELSE text, "done")
<1>1. CASE text = NULL
  BY <1>1 DEF PutNumber
<1>2. CASE text # NULL
  <2> DEFINE nfree == size - Len(out)
  <2>1. text \in Seq(Byte) /\ Len(text) < NUMBER_SIZE /\ Len(text) \in Nat /\ NUMBER_SIZE \in Nat
    BY <1>2, WriterAssumption
  <2>2. nfree \in Int
    BY DEF OutputOK
  <2> HIDE DEF nfree
  <2>3. ~(Len(text) > (IF nfree >= NUMBER_SIZE THEN nfree ELSE NUMBER_SIZE))
    BY <2>1, <2>2
  <2>4. Printed(text, NUMBER_SIZE) = text
    BY <2>1 DEF Printed
  <2>5. CASE nfree >= NUMBER_SIZE
    <3>1. Printed(text, nfree) = text /\ Len(text) # nfree
      BY <2>1, <2>2, <2>5 DEF Printed
    <3>2. text \o <<>> = text
      BY <2>1, ConcatEmptySeq
    <3>3. Put(Printed(text, nfree) \o IF Len(text) = nfree THEN <<0>> ELSE <<>>, "done")
      BY <1>2, <2>3, <2>5, Zenon DEF PutNumber, nfree
    <3>4. (Printed(text, nfree) \o IF Len(text) = nfree THEN <<0>> ELSE <<>>) = text
      BY <3>1, <3>2
    <3>5. Put(text, "done")
      BY <3>3, <3>4, Zenon
    <3> QED BY <1>2, <3>5, Zenon
  <2>6. CASE ~(nfree >= NUMBER_SIZE)
    <3>1. Put(Printed(text, NUMBER_SIZE), "done")
      BY <1>2, <2>3, <2>6, Zenon DEF PutNumber, nfree
    <3>2. Put(text, "done")
      BY <2>4, <3>1, Zenon
    <3> QED BY <1>2, <3>2, Zenon
  <2> QED BY <2>5, <2>6
<1> QED BY <1>1, <1>2

LEMMA NumberText == Runs /\ Number /\ UNCHANGED programVars => Underway'
<1> SUFFICES ASSUME Runs, Number, UNCHANGED programVars PROVE Underway'
  OBVIOUS
<1> DEFINE number == value.number
           bytes == IF number = NULL THEN Text.null ELSE number
<1>1. OutputOK /\ busy /\ size' = size /\ write_func' = write_func
  BY RunsFacts DEF Number, Runs
<1>2. "number" \in Values /\ write_func = "number" /\ "number" \in WithArgument /\ At("number", "START")
  BY DEF Values, At, WithArgument, Number
<1>3. due = out \o TextOf(token) /\ token.function = "number" /\ value = token.value
  BY <1>2, AtStart, AtFunction
<1>4. TextOf(token) = bytes
  BY <1>3, TextCases
<1>5. number = NULL \/ (number \in Seq(Byte) /\ Len(number) < NUMBER_SIZE)
  <2>1. PICK n \in 0 .. MaxCalls : token \in Tokens(n)
    BY RunsFacts
  <2>2. token.value \in Numbers /\ (token.value.number = NULL \/ Len(token.value.number) < NUMBER_SIZE)
    BY <1>3, <2>1, TokenAssumption, RangeAssumption
  <2> QED BY <1>3, <2>2 DEF Numbers
<1>6. PutNumber(number)
  BY DEF Number
<1> HIDE DEF number
<1>7. Put(bytes, "done") /\ bytes \in Seq(Byte)
  BY <1>1, <1>5, <1>6, NumberPut, TextBytes
<1> HIDE DEF bytes
<1> QED BY <1>1, <1>2, <1>3, <1>4, <1>7, LastBytes
\* The integers a program writes.
LEMMA IntegerRange ==
  ASSUME Runs, token.function = "integer"
  PROVE  /\ token.value \in Integers64 /\ token.value.integer \in Int
         /\ \E k \in 0 .. 19 : /\ MaxDivisor = J!Power10[k]
                               /\ token.value.integer < J!Power10[k + 1]
                               /\ -token.value.integer < J!Power10[k + 1]
                               /\ J!Power10[k + 1] <= J!Power10[20]
<1> DEFINE m == token.value.integer
<1>1. PICK n \in 0 .. MaxCalls : token \in Tokens(n)
  BY RunsFacts
<1>2. token.value \in Integers64 /\ m \in 1 - 10 * MaxDivisor .. 10 * MaxDivisor - 1
  BY <1>1, TokenAssumption, RangeAssumption
<1>3. PICK k \in 0 .. 19 : MaxDivisor = J!Power10[k]
  BY DivisorAssumption
<1>4. /\ J!Power10[k] \in Nat /\ J!Power10[k + 1] = 10 * J!Power10[k] /\ J!Power10[k + 1] <= J!Power10[20]
  <2>1. k + 1 \in 0 .. 20 /\ 20 \in 0 .. 20 /\ k + 1 <= 20 /\ k \in 0 .. 20
    OBVIOUS
  <2> QED BY <2>1, PowerFacts, PowersGrow
<1>5. m \in Int
  BY <1>2 DEF Integers64
<1> HIDE DEF m
<1>6. m < J!Power10[k + 1] /\ -m < J!Power10[k + 1]
  BY <1>2, <1>3, <1>4, <1>5
<1> QED BY <1>2, <1>3, <1>4, <1>5, <1>6 DEF m

LEMMA PowersArePositive == \A j \in 0 .. 19 : J!Power10[j] \in Nat /\ J!Power10[j] > 0
<1>1. ASSUME NEW j \in 0 .. 19 PROVE J!Power10[j] \in Nat /\ J!Power10[j] > 0
  <2>1. j \in 0 .. 20
    OBVIOUS
  <2> QED BY <2>1, PowerFacts
<1> QED BY <1>1

\* What is left at a label of ajson_write_integer() behind the sign.
LEMMA LeftOfInteger ==
  ASSUME write_func = "integer", state \in {"magnitude", "scale", "digit"}, NEW text
  PROVE  Left(text) <=> IntegerLeft(text)
BY DEF Left, Ends

LEMMA IntegerSignText == Runs /\ IntegerSign /\ UNCHANGED programVars => Underway'
<1> SUFFICES ASSUME Runs, IntegerSign, UNCHANGED programVars PROVE Underway'
  OBVIOUS
<1>1. /\ OutputOK /\ busy /\ size' = size /\ write_func' = write_func /\ value' = value
      /\ token' = token /\ due' = due
  BY RunsFacts DEF IntegerSign, Runs, programVars
<1>2. "integer" \in Values /\ write_func = "integer" /\ "integer" \in WithArgument /\ At("integer", "START")
  BY DEF Values, At, WithArgument, IntegerSign
<1>3. /\ due = out \o TextOf(token) /\ token.function = "integer" /\ value = token.value
      /\ pending = <<>>
  BY <1>2, AtStart, AtFunction
<1> DEFINE m == value.integer
<1>4. TextOf(token) = J!Numeral(m)
  BY <1>3, TextCases
<1>5. PICK k \in 0 .. 19 : m < J!Power10[k + 1] /\ -m < J!Power10[k + 1] /\ J!Power10[k + 1] <= J!Power10[20]
  BY <1>3, IntegerRange
<1>6. m \in Int
  BY <1>3, IntegerRange
<1>7. k + 1 \in 0 .. 20 /\ 20 \in 0 .. 20 /\ J!Power10[k + 1] \in Nat /\ J!Power10[20] \in Nat
  BY PowerFacts
<1>8. ArgumentKept'
  BY <1>1, <1>3 DEF ArgumentKept
<1>9. ASSUME m # 0, state' = "magnitude", NEW rest, rest = J!Numeral(IF m < 0 THEN -m ELSE m)
      PROVE  Left(rest)'
  <2>1. IntegerLeft(rest)'
    BY <1>1, <1>3, <1>9 DEF IntegerLeft
  <2> QED BY <1>1, <1>2, <1>9, <2>1 DEF Left, Ends
<1>10. CASE m = 0
  <2>1. Put(<<48>>, "done")
    BY <1>10 DEF IntegerSign, Ascii
  <2>2. due = out \o <<48>>
    BY <1>3, <1>4, <1>10, NumeralZero
  <2> QED BY <1>1, <1>2, <1>3, <2>1, <2>2, SomeBytes, LastBytes
<1>11. CASE m < 0
  <2>0. m # 0
    <3> HIDE DEF m
    <3> QED BY <1>6, <1>11
  <2>1. Put(<<45>>, "magnitude") /\ state' = "magnitude"
    BY <1>11, <2>0 DEF IntegerSign, Ascii, Put
  <2>2. PICK rest \in Seq(Byte) : rest = J!Numeral(IF m < 0 THEN -m ELSE m) /\ J!Numeral(m) = <<45>> \o rest
    <3> HIDE DEF m
    <3>1. -m \in Nat /\ -m < J!Power10[20]
      BY <1>5, <1>6, <1>7, <1>11
    <3>2. J!Numeral(m) = <<45>> \o J!Numeral(-m) /\ J!Numeral(-m) \in Seq(Byte)
      BY <1>6, <1>11, <3>1, NumeralSign, NumeralType
    <3> QED BY <1>11, <3>2
  <2>4. due = out \o (<<45>> \o rest)
    BY <1>3, <1>4, <2>2
  <2>5. Left(rest)'
    BY <1>9, <2>0, <2>1, <2>2
  <2> QED BY <1>1, <1>8, <2>1, <2>2, <2>4, <2>5, SomeBytes, PutText
<1>12. CASE m > 0
  <2>0. m # 0 /\ ~(m < 0)
    <3> HIDE DEF m
    <3> QED BY <1>6, <1>12
  <2>1. Goto("magnitude") /\ state' = "magnitude"
    <3> QED BY <2>0 DEF IntegerSign, Goto
  <2>2. PICK rest \in Seq(Byte) : rest = J!Numeral(m) /\ rest = J!Numeral(IF m < 0 THEN -m ELSE m)
    <3> HIDE DEF m
    <3>1. m \in Nat /\ m < J!Power10[20]
      BY <1>5, <1>6, <1>7, <1>12
    <3>2. J!Numeral(m) \in Seq(Byte)
      BY <3>1, NumeralType
    <3> QED BY <2>0, <3>2
  <2>4. due = out \o rest
    BY <1>3, <1>4, <2>2
  <2>5. Left(rest)'
    BY <1>9, <2>0, <2>1, <2>2
  <2> QED BY <1>1, <1>3, <1>8, <2>1, <2>2, <2>4, <2>5, GotoText
<1> QED BY <1>6, <1>10, <1>11, <1>12

LEMMA IntegerMagnitudeText == Runs /\ IntegerMagnitude /\ UNCHANGED programVars => Underway'
<1> SUFFICES ASSUME Runs, IntegerMagnitude, UNCHANGED programVars PROVE Underway'
  OBVIOUS
<1> DEFINE m == value.integer
           n == IF m < 0 THEN -m ELSE m
<1>1. /\ OutputOK /\ busy /\ size' = size /\ write_func' = write_func
      /\ value' = [integer |-> n, div |-> MaxDivisor] /\ Goto("scale") /\ state' = "scale"
      /\ token' = token /\ due' = due
  BY RunsFacts DEF IntegerMagnitude, Runs, programVars, Goto
<1>2. "integer" \in Values /\ write_func = "integer" /\ state = "magnitude" /\ At("integer", "magnitude")
  BY DEF Values, At, IntegerMagnitude
<1>3. PICK text \in Seq(Byte) : due = out \o text /\ Left(text)
  BY <1>2, AtFunction
<1>4. token.function = "integer" /\ pending = <<>>
  BY <1>2, AtFunction
<1>5. value = token.value /\ m # 0 /\ text = J!Numeral(n)
  <2>1. IntegerLeft(text)
    BY <1>2, <1>3, LeftOfInteger
  <2> QED BY <1>2, <2>1 DEF IntegerLeft
<1>6. PICK k \in 0 .. 19 : MaxDivisor = J!Power10[k] /\ m < J!Power10[k + 1] /\ -m < J!Power10[k + 1]
  BY <1>4, <1>5, IntegerRange
<1>7. m \in Int
  BY <1>4, <1>5, IntegerRange
<1> HIDE DEF m
<1>8. n \in Int /\ n > 0 /\ n < J!Power10[k + 1]
  BY <1>5, <1>6, <1>7
<1> HIDE DEF n
<1>9. value'.integer = n /\ value'.div = MaxDivisor
  BY <1>1
<1>10. IntegerLeft(text)'
  BY <1>1, <1>5, <1>6, <1>8, <1>9 DEF IntegerLeft
<1>11. Left(text)'
  BY <1>1, <1>2, <1>10 DEF Left, Ends
<1>12. ArgumentKept'
  BY <1>1, <1>2, ArgumentPassed
<1> QED BY <1>1, <1>3, <1>4, <1>11, <1>12, GotoText

LEMMA IntegerScaleText == Runs /\ IntegerScale /\ UNCHANGED programVars => Underway'
<1> SUFFICES ASSUME Runs, IntegerScale, UNCHANGED programVars PROVE Underway'
  OBVIOUS
<1> DEFINE n == value.integer
           div == value.div
<1>1. /\ OutputOK /\ busy /\ size' = size /\ write_func' = write_func
      /\ token' = token /\ due' = due
  BY RunsFacts DEF IntegerScale, Runs, programVars
<1>2. "integer" \in Values /\ write_func = "integer" /\ state = "scale" /\ At("integer", "scale")
  BY DEF Values, At, IntegerScale
<1>3. PICK text \in Seq(Byte) : due = out \o text /\ Left(text)
  BY <1>2, AtFunction
<1>4. pending = <<>>
  BY <1>2, AtFunction
<1>5. n > 0 /\ text = J!Numeral(n) /\ \E j \in 0 .. 19 : div = J!Power10[j] /\ n < J!Power10[j + 1]
  <2>1. IntegerLeft(text)
    BY <1>2, <1>3, LeftOfInteger
  <2> QED BY <1>2, <2>1 DEF IntegerLeft
<1>6. PICK j \in 0 .. 19 : div = J!Power10[j] /\ n < J!Power10[j + 1]
  BY <1>5
<1>7. value \in [integer : Int, div : Int] /\ n \in Int
  BY <1>2, RunsFacts DEF ValueOK
<1>8. div \in Nat /\ div > 0 /\ j \in 0 .. 20
  <2>1. J!Power10[j] \in Nat /\ J!Power10[j] > 0
    BY PowersArePositive
  <2> QED BY <1>6, <2>1
<1>9. CASE n \div div = 0
  <2>1. value' = [value EXCEPT !.div = div \div 10] /\ Goto("scale") /\ state' = "scale"
    BY <1>9 DEF IntegerScale, Goto
  <2>2. value'.integer = n /\ value'.div = div \div 10
    BY <1>7, <2>1
  <2> HIDE DEF n, div
  <2>3. n < div
    BY <1>5, <1>7, <1>8, <1>9, DivZero
  <2>4. j # 0
    <3>1. ASSUME j = 0 PROVE div = 1
      BY <1>6, <3>1, PowerFacts
    <3> QED BY <1>5, <1>7, <2>3, <3>1
  <2>5. j - 1 \in 0 .. 19 /\ (j - 1) + 1 = j /\ j - 1 \in 0 .. 20
    BY <2>4
  <2>6. J!Power10[(j - 1) + 1] = 10 * J!Power10[j - 1] /\ J!Power10[j - 1] \in Nat
    BY <2>5, PowerFacts
  <2>7. div \div 10 = J!Power10[j - 1]
    BY <1>6, <2>5, <2>6
  <2>8. n < J!Power10[(j - 1) + 1]
    BY <1>6, <2>3, <2>5
  <2>9. IntegerLeft(text)'
    BY <1>5, <2>1, <2>2, <2>5, <2>7, <2>8 DEF IntegerLeft
  <2>10. Left(text)'
    BY <1>1, <1>2, <2>1, <2>9 DEF Left, Ends
  <2>11. ArgumentKept'
    BY <1>1, <1>2, <2>1, ArgumentPassed
  <2> QED BY <1>1, <1>3, <1>4, <2>1, <2>10, <2>11, GotoText
<1>10. CASE n \div div # 0
  <2>1. value' = value /\ Goto("digit") /\ state' = "digit"
    BY <1>10 DEF IntegerScale, Goto
  <2> HIDE DEF n, div
  <2>2. n \in Nat /\ ~(n < div)
    BY <1>5, <1>7, <1>8, <1>10, DivZero
  <2>3. J!Power10[j] <= n
    BY <1>6, <1>8, <2>2
  <2>4. J!Numeral(n) = J!LastDigits(n, j + 1)
    BY <1>6, <2>2, <2>3, NumeralDigits
  <2>5. IntegerLeft(text)'
    BY <1>5, <1>6, <2>1, <2>2, <2>4 DEF IntegerLeft, n, div
  <2>6. Left(text)'
    BY <1>1, <1>2, <2>1, <2>5 DEF Left, Ends
  <2>7. ArgumentKept'
    BY <1>1, <1>2, <2>1, ArgumentPassed
  <2> QED BY <1>1, <1>3, <1>4, <2>1, <2>6, <2>7, GotoText
<1> QED BY <1>9, <1>10

LEMMA IntegerDigitText == Runs /\ IntegerDigit /\ UNCHANGED programVars => Underway'
<1> SUFFICES ASSUME Runs, IntegerDigit, UNCHANGED programVars PROVE Underway'
  OBVIOUS
<1> DEFINE n == value.integer
           div == value.div
           byte == 48 + ((n \div div) % 10)
<1>1. /\ OutputOK /\ busy /\ size' = size /\ write_func' = write_func
      /\ token' = token /\ due' = due
  BY RunsFacts DEF IntegerDigit, Runs, programVars
<1>2. "integer" \in Values /\ write_func = "integer" /\ state = "digit" /\ At("integer", "digit")
  BY DEF Values, At, IntegerDigit
<1>3. PICK text \in Seq(Byte) : due = out \o text /\ Left(text)
  BY <1>2, AtFunction
<1>4. pending = <<>> /\ token.function = "integer"
  BY <1>2, AtFunction
<1>5. n \in Nat /\ (\/ div = 0 /\ text = <<>>
                    \/ \E j \in 0 .. 19 : div = J!Power10[j] /\ text = J!LastDigits(n, j + 1))
  <2>1. IntegerLeft(text)
    BY <1>2, <1>3, LeftOfInteger
  <2> QED BY <1>2, <2>1 DEF IntegerLeft
<1>6. value \in [integer : Int, div : Int]
  BY <1>2, RunsFacts DEF ValueOK
<1>7. CASE div > 0
  <2>1. PICK j \in 0 .. 19 : div = J!Power10[j] /\ text = J!LastDigits(n, j + 1)
    BY <1>5, <1>7
  <2>2. Put(<<byte>>, "digit") /\ value' = [value EXCEPT !.div = div \div 10] /\ state' = "digit"
    BY <1>7 DEF IntegerDigit, Put, Ascii
  <2>3. value'.integer = n /\ value'.div = div \div 10
    BY <1>6, <2>2
  <2> HIDE DEF n, div
  <2>4. /\ J!LastDigits(n, j + 1) = <<byte>> \o J!LastDigits(n, j) /\ J!LastDigits(n, j) \in Seq(Byte)
        /\ J!LastDigits(n, 0) = <<>>
    BY <1>5, <2>1, FirstDigit
  <2>5. byte \in Byte
    <3>1. div \in Nat /\ div > 0
      <4>1. J!Power10[j] \in Nat
        BY PowersArePositive
      <4> QED BY <1>7, <2>1, <4>1
    <3>2. n \div div \in Nat
      BY <1>5, <3>1
    <3> DEFINE q == n \div div
    <3>3. q \in Nat
      BY <3>2
    <3> HIDE DEF q
    <3>4. 48 + (q % 10) \in Byte
      BY <3>3 DEF Byte
    <3> QED BY <3>4 DEF q
  <2>6. <<byte>> \in Seq(Byte)
    BY <2>5, BytesAreSeq
  <2> HIDE DEF byte
  <2>11. PICK rest \in Seq(Byte) : rest = J!LastDigits(n, j)
    BY <2>4
  <2>7. IntegerLeft(rest)'
    <3>1. CASE j = 0
      <4>1. div = 1 /\ 1 \div 10 = 0
        BY <2>1, <3>1, PowerFacts
      <4>2. value'.div = 0 /\ rest = <<>>
        BY <2>3, <2>4, <2>11, <3>1, <4>1
      <4> QED BY <1>5, <2>2, <2>3, <4>2 DEF IntegerLeft
    <3>2. CASE j # 0
      <4>1. j - 1 \in 0 .. 19 /\ (j - 1) + 1 = j /\ j - 1 \in 0 .. 20
        BY <3>2
      <4>2. J!Power10[(j - 1) + 1] = 10 * J!Power10[j - 1] /\ J!Power10[j - 1] \in Nat
        BY <4>1, PowerFacts
      <4>3. div \div 10 = J!Power10[j - 1]
        BY <2>1, <4>1, <4>2
      <4>4. rest = J!LastDigits(n, (j - 1) + 1)
        BY <2>11, <4>1
      <4> QED BY <1>5, <2>2, <2>3, <4>1, <4>3, <4>4 DEF IntegerLeft
    <3> QED BY <3>1, <3>2
  <2>8. Left(rest)'
    BY <1>1, <1>2, <2>2, <2>7 DEF Left, Ends
  <2>9. ArgumentKept'
    BY <1>1, <1>2, <2>2, ArgumentPassed
  <2>10. due = out \o (<<byte>> \o rest)
    BY <1>3, <2>1, <2>4, <2>11
  <2> QED BY <1>1, <2>2, <2>6, <2>8, <2>9, <2>10, PutText
<1>8. CASE ~(div > 0)
  <2>1. Goto("done") /\ state' = "done"
    BY <1>8 DEF IntegerDigit, Goto
  <2>2. text = <<>>
    <3> QED BY <1>5, <1>8, PowersArePositive
  <2>3. Left(text)'
    BY <1>1, <1>4, <2>1, <2>2 DEF Left
  <2>4. ArgumentKept'
    BY <1>1, <1>2, <2>1, ArgumentPassed
  <2> QED BY <1>1, <1>3, <1>4, <2>1, <2>3, <2>4, GotoText
<1> QED BY <1>7, <1>8
-----------------------------------------------------------------------------
(* Steps that change nothing that is left, and the end of a token. *)

LeftVars == <<state, token, write_func, value, configVars, frameVars, nesting_written>>

LEMMA SameAhead ==
  ASSUME UNCHANGED <<state, write_func, indent, stack, stack_current, nesting_written>>
  PROVE  AheadOfToken' = AheadOfToken
<1>1. (\A n : Levels(n)' = Levels(n)) /\ Top' = Top
  BY DEF Levels, Top
<1>2. /\ Levels(stack_current)' = Levels(stack_current)
      /\ Levels(stack_current - nesting_written - 1)' = Levels(stack_current - nesting_written - 1)
  BY DEF Levels
<1> QED BY <1>1, <1>2, Zenon DEF AheadOfToken

LEMMA SameLeft ==
  ASSUME UNCHANGED LeftVars, NEW text
  PROVE  (Left(text)' <=> Left(text)) /\ (ArgumentKept' <=> ArgumentKept)
<1>1. /\ state' = state /\ token' = token /\ write_func' = write_func /\ value' = value
      /\ flags' = flags /\ indent' = indent /\ nesting_written' = nesting_written
      /\ stack' = stack /\ stack_current' = stack_current /\ UNCHANGED configVars
  BY DEF LeftVars, configVars, frameVars
<1>2. AheadOfToken' = AheadOfToken /\ TextOf(token)' = TextOf(token)
  BY <1>1, SameAhead, SameText
<1>3. IntegerLeft(text)' <=> IntegerLeft(text)
  BY <1>1 DEF IntegerLeft
<1>4. StringLeft(text)' <=> StringLeft(text)
  <2>1. SecondEscape' = SecondEscape
    BY <1>1 DEF SecondEscape
  <2>2. ASSUME NEW here, NEW part PROVE Within(here, part)' <=> Within(here, part)
    BY <1>1, <2>1, Zenon DEF Within
  <2>3. \A k : LettersFrom(k)' = LettersFrom(k) /\ BytesFrom(k)' = BytesFrom(k)
    BY <1>1, SameText
  <2>4. Rest' = Rest
    BY <1>1 DEF Rest
  <2> QED BY <1>1, <2>2, <2>3, <2>4, Zenon DEF StringLeft
<1>5. ArgumentKept' <=> ArgumentKept
  BY <1>1 DEF ArgumentKept
<1> QED BY <1>1, <1>2, <1>3, <1>4, <1>5, Zenon DEF Left

LEMMA ResumeText == Runs /\ Resume /\ UNCHANGED programVars => Underway'
<1> SUFFICES ASSUME Runs, Resume, UNCHANGED programVars PROVE Underway'
  OBVIOUS
<1>1. /\ busy /\ Put(pending, state) /\ state' = state /\ size' = size /\ due' = due
      /\ UNCHANGED <<token, write_func, value, configVars, frameVars, nesting_written>>
  BY DEF Resume, Put, programVars
<1>2. OutputOK /\ pending \in Seq(Byte) /\ state # "error" /\ ArgumentKept
  BY RunsFacts DEF OutputOK
<1>3. PICK text \in Seq(Byte) : due = out \o (pending \o text) /\ Left(text)
  BY RunsFacts
<1>4. Left(text)' /\ ArgumentKept'
  BY <1>1, <1>2, <1>3, SameLeft DEF LeftVars
<1>5. PICK bytes \in Seq(Byte) : bytes = pending
  BY <1>2
<1>6. PICK label : label = state
  OBVIOUS
<1>7. Put(bytes, label) /\ due = out \o (bytes \o text) /\ label # "error"
  BY <1>1, <1>2, <1>3, <1>5, <1>6
<1> QED BY <1>1, <1>2, <1>4, <1>7, PutText

LEMMA FinishText == Runs /\ Finish /\ UNCHANGED programVars => Underway'
<1> SUFFICES ASSUME Runs, Finish, UNCHANGED programVars PROVE Underway'
  OBVIOUS
<1>1. state # "error" /\ write_func # "dummy"
  BY RunsFacts DEF Progress, Values, Ends
<1>2. /\ state = "done" /\ Done /\ pending = <<>> /\ due' = due
      /\ UNCHANGED <<token, write_func, value, configVars, frameVars, nesting_written>>
  BY <1>1 DEF Finish, programVars
<1>3. state' = "done" /\ written' = Len(out) /\ out' = out /\ pending' = <<>>
  BY <1>2 DEF Done, Return
<1>4. PICK text \in Seq(Byte) : due = out \o (pending \o text) /\ Left(text)
  BY RunsFacts
<1>5. Left(text)' /\ ArgumentKept'
  BY <1>2, <1>3, <1>4, RunsFacts, SameLeft DEF LeftVars
<1>6. \E rest \in Seq(Byte) : due' = out' \o (pending' \o rest) /\ Left(rest)'
  <2> WITNESS text \in Seq(Byte)
  <2> QED BY <1>2, <1>3, <1>4, <1>5
<1> QED BY <1>3, <1>5, <1>6 DEF Underway

-----------------------------------------------------------------------------
(* The prelude, and brackets. *)

\* What is due in front of the token, and the token.
LEMMA DueAhead ==
  ASSUME Runs, pending = <<>>, write_func \in Ends \cup {"prelude"}, state # "done"
  PROVE  due = out \o (AheadOfToken \o TextOf(token))
<1>1. PICK text \in Seq(Byte) : due = out \o text /\ Left(text)
  BY RunsFacts
<1>2. text = AheadOfToken \o TextOf(token)
  BY <1>1 DEF Left
<1> QED BY <1>1, <1>2

\* Some of what comes in front of the token is put.
LEMMA PutAhead ==
  ASSUME Runs, pending = <<>>, write_func \in Ends \cup {"prelude"}, state # "done",
         NEW bytes \in Seq(Byte), NEW ahead \in Seq(Byte), AheadOfToken = bytes \o ahead,
         NEW label, label \notin {"error", "done", "START"}, Put(bytes, label), size' = size,
         write_func' = write_func, value' = value, UNCHANGED configVars, UNCHANGED programVars,
         ahead = AheadOfToken'
  PROVE  Underway'
<1>1. /\ OutputOK /\ busy /\ ArgumentKept /\ TextOf(token) \in Seq(Byte)
      /\ token' = token /\ due' = due
  BY RunsFacts DEF Runs, programVars
<1>2. PICK text \in Seq(Byte) : text = TextOf(token)
  BY <1>1
<1>3. due = out \o ((bytes \o ahead) \o text)
  BY <1>2, DueAhead
<1>4. (bytes \o ahead) \o text = bytes \o (ahead \o text) /\ ahead \o text \in Seq(Byte)
  BY Associative
<1>5. PICK rest \in Seq(Byte) : rest = ahead \o text
  BY <1>4
<1>6. due = out \o (bytes \o rest)
  BY <1>3, <1>4, <1>5, Zenon
<1>7. state' = label
  BY DEF Put
<1>8. TextOf(token)' = text
  BY <1>1, <1>2, SameText
<1>9. Left(rest)'
  BY <1>5, <1>7, <1>8 DEF Left
<1>10. ArgumentKept'
  BY <1>1, <1>7 DEF ArgumentKept
<1> QED BY <1>1, <1>6, <1>9, <1>10, PutText

\* None of it is put.
LEMMA GotoAhead ==
  ASSUME Runs, pending = <<>>, write_func \in Ends \cup {"prelude"}, state # "done",
         AheadOfToken \in Seq(Byte), AheadOfToken = AheadOfToken',
         NEW label, label \notin {"error", "done", "START"}, Goto(label),
         write_func' = write_func, value' = value, UNCHANGED configVars, UNCHANGED programVars
  PROVE  Underway'
<1>1. /\ OutputOK /\ busy /\ ArgumentKept /\ TextOf(token) \in Seq(Byte)
      /\ token' = token /\ due' = due
  BY RunsFacts DEF Runs, programVars
<1>2. PICK text \in Seq(Byte) : text = AheadOfToken \o TextOf(token)
  <2> DEFINE ahead == AheadOfToken
             own == TextOf(token)
  <2>1. ahead \in Seq(Byte) /\ own \in Seq(Byte)
    BY <1>1
  <2> HIDE DEF ahead, own
  <2>2. ahead \o own \in Seq(Byte)
    BY <2>1
  <2> QED BY <2>2 DEF ahead, own
<1>3. due = out \o text
  BY <1>2, DueAhead
<1>4. state' = label
  BY DEF Goto
<1>5. TextOf(token)' = TextOf(token)
  BY <1>1, SameText
<1>6. Left(text)'
  BY <1>2, <1>4, <1>5 DEF Left
<1>7. ArgumentKept'
  BY <1>1, <1>4 DEF ArgumentKept
<1> QED BY <1>1, <1>3, <1>6, <1>7, GotoText
LEMMA PreludeText == Runs /\ Prelude /\ UNCHANGED programVars => Underway'
<1> SUFFICES ASSUME Runs, Prelude, UNCHANGED programVars PROVE Underway'
  OBVIOUS
<1>1. /\ write_func = "prelude" /\ state = "START" /\ pending = <<>> /\ size' = size
      /\ write_func' = write_func /\ value' = value /\ UNCHANGED configVars
      /\ write_func \in Ends \cup {"prelude"} /\ write_func \notin Ends
  BY DEF Prelude, At, Ends
<1>2. /\ StackOK /\ (indent = NULL \/ indent \in Seq(Byte)) /\ stack_current \in Nat
  BY RunsFacts, TopOfStack
<1>3. indent' = indent
  BY <1>1 DEF configVars
<1> DEFINE newline == J!Newline(stack_current, indent)
<1>4. newline \in Seq(Byte)
  BY <1>2, NewlineFacts
<1>5. ASSUME UNCHANGED frameVars, state' = "comma" PROVE AheadOfToken' = newline
  BY <1>1, <1>3, <1>5 DEF AheadOfToken, frameVars
<1>6. ASSUME state' = "tail" PROVE AheadOfToken' = <<>>
  BY <1>1, <1>6 DEF AheadOfToken
<1> HIDE DEF newline
<1>7. CASE Top \in {"a", "o"} /\ Put(<<Ascii.comma>>, "comma") /\ UNCHANGED frameVars
  <2>1. AheadOfToken = <<44>> \o newline
    BY <1>1, <1>7 DEF AheadOfToken, newline
  <2>2. Put(<<44>>, "comma") /\ state' = "comma"
    BY <1>7 DEF Ascii, Put
  <2>3. PICK ahead \in Seq(Byte) : ahead = newline
    BY <1>4
  <2>4. ahead = AheadOfToken'
    BY <1>5, <1>7, <2>2, <2>3
  <2>5. AheadOfToken = <<44>> \o ahead
    BY <2>1, <2>3
  <2>6. <<44>> \in Seq(Byte) /\ state # "done"
    BY <1>1, SomeBytes
  <2>7. PICK bytes \in Seq(Byte) : bytes = <<44>>
    BY <2>6
  <2>8. AheadOfToken = bytes \o ahead /\ Put(bytes, "comma")
    BY <2>2, <2>5, <2>7
  <2> HIDE DEF newline
  <2> QED BY <1>1, <2>4, <2>6, <2>8, PutAhead
<1>8. CASE Top \in {"A", "O"} /\ Goto("comma") /\ UNCHANGED frameVars
  <2>1. AheadOfToken = <<>> \o newline
    BY <1>1, <1>8 DEF AheadOfToken, newline
  <2>2. AheadOfToken = newline
    BY <1>4, <2>1, ConcatEmptySeq
  <2>3. state' = "comma"
    BY <1>8 DEF Goto
  <2>4. AheadOfToken \in Seq(Byte) /\ AheadOfToken = AheadOfToken'
    BY <1>4, <1>5, <1>8, <2>2, <2>3
  <2> QED BY <1>1, <1>8, <2>4, GotoAhead
<1>9. CASE /\ Top = "k"
           /\ SetTop("o")
           /\ Put(IF indent = NULL THEN <<Ascii.colon>> ELSE <<Ascii.colon, 32>>, "tail")
  <2>1. PICK bytes \in Seq(Byte) : bytes = IF indent = NULL THEN <<58>> ELSE <<58, 32>>
    BY SomeBytes
  <2>2. AheadOfToken = bytes
    BY <1>1, <1>9, <2>1 DEF AheadOfToken
  <2>3. Put(bytes, "tail") /\ state' = "tail"
    BY <1>9, <2>1 DEF Ascii, Put
  <2>4. AheadOfToken = bytes \o <<>> /\ <<>> = AheadOfToken' /\ <<>> \in Seq(Byte)
    BY <1>6, <2>2, <2>3, ConcatEmptySeq
  <2> QED BY <1>1, <2>3, <2>4, PutAhead
<1>10. CASE Top = "none" /\ Goto("tail") /\ UNCHANGED frameVars
  <2>1. AheadOfToken = <<>>
    BY <1>1, <1>10 DEF AheadOfToken
  <2>2. state' = "tail"
    BY <1>10 DEF Goto
  <2>3. AheadOfToken \in Seq(Byte) /\ AheadOfToken = AheadOfToken'
    BY <1>6, <2>1, <2>2
  <2> QED BY <1>1, <1>10, <2>3, GotoAhead
<1> QED BY <1>7, <1>8, <1>9, <1>10 DEF Prelude

LEMMA CommaText == Runs /\ Comma /\ UNCHANGED programVars => Underway'
<1> SUFFICES ASSUME Runs, Comma, UNCHANGED programVars PROVE Underway'
  OBVIOUS
<1>1. /\ write_func = "prelude" /\ state = "comma" /\ pending = <<>> /\ size' = size
      /\ write_func' = write_func /\ value' = value /\ UNCHANGED configVars
      /\ write_func \in Ends \cup {"prelude"} /\ write_func \notin Ends
      /\ stack_current' = stack_current /\ indent' = indent
      /\ IF indent = NULL THEN Goto("tail") ELSE Put(<<10>>, "newline")
  BY DEF Comma, At, Ends, configVars, SetTop
<1>2. (indent = NULL \/ indent \in Seq(Byte)) /\ stack_current \in Nat
  BY RunsFacts, TopOfStack
<1>3. AheadOfToken = J!Newline(stack_current, indent)
  BY <1>1 DEF AheadOfToken
<1>4. CASE indent = NULL
  <2>1. AheadOfToken = <<>>
    BY <1>2, <1>3, <1>4, NewlineFacts
  <2>2. Goto("tail") /\ state' = "tail"
    BY <1>1, <1>4 DEF Goto
  <2>3. AheadOfToken' = <<>> /\ <<>> \in Seq(Byte)
    BY <1>1, <2>2 DEF AheadOfToken
  <2> QED BY <1>1, <2>1, <2>2, <2>3, GotoAhead
<1>5. CASE indent # NULL
  <2>1. PICK ahead \in Seq(Byte) : ahead = Levels(stack_current)
    BY <1>2, <1>5, LevelsFacts
  <2>2. AheadOfToken = <<10>> \o ahead
    <3>1. stack_current \in Int
      BY <1>2
    <3>2. J!Newline(stack_current, indent) = <<10>> \o Levels(stack_current)
      BY <1>2, <1>5, <3>1, NewlineFacts
    <3> QED BY <1>3, <2>1, <3>2
  <2>3. Put(<<10>>, "newline") /\ state' = "newline"
    BY <1>1, <1>5 DEF Put
  <2>4. ahead = AheadOfToken'
    <3>1. Levels(stack_current)' = Levels(stack_current)
      BY <1>1 DEF Levels
    <3> QED BY <1>1, <2>1, <2>3, <3>1 DEF AheadOfToken
  <2>5. PICK bytes \in Seq(Byte) : bytes = <<10>>
    BY SomeBytes
  <2>6. AheadOfToken = bytes \o ahead /\ Put(bytes, "newline") /\ state # "done"
    BY <1>1, <2>2, <2>3, <2>5
  <2> QED BY <1>1, <2>4, <2>6, PutAhead
<1> QED BY <1>4, <1>5

LEMMA IndentText == Runs /\ Indent /\ UNCHANGED programVars => Underway'
<1> SUFFICES ASSUME Runs, Indent, UNCHANGED programVars PROVE Underway'
  OBVIOUS
<1>1. /\ write_func \in Ends \cup {"prelude"} /\ state \in {"newline", "more"} /\ pending = <<>>
      /\ write_func' = write_func /\ value' = value /\ UNCHANGED configVars /\ size' = size
      /\ stack_current' = stack_current /\ indent' = indent
      /\ nesting_written' = IF state = "newline" THEN 0 ELSE nesting_written + 1
      /\ IF indent # <<>> /\ nesting_written' < stack_current THEN Put(indent, "more") ELSE Goto("tail")
  BY DEF Indent, At, configVars, frameVars
<1>2. indent \in Seq(Byte) /\ stack_current \in Nat /\ nesting_written \in Nat /\ nesting_written' \in Nat
  BY <1>1, RunsFacts, TopOfStack DEF LabelsOK, Runs, SInv
<1>6. PICK m \in Nat : m = nesting_written'
  BY <1>2
<1>7. PICK depth \in Nat : depth = stack_current
  BY <1>2
<1> DEFINE n == depth - m
<1>3. AheadOfToken = Levels(n) /\ n \in Int
  <2>1. CASE state = "newline"
    <3>1. n = stack_current
      BY <1>1, <1>2, <1>6, <1>7, <2>1
    <3>2. n \in Int
      OBVIOUS
    <3> HIDE DEF n
    <3> QED BY <1>2, <2>1, <3>1, <3>2 DEF AheadOfToken
  <2>2. CASE state = "more"
    <3>1. n = stack_current - nesting_written - 1
      BY <1>1, <1>2, <1>6, <1>7, <2>2
    <3>2. n \in Int
      OBVIOUS
    <3> HIDE DEF n
    <3> QED BY <2>2, <3>1, <3>2 DEF AheadOfToken
  <2> QED BY <1>1, <2>1, <2>2
<1>4. CASE indent # <<>> /\ nesting_written' < stack_current
  <2>1. n > 0
    <3>1. m < depth
      BY <1>4, <1>6, <1>7
    <3> QED BY <3>1
  <2>2. PICK ahead \in Seq(Byte) : ahead = Levels(n - 1)
    <3> HIDE DEF n
    <3>1. n - 1 \in Int
      BY <1>3
    <3> QED BY <1>2, <3>1, LevelsFacts
  <2>3. PICK bytes \in Seq(Byte) : bytes = indent
    BY <1>2
  <2>4. AheadOfToken = bytes \o ahead
    <3> HIDE DEF n
    <3> QED BY <1>2, <1>3, <2>1, <2>2, <2>3, LevelsFacts
  <2>5. Put(bytes, "more") /\ state' = "more"
    BY <1>1, <1>4, <2>3 DEF Put
  <2>6. ahead = AheadOfToken'
    <3>1. AheadOfToken' = Levels(stack_current - nesting_written - 1)'
      BY <1>1, <2>5 DEF AheadOfToken
    <3>2. (stack_current - nesting_written - 1)' = n - 1
      BY <1>1, <1>6, <1>7
    <3> HIDE DEF n
    <3>3. Levels(stack_current - nesting_written - 1)' = Levels(n - 1)
      BY <1>1, <3>2 DEF Levels
    <3> QED BY <2>2, <3>1, <3>3
  <2> QED BY <1>1, <2>4, <2>5, <2>6, PutAhead
<1>5. CASE ~(indent # <<>> /\ nesting_written' < stack_current)
  <2>1. Goto("tail") /\ state' = "tail"
    BY <1>1, <1>5 DEF Goto
  <2>2. Levels(n) = <<>>
    <3>1. CASE indent = <<>>
      <4>1. \A k \in Nat : Levels(k) = <<>>
        BY <3>1, NoLevels
      <4> HIDE DEF n
      <4>2. n \in Nat \/ n <= 0
        BY <1>3
      <4>3. n <= 0 => Levels(n) = <<>>
        BY <1>2, <1>3, LevelsFacts
      <4> QED BY <4>1, <4>2, <4>3
    <3>2. CASE ~(nesting_written' < stack_current)
      <4>1. n <= 0
        <5>1. ~(m < depth)
          BY <1>6, <1>7, <3>2
        <5> QED BY <5>1
      <4> HIDE DEF n
      <4> QED BY <1>2, <1>3, <4>1, LevelsFacts
    <3> QED BY <1>5, <3>1, <3>2
  <2> HIDE DEF n
  <2>3. AheadOfToken' = <<>>
    BY <1>1, <2>1 DEF AheadOfToken
  <2>4. AheadOfToken \in Seq(Byte) /\ AheadOfToken = AheadOfToken'
    BY <1>3, <2>2, <2>3
  <2> QED BY <1>1, <2>1, <2>4, GotoAhead
<1> QED BY <1>4, <1>5

LEMMA TailCallText == Runs /\ TailCall /\ UNCHANGED programVars => Underway'
<1> SUFFICES ASSUME Runs, TailCall, UNCHANGED programVars PROVE Underway'
  OBVIOUS
<1>1. /\ write_func = "prelude" /\ state = "tail" /\ pending = <<>> /\ busy
      /\ write_func' = next_write_func /\ value' = value /\ UNCHANGED configVars
      /\ token' = token /\ due' = due /\ Goto("START") /\ state' = "START"
  BY DEF TailCall, At, programVars, Goto
<1>2. /\ OutputOK /\ next_write_func = token.function /\ token.function \in Values
      /\ ArgumentKept /\ TextOf(token) \in Seq(Byte)
  BY <1>1, RunsFacts DEF Progress, Values, Ends
<1>3. due = out \o TextOf(token)
  <2>1. AheadOfToken = <<>>
    BY <1>1 DEF AheadOfToken
  <2>2. due = out \o (AheadOfToken \o TextOf(token))
    BY <1>1, DueAhead
  <2>3. <<>> \o TextOf(token) = TextOf(token)
    BY <1>2, ConcatEmptySeq
  <2> QED BY <2>1, <2>2, <2>3
<1>4. PICK text \in Seq(Byte) : text = TextOf(token)
  BY <1>2
<1>5. TextOf(token)' = text
  BY <1>1, <1>4, SameText
<1>6. write_func' \notin Ends \cup {"prelude"}
  BY <1>1, <1>2 DEF Values, Ends
<1>7. Left(text)'
  BY <1>1, <1>5, <1>6 DEF Left
<1>8. ArgumentKept'
  BY <1>1, <1>2 DEF ArgumentKept
<1> QED BY <1>1, <1>2, <1>3, <1>4, <1>7, <1>8, GotoText

\* ajson_writer_push() fails, or the bracket is put.
LEMMA BracketPushed ==
  ASSUME Runs, NEW f \in Begins, At(f, "START"), NEW frame, NEW bracket, <<bracket>> \in Seq(Byte),
         PushAndPut(frame, bracket), token.function = f => TextOf(token) = <<bracket>>,
         size' = size, write_func' = write_func, UNCHANGED programVars
  PROVE  Underway'
<1>1. f \in Values \cup Ends /\ f \in Values /\ f # "string" /\ f # "prelude"
  BY DEF Begins, Values
<1>2. OutputOK /\ busy /\ write_func = f /\ token.function = f /\ due = out \o <<bracket>>
  BY <1>1, AtStart, AtFunction, RunsFacts DEF Runs
<1>3. CASE RaiseError /\ UNCHANGED frameVars /\ stack_size = stack_current + 1
  <2>1. state' = "error" /\ token' = token /\ write_func' \in Begins /\ token'.function \in Begins
    BY <1>2, <1>3 DEF RaiseError, programVars
  <2>2. (stack_current + 1 = stack_size)'
    BY <1>3 DEF frameVars
  <2> QED BY <2>1, <2>2 DEF Underway, Reason
<1>4. CASE Put(<<bracket>>, "done")
  <2>1. PICK bytes \in Seq(Byte) : bytes = <<bracket>>
    OBVIOUS
  <2> QED BY <1>1, <1>2, <1>4, <2>1, LastBytes
<1> QED BY <1>3, <1>4 DEF PushAndPut

LEMMA BeginText == Runs /\ Begin /\ UNCHANGED programVars => Underway'
<1> SUFFICES ASSUME Runs, Begin, UNCHANGED programVars PROVE Underway'
  OBVIOUS
<1>1. size' = size /\ write_func' = write_func /\ {"begin_array", "begin_object"} = Begins
  BY DEF Begin, Begins
<1>2. CASE At("begin_array", "START") /\ PushAndPut("A", Ascii.lbracket)
  <2>1. PushAndPut("A", 91)
    BY <1>2 DEF Ascii
  <2> QED BY <1>1, <1>2, <2>1, SomeBytes, TextCases, BracketPushed
<1>3. CASE At("begin_object", "START") /\ PushAndPut("O", Ascii.lbrace)
  <2>1. PushAndPut("O", 123)
    BY <1>3 DEF Ascii
  <2> QED BY <1>1, <1>3, <2>1, SomeBytes, TextCases, BracketPushed
<1> QED BY <1>2, <1>3 DEF Begin

\* What JSON allows to close is open.
LEMMA ClosesTop ==
  ASSUME Runs, write_func \in Ends, state = "START"
  PROVE  /\ stack_current \in Nat /\ stack_current # 0
         /\ Top \in Closed(token.function) /\ write_func = token.function
<1>1. Progress /\ StackOK
  BY RunsFacts
<1>2. StackMeansMore(nest) /\ write_func = token.function
  BY <1>1 DEF Progress, Ends
<1>3. nest \in Seq(Open)
  BY DEF Runs, Mirror
<1>4. stack_current = Len(nest) + 1 /\ Len(nest) \in Nat
  BY <1>2, <1>3 DEF StackMeansMore
<1>5. Top \in Closed(token.function)
  BY <1>2 DEF StackMeansMore
<1> QED BY <1>2, <1>4, <1>5

LEMMA EndText == Runs /\ End /\ UNCHANGED programVars => Underway'
<1> SUFFICES ASSUME Runs, End, UNCHANGED programVars PROVE Underway'
  OBVIOUS
<1>1. /\ write_func \in Ends /\ state = "START" /\ pending = <<>>
      /\ write_func' = write_func /\ value' = value /\ UNCHANGED configVars /\ size' = size
      /\ write_func \in Ends \cup {"prelude"}
  BY DEF End, At, Ends
<1>2. /\ stack_current \in Nat /\ stack_current # 0
      /\ Top \in Closed(token.function) /\ write_func = token.function
      /\ (indent = NULL \/ indent \in Seq(Byte))
  BY <1>1, ClosesTop, RunsFacts
<1>3. /\ stack_current' = stack_current - 1
      /\ IF Top \in {"a", "o"} /\ indent # NULL THEN Put(<<10>>, "newline") ELSE Goto("tail")
  BY <1>1, <1>2 DEF End, At, Ends, PopAndBreak, Closed
<1>4. PICK depth \in Nat : depth = stack_current - 1
  BY <1>2
<1>5. AheadOfToken = IF Top \in {"a", "o"} THEN J!Newline(depth, indent) ELSE <<>>
  BY <1>1, <1>4 DEF AheadOfToken
<1>6. stack_current' = depth /\ indent' = indent
  BY <1>1, <1>3, <1>4 DEF configVars
<1>7. CASE Top \in {"a", "o"} /\ indent # NULL
  <2>1. PICK ahead \in Seq(Byte) : ahead = Levels(depth)
    BY <1>2, <1>7, LevelsFacts
  <2>2. PICK bytes \in Seq(Byte) : bytes = <<10>>
    BY SomeBytes
  <2>3. J!Newline(depth, indent) = <<10>> \o Levels(depth)
    <3>1. depth \in Int
      OBVIOUS
    <3> QED BY <1>2, <1>7, <3>1, NewlineFacts
  <2>4. AheadOfToken = bytes \o ahead /\ Put(bytes, "newline") /\ state' = "newline"
    BY <1>3, <1>5, <1>7, <2>1, <2>2, <2>3 DEF Put
  <2>5. ahead = AheadOfToken'
    <3>1. AheadOfToken' = Levels(stack_current)'
      BY <2>4 DEF AheadOfToken
    <3>2. Levels(stack_current)' = Levels(depth)
      BY <1>6 DEF Levels
    <3> QED BY <2>1, <3>1, <3>2
  <2>6. state # "done"
    BY <1>1
  <2> QED BY <1>1, <2>4, <2>5, <2>6, PutAhead
<1>8. CASE ~(Top \in {"a", "o"} /\ indent # NULL)
  <2>1. AheadOfToken = <<>>
    <3>1. depth \in Int
      OBVIOUS
    <3>2. indent = NULL => J!Newline(depth, indent) = <<>>
      BY <1>2, <3>1, NewlineFacts
    <3> QED BY <1>5, <1>8, <3>2
  <2>2. Goto("tail") /\ state' = "tail" /\ state # "done"
    BY <1>1, <1>3, <1>8 DEF Goto
  <2>3. AheadOfToken' = <<>> /\ <<>> \in Seq(Byte)
    BY <2>2 DEF AheadOfToken
  <2> QED BY <1>1, <2>1, <2>2, <2>3, GotoAhead
<1> QED BY <1>7, <1>8

LEMMA ClosingBracketText == Runs /\ ClosingBracket /\ UNCHANGED programVars => Underway'
<1> SUFFICES ASSUME Runs, ClosingBracket, UNCHANGED programVars PROVE Underway'
  OBVIOUS
<1>1. /\ write_func \in Ends /\ state = "tail" /\ pending = <<>> /\ size' = size /\ busy
      /\ write_func' = write_func /\ write_func \in Ends \cup {"prelude"}
      /\ write_func = "end_array" => Put(<<93>>, "done")
      /\ write_func = "end_object" => Put(<<125>>, "done")
  BY DEF ClosingBracket, At, Ends, Ascii
<1>2. write_func = token.function /\ OutputOK /\ write_func # "prelude" /\ write_func # "string"
  BY <1>1, RunsFacts DEF Progress, Ends
<1>3. PICK bytes \in Seq(Byte) : bytes = TextOf(token)
  BY RunsFacts
<1>4. due = out \o bytes
  <2>1. AheadOfToken = <<>>
    BY <1>1 DEF AheadOfToken
  <2>2. due = out \o (<<>> \o bytes)
    BY <1>1, <1>3, <2>1, DueAhead
  <2> QED BY <2>2, ConcatEmptySeq
<1>5. Put(bytes, "done")
  BY <1>1, <1>2, <1>3, TextCases DEF Ends
<1> QED BY <1>1, <1>2, <1>4, <1>5, LastBytes

-----------------------------------------------------------------------------
(* Strings. *)

LEMMA Reassociate == \A x, y, z \in Seq(Byte) : (x \o y) \o z = x \o (y \o z)
<1>1. ASSUME NEW x \in Seq(Byte), NEW y \in Seq(Byte), NEW z \in Seq(Byte)
      PROVE  (x \o y) \o z = x \o (y \o z)
  BY Associative
<1> QED BY <1>1

\* What is left behind the first j of some sequences, and an end.
LEMMA FromThen ==
  ASSUME NEW s \in Seq(Seq(Byte)), NEW end \in Seq(Byte), NEW j \in 0 .. Len(s)
  PROVE  /\ From(s, j) \o end \in Seq(Byte)
         /\ j = Len(s) => From(s, j) \o end = end
         /\ j < Len(s) => From(s, j) \o end = s[j + 1] \o (From(s, j + 1) \o end)
<1>1. PICK front \in Seq(Byte) : front = From(s, j)
  BY FromFacts
<1>2. front \o end \in Seq(Byte)
  OBVIOUS
<1>3. ASSUME j = Len(s) PROVE From(s, j) \o end = end
  <2>1. From(s, j) = <<>>
    BY <1>3, FromFacts
  <2>2. <<>> \o end = end
    BY ConcatEmptySeq
  <2> QED BY <2>1, <2>2
<1>4. ASSUME j < Len(s) PROVE From(s, j) \o end = s[j + 1] \o (From(s, j + 1) \o end)
  <2>1. j + 1 \in 0 .. Len(s) /\ j + 1 \in 1 .. Len(s)
    BY <1>4
  <2>2. From(s, j) = s[j + 1] \o From(s, j + 1)
    BY <1>4, FromFacts
  <2>3. From(s, j + 1) \in Seq(Byte)
    BY <2>1, FromFacts
  <2>4. s[j + 1] \in Seq(Byte)
    BY <2>1, ElementOfSeq
  <2>5. \A z \in Seq(Byte) : (s[j + 1] \o From(s, j + 1)) \o z = s[j + 1] \o (From(s, j + 1) \o z)
    BY <2>3, <2>4, Reassociate, Zenon
  <2>6. (s[j + 1] \o From(s, j + 1)) \o end = s[j + 1] \o (From(s, j + 1) \o end)
    BY <2>5, Zenon
  <2> QED BY <2>2, <2>6, Zenon
<1> QED BY <1>1, <1>2, <1>3, <1>4, Zenon

\* The letters and the bytes behind the first k.
LEMMA NextLetter ==
  ASSUME Runs, token.function = "string", NEW k \in 0 .. Len(token.points)
  PROVE  /\ LettersFrom(k) \in Seq(Byte) /\ BytesFrom(k) \in Seq(Byte)
         /\ k = Len(token.points) => LettersFrom(k) = Closing(token) /\ BytesFrom(k) = TailOf(token)
         /\ k < Len(token.points) =>
              /\ token.points[k + 1] \in Codepoints(token.value.encoding)
              /\ k + 1 \in 0 .. Len(token.points)
              /\ LettersFrom(k + 1) \in Seq(Byte) /\ BytesFrom(k + 1) \in Seq(Byte)
              /\ LettersFrom(k) = J!Letter(token.points[k + 1], "ASCII" \in flags) \o LettersFrom(k + 1)
              /\ BytesFrom(k) = Spelling(token.points[k + 1], token.value.encoding) \o BytesFrom(k + 1)
<1> DEFINE points == token.points
           letters == Letters(token)
           spellings == Spellings(token)
           close == Closing(token)
           tail == TailOf(token)
<1>1. Spelled(token) /\ token.value \in Strings
  BY RunsFacts
<1>2. /\ Len(points) \in Nat
      /\ letters \in Seq(Seq(Byte)) /\ Len(letters) = Len(points)
      /\ spellings \in Seq(Seq(Byte)) /\ Len(spellings) = Len(points)
      /\ tail \in Seq(Byte) /\ close \in Seq(Byte)
      /\ \A i \in 1 .. Len(points) :
           /\ points[i] \in Codepoints(token.value.encoding)
           /\ letters[i] = J!Letter(points[i], "ASCII" \in flags)
           /\ spellings[i] = Spelling(points[i], token.value.encoding)
  BY <1>1, StringParts
<1>3. ASSUME NEW s \in Seq(Seq(Byte)), Len(s) = Len(points), NEW end \in Seq(Byte), NEW j \in 0 .. Len(points)
      PROVE  /\ From(s, j) \o end \in Seq(Byte)
             /\ j = Len(points) => From(s, j) \o end = end
             /\ j < Len(points) => From(s, j) \o end = s[j + 1] \o (From(s, j + 1) \o end)
  <2> HIDE DEF points
  <2>1. j \in 0 .. Len(s)
    BY <1>3
  <2>2. /\ From(s, j) \o end \in Seq(Byte)
        /\ j = Len(s) => From(s, j) \o end = end
        /\ j < Len(s) => From(s, j) \o end = s[j + 1] \o (From(s, j + 1) \o end)
    BY <2>1, FromThen
  <2> QED BY <1>3, <2>2, Zenon
<1>4. \A j : LettersFrom(j) = From(letters, j) \o close /\ BytesFrom(j) = From(spellings, j) \o tail
  BY DEF LettersFrom, BytesFrom
<1>5. k < Len(points) => k + 1 \in 0 .. Len(points) /\ k + 1 \in 1 .. Len(points)
  BY <1>2
<1> HIDE DEF points, letters, spellings, close, tail
<1>6. /\ LettersFrom(k) \in Seq(Byte) /\ BytesFrom(k) \in Seq(Byte)
      /\ k = Len(points) => LettersFrom(k) = close /\ BytesFrom(k) = tail
      /\ k < Len(points) => LettersFrom(k) = letters[k + 1] \o LettersFrom(k + 1)
      /\ k < Len(points) => BytesFrom(k) = spellings[k + 1] \o BytesFrom(k + 1)
  <2>1. k \in 0 .. Len(points)
    BY DEF points
  <2> QED BY <1>2, <1>3, <1>4, <2>1
<1>7. k < Len(points) => LettersFrom(k + 1) \in Seq(Byte) /\ BytesFrom(k + 1) \in Seq(Byte)
  BY <1>2, <1>3, <1>4, <1>5
<1>8. k < Len(points) => /\ points[k + 1] \in Codepoints(token.value.encoding)
                         /\ letters[k + 1] = J!Letter(points[k + 1], "ASCII" \in flags)
                         /\ spellings[k + 1] = Spelling(points[k + 1], token.value.encoding)
  BY <1>2, <1>5
<1>9. k < Len(points) =>
        /\ LettersFrom(k) = J!Letter(points[k + 1], "ASCII" \in flags) \o LettersFrom(k + 1)
        /\ BytesFrom(k) = Spelling(points[k + 1], token.value.encoding) \o BytesFrom(k + 1)
  BY <1>6, <1>8, Zenon
<1> QED BY <1>5, <1>6, <1>7, <1>8, <1>9, Zenon DEF points, close, tail

\* Where a string is at a label.
LEMMA StringAt ==
  ASSUME Runs, NEW label, At("string", label), label \notin {"START", "done"}
  PROVE  /\ token.function = "string" /\ write_func = "string" /\ state = label /\ pending = <<>>
         /\ OutputOK /\ busy /\ value \in Strings /\ Rest \in Seq(Byte)
         /\ value.encoding \in {"UTF8", "LATIN1"}
         /\ \E k \in 0 .. Len(token.points) : \E here, part \in Seq(Byte) :
              /\ Within(here, part)
              /\ Rest = here \o BytesFrom(k) /\ BytesFrom(k) \in Seq(Byte)
              /\ value.encoding = token.value.encoding
              /\ due = out \o (part \o LettersFrom(k)) /\ LettersFrom(k) \in Seq(Byte)
<1>1. "string" \in Values \cup Ends
  BY DEF Values
<1>2. /\ token.function = "string" /\ write_func = "string" /\ state = label /\ pending = <<>>
      /\ OutputOK /\ busy /\ ValueOK
  BY <1>1, AtFunction, RunsFacts DEF Runs
<1>3. value \in Strings /\ Rest \in Seq(Byte) /\ value.encoding \in {"UTF8", "LATIN1"}
  BY <1>2 DEF ValueOK, Running, Strings, Rest
<1>4. PICK text \in Seq(Byte) : due = out \o text /\ Left(text)
  BY <1>1, AtFunction
<1>5. StringLeft(text)
  BY <1>2, <1>4 DEF Left, Ends
<1>6. PICK k \in 0 .. Len(token.points) : \E here, part \in Seq(Byte) :
        /\ Within(here, part)
        /\ Rest = here \o BytesFrom(k)
        /\ value.encoding = token.value.encoding
        /\ text = part \o LettersFrom(k)
  BY <1>5 DEF StringLeft
<1>7. LettersFrom(k) \in Seq(Byte) /\ BytesFrom(k) \in Seq(Byte)
  BY <1>2, NextLetter
<1> QED BY <1>2, <1>3, <1>4, <1>6, <1>7, Zenon

\* Some of a letter is put, or none of it.
LEMMA LetterPut ==
  ASSUME Runs, token.function = "string", NEW k \in 0 .. Len(token.points),
         NEW bytes \in Seq(Byte), NEW part \in Seq(Byte), NEW here \in Seq(Byte),
         due = out \o ((bytes \o part) \o LettersFrom(k)),
         NEW label, label \notin {"error", "done", "START"},
         Put(bytes, label) \/ (bytes = <<>> /\ pending = <<>> /\ Goto(label)),
         size' = size, write_func' = "string", UNCHANGED programVars, UNCHANGED configVars,
         Within(here, part)', Rest' = here \o BytesFrom(k), value'.encoding = token.value.encoding
  PROVE  Underway'
<1>1. /\ OutputOK /\ busy /\ due' = due /\ token' = token
      /\ state' = label
  BY RunsFacts DEF Runs, programVars, Put, Goto
<1>2. PICK letters \in Seq(Byte) : letters = LettersFrom(k)
  BY NextLetter
<1>3. PICK text \in Seq(Byte) : text = part \o letters
  <2>1. part \o letters \in Seq(Byte)
    BY ConcatProperties
  <2> QED BY <2>1
<1>4. due = out \o (bytes \o text)
  <2>1. (bytes \o part) \o letters = bytes \o (part \o letters)
    BY Reassociate, Zenon
  <2> QED BY <1>2, <1>3, <2>1, Zenon
<1>5. \A j : LettersFrom(j)' = LettersFrom(j) /\ BytesFrom(j)' = BytesFrom(j)
  BY <1>1, SameText
<1>6. StringLeft(text)'
  <2>1. k \in 0 .. Len(token'.points) /\ value'.encoding = token'.value.encoding
    BY <1>1
  <2>2. Rest' = here \o BytesFrom(k)' /\ text = part \o LettersFrom(k)'
    BY <1>2, <1>3, <1>5
  <2> QED BY <2>1, <2>2, Zenon DEF StringLeft
<1>7. Left(text)'
  BY <1>1, <1>6 DEF Left, Ends
<1>8. ArgumentKept'
  BY <1>1, ArgumentPassed
<1>9. CASE Put(bytes, label)
  BY <1>1, <1>4, <1>7, <1>8, <1>9, PutText
<1>10. CASE bytes = <<>> /\ pending = <<>> /\ Goto(label)
  <2>1. due = out \o text
    BY <1>4, <1>10, ConcatEmptySeq
  <2> QED BY <1>1, <1>7, <1>8, <1>10, <2>1, GotoText
<1> QED BY <1>9, <1>10

LEMMA StringStartText == Runs /\ StringStart /\ UNCHANGED programVars => Underway'
<1> SUFFICES ASSUME Runs, StringStart, UNCHANGED programVars PROVE Underway'
  OBVIOUS
<1>1. /\ At("string", "START") /\ "string" \in Values /\ "string" \in WithArgument
      /\ Put(<<34>>, "char") /\ size' = size /\ write_func' = "string" /\ value' = value
      /\ UNCHANGED configVars /\ state' = "char"
  BY DEF StringStart, At, Values, WithArgument, Ascii, Put
<1>2. /\ token.function = "string" /\ value = token.value
      /\ due = out \o TextOf(token)
      /\ Spelled(token) /\ token.value \in Strings
  BY <1>1, AtFunction, AtStart, RunsFacts
<1>3. PICK bytes \in Seq(Byte) : bytes = <<34>>
  BY SomeBytes
<1>4. PICK nothing \in Seq(Byte) : nothing = <<>>
  BY SomeBytes
<1>5. 0 \in 0 .. Len(token.points)
  BY <1>2, StringParts
<1>6. LettersFrom(0) = J!FlattenSeq(Letters(token)) \o Closing(token)
      /\ BytesFrom(0) = J!FlattenSeq(Spellings(token)) \o TailOf(token)
  <2>1. From(Letters(token), 0) = J!FlattenSeq(Letters(token))
    <3>1. Letters(token) \in Seq(Seq(Byte)) /\ 0 \in 0 .. Len(Letters(token))
      BY <1>2, StringParts
    <3> QED BY <3>1, FromFacts
  <2>2. From(Spellings(token), 0) = J!FlattenSeq(Spellings(token))
    <3>1. Spellings(token) \in Seq(Seq(Byte)) /\ 0 \in 0 .. Len(Spellings(token))
      BY <1>2, StringParts
    <3> QED BY <3>1, FromFacts
  <2> QED BY <2>1, <2>2 DEF LettersFrom, BytesFrom
<1>7. due = out \o ((bytes \o nothing) \o LettersFrom(0))
  <2>1. bytes \o nothing = bytes
    BY <1>4, ConcatEmptySeq
  <2>2. TextOf(token) = bytes \o LettersFrom(0)
    BY <1>2, <1>3, <1>6, StringTexts, Zenon
  <2> QED BY <1>2, <2>1, <2>2
<1>8. Rest' = nothing \o BytesFrom(0)
  <2>1. BytesFrom(0) \in Seq(Byte)
    BY <1>2, <1>5, NextLetter
  <2>2. nothing \o BytesFrom(0) = BytesFrom(0)
    BY <1>4, <2>1, ConcatEmptySeq
  <2>3. token.value.string = BytesFrom(0)
    BY <1>2, <1>6 DEF Spelled
  <2> QED BY <1>1, <1>2, <2>2, <2>3 DEF Rest
<1>9. Within(nothing, nothing)'
  BY <1>1, <1>4 DEF Within
<1>10. PICK label : label = "char"
  OBVIOUS
<1>11. Put(bytes, label) /\ value'.encoding = token.value.encoding /\ label \notin {"error", "done", "START"}
  BY <1>1, <1>2, <1>3, <1>10
<1> QED BY <1>1, <1>2, <1>5, <1>7, <1>8, <1>9, <1>11, LetterPut

LEMMA HexLabels ==
  /\ \A i \in 1 .. 4 : HexLabel[i] \in {"hex1", "hex2", "hex3", "hex4"}
  /\ \A i \in 1 .. 4 : HexLabel[i + 4] \in {"hex5", "hex6", "hex7", "hex8"}
  /\ \A i, j \in 1 .. 8 : HexLabel[i] = HexLabel[j] => i = j
<1>1. /\ HexLabel[1] = "hex1" /\ HexLabel[2] = "hex2" /\ HexLabel[3] = "hex3" /\ HexLabel[4] = "hex4"
      /\ HexLabel[5] = "hex5" /\ HexLabel[6] = "hex6" /\ HexLabel[7] = "hex7" /\ HexLabel[8] = "hex8"
  BY DEF HexLabel
<1>2. \A i \in 1 .. 4 : i = 1 \/ i = 2 \/ i = 3 \/ i = 4
  OBVIOUS
<1>3. \A i \in 1 .. 8 : i = 1 \/ i = 2 \/ i = 3 \/ i = 4 \/ i = 5 \/ i = 6 \/ i = 7 \/ i = 8
  OBVIOUS
<1>4. \A i \in 1 .. 4 : HexLabel[i] \in {"hex1", "hex2", "hex3", "hex4"}
  BY <1>1, <1>2
<1>5. \A i \in 1 .. 4 : HexLabel[i + 4] \in {"hex5", "hex6", "hex7", "hex8"}
  BY <1>1, <1>2
<1>6. \A i, j \in 1 .. 8 : HexLabel[i] = HexLabel[j] => i = j
  BY <1>1, <1>3
<1> QED BY <1>4, <1>5, <1>6

\* What is left of a letter at a label.
LEMMA AtLabel ==
  ASSUME NEW here, NEW part, Within(here, part)
  PROVE  /\ state = "char" => here = <<>> /\ part = <<>>
         /\ state = "skip" => Len(here) = 1 /\ part = <<>>
         /\ state = "high" => TwoDigits(here, part)
         /\ state = "low" => OneDigit(here, part)
         /\ state = "copy" => part = here /\ Len(here) = value.count
         /\ state = "copied" => here # <<>> /\ part = Tail(here) /\ Len(here) = value.count
         /\ state = "pair" => /\ here = <<>> /\ value.utf16 \in (0 .. MaxUnit) \X (0 .. MaxUnit)
                              /\ value.utf16[2] # 0 /\ part = SecondEscape
BY HexLabels, Zenon DEF Within

LEMMA AtHexLabel ==
  ASSUME NEW here, NEW part, Within(here, part), NEW i \in 1 .. 4
  PROVE  /\ state = HexLabel[i] =>
              /\ here = <<>> /\ value.utf16 \in (0 .. MaxUnit) \X (0 .. MaxUnit)
              /\ part = HexFrom(value.utf16[1], i) \o SecondEscape
         /\ state = HexLabel[i + 4] =>
              /\ here = <<>> /\ value.utf16 \in (0 .. MaxUnit) \X (0 .. MaxUnit)
              /\ part = HexFrom(value.utf16[2], i)
<1>1. ASSUME state \in {"hex1", "hex2", "hex3", "hex4", "hex5", "hex6", "hex7", "hex8"}
      PROVE  /\ here = <<>> /\ value.utf16 \in (0 .. MaxUnit) \X (0 .. MaxUnit)
             /\ \/ \E j \in 1 .. 4 : /\ state = HexLabel[j]
                                     /\ part = HexFrom(value.utf16[1], j) \o SecondEscape
                \/ \E j \in 1 .. 4 : state = HexLabel[j + 4] /\ part = HexFrom(value.utf16[2], j)
  BY <1>1, Zenon DEF Within
<1>2. i \in 1 .. 8 /\ i + 4 \in 1 .. 8 /\ \A j \in 1 .. 4 : j \in 1 .. 8 /\ j + 4 \in 1 .. 8
  OBVIOUS
<1>3. ASSUME state = HexLabel[i]
      PROVE  /\ here = <<>> /\ value.utf16 \in (0 .. MaxUnit) \X (0 .. MaxUnit)
             /\ part = HexFrom(value.utf16[1], i) \o SecondEscape
  <2>1. state \in {"hex1", "hex2", "hex3", "hex4"}
    BY <1>3, HexLabels
  <2>2. \A j \in 1 .. 4 : state # HexLabel[j + 4] /\ (state = HexLabel[j] => i = j)
    BY <1>2, <1>3, <2>1, HexLabels
  <2> QED BY <1>1, <2>1, <2>2, Zenon
<1>4. ASSUME state = HexLabel[i + 4]
      PROVE  /\ here = <<>> /\ value.utf16 \in (0 .. MaxUnit) \X (0 .. MaxUnit)
             /\ part = HexFrom(value.utf16[2], i)
  <2>1. state \in {"hex5", "hex6", "hex7", "hex8"}
    BY <1>4, HexLabels
  <2>2. \A j \in 1 .. 4 : state # HexLabel[j] /\ (state = HexLabel[j + 4] => i = j)
    <3>1. \A j \in 1 .. 4 : state = HexLabel[j + 4] => i + 4 = j + 4
      BY <1>2, <1>4, HexLabels
    <3>2. \A j \in 1 .. 4 : state # HexLabel[j]
      BY <2>1, HexLabels
    <3> QED BY <3>1, <3>2
  <2> QED BY <1>1, <2>1, <2>2, Zenon
<1> QED BY <1>3, <1>4

LEMMA ShortEscapesAreAscii == HasShortEscape \subseteq {8, 9, 10, 12, 13, 34, 92}
<1>1. \A letter \in ShortEscapes : Unescape(letter) \in {8, 9, 10, 12, 13, 34, 92}
  BY SMT DEF ShortEscapes, Escapable, Unescape
<1>2. \A ch \in HasShortEscape : \E letter \in ShortEscapes : ch = Unescape(letter)
  BY DEF HasShortEscape
<1>3. \A ch \in HasShortEscape : ch \in {8, 9, 10, 12, 13, 34, 92}
  <2> TAKE ch \in HasShortEscape
  <2>1. PICK letter \in ShortEscapes : ch = Unescape(letter)
    BY <1>2
  <2> QED BY <1>1, <2>1
<1> QED BY <1>3

\* Between two letters, k of them are put.
Between(k) ==
  /\ k \in 0 .. Len(token.points)
  /\ token.function = "string" /\ write_func = "string" /\ pending = <<>>
  /\ Rest = BytesFrom(k) /\ Rest \in Seq(Byte)
  /\ value.encoding = token.value.encoding
  /\ due = out \o LettersFrom(k)

\* The string ends, or bytes follow that are no UTF-8.
LEMMA EndOfStringText ==
  ASSUME Runs, StringChar, UNCHANGED programVars, Between(Len(token.points))
  PROVE  Underway'
<1>1. /\ Rest = TailOf(token) /\ due = out \o Closing(token) /\ Rest \in Seq(Byte)
      /\ token.function = "string" /\ pending = <<>> /\ value.encoding = token.value.encoding
  BY NextLetter DEF Between
<1>2. Spelled(token) /\ OutputOK /\ busy
  BY <1>1, RunsFacts DEF Runs
<1>3. size' = size /\ write_func' = "string" /\ write_func' # "prelude"
  BY DEF StringChar, At
<1>4. CASE token.wellformed
  <2>1. Rest = <<>> /\ Closing(token) = <<34>>
    BY <1>1, <1>2, <1>4 DEF Spelled, Closing
  <2>2. Put(<<34>>, "done")
    BY <2>1 DEF StringChar, Ascii
  <2>3. PICK bytes \in Seq(Byte) : bytes = <<34>>
    BY SomeBytes
  <2> QED BY <1>1, <1>2, <1>3, <1>4, <2>1, <2>2, <2>3, LastBytes
<1>5. CASE ~token.wellformed
  <2>1. /\ value.encoding = "UTF8" /\ Rest # <<>> /\ DecodedCount(Rest) <= 0
        /\ Closing(token) = <<>>
    BY <1>1, <1>2, <1>5 DEF Spelled, Closing
  <2> DEFINE ch == Head(Rest)
  <2>2. ch \in Byte /\ ch = Rest[1] /\ Len(Rest) \in Nat /\ Len(Rest) > 0
    BY <1>1, <2>1
  <2>3. ch \in 128 .. 255
    <3>1. ch \in 0 .. 255
      BY <2>2 DEF Byte
    <3>2. ~(ch < 128)
      <4>1. ASSUME ch < 128 PROVE DecodedCount(Rest) = 1
        <5>1. SequenceLength(Rest[1]) = 1
          BY <2>2, <4>1, SequenceLengths
        <5> HIDE DEF ch
        <5> QED BY <2>2, <5>1 DEF DecodedCount
      <4> HIDE DEF ch
      <4> QED BY <2>1, <4>1
    <3> HIDE DEF ch
    <3> QED BY <3>1, <3>2
  <2>4. /\ ch \notin HasShortEscape
        /\ ~(ch <= 31 \/ ch = 127 \/ (value.encoding = "LATIN1" /\ ch \in 128 .. 159))
        /\ ~(ch < 127 \/ value.encoding = "LATIN1")
    <3>1. ch \notin HasShortEscape
      <4> HIDE DEF ch
      <4> QED BY <2>3, ShortEscapesAreAscii
    <3>2. value.encoding # "LATIN1"
      BY <2>1
    <3> HIDE DEF ch
    <3> QED BY <2>3, <3>1, <3>2
  <2>5. Multibyte
    <3>1. Multibyte \/ ~(Rest # <<>> /\ ch \notin HasShortEscape
                         /\ ~(ch <= 31 \/ ch = 127 \/ (value.encoding = "LATIN1" /\ ch \in 128 .. 159))
                         /\ ~(ch < 127 \/ value.encoding = "LATIN1"))
      BY Zenon DEF StringChar
    <3> HIDE DEF ch
    <3> QED BY <2>1, <2>4, <3>1
  <2>6. RaiseError
    BY <2>1, <2>5 DEF Multibyte
  <2>7. state' = "error" /\ out' = out /\ token' = token /\ due' = due
    BY <2>6 DEF RaiseError, programVars
  <2>8. due' = out'
    BY <1>1, <1>2, <2>1, <2>7, ConcatEmptySeq DEF OutputOK
  <2> QED BY <1>1, <1>5, <2>7, <2>8 DEF Underway, Reason
<1> QED BY <1>4, <1>5

\* The letters of control characters, and of others in ASCII.
LEMMA ControlLetter ==
  ASSUME NEW cp \in Nat, cp <= 31 \/ cp = 127 \/ cp \in 128 .. 159, cp \notin HasShortEscape,
         NEW ascii \in BOOLEAN
  PROVE  /\ J!Letter(cp, ascii) = <<92, 117, 48, 48>> \o HexFrom(cp, 3)
         /\ HexFrom(cp, 3) \in Seq(Byte)
         /\ cp \in 0 .. 159
         /\ (cp \div 16) % 256 = cp \div 16
<1>1. cp \in 0 .. 159 /\ cp \in 0 .. 31 \cup 127 .. 159 /\ cp <= 65535 /\ cp <= 1114111
  BY SMT
<1>2. cp <= MaxUnit /\ cp <= MaxCodepoint
  BY <1>1, Maxima
<1>3. J!Letter(cp, ascii) = J!Escapes(cp)
  BY <1>1, <1>2, LetterCases
<1>4. J!Escapes(cp) = J!Escape(cp)
  BY <1>2 DEF J!Escapes, J!MaxUnit, MaxUnit
<1>5. \A i \in 1 .. 4 : /\ HexFrom(cp, i) \in Seq(Byte)
                        /\ HexFrom(cp, i) = <<HexDigitOf(cp, i)>> \o HexFrom(cp, i + 1)
  BY <1>2, HexFromFacts
<1>6. J!Escape(cp) = <<92, 117>> \o HexFrom(cp, 1)
  BY <1>2, HexFromFacts
<1>7. /\ HexFrom(cp, 1) = <<HexDigitOf(cp, 1)>> \o HexFrom(cp, 2)
      /\ HexFrom(cp, 2) = <<HexDigitOf(cp, 2)>> \o HexFrom(cp, 3)
      /\ HexFrom(cp, 3) \in Seq(Byte)
  <2>1. 1 \in 1 .. 4 /\ 2 \in 1 .. 4 /\ 3 \in 1 .. 4 /\ 1 + 1 = 2 /\ 2 + 1 = 3
    OBVIOUS
  <2> QED BY <1>5, <2>1
<1>8. HexDigitOf(cp, 1) = 48 /\ HexDigitOf(cp, 2) = 48
  <2>1. /\ HexDigitOf(cp, 1) = ToHex((cp \div Place[1]) % 16)
        /\ HexDigitOf(cp, 2) = ToHex((cp \div Place[2]) % 16)
    BY <1>2, HexDigitIs
  <2>2. Place[1] = 4096 /\ Place[2] = 256
    BY DEF Place
  <2>3. cp \div 4096 = 0 /\ cp \div 256 = 0
    BY <1>1
  <2>4. ToHex(0 % 16) = 48
    BY DEF ToHex
  <2> QED BY <2>1, <2>2, <2>3, <2>4
<1>9. PICK part \in Seq(Byte) : part = HexFrom(cp, 3)
  BY <1>7
<1>10. <<92, 117>> \o (<<48>> \o (<<48>> \o part)) = <<92, 117, 48, 48>> \o part
  OBVIOUS
<1>11. J!Letter(cp, ascii) = <<92, 117, 48, 48>> \o HexFrom(cp, 3)
  BY <1>3, <1>4, <1>6, <1>7, <1>8, <1>9, <1>10, Zenon
<1>12. (cp \div 16) % 256 = cp \div 16
  BY <1>1
<1> QED BY <1>1, <1>7, <1>11, <1>12

LEMMA PlainLetter ==
  ASSUME NEW cp \in Nat, cp < 127, ~(cp <= 31), cp \notin HasShortEscape, NEW ascii \in BOOLEAN
  PROVE  J!Letter(cp, ascii) = <<cp>>
<1>1. ~(cp \in 0 .. 31 \cup 127 .. 159 \/ (ascii /\ cp > 127)) /\ cp < 128 /\ cp <= 1114111
  BY SMT
<1>2. J!Letter(cp, ascii) = Utf8(cp)
  BY <1>1, Maxima, LetterCases
<1> QED BY <1>1, <1>2 DEF Utf8

\* The next code point, its letter and its bytes.
LEMMA AtLetter ==
  ASSUME Runs, NEW k, Between(k), k < Len(token.points), NEW cp, cp = token.points[k + 1]
  PROVE  /\ token.function = "string" /\ pending = <<>> /\ k + 1 \in 0 .. Len(token.points)
         /\ value.encoding = token.value.encoding /\ value.encoding \in {"UTF8", "LATIN1"}
         /\ cp \in Codepoints(value.encoding) /\ cp \in Nat /\ cp <= MaxCodepoint
         /\ J!Letter(cp, "ASCII" \in flags) \in Seq(Byte)
         /\ due = out \o (J!Letter(cp, "ASCII" \in flags) \o LettersFrom(k + 1))
         /\ Rest = Spelling(cp, value.encoding) \o BytesFrom(k + 1)
         /\ BytesFrom(k + 1) \in Seq(Byte) /\ Rest \in Seq(Byte)
<1>1. /\ token.function = "string" /\ pending = <<>> /\ k \in 0 .. Len(token.points)
      /\ value.encoding = token.value.encoding /\ Rest \in Seq(Byte)
      /\ Rest = BytesFrom(k) /\ due = out \o LettersFrom(k)
  BY DEF Between
<1>2. /\ k + 1 \in 0 .. Len(token.points)
      /\ cp \in Codepoints(token.value.encoding)
      /\ LettersFrom(k) = J!Letter(cp, "ASCII" \in flags) \o LettersFrom(k + 1)
      /\ BytesFrom(k) = Spelling(cp, token.value.encoding) \o BytesFrom(k + 1)
      /\ BytesFrom(k + 1) \in Seq(Byte)
  BY <1>1, NextLetter
<1>3. value.encoding \in {"UTF8", "LATIN1"}
  BY <1>1, RunsFacts DEF Strings
<1>4. cp \in Nat /\ cp <= MaxCodepoint
  BY <1>2, CodepointRange
<1>5. J!Letter(cp, "ASCII" \in flags) \in Seq(Byte)
  <2> DEFINE ascii == "ASCII" \in flags
  <2>1. ascii \in BOOLEAN
    OBVIOUS
  <2> HIDE DEF ascii
  <2>2. J!Letter(cp, ascii) \in Seq(Byte)
    BY <1>4, <2>1, LetterBytes
  <2> QED BY <2>2 DEF ascii
<1> QED BY <1>1, <1>2, <1>3, <1>4, <1>5, Zenon

\* The first part of a letter is put, or none of it.
LEMMA LetterStarts ==
  ASSUME Runs, StringChar, UNCHANGED programVars,
         NEW k, Between(k), k < Len(token.points), NEW cp, cp = token.points[k + 1],
         NEW bytes \in Seq(Byte), NEW part \in Seq(Byte), NEW here \in Seq(Byte),
         J!Letter(cp, "ASCII" \in flags) = bytes \o part,
         NEW label, label \notin {"error", "done", "START"},
         Put(bytes, label) \/ (bytes = <<>> /\ Goto(label)),
         Within(here, part)', Rest' = here \o BytesFrom(k + 1), value'.encoding = value.encoding
  PROVE  Underway'
<1>1. size' = size /\ write_func' = "string" /\ UNCHANGED configVars
  BY DEF StringChar, At
<1>2. /\ token.function = "string" /\ k + 1 \in 0 .. Len(token.points) /\ pending = <<>>
      /\ value'.encoding = token.value.encoding
      /\ due = out \o ((bytes \o part) \o LettersFrom(k + 1))
  BY AtLetter
<1>3. PICK m \in 0 .. Len(token.points) : m = k + 1
  BY <1>2
<1>4. due = out \o ((bytes \o part) \o LettersFrom(m)) /\ Rest' = here \o BytesFrom(m)
  BY <1>2, <1>3
<1> QED BY <1>1, <1>2, <1>4, LetterPut

\* What the loop does at a byte.
LEMMA CharCases ==
  ASSUME StringChar, Rest # <<>>, NEW ch, ch = Head(Rest)
  PROVE  IF ch \in HasShortEscape
         THEN Put(<<92, ShortEscape(ch)>>, "skip") /\ value' = value
         ELSE IF ch <= 31 \/ ch = 127 \/ (value.encoding = "LATIN1" /\ ch \in 128 .. 159)
         THEN Put(<<92, 117, 48, 48>>, "high") /\ value' = value
         ELSE IF ch < 127 \/ value.encoding = "LATIN1"
         THEN Put(<<ch>>, "skip") /\ value' = value
         ELSE Multibyte
<1>1. Ascii.u = 117
  BY DEF Ascii
<1> QED BY <1>1, Zenon DEF StringChar

\* A code point of one byte.
LEMMA OneByteText ==
  ASSUME Runs, StringChar, UNCHANGED programVars, NEW k, Between(k), k < Len(token.points),
         NEW cp, cp = token.points[k + 1], value.encoding # "UTF8" \/ cp < 128
  PROVE  Underway'
<1> DEFINE ascii == "ASCII" \in flags
           latin1 == value.encoding = "LATIN1"
<1>1. /\ cp \in Codepoints(value.encoding) /\ cp \in Nat /\ cp <= MaxCodepoint
      /\ Rest = Spelling(cp, value.encoding) \o BytesFrom(k + 1)
      /\ BytesFrom(k + 1) \in Seq(Byte) /\ Rest \in Seq(Byte)
      /\ value.encoding \in {"UTF8", "LATIN1"}
  BY AtLetter
<1>2. Spelling(cp, value.encoding) = <<cp>> /\ cp \in Byte
  BY <1>1, SpellingBytes
<1>3. PICK here \in Seq(Byte) : here = <<cp>>
  BY <1>2, BytesAreSeq
<1>4. Rest = here \o BytesFrom(k + 1)
  BY <1>1, <1>2, <1>3
<1>5. Rest # <<>> /\ Head(Rest) = cp
  <2>1. PICK rest \in Seq(Byte) : rest = BytesFrom(k + 1)
    BY <1>1
  <2>2. Rest = <<cp>> \o rest
    BY <1>3, <1>4, <2>1
  <2>3. Len(<<cp>> \o rest) > 0 /\ (<<cp>> \o rest)[1] = cp
    OBVIOUS
  <2> QED BY <2>2, <2>3
<1>6. IF cp \in HasShortEscape
      THEN Put(<<92, ShortEscape(cp)>>, "skip") /\ value' = value
      ELSE IF cp <= 31 \/ cp = 127 \/ (latin1 /\ cp \in 128 .. 159)
      THEN Put(<<92, 117, 48, 48>>, "high") /\ value' = value
      ELSE IF cp < 127 \/ latin1
      THEN Put(<<cp>>, "skip") /\ value' = value
      ELSE Multibyte
  BY <1>5, CharCases
<1>7. /\ ~latin1 => cp < 128
      /\ latin1 => cp <= 159
      /\ latin1 /\ CharIsSigned => cp <= 127
  BY <1>1, CodepointRange
<1>8. PICK nothing \in Seq(Byte) : nothing = <<>>
  BY SomeBytes
<1>9. ASSUME value' = value PROVE Rest' = here \o BytesFrom(k + 1) /\ value'.encoding = value.encoding
  BY <1>4, <1>9 DEF Rest
<1>10. ascii \in BOOLEAN
  OBVIOUS
<1>11. CASE cp \in HasShortEscape
  <2>1. J!Letter(cp, ascii) = <<92, ShortEscape(cp)>>
    BY <1>1, <1>10, <1>11, LetterCases
  <2>2. PICK bytes \in Seq(Byte) : bytes = J!Letter(cp, ascii)
    BY AtLetter
  <2>3. Put(bytes, "skip") /\ value' = value
    BY <1>6, <1>11, <2>1, <2>2
  <2>4. Within(here, nothing)'
    BY <1>3, <1>8, <2>3 DEF Within, Put
  <2>5. J!Letter(cp, "ASCII" \in flags) = bytes \o nothing
    BY <1>8, <2>2, ConcatEmptySeq
  <2>6. PICK label : label = "skip"
    OBVIOUS
  <2>7. label \notin {"error", "done", "START"} /\ Put(bytes, label)
    BY <2>3, <2>6
  <2>8. Rest' = here \o BytesFrom(k + 1) /\ value'.encoding = value.encoding
    BY <1>9, <2>3
  <2> HIDE DEF ascii, latin1
  <2> QED BY <2>4, <2>5, <2>7, <2>8, LetterStarts
<1>12. CASE cp \notin HasShortEscape /\ (cp <= 31 \/ cp = 127 \/ (latin1 /\ cp \in 128 .. 159))
  <2>1. cp <= 31 \/ cp = 127 \/ cp \in 128 .. 159
    BY <1>12, Zenon
  <2>2. /\ J!Letter(cp, ascii) = <<92, 117, 48, 48>> \o HexFrom(cp, 3)
        /\ HexFrom(cp, 3) \in Seq(Byte)
        /\ cp \in 0 .. 159
        /\ (cp \div 16) % 256 = cp \div 16
    <3>1. cp \notin HasShortEscape
      BY <1>12
    <3> HIDE DEF ascii
    <3>2. cp \in Nat
      BY <1>1
    <3>3. ascii \in BOOLEAN
      BY <1>10
    <3>4. \A b \in BOOLEAN : J!Letter(cp, b) = <<92, 117, 48, 48>> \o HexFrom(cp, 3)
      BY <2>1, <3>1, <3>2, ControlLetter, Zenon
    <3>5. J!Letter(cp, ascii) = <<92, 117, 48, 48>> \o HexFrom(cp, 3)
      BY <3>3, <3>4, Zenon
    <3>6. HexFrom(cp, 3) \in Seq(Byte)
      BY <2>1, <3>1, <3>2, <3>3, ControlLetter
    <3>7. cp \in 0 .. 159 /\ (cp \div 16) % 256 = cp \div 16
      BY <2>1, <3>1, <3>2, <3>3, ControlLetter, Zenon
    <3> QED BY <3>5, <3>6, <3>7
  <2>3. PICK part \in Seq(Byte) : part = HexFrom(cp, 3)
    BY <2>2
  <2>4. PICK bytes \in Seq(Byte) : bytes = <<92, 117, 48, 48>>
    BY SomeBytes
  <2>5. J!Letter(cp, "ASCII" \in flags) = bytes \o part
    BY <2>2, <2>3, <2>4, Zenon
  <2>6. Put(bytes, "high") /\ value' = value /\ state' = "high"
    BY <1>6, <1>12, <2>4 DEF Put
  <2>7. HighNibble(cp) = cp \div 16
    <3>1. ~(CharIsSigned /\ cp >= 128)
      <4>1. CASE cp <= 127
        BY <1>1, <4>1
      <4>2. CASE ~(cp <= 127)
        <5>1. ~(cp < 128) /\ ~(cp <= 127)
          BY <1>1, <4>2
        <5>2. latin1 /\ ~CharIsSigned
          BY <1>7, <5>1, Zenon
        <5> QED BY <5>2
      <4> QED BY <4>1, <4>2
    <3> QED BY <2>2, <3>1 DEF HighNibble
  <2>8. Within(here, part)'
    <3>1. TwoDigits(here, part)
      BY <1>3, <2>2, <2>3, <2>7 DEF TwoDigits
    <3> QED BY <2>6, <3>1, Zenon DEF Within, TwoDigits, HexFrom, HexDigitOf
  <2>9. PICK label : label = "high"
    OBVIOUS
  <2>10. label \notin {"error", "done", "START"} /\ Put(bytes, label)
    BY <2>6, <2>9
  <2>11. Rest' = here \o BytesFrom(k + 1) /\ value'.encoding = value.encoding
    BY <1>9, <2>6
  <2> HIDE DEF ascii, latin1
  <2> QED BY <2>5, <2>8, <2>10, <2>11, LetterStarts
<1>13. CASE cp \notin HasShortEscape /\ ~(cp <= 31 \/ cp = 127 \/ (latin1 /\ cp \in 128 .. 159))
  <2>1. cp < 127 /\ ~(cp <= 31) /\ cp \notin HasShortEscape
    <3>1. ~(cp <= 31) /\ cp # 127 /\ cp \notin HasShortEscape
      BY <1>13, Zenon
    <3>2. CASE latin1
      <4>1. ~(cp \in 128 .. 159) /\ cp <= 159
        BY <1>7, <1>13, <3>2, Zenon
      <4>2. cp \in Nat
        BY <1>1
      <4>3. cp < 127
        <5>1. \A n \in Nat : n # 127 /\ n <= 159 /\ ~(n \in 128 .. 159) => n < 127
          OBVIOUS
        <5> QED BY <3>1, <4>1, <4>2, <5>1, Zenon
      <4> QED BY <3>1, <4>3
    <3>3. CASE ~latin1
      <4>1. cp < 128
        BY <1>7, <3>3, Zenon
      <4>2. cp < 127
        BY <1>1, <3>1, <4>1
      <4> QED BY <3>1, <4>2
    <3> QED BY <3>2, <3>3
  <2>2. J!Letter(cp, ascii) = <<cp>>
    <3> HIDE DEF ascii
    <3> QED BY <1>1, <1>10, <2>1, PlainLetter
  <2>3. Put(<<cp>>, "skip") /\ value' = value
    BY <1>6, <1>13, <2>1, Zenon
  <2>4. Within(here, nothing)'
    BY <1>3, <1>8, <2>3 DEF Within, Put
  <2>5. J!Letter(cp, "ASCII" \in flags) = here \o nothing
    <3>1. here \o <<>> = here
      BY ConcatEmptySeq
    <3> QED BY <1>3, <1>8, <2>2, <3>1, Zenon
  <2>6. PICK label : label = "skip"
    OBVIOUS
  <2>7. label \notin {"error", "done", "START"} /\ Put(here, label)
    BY <1>3, <2>3, <2>6
  <2>8. Rest' = here \o BytesFrom(k + 1) /\ value'.encoding = value.encoding
    BY <1>9, <2>3
  <2> HIDE DEF ascii, latin1
  <2> QED BY <2>4, <2>5, <2>7, <2>8, LetterStarts
<1> QED BY <1>11, <1>12, <1>13

LEMMA BytesAreNat == \A b \in Byte : b \in Nat
BY DEF Byte

\* What is left behind a front.
LEMMA DropFront ==
  ASSUME NEW a \in Seq(Byte), NEW b \in Seq(Byte)
  PROVE  SubSeq(a \o b, Len(a) + 1, Len(a \o b)) = b
<1> DEFINE c == SubSeq(a \o b, Len(a) + 1, Len(a \o b))
<1>1. c \in Seq(Byte) /\ Len(c) = Len(b)
  OBVIOUS
<1>2. \A i \in 1 .. Len(b) : c[i] = b[i]
  OBVIOUS
<1> HIDE DEF c
<1>3. c = b
  BY <1>1, <1>2, SeqEqual
<1> QED BY <1>3 DEF c

\* The letters of code points beyond ASCII.
LEMMA WideLetter ==
  ASSUME NEW cp \in Nat, cp <= MaxCodepoint, cp >= 128, NEW ascii \in BOOLEAN
  PROVE  J!Letter(cp, ascii) = IF ascii \/ cp \in 128 .. 159 THEN J!Escapes(cp) ELSE Utf8(cp)
<1>1. cp \notin HasShortEscape
  BY ShortEscapesAreAscii
<1>2. (cp \in 0 .. 31 \cup 127 .. 159 \/ (ascii /\ cp > 127)) <=> (ascii \/ cp \in 128 .. 159)
  BY SMT
<1> QED BY <1>1, <1>2, LetterCases

\* At a byte above 0x7F of a UTF-8 string.
LEMMA GoesMultibyte ==
  ASSUME StringChar, NEW ch, Rest # <<>>, ch = Head(Rest), ch \in Nat, ch >= 128, value.encoding = "UTF8"
  PROVE  Multibyte
<1>1. ch \notin HasShortEscape /\ ~(ch <= 31) /\ ch # 127 /\ ~(ch < 127)
  BY ShortEscapesAreAscii
<1>2. value.encoding # "LATIN1"
  OBVIOUS
<1> QED BY <1>1, <1>2, CharCases, Zenon

\* A code point of more bytes.
LEMMA MoreBytesText ==
  ASSUME Runs, StringChar, UNCHANGED programVars, NEW k, Between(k), k < Len(token.points),
         NEW cp, cp = token.points[k + 1], value.encoding = "UTF8", cp >= 128
  PROVE  Underway'
<1> DEFINE ascii == "ASCII" \in flags
<1>1. /\ cp \in Codepoints(value.encoding) /\ cp \in Nat /\ cp <= MaxCodepoint
      /\ Rest = Spelling(cp, value.encoding) \o BytesFrom(k + 1)
      /\ BytesFrom(k + 1) \in Seq(Byte) /\ Rest \in Seq(Byte)
      /\ J!Letter(cp, "ASCII" \in flags) \in Seq(Byte)
  BY AtLetter
<1>2. PICK rest \in Seq(Byte) : rest = BytesFrom(k + 1)
  BY <1>1
<1>3. /\ Utf8(cp) \in Seq(Byte) /\ Len(Utf8(cp)) \in 2 .. 4
      /\ (Utf8(cp) \o rest)[1] >= 128
      /\ DecodedCount(Utf8(cp) \o rest) = Len(Utf8(cp))
      /\ DecodedCodepoint(Utf8(cp) \o rest, Len(Utf8(cp))) = cp
  BY <1>1, Utf8Decodes
<1>4. PICK sequence \in Seq(Byte) : sequence = Utf8(cp)
  BY <1>3
<1>5. Rest = sequence \o rest
  BY <1>1, <1>2, <1>4, Zenon DEF Spelling
<1>6. PICK count \in 2 .. 4 : count = Len(sequence)
  BY <1>3, <1>4
<1>7. Rest # <<>> /\ Head(Rest) \in Nat /\ Head(Rest) >= 128
  <2>1. Len(Rest) > 0
    BY <1>5, <1>6
  <2>2. Rest # <<>> /\ Head(Rest) = Rest[1]
    BY <1>1, <2>1
  <2>3. Rest[1] \in Byte
    BY <1>1, <2>1
  <2>4. Rest[1] >= 128
    BY <1>3, <1>4, <1>5
  <2>5. Rest[1] \in Nat
    BY <2>3, BytesAreNat, Zenon
  <2> QED BY <2>2, <2>4, <2>5
<1>8. Multibyte
  BY <1>7, GoesMultibyte
<1>9. DecodedCount(Rest) = count /\ DecodedCodepoint(Rest, count) = cp
  BY <1>3, <1>4, <1>5, <1>6
<1>10. IF ascii \/ cp \in 128 .. 159
       THEN /\ value' = [value EXCEPT !.string = SubSeq(@, count + 1, Len(@)), !.utf16 = Utf16(cp)]
            /\ Put(<<92, 117>>, HexLabel[1])
       ELSE value' = [value EXCEPT !.count = count] /\ Goto("copy")
  <2>1. ~(count <= 0)
    OBVIOUS
  <2>2. Ascii.u = 117
    BY DEF Ascii
  <2> HIDE DEF ascii
  <2>3. IF DecodedCount(Rest) <= 0 THEN RaiseError /\ UNCHANGED value
        ELSE IF "ASCII" \in flags \/ DecodedCodepoint(Rest, DecodedCount(Rest)) \in 128 .. 159
        THEN /\ value' = [value EXCEPT !.string = SubSeq(@, DecodedCount(Rest) + 1, Len(@)),
                                       !.utf16 = Utf16(DecodedCodepoint(Rest, DecodedCount(Rest)))]
             /\ Put(<<92, Ascii.u>>, HexLabel[1])
        ELSE value' = [value EXCEPT !.count = DecodedCount(Rest)] /\ Goto("copy")
    BY <1>8, Zenon DEF Multibyte
  <2>4. IF count <= 0 THEN RaiseError /\ UNCHANGED value
        ELSE IF "ASCII" \in flags \/ cp \in 128 .. 159
        THEN /\ value' = [value EXCEPT !.string = SubSeq(@, count + 1, Len(@)), !.utf16 = Utf16(cp)]
             /\ Put(<<92, 117>>, HexLabel[1])
        ELSE value' = [value EXCEPT !.count = count] /\ Goto("copy")
    BY <1>9, <2>2, <2>3
  <2> QED BY <2>1, <2>4 DEF ascii
<1>11. value \in Strings
  <2>1. "string" \in Values \cup Ends /\ At("string", "char")
    BY DEF Values, StringChar
  <2> QED BY <2>1, StringAt
<1>12. J!Letter(cp, ascii) = IF ascii \/ cp \in 128 .. 159 THEN J!Escapes(cp) ELSE Utf8(cp)
  <2>1. ascii \in BOOLEAN
    OBVIOUS
  <2> HIDE DEF ascii
  <2> QED BY <1>1, <2>1, WideLetter
<1>13. PICK nothing \in Seq(Byte) : nothing = <<>>
  BY SomeBytes
<1>14. CASE ascii \/ cp \in 128 .. 159
  <2>1. /\ value' = [value EXCEPT !.string = SubSeq(@, count + 1, Len(@)), !.utf16 = Utf16(cp)]
        /\ Put(<<92, 117>>, HexLabel[1])
    BY <1>10, <1>14, Zenon
  <2>2. /\ value'.string = SubSeq(value.string, count + 1, Len(value.string))
        /\ value'.utf16 = Utf16(cp) /\ value'.encoding = value.encoding
    BY <1>11, <2>1 DEF Strings
  <2>3. Rest' = rest
    <3>1. Rest' = SubSeq(sequence \o rest, Len(sequence) + 1, Len(sequence \o rest))
      BY <1>5, <1>6, <2>2 DEF Rest
    <3> QED BY <3>1, DropFront
  <2>4. Rest' = nothing \o BytesFrom(k + 1)
    <3>1. nothing \o rest = rest
      BY <1>13, ConcatEmptySeq
    <3> QED BY <1>2, <2>3, <3>1
  <2> DEFINE units == Utf16(cp)
             second == IF units[2] = 0 THEN <<>> ELSE J!Escape(units[2])
  <2>5. /\ units \in (0 .. MaxUnit) \X (0 .. MaxUnit)
        /\ J!Escapes(cp) = J!Escape(units[1]) \o second
    BY <1>1, EscapesOfUnits
  <2>6. units[1] \in Nat /\ units[1] <= MaxUnit /\ units[2] \in Nat /\ units[2] <= MaxUnit
    <3> HIDE DEF units
    <3>1. units[1] \in 0 .. MaxUnit /\ units[2] \in 0 .. MaxUnit
      BY <2>5
    <3> QED BY <3>1, MaximaAreNat
  <2>7. PICK tail \in Seq(Byte) : tail = second
    <3> HIDE DEF units
    <3> QED BY <2>6, EscapeBytes, SomeBytes
  <2>8. PICK digits \in Seq(Byte) : digits = HexFrom(units[1], 1) /\ J!Escape(units[1]) = <<92, 117>> \o digits
    <3> HIDE DEF units
    <3>1. 1 \in 1 .. 4
      OBVIOUS
    <3> QED BY <2>6, <3>1, HexFromFacts
  <2>9. PICK part \in Seq(Byte) : part = digits \o tail
    <3>1. digits \o tail \in Seq(Byte)
      BY ConcatProperties
    <3> QED BY <3>1
  <2>10. PICK bytes \in Seq(Byte) : bytes = <<92, 117>>
    BY SomeBytes
  <2>11. J!Letter(cp, "ASCII" \in flags) = bytes \o part
    <3>1. J!Letter(cp, ascii) = J!Escape(units[1]) \o second
      <4> HIDE DEF units, second
      <4> QED BY <1>12, <1>14, <2>5, Zenon
    <3>2. (bytes \o digits) \o tail = bytes \o (digits \o tail)
      BY Reassociate, Zenon
    <3> HIDE DEF units, second
    <3> QED BY <2>7, <2>8, <2>9, <2>10, <3>1, <3>2, Zenon DEF ascii
  <2>12. Within(nothing, part)'
    <3>1. value'.utf16 \in (0 .. MaxUnit) \X (0 .. MaxUnit)
      BY <2>2, <2>5
    <3>2. SecondEscape' = second
      BY <2>2, Zenon DEF SecondEscape
    <3>3. part = HexFrom(value'.utf16[1], 1) \o SecondEscape'
      BY <2>2, <2>7, <2>8, <2>9, <3>2, Zenon
    <3>4. state' = HexLabel[1] /\ 1 \in 1 .. 4
      BY <2>1 DEF Put
    <3>5. \E i \in 1 .. 4 : state' = HexLabel[i] /\ part = HexFrom(value'.utf16[1], i) \o SecondEscape'
      BY <3>3, <3>4, Zenon
    <3> HIDE DEF second, units
    <3> QED BY <1>13, <3>1, <3>5, Zenon DEF Within, HexFrom, HexDigitOf
  <2>13. PICK label : label = HexLabel[1]
    OBVIOUS
  <2>14. label \notin {"error", "done", "START"} /\ Put(bytes, label)
    BY <2>1, <2>10, <2>13 DEF HexLabel
  <2> HIDE DEF ascii, units, second
  <2> QED BY <2>2, <2>4, <2>11, <2>12, <2>14, LetterStarts
<1>15. CASE ~(ascii \/ cp \in 128 .. 159)
  <2>1. value' = [value EXCEPT !.count = count] /\ Goto("copy")
    BY <1>10, <1>15, Zenon
  <2>2. value'.string = value.string /\ value'.count = count /\ value'.encoding = value.encoding
    BY <1>11, <2>1 DEF Strings
  <2>3. Rest' = sequence \o BytesFrom(k + 1)
    BY <1>2, <1>5, <2>2 DEF Rest
  <2>4. Within(sequence, sequence)'
    BY <1>6, <2>1, <2>2 DEF Within, Goto
  <2>5. J!Letter(cp, "ASCII" \in flags) = nothing \o sequence
    <3>1. J!Letter(cp, ascii) = sequence
      BY <1>4, <1>12, <1>15, Zenon
    <3>2. nothing \o sequence = sequence
      BY <1>13, ConcatEmptySeq
    <3> QED BY <3>1, <3>2 DEF ascii
  <2>6. PICK label : label = "copy"
    OBVIOUS
  <2>7. label \notin {"error", "done", "START"} /\ nothing = <<>> /\ Goto(label)
    BY <1>13, <2>1, <2>6
  <2> HIDE DEF ascii
  <2> QED BY <2>2, <2>3, <2>4, <2>5, <2>7, LetterStarts
<1> QED BY <1>14, <1>15

LEMMA StringCharText == Runs /\ StringChar /\ UNCHANGED programVars => Underway'
<1> SUFFICES ASSUME Runs, StringChar, UNCHANGED programVars PROVE Underway'
  OBVIOUS
<1>1. PICK label : label = "char"
  OBVIOUS
<1>2. At("string", label) /\ label \notin {"START", "done"}
  BY <1>1 DEF StringChar
<1>3. /\ token.function = "string" /\ write_func = "string" /\ state = label /\ pending = <<>>
      /\ Rest \in Seq(Byte)
  BY <1>2, StringAt
<1>4. PICK k \in 0 .. Len(token.points) : \E here, part \in Seq(Byte) :
        /\ Within(here, part)
        /\ Rest = here \o BytesFrom(k) /\ BytesFrom(k) \in Seq(Byte)
        /\ value.encoding = token.value.encoding
        /\ due = out \o (part \o LettersFrom(k)) /\ LettersFrom(k) \in Seq(Byte)
  BY <1>2, StringAt
<1>5. PICK here \in Seq(Byte), part \in Seq(Byte) :
        /\ Within(here, part)
        /\ Rest = here \o BytesFrom(k) /\ BytesFrom(k) \in Seq(Byte)
        /\ value.encoding = token.value.encoding
        /\ due = out \o (part \o LettersFrom(k)) /\ LettersFrom(k) \in Seq(Byte)
  BY <1>4
<1>6. here = <<>> /\ part = <<>>
  BY <1>1, <1>3, <1>5, AtLabel
<1>7. Rest = BytesFrom(k) /\ due = out \o LettersFrom(k)
  <2>1. <<>> \o BytesFrom(k) = BytesFrom(k) /\ <<>> \o LettersFrom(k) = LettersFrom(k)
    BY <1>5, ConcatEmptySeq
  <2> QED BY <1>5, <1>6, <2>1
<1>8. Between(k)
  BY <1>3, <1>5, <1>7 DEF Between
<1>9. CASE k = Len(token.points)
  BY <1>8, <1>9, EndOfStringText
<1>10. CASE k < Len(token.points)
  <2>1. PICK cp : cp = token.points[k + 1]
    OBVIOUS
  <2>2. cp \in Nat
    BY <1>8, <1>10, <2>1, AtLetter
  <2>3. CASE value.encoding # "UTF8" \/ cp < 128
    BY <1>8, <1>10, <2>1, <2>3, OneByteText
  <2>4. CASE value.encoding = "UTF8" /\ cp >= 128
    BY <1>8, <1>10, <2>1, <2>4, MoreBytesText
  <2>5. cp < 128 \/ cp >= 128
    BY <2>2
  <2> QED BY <2>3, <2>4, <2>5
<1>11. k = Len(token.points) \/ k < Len(token.points)
  <2>1. Len(token.points) \in Nat
    BY <1>3, RunsFacts, StringParts
  <2> QED BY <2>1
<1> QED BY <1>9, <1>10, <1>11

LEMMA StringSkipText == Runs /\ StringSkip /\ UNCHANGED programVars => Underway'
<1> SUFFICES ASSUME Runs, StringSkip, UNCHANGED programVars PROVE Underway'
  OBVIOUS
<1>0. PICK label : label = "skip"
  OBVIOUS
<1>1. /\ At("string", label) /\ label \notin {"START", "done"}
      /\ size' = size /\ write_func' = "string" /\ UNCHANGED configVars
  BY <1>0 DEF StringSkip, At
<1>2. PICK k \in 0 .. Len(token.points) : \E here, part \in Seq(Byte) :
        /\ Within(here, part)
        /\ Rest = here \o BytesFrom(k) /\ BytesFrom(k) \in Seq(Byte)
        /\ value.encoding = token.value.encoding
        /\ due = out \o (part \o LettersFrom(k)) /\ LettersFrom(k) \in Seq(Byte)
  BY <1>1, StringAt
<1>3. PICK here \in Seq(Byte), part \in Seq(Byte) :
        /\ Within(here, part)
        /\ Rest = here \o BytesFrom(k) /\ BytesFrom(k) \in Seq(Byte)
        /\ value.encoding = token.value.encoding
        /\ due = out \o (part \o LettersFrom(k)) /\ LettersFrom(k) \in Seq(Byte)
  BY <1>2
<1>4. token.function = "string" /\ state = label /\ pending = <<>> /\ value \in Strings
  BY <1>1, StringAt
<1>5. Len(here) = 1 /\ part = <<>>
  BY <1>0, <1>3, <1>4, AtLabel
<1>6. value' = [value EXCEPT !.string = SubSeq(value.string, 2, Len(value.string))] /\ Goto("char")
  BY DEF StringSkip, Skip
<1>7. Rest' = part \o BytesFrom(k) /\ value'.encoding = value.encoding
  <2>1. PICK rest \in Seq(Byte) : rest = BytesFrom(k)
    BY <1>3
  <2>2. SubSeq(here \o rest, Len(here) + 1, Len(here \o rest)) = rest
    BY DropFront
  <2>3. Rest' = SubSeq(Rest, 2, Len(Rest)) /\ value'.encoding = value.encoding
    BY <1>4, <1>6 DEF Rest, Strings
  <2>4. part \o rest = rest
    BY <1>5, ConcatEmptySeq
  <2>5. Len(here) + 1 = 2
    BY <1>5
  <2> QED BY <1>3, <2>1, <2>2, <2>3, <2>4, <2>5, Zenon
<1>8. Within(part, part)'
  BY <1>5, <1>6 DEF Within, Goto
<1>9. due = out \o ((part \o part) \o LettersFrom(k))
  <2>1. part \o part = part
    BY <1>5, ConcatEmptySeq
  <2> QED BY <1>3, <2>1
<1>10. PICK next : next = "char"
  OBVIOUS
<1>11. next \notin {"error", "done", "START"} /\ part = <<>> /\ Goto(next)
  BY <1>5, <1>6, <1>10
<1>12. value'.encoding = token.value.encoding
  BY <1>3, <1>7
<1> QED BY <1>1, <1>4, <1>7, <1>8, <1>9, <1>11, <1>12, LetterPut

\* The digits of a control character.
LEMMA ControlDigits ==
  ASSUME NEW ch \in 0 .. 159
  PROVE  /\ ch \in Nat /\ ch <= MaxUnit
         /\ ToHex(ch \div 16) \in Byte /\ ToHex(ch % 16) \in Byte
         /\ HexFrom(ch, 3) = <<ToHex(ch \div 16)>> \o HexFrom(ch, 4)
         /\ HexFrom(ch, 4) = <<ToHex(ch % 16)>>
         /\ HexFrom(ch, 4) \in Seq(Byte)
<1>1. ch \in Nat /\ ch <= MaxUnit
  BY Maxima, SMT
<1>2. \A i \in 1 .. 4 : /\ HexFrom(ch, i) \in Seq(Byte)
                        /\ HexFrom(ch, i) = <<HexDigitOf(ch, i)>> \o HexFrom(ch, i + 1)
  BY <1>1, HexFromFacts
<1>3. HexFrom(ch, 5) = <<>>
  BY <1>1, HexFromFacts
<1>4. 3 \in 1 .. 4 /\ 4 \in 1 .. 4 /\ 3 + 1 = 4 /\ 4 + 1 = 5
  OBVIOUS
<1>5. /\ HexDigitOf(ch, 3) = ToHex((ch \div Place[3]) % 16) /\ HexDigitOf(ch, 3) \in Byte
      /\ HexDigitOf(ch, 4) = ToHex((ch \div Place[4]) % 16) /\ HexDigitOf(ch, 4) \in Byte
  BY <1>1, <1>4, HexDigitIs
<1>6. Place[3] = 16 /\ Place[4] = 1
  BY DEF Place
<1>7. (ch \div 16) % 16 = ch \div 16 /\ ch \div 1 = ch
  BY SMT
<1>8. HexDigitOf(ch, 3) = ToHex(ch \div 16) /\ HexDigitOf(ch, 4) = ToHex(ch % 16)
  BY <1>5, <1>6, <1>7
<1>9. HexFrom(ch, 3) = <<HexDigitOf(ch, 3)>> \o HexFrom(ch, 4)
      /\ HexFrom(ch, 4) = <<HexDigitOf(ch, 4)>> \o <<>> /\ HexFrom(ch, 4) \in Seq(Byte)
  BY <1>2, <1>3, <1>4
<1>10. HexFrom(ch, 4) = <<HexDigitOf(ch, 4)>>
  BY <1>5, <1>9, BytesAreSeq, ConcatEmptySeq
<1> QED BY <1>1, <1>5, <1>8, <1>9, <1>10

LEMMA HeadOfOne ==
  ASSUME NEW x \in Byte, NEW rest \in Seq(Byte)
  PROVE  Head(<<x>> \o rest) = x /\ <<x>> \o rest # <<>>
<1>1. Len(<<x>> \o rest) > 0 /\ (<<x>> \o rest)[1] = x
  OBVIOUS
<1> QED BY <1>1

LEMMA ControlHighText == Runs /\ ControlHigh /\ UNCHANGED programVars => Underway'
<1> SUFFICES ASSUME Runs, ControlHigh, UNCHANGED programVars PROVE Underway'
  OBVIOUS
<1>0. PICK label : label = "high"
  OBVIOUS
<1>1. /\ At("string", label) /\ label \notin {"START", "done"}
      /\ size' = size /\ write_func' = "string" /\ UNCHANGED configVars
  BY <1>0 DEF ControlHigh, At
<1>2. PICK k \in 0 .. Len(token.points) : \E here, part \in Seq(Byte) :
        /\ Within(here, part)
        /\ Rest = here \o BytesFrom(k) /\ BytesFrom(k) \in Seq(Byte)
        /\ value.encoding = token.value.encoding
        /\ due = out \o (part \o LettersFrom(k)) /\ LettersFrom(k) \in Seq(Byte)
  BY <1>1, StringAt
<1>3. PICK here \in Seq(Byte), part \in Seq(Byte) :
        /\ Within(here, part)
        /\ Rest = here \o BytesFrom(k) /\ BytesFrom(k) \in Seq(Byte)
        /\ value.encoding = token.value.encoding
        /\ due = out \o (part \o LettersFrom(k)) /\ LettersFrom(k) \in Seq(Byte)
  BY <1>2
<1>4. token.function = "string" /\ state = label /\ pending = <<>> /\ value \in Strings
  BY <1>1, StringAt
<1>5. PICK ch \in 0 .. 159 : here = <<ch>> /\ HighNibble(ch) = ch \div 16 /\ part = HexFrom(ch, 3)
  <2>1. state = "high"
    BY <1>0, <1>4
  <2>2. TwoDigits(here, part)
    BY <1>3, <2>1, AtLabel
  <2> QED BY <2>2 DEF TwoDigits
<1>6. value' = value /\ Put(<<ToHex(HighNibble(Head(Rest)))>>, "low")
  BY DEF ControlHigh
<1>7. Head(Rest) = ch
  <2>1. ch \in Byte
    BY <1>5 DEF Byte
  <2> QED BY <1>3, <1>5, <2>1, HeadOfOne
<1>8. PICK bytes \in Seq(Byte) : bytes = <<ToHex(ch \div 16)>>
  BY ControlDigits, BytesAreSeq
<1>9. PICK left \in Seq(Byte) : left = HexFrom(ch, 4)
  BY ControlDigits
<1>10. due = out \o ((bytes \o left) \o LettersFrom(k))
  <2>1. part = bytes \o left
    BY <1>5, <1>8, <1>9, ControlDigits
  <2> QED BY <1>3, <2>1
<1>11. PICK next : next = "low"
  OBVIOUS
<1>12. next \notin {"error", "done", "START"} /\ Put(bytes, next)
  BY <1>5, <1>6, <1>7, <1>8, <1>11
<1>13. Within(here, left)'
  <2>1. OneDigit(here, left)
    BY <1>5, <1>9 DEF OneDigit
  <2>2. state' = "low"
    BY <1>6 DEF Put
  <2> QED BY <2>1, <2>2, Zenon DEF Within, OneDigit, HexFrom, HexDigitOf
<1>14. value'.encoding = token.value.encoding /\ Rest' = here \o BytesFrom(k)
  BY <1>3, <1>6 DEF Rest
<1> QED BY <1>1, <1>4, <1>10, <1>12, <1>13, <1>14, LetterPut

LEMMA ControlLowText == Runs /\ ControlLow /\ UNCHANGED programVars => Underway'
<1> SUFFICES ASSUME Runs, ControlLow, UNCHANGED programVars PROVE Underway'
  OBVIOUS
<1>0. PICK label : label = "low"
  OBVIOUS
<1>1. /\ At("string", label) /\ label \notin {"START", "done"}
      /\ size' = size /\ write_func' = "string" /\ UNCHANGED configVars
  BY <1>0 DEF ControlLow, At
<1>2. PICK k \in 0 .. Len(token.points) : \E here, part \in Seq(Byte) :
        /\ Within(here, part)
        /\ Rest = here \o BytesFrom(k) /\ BytesFrom(k) \in Seq(Byte)
        /\ value.encoding = token.value.encoding
        /\ due = out \o (part \o LettersFrom(k)) /\ LettersFrom(k) \in Seq(Byte)
  BY <1>1, StringAt
<1>3. PICK here \in Seq(Byte), part \in Seq(Byte) :
        /\ Within(here, part)
        /\ Rest = here \o BytesFrom(k) /\ BytesFrom(k) \in Seq(Byte)
        /\ value.encoding = token.value.encoding
        /\ due = out \o (part \o LettersFrom(k)) /\ LettersFrom(k) \in Seq(Byte)
  BY <1>2
<1>4. token.function = "string" /\ state = label /\ pending = <<>> /\ value \in Strings
  BY <1>1, StringAt
<1>5. PICK ch \in 0 .. 159 : here = <<ch>> /\ part = HexFrom(ch, 4)
  <2>1. state = "low"
    BY <1>0, <1>4
  <2>2. OneDigit(here, part)
    BY <1>3, <2>1, AtLabel
  <2> QED BY <2>2 DEF OneDigit
<1>6. value' = value /\ Put(<<ToHex(Head(Rest) % 16)>>, "skip")
  BY DEF ControlLow
<1>7. Head(Rest) = ch
  <2>1. ch \in Byte
    BY <1>5 DEF Byte
  <2> QED BY <1>3, <1>5, <2>1, HeadOfOne
<1>8. PICK nothing \in Seq(Byte) : nothing = <<>>
  BY SomeBytes
<1>9. due = out \o ((part \o nothing) \o LettersFrom(k))
  <2>1. part \o nothing = part
    BY <1>8, ConcatEmptySeq
  <2> QED BY <1>3, <2>1
<1>10. PICK next : next = "skip"
  OBVIOUS
<1>11. next \notin {"error", "done", "START"} /\ Put(part, next)
  BY <1>5, <1>6, <1>7, <1>10, ControlDigits
<1>12. Within(here, nothing)'
  BY <1>5, <1>6, <1>8 DEF Within, Put
<1>13. value'.encoding = token.value.encoding /\ Rest' = here \o BytesFrom(k)
  BY <1>3, <1>6 DEF Rest
<1> QED BY <1>1, <1>4, <1>9, <1>11, <1>12, <1>13, LetterPut

LEMMA StringCopyText == Runs /\ StringCopy /\ UNCHANGED programVars => Underway'
<1> SUFFICES ASSUME Runs, StringCopy, UNCHANGED programVars PROVE Underway'
  OBVIOUS
<1>0. PICK label \in {"copy", "copied"} : At("string", label)
  BY DEF StringCopy
<1>1. /\ At("string", label) /\ label \notin {"START", "done"}
      /\ size' = size /\ write_func' = "string" /\ UNCHANGED configVars
  BY <1>0 DEF StringCopy, At
<1>2. PICK k \in 0 .. Len(token.points) : \E here, part \in Seq(Byte) :
        /\ Within(here, part)
        /\ Rest = here \o BytesFrom(k) /\ BytesFrom(k) \in Seq(Byte)
        /\ value.encoding = token.value.encoding
        /\ due = out \o (part \o LettersFrom(k)) /\ LettersFrom(k) \in Seq(Byte)
  BY <1>1, StringAt
<1>3. PICK here \in Seq(Byte), part \in Seq(Byte) :
        /\ Within(here, part)
        /\ Rest = here \o BytesFrom(k) /\ BytesFrom(k) \in Seq(Byte)
        /\ value.encoding = token.value.encoding
        /\ due = out \o (part \o LettersFrom(k)) /\ LettersFrom(k) \in Seq(Byte)
  BY <1>2
<1>4. token.function = "string" /\ state = label /\ pending = <<>> /\ value \in Strings
  BY <1>1, StringAt
<1>5. /\ label = "copy" => part = here /\ Len(here) = value.count
      /\ label = "copied" => here # <<>> /\ part = Tail(here) /\ Len(here) = value.count
  BY <1>3, <1>4, AtLabel
<1>6. PICK rest \in Seq(Byte) : rest = BytesFrom(k)
  BY <1>3
<1> DEFINE advance == state = "copied"
           left == IF advance THEN Tail(Rest) ELSE Rest
           count == IF advance THEN value.count - 1 ELSE value.count
<1>7. left = part \o rest /\ count = Len(part)
  <2>1. CASE label = "copy"
    BY <1>3, <1>4, <1>5, <1>6, <2>1
  <2>2. CASE label = "copied"
    <3>1. here # <<>> /\ part = Tail(here) /\ Len(here) = value.count /\ advance
      BY <1>4, <1>5, <2>2
    <3>2. Len(part) = Len(here) - 1
      BY <3>1
    <3>3. Tail(here \o rest) = Tail(here) \o rest
      <4>1. Len(here) \in Nat /\ Len(here) > 0 /\ Len(here) <= Len(here \o rest) /\ here \o rest # <<>>
        BY <3>1
      <4>2. Tail(here \o rest) \in Seq(Byte) /\ Tail(here) \o rest \in Seq(Byte)
        BY <3>1, <4>1
      <4>3. Len(Tail(here \o rest)) = Len(Tail(here) \o rest)
        BY <3>1, <4>1
      <4>4. \A i \in 1 .. Len(Tail(here) \o rest) : Tail(here \o rest)[i] = (Tail(here) \o rest)[i]
        BY <3>1, <4>1
      <4> QED BY <4>2, <4>3, <4>4, SeqEqual
    <3> QED BY <1>3, <1>6, <3>1, <3>2, <3>3
  <2> QED BY <2>1, <2>2
<1>8. /\ value' = [value EXCEPT !.string = left, !.count = count]
      /\ IF count > 0 THEN Put(<<Head(left)>>, "copied") ELSE Goto("char")
  BY Zenon DEF StringCopy
<1> HIDE DEF left, count
<1>9. value'.encoding = value.encoding /\ value'.count = count /\ Rest' = part \o BytesFrom(k)
  BY <1>4, <1>6, <1>7, <1>8 DEF Strings, Rest
<1>10. value'.encoding = token.value.encoding
  BY <1>3, <1>9
<1>11. CASE part = <<>>
  <2>1. Goto("char")
    BY <1>7, <1>8, <1>11
  <2>2. Within(part, part)'
    BY <1>11, <2>1 DEF Within, Goto
  <2>3. due = out \o ((part \o part) \o LettersFrom(k))
    <3>1. part \o part = part
      BY <1>11, ConcatEmptySeq
    <3> QED BY <1>3, <3>1
  <2>4. PICK next : next = "char"
    OBVIOUS
  <2>5. next \notin {"error", "done", "START"} /\ Goto(next)
    BY <2>1, <2>4
  <2> QED BY <1>1, <1>4, <1>9, <1>10, <1>11, <2>2, <2>3, <2>5, LetterPut
<1>12. CASE part # <<>>
  <2>1. Len(part) \in Nat /\ Len(part) > 0 /\ part[1] \in Byte /\ Tail(part) \in Seq(Byte)
    BY <1>12
  <2>2. Head(left) = part[1]
    <3>1. part \o rest # <<>> /\ (part \o rest)[1] = part[1]
      BY <2>1
    <3> QED BY <1>7, <3>1
  <2>3. Put(<<part[1]>>, "copied")
    BY <1>7, <1>8, <2>1, <2>2
  <2>4. PICK bytes \in Seq(Byte) : bytes = <<part[1]>>
    BY <2>1, BytesAreSeq
  <2>5. PICK behind \in Seq(Byte) : behind = Tail(part)
    BY <2>1
  <2>6. bytes \o behind = part
    <3>1. <<part[1]>> \o Tail(part) = part
      BY <1>12, <2>1
    <3> QED BY <2>4, <2>5, <3>1
  <2>7. due = out \o ((bytes \o behind) \o LettersFrom(k))
    BY <1>3, <2>6
  <2>8. Within(part, behind)'
    BY <1>7, <1>9, <1>12, <2>3, <2>5 DEF Within, Put
  <2>9. PICK next : next = "copied"
    OBVIOUS
  <2>10. next \notin {"error", "done", "START"} /\ Put(bytes, next)
    BY <2>3, <2>4, <2>9
  <2> QED BY <1>1, <1>4, <1>9, <1>10, <2>7, <2>8, <2>10, LetterPut
<1> QED BY <1>11, <1>12

LEMMA SecondUnitText == Runs /\ SecondUnit /\ UNCHANGED programVars => Underway'
<1> SUFFICES ASSUME Runs, SecondUnit, UNCHANGED programVars PROVE Underway'
  OBVIOUS
<1>0. PICK label : label = "pair"
  OBVIOUS
<1>1. /\ At("string", label) /\ label \notin {"START", "done"}
      /\ size' = size /\ write_func' = "string" /\ UNCHANGED configVars
  BY <1>0 DEF SecondUnit, At
<1>2. PICK k \in 0 .. Len(token.points) : \E here, part \in Seq(Byte) :
        /\ Within(here, part)
        /\ Rest = here \o BytesFrom(k) /\ BytesFrom(k) \in Seq(Byte)
        /\ value.encoding = token.value.encoding
        /\ due = out \o (part \o LettersFrom(k)) /\ LettersFrom(k) \in Seq(Byte)
  BY <1>1, StringAt
<1>3. PICK here \in Seq(Byte), part \in Seq(Byte) :
        /\ Within(here, part)
        /\ Rest = here \o BytesFrom(k) /\ BytesFrom(k) \in Seq(Byte)
        /\ value.encoding = token.value.encoding
        /\ due = out \o (part \o LettersFrom(k)) /\ LettersFrom(k) \in Seq(Byte)
  BY <1>2
<1>4. token.function = "string" /\ state = label /\ pending = <<>> /\ value \in Strings
  BY <1>1, StringAt
<1>5. here = <<>> /\ value.utf16 \in (0 .. MaxUnit) \X (0 .. MaxUnit)
      /\ value.utf16[2] # 0 /\ part = SecondEscape
  <2>1. state = "pair"
    BY <1>0, <1>4
  <2> QED BY <1>3, <2>1, AtLabel, Zenon
<1>6. value' = value /\ Put(<<92, 117>>, HexLabel[5])
  BY DEF SecondUnit, Ascii
<1>7. PICK unit \in Nat : unit = value.utf16[2] /\ unit <= MaxUnit
  <2>1. value.utf16[2] \in 0 .. MaxUnit
    BY <1>5
  <2>2. \A n \in 0 .. MaxUnit : n \in Nat /\ n <= MaxUnit
    BY MaximaAreNat
  <2> QED BY <2>1, <2>2
<1>8. part = J!Escape(unit)
  BY <1>5, <1>7 DEF SecondEscape
<1>9. 1 \in 1 .. 4
  OBVIOUS
<1>10. PICK left \in Seq(Byte) : left = HexFrom(unit, 1) /\ part = <<92, 117>> \o left
  BY <1>7, <1>8, <1>9, HexFromFacts
<1>11. PICK bytes \in Seq(Byte) : bytes = <<92, 117>>
  BY SomeBytes
<1>12. due = out \o ((bytes \o left) \o LettersFrom(k))
  BY <1>3, <1>10, <1>11
<1>13. PICK next : next = HexLabel[5]
  OBVIOUS
<1>14. next \notin {"error", "done", "START"} /\ Put(bytes, next)
  BY <1>6, <1>11, <1>13 DEF HexLabel
<1>15. Within(here, left)'
  <2>1. value'.utf16 \in (0 .. MaxUnit) \X (0 .. MaxUnit)
    BY <1>5, <1>6
  <2>2. state' = HexLabel[1 + 4] /\ left = HexFrom(value'.utf16[2], 1)
    BY <1>6, <1>7, <1>10 DEF Put
  <2>3. \E i \in 1 .. 4 : state' = HexLabel[i + 4] /\ left = HexFrom(value'.utf16[2], i)
    BY <1>9, <2>2, Zenon
  <2> QED BY <1>5, <2>1, <2>3, Zenon DEF Within, HexFrom, HexDigitOf
<1>16. value'.encoding = token.value.encoding /\ Rest' = here \o BytesFrom(k)
  BY <1>3, <1>6 DEF Rest
<1> QED BY <1>1, <1>4, <1>12, <1>14, <1>15, <1>16, LetterPut

\* The next digit of a unit.
LEMMA UnitDigits ==
  ASSUME NEW unit \in 0 .. MaxUnit, NEW i \in 1 .. 4
  PROVE  /\ HexFrom(unit, i) = <<ToHex((unit \div Place[i]) % 16)>> \o HexFrom(unit, i + 1)
         /\ HexFrom(unit, i) = <<ToHex((unit \div Place[i + 4]) % 16)>> \o HexFrom(unit, i + 1)
         /\ ToHex((unit \div Place[i]) % 16) \in Byte /\ ToHex((unit \div Place[i + 4]) % 16) \in Byte
         /\ HexFrom(unit, i + 1) \in Seq(Byte)
         /\ i = 4 => HexFrom(unit, i + 1) = <<>>
         /\ i # 4 => i + 1 \in 1 .. 4
<1>1. unit \in Nat /\ unit <= MaxUnit
  BY MaximaAreNat
<1>2. /\ HexDigitOf(unit, i) = ToHex((unit \div Place[i]) % 16)
      /\ HexDigitOf(unit, i) = ToHex((unit \div Place[i + 4]) % 16)
      /\ HexDigitOf(unit, i) \in Byte
  BY <1>1, HexDigitIs
<1>3. HexFrom(unit, i) = <<HexDigitOf(unit, i)>> \o HexFrom(unit, i + 1)
  BY <1>1, HexFromFacts
<1>4. i = 4 => i + 1 = 5
  OBVIOUS
<1>5. i # 4 => i + 1 \in 1 .. 4
  OBVIOUS
<1>6. HexFrom(unit, 5) = <<>> /\ HexFrom(unit, 5) \in Seq(Byte)
      /\ \A j \in 1 .. 4 : HexFrom(unit, j) \in Seq(Byte)
  BY <1>1, HexFromFacts
<1>7. HexFrom(unit, i + 1) \in Seq(Byte) /\ (i = 4 => HexFrom(unit, i + 1) = <<>>)
  BY <1>4, <1>5, <1>6, Zenon
<1> QED BY <1>2, <1>3, <1>5, <1>7, Zenon

\* A digit of the first unit of a code point, or of the second.
LEMMA UnitCases ==
  ASSUME UnitDigit
  PROVE  \/ \E i \in 1 .. 4 : /\ At("string", HexLabel[i])
                              /\ Put(<<ToHex((value.utf16[1] \div Place[i]) % 16)>>,
                                     IF i # 4 THEN HexLabel[i + 1]
                                     ELSE IF value.utf16[2] # 0 THEN "pair" ELSE "char")
         \/ \E i \in 1 .. 4 : /\ At("string", HexLabel[i + 4])
                              /\ Put(<<ToHex((value.utf16[2] \div Place[i + 4]) % 16)>>,
                                     IF i # 4 THEN HexLabel[(i + 1) + 4] ELSE "char")
<1>1. PICK j \in 1 .. 8 :
        /\ At("string", HexLabel[j])
        /\ Put(<<ToHex((value.utf16[IF j <= 4 THEN 1 ELSE 2] \div Place[j]) % 16)>>,
               IF j \notin {4, 8} THEN HexLabel[j + 1]
               ELSE IF j = 4 /\ value.utf16[2] # 0 THEN "pair" ELSE "char")
  BY Zenon DEF UnitDigit
<1>2. CASE j <= 4
  <2>1. j \in 1 .. 4 /\ (j \notin {4, 8} <=> j # 4)
    BY <1>2
  <2> QED BY <1>1, <1>2, <2>1
<1>3. CASE ~(j <= 4)
  <2>1. PICK i \in 1 .. 4 : j = i + 4
    <3>1. j - 4 \in 1 .. 4 /\ j = (j - 4) + 4
      BY <1>3
    <3> QED BY <3>1
  <2>2. (j \notin {4, 8} <=> i # 4) /\ j # 4 /\ j + 1 = (i + 1) + 4
    BY <1>3, <2>1
  <2> QED BY <1>1, <1>3, <2>1, <2>2
<1> QED BY <1>2, <1>3

LEMMA FirstUnitText ==
  ASSUME Runs, UnitDigit, UNCHANGED programVars, NEW i \in 1 .. 4, At("string", HexLabel[i]),
         Put(<<ToHex((value.utf16[1] \div Place[i]) % 16)>>,
             IF i # 4 THEN HexLabel[i + 1]
             ELSE IF value.utf16[2] # 0 THEN "pair" ELSE "char")
  PROVE  Underway'
<1>0. PICK label : label = HexLabel[i]
  OBVIOUS
<1>1. /\ At("string", label) /\ label \notin {"START", "done"}
      /\ size' = size /\ write_func' = "string" /\ UNCHANGED configVars /\ value' = value
  <2>1. HexLabel[i] \notin {"START", "done"}
    BY HexLabels
  <2> QED BY <1>0, <2>1 DEF UnitDigit, At
<1>2. PICK k \in 0 .. Len(token.points) : \E here, part \in Seq(Byte) :
        /\ Within(here, part)
        /\ Rest = here \o BytesFrom(k) /\ BytesFrom(k) \in Seq(Byte)
        /\ value.encoding = token.value.encoding
        /\ due = out \o (part \o LettersFrom(k)) /\ LettersFrom(k) \in Seq(Byte)
  BY <1>1, StringAt
<1>3. PICK here \in Seq(Byte), part \in Seq(Byte) :
        /\ Within(here, part)
        /\ Rest = here \o BytesFrom(k) /\ BytesFrom(k) \in Seq(Byte)
        /\ value.encoding = token.value.encoding
        /\ due = out \o (part \o LettersFrom(k)) /\ LettersFrom(k) \in Seq(Byte)
  BY <1>2
<1>4. token.function = "string" /\ state = label /\ pending = <<>> /\ value \in Strings
  BY <1>1, StringAt
<1>5. here = <<>> /\ value.utf16 \in (0 .. MaxUnit) \X (0 .. MaxUnit)
      /\ part = HexFrom(value.utf16[1], i) \o SecondEscape
  <2>1. state = HexLabel[i]
    BY <1>0, <1>4
  <2> QED BY <1>3, <2>1, AtHexLabel, Zenon
<1>6. PICK unit \in 0 .. MaxUnit : unit = value.utf16[1]
  <2>1. value.utf16[1] \in 0 .. MaxUnit
    BY <1>5
  <2> QED BY <2>1
<1>7. PICK bytes \in Seq(Byte) : bytes = <<ToHex((unit \div Place[i]) % 16)>>
  BY UnitDigits, BytesAreSeq
<1>8. PICK digits \in Seq(Byte) : digits = HexFrom(unit, i + 1) /\ HexFrom(unit, i) = bytes \o digits
  BY <1>7, UnitDigits
<1>9. PICK second \in Seq(Byte) : second = SecondEscape
  <2>1. PICK other \in 0 .. MaxUnit : other = value.utf16[2]
    <3>1. value.utf16[2] \in 0 .. MaxUnit
      BY <1>5
    <3> QED BY <3>1
  <2>2. other \in Nat /\ other <= MaxUnit
    BY MaximaAreNat
  <2> QED BY <2>1, <2>2, EscapeBytes, SomeBytes DEF SecondEscape
<1>10. PICK left \in Seq(Byte) : left = digits \o second
  <2>1. digits \o second \in Seq(Byte)
    BY ConcatProperties
  <2> QED BY <2>1
<1>11. part = bytes \o left
  <2>1. (bytes \o digits) \o second = bytes \o (digits \o second)
    BY Reassociate, Zenon
  <2> QED BY <1>5, <1>6, <1>8, <1>9, <1>10, <2>1, Zenon
<1>12. due = out \o ((bytes \o left) \o LettersFrom(k))
  BY <1>3, <1>11
<1>13. PICK next : next = IF i # 4 THEN HexLabel[i + 1]
             ELSE IF value.utf16[2] # 0 THEN "pair" ELSE "char"
  OBVIOUS
<1>14. next \notin {"error", "done", "START"} /\ Put(bytes, next)
  <2>1. i # 4 => i + 1 \in 1 .. 4
    OBVIOUS
  <2>2. next \notin {"error", "done", "START"}
    BY <1>13, <2>1, HexLabels
  <2>3. Put(bytes, next)
    BY <1>6, <1>7, <1>13
  <2> QED BY <2>2, <2>3
<1>15. value'.encoding = token.value.encoding /\ Rest' = here \o BytesFrom(k)
  BY <1>1, <1>3 DEF Rest
<1>16. state' = next
  BY <1>14 DEF Put
<1>17. Within(here, left)'
  <2>1. value'.utf16 \in (0 .. MaxUnit) \X (0 .. MaxUnit)
    BY <1>1, <1>5
  <2>2. CASE i # 4
    <3>1. i + 1 \in 1 .. 4 /\ state' = HexLabel[i + 1]
      BY <1>13, <1>16, <2>2
    <3>2. SecondEscape' = SecondEscape
      BY <1>1 DEF SecondEscape
    <3>3. left = HexFrom(value'.utf16[1], i + 1) \o SecondEscape'
      BY <1>1, <1>6, <1>8, <1>9, <1>10, <3>2, Zenon
    <3>4. \E j \in 1 .. 4 : state' = HexLabel[j] /\ left = HexFrom(value'.utf16[1], j) \o SecondEscape'
      BY <3>1, <3>3, Zenon
    <3> QED BY <1>5, <2>1, <3>4, Zenon DEF Within, HexFrom, HexDigitOf
  <2>3. CASE i = 4
    <3>1. digits = <<>>
      BY <1>8, <2>3, UnitDigits
    <3>2. left = second
      BY <1>10, <3>1, ConcatEmptySeq
    <3>3. SecondEscape' = SecondEscape
      BY <1>1 DEF SecondEscape
    <3>4. CASE value.utf16[2] # 0
      <4>1. state' = "pair" /\ value'.utf16[2] # 0
        BY <1>1, <1>13, <1>16, <2>3, <3>4
      <4>2. left = SecondEscape'
        BY <1>9, <3>2, <3>3
      <4> QED BY <1>5, <2>1, <4>1, <4>2, Zenon DEF Within
    <3>5. CASE value.utf16[2] = 0
      <4>1. state' = "char" /\ left = <<>>
        BY <1>9, <1>13, <1>16, <2>3, <3>2, <3>5 DEF SecondEscape
      <4> QED BY <1>5, <4>1, Zenon DEF Within
    <3> QED BY <3>4, <3>5
  <2> QED BY <2>2, <2>3
<1> QED BY <1>1, <1>4, <1>12, <1>14, <1>15, <1>17, LetterPut

LEMMA LastUnitText ==
  ASSUME Runs, UnitDigit, UNCHANGED programVars, NEW i \in 1 .. 4, At("string", HexLabel[i + 4]),
         Put(<<ToHex((value.utf16[2] \div Place[i + 4]) % 16)>>,
             IF i # 4 THEN HexLabel[(i + 1) + 4] ELSE "char")
  PROVE  Underway'
<1>0. PICK label : label = HexLabel[i + 4]
  OBVIOUS
<1>1. /\ At("string", label) /\ label \notin {"START", "done"}
      /\ size' = size /\ write_func' = "string" /\ UNCHANGED configVars /\ value' = value
  <2>1. HexLabel[i + 4] \notin {"START", "done"}
    BY HexLabels
  <2> QED BY <1>0, <2>1 DEF UnitDigit, At
<1>2. PICK k \in 0 .. Len(token.points) : \E here, part \in Seq(Byte) :
        /\ Within(here, part)
        /\ Rest = here \o BytesFrom(k) /\ BytesFrom(k) \in Seq(Byte)
        /\ value.encoding = token.value.encoding
        /\ due = out \o (part \o LettersFrom(k)) /\ LettersFrom(k) \in Seq(Byte)
  BY <1>1, StringAt
<1>3. PICK here \in Seq(Byte), part \in Seq(Byte) :
        /\ Within(here, part)
        /\ Rest = here \o BytesFrom(k) /\ BytesFrom(k) \in Seq(Byte)
        /\ value.encoding = token.value.encoding
        /\ due = out \o (part \o LettersFrom(k)) /\ LettersFrom(k) \in Seq(Byte)
  BY <1>2
<1>4. token.function = "string" /\ state = label /\ pending = <<>> /\ value \in Strings
  BY <1>1, StringAt
<1>5. here = <<>> /\ value.utf16 \in (0 .. MaxUnit) \X (0 .. MaxUnit)
      /\ part = HexFrom(value.utf16[2], i)
  <2>1. state = HexLabel[i + 4]
    BY <1>0, <1>4
  <2> QED BY <1>3, <2>1, AtHexLabel, Zenon
<1>6. PICK unit \in 0 .. MaxUnit : unit = value.utf16[2]
  <2>1. value.utf16[2] \in 0 .. MaxUnit
    BY <1>5
  <2> QED BY <2>1
<1>7. PICK bytes \in Seq(Byte) : bytes = <<ToHex((unit \div Place[i + 4]) % 16)>>
  BY UnitDigits, BytesAreSeq
<1>8. PICK digits \in Seq(Byte) : digits = HexFrom(unit, i + 1) /\ HexFrom(unit, i) = bytes \o digits
  BY <1>7, UnitDigits
<1>9. PICK left \in Seq(Byte) : left = digits
  OBVIOUS
<1>11. part = bytes \o left
  BY <1>5, <1>6, <1>8, <1>9, Zenon
<1>12. due = out \o ((bytes \o left) \o LettersFrom(k))
  BY <1>3, <1>11
<1>13. PICK next : next = IF i # 4 THEN HexLabel[(i + 1) + 4] ELSE "char"
  OBVIOUS
<1>14. next \notin {"error", "done", "START"} /\ Put(bytes, next)
  <2>1. i # 4 => i + 1 \in 1 .. 4
    OBVIOUS
  <2>2. next \notin {"error", "done", "START"}
    BY <1>13, <2>1, HexLabels
  <2>3. Put(bytes, next)
    BY <1>6, <1>7, <1>13
  <2> QED BY <2>2, <2>3
<1>15. value'.encoding = token.value.encoding /\ Rest' = here \o BytesFrom(k)
  BY <1>1, <1>3 DEF Rest
<1>16. state' = next
  BY <1>14 DEF Put
<1>17. Within(here, left)'
  <2>1. value'.utf16 \in (0 .. MaxUnit) \X (0 .. MaxUnit)
    BY <1>1, <1>5
  <2>2. CASE i # 4
    <3>1. i + 1 \in 1 .. 4 /\ state' = HexLabel[(i + 1) + 4]
      BY <1>13, <1>16, <2>2
    <3>2. left = HexFrom(value'.utf16[2], i + 1)
      BY <1>1, <1>6, <1>8, <1>9, Zenon
    <3>3. \E j \in 1 .. 4 : state' = HexLabel[j + 4] /\ left = HexFrom(value'.utf16[2], j)
      BY <3>1, <3>2, Zenon
    <3> QED BY <1>5, <2>1, <3>3, Zenon DEF Within, HexFrom, HexDigitOf
  <2>3. CASE i = 4
    <3>1. digits = <<>>
      BY <1>8, <2>3, UnitDigits
    <3>2. state' = "char" /\ left = <<>>
      BY <1>9, <1>13, <1>16, <2>3, <3>1
    <3> QED BY <1>5, <3>2, Zenon DEF Within
  <2> QED BY <2>2, <2>3
<1> QED BY <1>1, <1>4, <1>12, <1>14, <1>15, <1>17, LetterPut

LEMMA UnitDigitText == Runs /\ UnitDigit /\ UNCHANGED programVars => Underway'
BY UnitCases, FirstUnitText, LastUnitText, Zenon

-----------------------------------------------------------------------------
(* The steps of the program. *)

LEMMA RunText == Runs /\ Run /\ UNCHANGED programVars => Underway'
BY ResumeText, FinishText, PreludeText, CommaText, IndentText, TailCallText,
   LiteralText, NumberText, IntegerSignText, IntegerMagnitudeText, IntegerScaleText, IntegerDigitText,
   StringStartText, StringCharText, StringSkipText, ControlHighText, ControlLowText,
   StringCopyText, UnitDigitText, SecondUnitText, BeginText, EndText, ClosingBracketText, Zenon
DEF Run

LEMMA RunIsBusy == Run => busy
BY Zenon DEF Run, At, Resume, Finish, Prelude, Comma, Indent, TailCall, Literal, Number, IntegerSign,
   IntegerMagnitude, IntegerScale, IntegerDigit, StringStart, StringChar, StringSkip, ControlHigh,
   ControlLow, StringCopy, UnitDigit, SecondUnit, Begin, End, ClosingBracket

LEMMA RunCallText == SInv /\ Mirror /\ TextOK /\ StringsAreSpelled /\ RunCall => TextOK'
<1> SUFFICES ASSUME SInv, Mirror, TextOK, StringsAreSpelled, RunCall PROVE TextOK'
  OBVIOUS
<1>1. Run /\ UNCHANGED programVars /\ busy /\ phase = "token"
  BY RunIsBusy DEF RunCall, SInv, ProgramOK
<1>2. /\ phase' = phase /\ token' = token /\ accepted' = accepted /\ broken' = broken
  BY <1>1 DEF programVars
<1>3. ASSUME accepted, ~broken PROVE Underway'
  BY <1>1, <1>3, RunText DEF Runs
<1> HIDE DEF SInv, Mirror
<1> QED BY <1>1, <1>2, <1>3 DEF TextOK

\* What the frame on top says of the container around the token.
LEMMA TopCounts ==
  ASSUME StackOK, NEW n \in Seq(Open), StackMeans(n)
  PROVE  /\ (n # <<>> /\ J!Last(n).count > 0) <=> Top \in {"a", "o", "k"}
         /\ n = <<>> <=> Top = "none"
<1>1. CASE n = <<>>
  <2>1. Top = "none"
    BY <1>1, TopOfStack DEF StackMeans
  <2> QED BY <1>1, <2>1
<1>2. CASE n # <<>>
  <2>1. n[Len(n)] \in Open /\ Means(Top, n[Len(n)])
    BY <1>2 DEF StackMeans, Top
  <2>2. J!Last(n) = n[Len(n)]
    BY DEF J!Last
  <2>3. PICK open \in Open : open = n[Len(n)]
    BY <2>1
  <2>4. open.count \in Nat /\ Means(Top, open)
    BY <2>1, <2>3 DEF Open
  <2>5. open.count % 2 = 1 => open.count > 0
    BY <2>4
  <2>6. open.count > 0 <=> Top \in {"a", "o", "k"}
    BY <2>4, <2>5 DEF Means
  <2>7. Top # "none"
    BY <2>4 DEF Means
  <2> QED BY <1>2, <2>2, <2>3, <2>6, <2>7
<1> QED BY <1>1, <1>2

\* The writer begins a token with what JSON has in front of it.
LEMMA TokenAhead ==
  ASSUME SInv, nest \in Seq(Open), StackMeans(nest), NEW f \in Values \cup Ends, J!Legal(nest, f),
         UNCHANGED <<configVars, frameVars>>, state' = "START",
         IF f \in Ends THEN write_func' = f ELSE write_func' = "prelude"
  PROVE  AheadOfToken' = J!Before(nest, f, indent) /\ AheadOfToken' \in Seq(Byte)
<1>1. /\ StackOK /\ (indent = NULL \/ indent \in Seq(Byte)) /\ indent' = indent
      /\ Top' = Top /\ stack_current' = stack_current /\ stack_current = Len(nest) /\ stack_current \in Nat
  BY DEF SInv, configVars, frameVars, Top, StackMeans
<1>2. /\ J!InArray(nest) <=> Top \in {"A", "a"}
      /\ J!ExpectsKey(nest) <=> Top \in {"O", "o"}
      /\ J!ExpectsMember(nest) <=> Top = "k"
      /\ nest = <<>> <=> Top = "none"
      /\ (nest # <<>> /\ J!Last(nest).count > 0) <=> Top \in {"a", "o", "k"}
  BY <1>1, TopMeans, TopCounts
<1>3. PICK depth \in Nat : depth = stack_current
  BY <1>1
<1>4. /\ J!Newline(depth - 1, indent) \in Seq(Byte) /\ J!Newline(depth, indent) \in Seq(Byte)
      /\ <<44>> \in Seq(Byte) /\ <<58>> \in Seq(Byte) /\ <<58, 32>> \in Seq(Byte) /\ <<>> \in Seq(Byte)
  <2>1. ASSUME NEW k \in Int PROVE J!Newline(k, indent) \in Seq(Byte)
    BY <1>1, NewlineFacts
  <2>2. depth \in Int /\ depth - 1 \in Int
    OBVIOUS
  <2>3. J!Newline(depth - 1, indent) \in Seq(Byte) /\ J!Newline(depth, indent) \in Seq(Byte)
    BY <2>1, <2>2, Zenon
  <2> QED BY <2>3, SomeBytes, Zenon
<1>5. CASE f \in Ends
  <2>1. J!Before(nest, f, indent) =
          IF nest # <<>> /\ J!Last(nest).count > 0 THEN J!Newline(Len(nest) - 1, indent) ELSE <<>>
    <3>1. f \in {"end_array", "end_object"}
      BY <1>5 DEF Ends
    <3> QED BY <3>1 DEF J!Before
  <2>2. AheadOfToken' = IF Top \in {"a", "o"} THEN J!Newline(depth - 1, indent) ELSE <<>>
    BY <1>1, <1>3, <1>5 DEF AheadOfToken
  <2>3. Top # "k"
    <3>1. f = "end_array" \/ f = "end_object"
      BY <1>5 DEF Ends
    <3>2. J!InArray(nest) \/ J!ExpectsKey(nest)
      BY <3>1, LegalFacts
    <3> QED BY <1>2, <3>2
  <2> QED BY <1>1, <1>2, <1>3, <1>4, <2>1, <2>2, <2>3
<1>6. CASE f \notin Ends
  <2> DEFINE mark == IF indent = NULL THEN <<58>> ELSE <<58, 32>>
             comma == IF nest # <<>> /\ J!Last(nest).count > 0 THEN <<44>> ELSE <<>>
  <2>1. J!Before(nest, f, indent) =
          IF nest = <<>> THEN <<>>
          ELSE IF J!ExpectsMember(nest) THEN mark
          ELSE comma \o J!Newline(Len(nest), indent)
    <3>1. f \notin {"end_array", "end_object"}
      BY <1>6 DEF Ends
    <3>2. CASE nest = <<>>
      BY <3>1, <3>2 DEF J!Before
    <3>3. CASE nest # <<>> /\ J!ExpectsMember(nest)
      BY <3>1, <3>3 DEF J!Before
    <3>4. CASE nest # <<>> /\ ~J!ExpectsMember(nest)
      BY <3>1, <3>4 DEF J!Before
    <3> QED BY <3>2, <3>3, <3>4
  <2>2. AheadOfToken' =
          IF Top = "none" THEN <<>>
          ELSE IF Top = "k" THEN mark
          ELSE (IF Top \in {"a", "o"} THEN <<44>> ELSE <<>>) \o J!Newline(depth, indent)
    BY <1>1, <1>3, <1>6 DEF AheadOfToken, Ends
  <2>3. Top # "k" => comma = IF Top \in {"a", "o"} THEN <<44>> ELSE <<>>
    BY <1>2
  <2>4. comma \in Seq(Byte) /\ mark \in Seq(Byte)
    BY <1>4
  <2> HIDE DEF comma, mark
  <2>5. comma \o J!Newline(depth, indent) \in Seq(Byte)
    BY <1>4, <2>4, ConcatProperties
  <2>6. AheadOfToken' = J!Before(nest, f, indent)
    BY <1>1, <1>2, <1>3, <2>1, <2>2, <2>3, Zenon
  <2>7. J!Before(nest, f, indent) \in Seq(Byte)
    BY <1>1, <1>3, <1>4, <2>1, <2>4, <2>5, Zenon
  <2> QED BY <2>6, <2>7
<1> QED BY <1>5, <1>6

\* A call that runs has the argument of the token, and an empty buffer.
LEMMA CallBegins ==
  ASSUME NEW t, NEW n, CallWriter(t, n), t.function \in Values \cup Ends, busy',
         t.function \in WithArgument => "value" \in DOMAIN t
  PROVE  /\ out' = <<>> /\ pending' = <<>> /\ state' = "START" /\ UNCHANGED <<configVars, frameVars>>
         /\ IF t.function \in Ends THEN write_func' = t.function ELSE write_func' = "prelude"
         /\ t.function \in WithArgument => value' = t.value
<1>1. CASE t.function \in Ends
  <2>1. WriteEnd(t.function, n) /\ t.function \notin WithArgument
    BY <1>1 DEF CallWriter, Ends, WithArgument
  <2>2. StartAt(t.function, "none", n) /\ UNCHANGED <<configVars, frameVars>>
    BY <2>1 DEF WriteEnd, Refuse
  <2> QED BY <1>1, <2>1, <2>2 DEF StartAt, Enter
<1>2. CASE t.function \notin Ends
  <2>1. PICK v : WriteValue(t.function, v, n) /\ (t.function \in WithArgument => v = t.value)
    BY <1>2 DEF CallWriter
  <2>2. StartAt("prelude", t.function, n) /\ value' = v /\ UNCHANGED <<configVars, frameVars>>
    BY <2>1 DEF WriteValue, Refuse
  <2> QED BY <1>2, <2>1, <2>2 DEF StartAt, Enter
<1> QED BY <1>1, <1>2

LEMMA WriteTokenText == SInv /\ Mirror /\ TextOK /\ StringsAreSpelled /\ WriteToken => TextOK'
<1> SUFFICES ASSUME SInv, Mirror, TextOK, StringsAreSpelled, WriteToken PROVE TextOK'
  OBVIOUS
<1>1. PICK t \in Tokens(made), n \in Sizes :
        /\ CallWriter(t, n) /\ token' = t
        /\ accepted' = (n > 0 /\ J!Legal(nest, t.function))
        /\ IF accepted' /\ ~broken
           THEN due' = Promised(t) /\ nest' = J!After(nest, t.function)
           ELSE due' = <<>> /\ UNCHANGED nest
  BY DEF WriteToken
<1>2. phase = "free" /\ made < MaxCalls /\ n \in Nat /\ phase' = "token" /\ broken' = broken
  BY CallsAssumption DEF WriteToken
<1>3. PICK m \in 0 .. MaxCalls : m = made
  BY <1>2, CallsAssumption DEF SInv, ProgramOK
<1>4. t \in Tokens(m) /\ t.function \in Values \cup Ends
      /\ (t.function \in WithArgument => "value" \in DOMAIN t)
  BY <1>1, <1>3, TokenAssumption DEF WithArgument
<1>5. ASSUME accepted', ~broken PROVE Underway'
  <2>1. nest \in Seq(Open) /\ StackMeans(nest)
    BY <1>2, <1>5 DEF Mirror
  <2>2. /\ due' = Promised(t) /\ n > 0 /\ J!Legal(nest, t.function) /\ nest' = J!After(nest, t.function)
    BY <1>1, <1>5
  <2>3. state' = "START" /\ Progress'
    BY <1>1, <1>2, <1>4, <2>1, <2>2, LegalToken
  <2>4. busy'
    BY <2>3 DEF Progress
  <2>5. /\ out' = <<>> /\ pending' = <<>> /\ UNCHANGED <<configVars, frameVars>>
        /\ IF t.function \in Ends THEN write_func' = t.function ELSE write_func' = "prelude"
        /\ t.function \in WithArgument => value' = t.value
    BY <1>1, <1>4, <2>4, CallBegins
  <2>6. AheadOfToken' = J!Before(nest, t.function, indent) /\ AheadOfToken' \in Seq(Byte)
    BY <1>4, <2>1, <2>2, <2>3, <2>5, TokenAhead
  <2>7. TextOf(t) \in Seq(Byte)
    BY <1>4, TextsAreBytes
  <2>8. TextOf(token)' = TextOf(t)
    <3>1. flags' = flags
      BY <2>5 DEF configVars
    <3> QED BY <1>1, <3>1, Zenon DEF TextOf
  <2>9. PICK text \in Seq(Byte) : text = AheadOfToken' \o TextOf(t)
    BY <2>6, <2>7, ConcatProperties
  <2>10. due' = text
    BY <2>2, <2>6, <2>9, Zenon DEF Promised
  <2>11. due' = out' \o (pending' \o text)
    BY <2>5, <2>10, ConcatEmptySeq
  <2>12. Left(text)'
    <3>1. state' # "done" /\ write_func' \in Ends \cup {"prelude"}
      BY <2>3, <2>5
    <3> QED BY <2>8, <2>9, <3>1, Zenon DEF Left
  <2>13. ArgumentKept'
    BY <1>1, <2>5 DEF ArgumentKept
  <2>14. \E rest \in Seq(Byte) : due' = out' \o (pending' \o rest) /\ Left(rest)'
    <3> WITNESS text \in Seq(Byte)
    <3> QED BY <2>11, <2>12
  <2> QED BY <2>3, <2>4, <2>13, <2>14 DEF Underway
<1>6. \E k \in 0 .. MaxCalls : token' \in Tokens(k)
  BY <1>1, <1>4
<1> QED BY <1>2, <1>5, <1>6 DEF TextOK

\* What is left of a token while the program looks at the buffers.
LEMMA TakenText ==
  ASSUME SInv, Underway, state # "error", UNCHANGED LeftVars, pending' = pending, out' = <<>>,
         \/ due' = SubSeq(due, Len(out) + 1, Len(due))
         \/ out = <<>> /\ due' = due,
         phase' # "token" \/ busy'
  PROVE  Underway'
<1>1. PICK text \in Seq(Byte) : due = out \o (pending \o text) /\ Left(text)
  BY DEF Underway
<1>2. out \in Seq(Byte) /\ pending \in Seq(Byte) /\ ArgumentKept
  BY DEF SInv, OutputOK, Underway
<1>3. PICK rest \in Seq(Byte) : rest = pending \o text
  BY <1>1, <1>2, ConcatProperties
<1>4. due' = rest
  <2>1. CASE due' = SubSeq(due, Len(out) + 1, Len(due))
    BY <1>1, <1>2, <1>3, <2>1, DropFront
  <2>2. CASE out = <<>> /\ due' = due
    BY <1>1, <1>3, <2>2, ConcatEmptySeq
  <2> QED BY <2>1, <2>2
<1>5. due' = out' \o (pending' \o text)
  BY <1>3, <1>4, ConcatEmptySeq
<1>6. Left(text)' /\ ArgumentKept' /\ state' # "error"
  BY <1>1, <1>2, SameLeft DEF LeftVars
<1>7. \E left \in Seq(Byte) : due' = out' \o (pending' \o left) /\ Left(left)'
  <2> WITNESS text \in Seq(Byte)
  <2> QED BY <1>5, <1>6
<1> QED BY <1>6, <1>7 DEF Underway

LEMMA TakeText == SInv /\ Mirror /\ TextOK /\ Take => TextOK'
<1> SUFFICES ASSUME SInv, Mirror, TextOK, Take PROVE TextOK'
  OBVIOUS
<1>1. phase = "token" /\ ~busy /\ out' = <<>> /\ phase' \in {"free", "more"}
  BY DEF Take
<1>2. ASSUME phase' # "free"
      PROVE  /\ token' = token /\ accepted' = accepted /\ written > 0
             /\ due' = SubSeq(due, Len(out) + 1, Len(due))
  <2>1. written > 0 /\ token' = token /\ accepted' = accepted
    BY <1>2 DEF Take
  <2>2. ~(written < 0)
    BY <2>1 DEF SInv, OutputOK
  <2> QED BY <2>1, <2>2 DEF Take
<1>3. (\E k \in 0 .. MaxCalls : token \in Tokens(k))
  BY <1>1 DEF TextOK
<1>4. ASSUME phase' # "free", accepted', ~broken' PROVE Underway'
  <2>1. accepted /\ ~broken /\ written # -1
    <3>1. ~broken
      BY <1>4 DEF Take
    <3>2. accepted
      BY <1>2, <1>4, Zenon
    <3>3. written > 0 /\ written \in Int
      BY <1>2, <1>4 DEF SInv, OutputOK
    <3>4. written # -1
      BY <3>3
    <3> QED BY <3>1, <3>2, <3>4
  <2>2. Underway /\ state # "error"
    BY <1>1, <2>1 DEF TextOK, Mirror
  <2>3. UNCHANGED LeftVars /\ pending' = pending /\ phase' # "token"
    BY <1>1, <1>2, <1>4 DEF Take, LeftVars
  <2> QED BY <1>1, <1>2, <1>4, <2>2, <2>3, TakenText
<1> QED BY <1>1, <1>2, <1>3, <1>4 DEF TextOK

LEMMA GoOnText == SInv /\ Mirror /\ TextOK /\ GoOn => TextOK'
<1> SUFFICES ASSUME SInv, Mirror, TextOK, GoOn PROVE TextOK'
  OBVIOUS
<1>1. PICK n \in Sizes \ {0} : Continue(n)
  BY DEF GoOn
<1>2. /\ phase = "more" /\ phase' = "token" /\ UNCHANGED <<token, accepted, nest, due, broken, made>>
      /\ out = <<>>
  BY DEF GoOn, TextOK
<1>3. Enter(n) /\ UNCHANGED <<configVars, write_func, state, frameVars, nesting_written, pending, value>>
  BY <1>1 DEF Continue
<1>4. (\E k \in 0 .. MaxCalls : token \in Tokens(k))
  BY <1>2 DEF TextOK
<1>5. ASSUME accepted, ~broken PROVE Underway'
  <2>1. Underway /\ state # "error"
    BY <1>2, <1>5 DEF TextOK, Mirror
  <2>2. UNCHANGED LeftVars /\ pending' = pending /\ busy' /\ out' = <<>> /\ due' = due
    BY <1>2, <1>3 DEF LeftVars, Enter
  <2> QED BY <1>2, <2>1, <2>2, TakenText
<1> QED BY <1>2, <1>4, <1>5 DEF TextOK

LEMMA StartAnewText == TextOK /\ StartAnew => TextOK'
<1>1. StartAnew /\ TextOK => phase' = "free" /\ out' = <<>>
  BY DEF StartAnew, Reset, TextOK
<1> QED BY <1>1 DEF TextOK

LEMMA StutterText == TextOK /\ UNCHANGED allVars => TextOK'
<1> SUFFICES ASSUME TextOK, UNCHANGED allVars PROVE TextOK'
  OBVIOUS
<1>1. /\ UNCHANGED LeftVars /\ UNCHANGED programVars /\ UNCHANGED <<out, pending, busy, written, size>>
  <2>1. /\ UNCHANGED <<configVars, write_func, next_write_func, state, frameVars, nesting_written,
                        callVars, value, size>>
        /\ UNCHANGED programVars
    BY DEF allVars, vars
  <2>2. token' = token
    BY <2>1 DEF programVars
  <2> QED BY <2>1, <2>2 DEF LeftVars, callVars
<1>2. /\ phase' = phase /\ token' = token /\ accepted' = accepted /\ broken' = broken /\ due' = due
      /\ state' = state /\ write_func' = write_func /\ stack_current' = stack_current
      /\ stack_size' = stack_size /\ out' = out /\ pending' = pending /\ busy' = busy
      /\ written' = written /\ size' = size
  BY <1>1 DEF programVars, LeftVars, frameVars
<1>3. Reason' <=> Reason
  BY <1>2 DEF Reason
<1>4. \A text : (Left(text)' <=> Left(text))
  BY <1>1, SameLeft
<1>5. ArgumentKept' <=> ArgumentKept
  BY <1>1, SameLeft
<1>6. Underway' <=> Underway
  BY <1>2, <1>3, <1>4, <1>5, Zenon DEF Underway
<1> QED BY <1>2, <1>6, Zenon DEF TextOK

LEMMA InitText == CallsInit => TextOK
BY DEF CallsInit, WriterInit, TextOK

LEMMA NextText ==
  SInv /\ Mirror /\ TextOK /\ StringsAreSpelled /\ [CallsNext]_allVars => TextOK'
BY RunCallText, WriteTokenText, TakeText, GoOnText, StartAnewText, StutterText, Zenon
DEF CallsNext, Proceed, Exit

-----------------------------------------------------------------------------
(* The theorems about the text. *)

\* The inductive invariant: the bytes put, those pending and the text still to come at the
\* label make up what JsonText promises.
THEOREM TextIsUnderway == ASSUME StringsAreSpelled PROVE CallsSpec => []TextOK
<1>1. StringsAreSpelled
  OBVIOUS
<1>2. CallsInit => TextOK
  BY InitText
<1>3. SInv /\ Mirror /\ TextOK /\ [CallsNext]_allVars => TextOK'
  BY <1>1, NextText
<1> QED BY <1>2, <1>3, StructureInvariance, StackMirrors, PTL DEF CallsSpec

\* What a call returned with.
LEMMA ReturnedWith ==
  ASSUME SInv, Mirror, TextOK, Returned, ~broken
  PROVE  /\ out \in Seq(Byte) /\ size \in Nat /\ Len(out) <= size /\ written \in Int
         /\ ~accepted => written = -1
         /\ accepted /\ state = "error" => written = -1 /\ Reason
         /\ accepted /\ state # "error" =>
              /\ written = Len(out)
              /\ \E text \in Seq(Byte) : due = out \o text
                   /\ IF pending # <<>> THEN Len(text) > 0 /\ Len(out) = size
                      ELSE text = <<>> /\ (token.function = "string" => token.wellformed)
<1>1. phase = "token" /\ ~busy
  BY DEF Returned
<1>2. /\ out \in Seq(Byte) /\ pending \in Seq(Byte) /\ size \in Nat /\ Len(out) <= size
      /\ written \in -1 .. size
  BY DEF SInv, OutputOK
<1>3. ~accepted => written = -1
  BY <1>1 DEF Mirror, Refusal
<1>4. accepted => Underway
  BY <1>1 DEF TextOK
<1>5. accepted /\ state = "error" => written = -1 /\ Reason
  BY <1>1, <1>4 DEF Underway, Mirror
<1>6. ASSUME accepted, state # "error"
      PROVE  /\ written = Len(out)
             /\ \E text \in Seq(Byte) : due = out \o text
                   /\ IF pending # <<>> THEN Len(text) > 0 /\ Len(out) = size
                      ELSE text = <<>> /\ (token.function = "string" => token.wellformed)
  <2>1. /\ \E text \in Seq(Byte) : due = out \o (pending \o text) /\ Left(text)
        /\ written = Len(out)
        /\ IF pending # <<>> THEN written = size ELSE state = "done"
    BY <1>1, <1>4, <1>6 DEF Underway
  <2>2. PICK text \in Seq(Byte) : due = out \o (pending \o text) /\ Left(text)
    BY <2>1
  <2>3. PICK rest \in Seq(Byte) : rest = pending \o text
    BY <1>2, ConcatProperties
  <2>4. ASSUME pending # <<>> PROVE Len(rest) > 0
    <3>1. Len(pending) > 0 /\ Len(text) \in Nat /\ Len(pending) \in Nat
      BY <1>2, <2>4
    <3>2. Len(rest) = Len(pending) + Len(text)
      BY <1>2, <2>3, ConcatProperties
    <3> QED BY <3>1, <3>2
  <2>5. ASSUME pending = <<>>
        PROVE  rest = <<>> /\ (token.function = "string" => token.wellformed)
    <3>1. text = <<>> /\ (token.function = "string" => token.wellformed)
      BY <2>1, <2>2, <2>5 DEF Left
    <3> QED BY <2>3, <2>5, <3>1, ConcatEmptySeq
  <2>6. \E left \in Seq(Byte) : due = out \o left
           /\ IF pending # <<>> THEN Len(left) > 0 /\ Len(out) = size
              ELSE left = <<>> /\ (token.function = "string" => token.wellformed)
    <3> WITNESS rest \in Seq(Byte)
    <3> QED BY <2>1, <2>2, <2>3, <2>4, <2>5
  <2> QED BY <2>1, <2>6
<1> QED BY <1>2, <1>3, <1>5, <1>6

\* The first bytes of what is put together of two.
LEMMA TakeFront ==
  ASSUME NEW a \in Seq(Byte), NEW b \in Seq(Byte)
  PROVE  SubSeq(a \o b, 1, Len(a)) = a /\ Len(a \o b) = Len(a) + Len(b)
<1>1. a \o b \in Seq(Byte) /\ Len(a \o b) = Len(a) + Len(b) /\ Len(a) \in Nat /\ Len(b) \in Nat
      /\ \A i \in 1 .. Len(a) : (a \o b)[i] = a[i]
  BY ConcatProperties
<1>2. PICK whole \in Seq(Byte) : whole = a \o b
  BY <1>1
<1>3. /\ SubSeq(whole, 1, Len(a)) \in Seq(Byte) /\ Len(SubSeq(whole, 1, Len(a))) = Len(a)
      /\ \A i \in 1 .. Len(a) : SubSeq(whole, 1, Len(a))[i] = whole[i]
  BY <1>1, <1>2
<1> QED BY <1>1, <1>2, <1>3, SeqEqual

\* Whatever the sizes of the buffers, each call puts the next bytes of the text of the
\* token and fills its buffer with them unless they end in it, for strings that are spelled
\* and on all stacks: no byte is lost, repeated or left behind between two buffers.
THEOREM TextIsDelivered == ASSUME StringsAreSpelled PROVE CallsSpec => []DeliversText
<1>1. SInv /\ Mirror /\ TextOK => DeliversText
  <2> SUFFICES ASSUME SInv, Mirror, TextOK, Returned, written >= 0, ~broken
               PROVE  written = Len(out)
                      /\ out = SubSeq(due, 1, IF Len(due) < size THEN Len(due) ELSE size)
    BY DEF DeliversText
  <2>1. out \in Seq(Byte) /\ size \in Nat /\ Len(out) <= size /\ Len(out) \in Nat /\ written # -1
    BY ReturnedWith
  <2>2. accepted /\ state # "error" /\ written = Len(out)
    BY <2>1, ReturnedWith
  <2>3. PICK text \in Seq(Byte) :
          due = out \o text /\ IF pending # <<>> THEN Len(text) > 0 /\ Len(out) = size ELSE text = <<>>
    BY <2>2, ReturnedWith
  <2>4. SubSeq(due, 1, Len(out)) = out /\ Len(due) = Len(out) + Len(text) /\ Len(text) \in Nat
    BY <2>1, <2>3, TakeFront
  <2>5. (IF Len(due) < size THEN Len(due) ELSE size) = Len(out)
    <3>1. CASE Len(text) > 0 /\ Len(out) = size
      BY <2>1, <2>4, <3>1
    <3>2. CASE text = <<>>
      <4>1. Len(due) = Len(out)
        BY <2>1, <2>4, <3>2
      <4> QED BY <2>1, <4>1
    <3> QED BY <2>3, <3>1, <3>2
  <2> QED BY <2>2, <2>4, <2>5
<1>2. StringsAreSpelled
  OBVIOUS
<1>3. CallsSpec => []TextOK
  BY <1>2, TextIsUnderway
<1> QED BY <1>1, <1>3, StructureInvariance, StackMirrors, PTL

\* A token is refused or fails exactly if JSON does not allow it here, its string is not
\* UTF-8, or the stack cannot grow; what was refused before makes no difference.
THEOREM FailuresHaveReasons == ASSUME StringsAreSpelled PROVE CallsSpec => []FailsForAReason
<1>1. SInv /\ Mirror /\ TextOK => FailsForAReason
  <2> DEFINE failed == token.function = "string" /\ ~token.wellformed /\ Len(due) <= size
             full == /\ state = "error" /\ write_func \in {"begin_array", "begin_object"}
                     /\ stack_current + 1 = stack_size
  <2> SUFFICES ASSUME SInv, Mirror, TextOK, Returned, ~broken
               PROVE  (written = -1) = (~accepted \/ failed \/ full)
    BY DEF FailsForAReason
  <2>1. out \in Seq(Byte) /\ size \in Nat /\ Len(out) <= size /\ Len(out) \in Nat
    BY ReturnedWith
  <2>2. CASE ~accepted
    BY <2>2, ReturnedWith
  <2>3. CASE accepted /\ state = "error"
    <3>1. written = -1 /\ Reason
      BY <2>3, ReturnedWith
    <3>2. failed \/ full
      BY <2>1, <2>3, <3>1 DEF Reason, Begins
    <3> QED BY <3>1, <3>2
  <2>4. CASE accepted /\ state # "error"
    <3>1. PICK text \in Seq(Byte) : due = out \o text
             /\ IF pending # <<>> THEN Len(text) > 0 /\ Len(out) = size
                ELSE text = <<>> /\ (token.function = "string" => token.wellformed)
      BY <2>4, ReturnedWith
    <3>2. written # -1
      BY <2>1, <2>4, ReturnedWith
    <3>3. ~failed
      <4>1. CASE pending # <<>>
        <5>1. Len(due) = Len(out) + Len(text) /\ Len(text) > 0 /\ Len(out) = size /\ Len(text) \in Nat
          BY <2>1, <3>1, <4>1, TakeFront
        <5>2. ~(Len(due) <= size)
          BY <2>1, <5>1
        <5> QED BY <5>2
      <4>2. CASE pending = <<>>
        BY <3>1, <4>2
      <4> QED BY <4>1, <4>2
    <3>4. ~full
      BY <2>4
    <3> QED BY <2>4, <3>2, <3>3, <3>4
  <2> QED BY <2>2, <2>3, <2>4
<1>2. StringsAreSpelled
  OBVIOUS
<1>3. CallsSpec => []TextOK
  BY <1>2, TextIsUnderway
<1> QED BY <1>1, <1>3, StructureInvariance, StackMirrors, PTL
=============================================================================
