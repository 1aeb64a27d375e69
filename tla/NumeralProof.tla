---------------------------- MODULE NumeralProof -----------------------------
(***************************************************************************)
(* Numerals that grow byte by byte: what a byte adds to the parts of a     *)
(* numeral and to the number its digits denote, and that the operators of  *)
(* the number scanners keep the components at what was read; and which     *)
(* byte keeps a text from ever becoming one.  The theorems about the token *)
(* loop rest on these facts.  That an operator defined by recursion over a *)
(* sequence is what it is said to be is shown by induction over a set of   *)
(* naturals.                                                               *)
(***************************************************************************)
EXTENDS NumberGrammar, ParserGrammar, FiniteSetTheorems

-----------------------------------------------------------------------------
(* Induction. *)

\* A set of naturals that is not empty has a smallest element.
LEMMA Smallest ==
  ASSUME NEW T \in SUBSET Nat, T # {}
  PROVE  \E x \in T : \A y \in T : x <= y
<1> DEFINE R == StrictSubsetOrdering(Nat)
           S == FiniteSubsetsOf(Nat)
           U == {0 .. k : k \in T}
<1>1. IsWellFoundedOn(R, S)
  BY FS_StrictSubsetOrderingWellFounded
<1>2. U \subseteq S /\ U # {}
  <2>1. ASSUME NEW k \in T PROVE 0 .. k \in S
    <3>1. IsFiniteSet(0 .. k)
      BY FS_Interval
    <3>2. 0 .. k \subseteq Nat
      OBVIOUS
    <3> QED BY <3>1, <3>2 DEF FiniteSubsetsOf
  <2> HIDE DEF S
  <2> QED BY <2>1
<1>3. \E u \in U : \A v \in U : ~ (<<v, u>> \in R)
  <2> HIDE DEF R, S, U
  <2> QED BY <1>1, <1>2, WFMin
<1>4. PICK x \in T : \A y \in T : ~ (<<0 .. y, 0 .. x>> \in R)
  BY <1>3
<1>5. ASSUME NEW y \in T, y < x PROVE FALSE
  <2>1. 0 .. y \subseteq 0 .. x /\ x \in 0 .. x /\ x \notin 0 .. y
    BY <1>5
  <2>2. <<0 .. y, 0 .. x>> \in R
    BY <2>1 DEF StrictSubsetOrdering
  <2> QED BY <2>2, <1>4
<1> QED BY <1>5

\* Induction, with the set of the numbers for which a statement holds.
LEMMA NaturalInduction ==
  ASSUME NEW S, 0 \in S, \A n \in Nat : n \in S => n + 1 \in S
  PROVE  Nat \subseteq S
<1> SUFFICES ASSUME NEW n \in Nat, n \notin S PROVE FALSE
  OBVIOUS
<1> DEFINE T == Nat \ S
<1>1. PICK x \in T : \A y \in T : x <= y
  BY Smallest
<1>2. x # 0 /\ x - 1 \in Nat /\ x - 1 \in S
  BY <1>1
<1> QED BY <1>1, <1>2

-----------------------------------------------------------------------------
(* The number some digits denote. *)

\* Min and Max, where there is one.
LEMMA MinIs == ASSUME NEW S, NEW m \in S, S \subseteq Int, \A x \in S : m <= x PROVE Min(S) = m
<1>1. \A x \in S : (\A y \in S : x <= y) => x = m
  OBVIOUS
<1> QED BY <1>1 DEF Min

\* The greatest of some integers.
LEMMA MaxIs == ASSUME NEW S, NEW m \in S, S \subseteq Int, \A x \in S : m >= x PROVE Max(S) = m
<1>1. \A x \in S : (\A y \in S : x >= y) => x = m
  OBVIOUS
<1> QED BY <1>1 DEF Max

\* The smaller one of two integers.
LEMMA MinOfTwo ==
  ASSUME NEW a \in Int, NEW b \in Int
  PROVE  Min({a, b}) = IF a <= b THEN a ELSE b
<1> DEFINE S == {a, b}
           m == IF a <= b THEN a ELSE b
<1>1. S \subseteq Int /\ m \in S /\ \A x \in S : m <= x
  OBVIOUS
<1> HIDE DEF S, m
<1>2. Min(S) = m
  BY <1>1, MinIs
<1> QED BY <1>2 DEF S, m

\* A digit more.
More(n, ch) == Min({10 * n + (ch - Ascii.zero), MaxU + 1})

\* The numbers the first digits denote, as a function of how many they are.
Counts(ds, f, n) ==
  /\ f \in [0 .. n -> 0 .. MaxU + 1]
  /\ f[0] = 0
  /\ \A k \in 1 .. n : f[k] = More(f[k - 1], ds[k])

\* A digit more: the number it makes, as far as numbers are told apart.
LEMMA MoreFacts ==
  ASSUME NEW n \in 0 .. MaxU + 1, NEW ch \in Digit
  PROVE  /\ More(n, ch) \in 0 .. MaxU + 1
         /\ More(n, ch) = IF 10 * n + (ch - 48) <= MaxU THEN 10 * n + (ch - 48) ELSE MaxU + 1
<1>1. Ascii.zero = 48 /\ ch \in 48 .. 57 /\ MaxU \in Nat
  BY NumberAssumption DEF Ascii, Digit
<1> DEFINE a == 10 * n + (ch - 48)
<1>2. a \in Nat /\ MaxU + 1 \in Int
  BY <1>1
<1> HIDE DEF a
<1>3. Min({a, MaxU + 1}) = IF a <= MaxU + 1 THEN a ELSE MaxU + 1
  BY <1>2, MinOfTwo
<1>4. More(n, ch) = Min({a, MaxU + 1})
  BY <1>1 DEF More, a
<1> QED BY <1>1, <1>2, <1>3, <1>4 DEF a

\* There is such a function, for any number of digits,
LEMMA CountsExist ==
  ASSUME NEW ds \in Seq(Digit)
  PROVE  \E f : Counts(ds, f, Len(ds))
<1> DEFINE S == {n \in Nat : n <= Len(ds) => \E f : Counts(ds, f, n)}
<1>1. 0 \in S
  <2>1. Counts(ds, [k \in 0 .. 0 |-> 0], 0)
    BY NumberAssumption DEF Counts
  <2> QED BY <2>1
<1>2. ASSUME NEW n \in Nat, n \in S PROVE n + 1 \in S
  <2> SUFFICES ASSUME n + 1 <= Len(ds) PROVE \E f : Counts(ds, f, n + 1)
    OBVIOUS
  <2>1. n <= Len(ds) /\ ds[n + 1] \in Digit
    OBVIOUS
  <2>2. PICK f : Counts(ds, f, n)
    BY <1>2, <2>1
  <2> DEFINE next == More(f[n], ds[n + 1])
             g == [k \in 0 .. n + 1 |-> IF k = n + 1 THEN next ELSE f[k]]
  <2>3. f[n] \in 0 .. MaxU + 1 /\ next \in 0 .. MaxU + 1
    <3>1. n \in 0 .. n
      OBVIOUS
    <3>2. f[n] \in 0 .. MaxU + 1
      BY <2>2, <3>1 DEF Counts
    <3> QED BY <2>1, <3>2, MoreFacts
  <2> HIDE DEF next
  <2>4. g \in [0 .. n + 1 -> 0 .. MaxU + 1] /\ g[0] = 0
    BY <2>2, <2>3 DEF Counts
  <2>5. ASSUME NEW k \in 1 .. n + 1 PROVE g[k] = More(g[k - 1], ds[k])
    <3>1. CASE k = n + 1
      BY <3>1 DEF next
    <3>2. CASE k # n + 1
      BY <2>2, <3>2 DEF Counts
    <3> QED BY <3>1, <3>2
  <2> QED BY <2>4, <2>5 DEF Counts
<1>3. Nat \subseteq S
  <2> HIDE DEF S
  <2> QED BY <1>1, <1>2, NaturalInduction
<1> QED BY <1>3

\* and two of them agree as far as the digits do.
LEMMA CountsAgree ==
  ASSUME NEW ds, NEW es, NEW f, NEW g, NEW m \in Nat, NEW n \in Nat, NEW j \in Nat, j <= m, j <= n,
         Counts(ds, f, m), Counts(es, g, n), \A k \in 1 .. j : ds[k] = es[k]
  PROVE  f[j] = g[j]
<1> DEFINE S == {k \in Nat : k <= j => f[k] = g[k]}
<1>1. 0 \in S
  BY DEF Counts
<1>2. ASSUME NEW k \in Nat, k \in S PROVE k + 1 \in S
  <2> SUFFICES ASSUME k + 1 <= j PROVE f[k + 1] = g[k + 1]
    OBVIOUS
  <2>1. f[k + 1] = More(f[(k + 1) - 1], ds[k + 1]) /\ g[k + 1] = More(g[(k + 1) - 1], es[k + 1])
    BY DEF Counts
  <2>2. f[k] = g[k] /\ ds[k + 1] = es[k + 1] /\ (k + 1) - 1 = k
    BY <1>2
  <2> QED BY <2>1, <2>2
<1>3. Nat \subseteq S
  <2> HIDE DEF S
  <2> QED BY <1>1, <1>2, NaturalInduction
<1> QED BY <1>3

\* The number is what such a function has at the last digit.
LEMMA NumberIs ==
  ASSUME NEW ds \in Seq(Digit), NEW f, Counts(ds, f, Len(ds))
  PROVE  NumberOf(ds) = f[Len(ds)]
<1> DEFINE Eq(g) == g = [k \in 0 .. Len(ds) |->
                           IF k = 0 THEN 0
                           ELSE Min({10 * g[k - 1] + (ds[k] - Ascii.zero), MaxU + 1})]
           number == CHOOSE g : Eq(g)
<1>1. Len(ds) \in Nat
  OBVIOUS
<1>2. Eq(f)
  BY <1>1 DEF Counts, More
<1>3. Eq(number)
  <2> HIDE DEF Eq
  <2> QED BY <1>2
<1>4. Counts(ds, number, Len(ds))
  <2>0. number = [k \in 0 .. Len(ds) |->
                    IF k = 0 THEN 0 ELSE More(number[k - 1], ds[k])]
    BY <1>3 DEF More
  <2> HIDE DEF number
  <2> DEFINE S == {k \in Nat : k <= Len(ds) => number[k] = f[k]}
  <2>1. 0 \in S
    BY <2>0 DEF Counts
  <2>2. ASSUME NEW k \in Nat, k \in S PROVE k + 1 \in S
    <3> SUFFICES ASSUME k + 1 <= Len(ds) PROVE number[k + 1] = f[k + 1]
      OBVIOUS
    <3>1. number[k + 1] = More(number[(k + 1) - 1], ds[k + 1])
      BY <2>0
    <3>2. f[k + 1] = More(f[(k + 1) - 1], ds[k + 1])
      BY DEF Counts
    <3>3. number[k] = f[k] /\ (k + 1) - 1 = k
      BY <2>2
    <3> QED BY <3>1, <3>2, <3>3
  <2>3. Nat \subseteq S
    <3> HIDE DEF S
    <3> QED BY <2>1, <2>2, NaturalInduction
  <2>4. \A k \in 0 .. Len(ds) : number[k] = f[k]
    BY <2>3
  <2>5. number \in [0 .. Len(ds) -> 0 .. MaxU + 1]
    BY <2>0, <2>4 DEF Counts
  <2> QED BY <2>4, <2>5 DEF Counts
<1>5. NumberOf(ds) = number[Len(ds)]
  BY DEF NumberOf
<1>6. number[Len(ds)] = f[Len(ds)]
  <2> HIDE DEF number
  <2> QED BY <1>1, <1>4, CountsAgree
<1> QED BY <1>5, <1>6

-----------------------------------------------------------------------------
(* Parts of a text that grows. *)

\* A text with one more.
LEMMA OneMore ==
  ASSUME NEW S, NEW s \in Seq(S), NEW e \in S
  PROVE  /\ Append(s, e) \in Seq(S)
         /\ Len(Append(s, e)) = Len(s) + 1
         /\ Append(s, e)[Len(s) + 1] = e
         /\ \A i \in 1 .. Len(s) : Append(s, e)[i] = s[i]
OBVIOUS

\* A part of a text is one of the text with a byte more,
LEMMA PartKept ==
  ASSUME NEW S, NEW s \in Seq(S), NEW e \in S, NEW a \in Nat \ {0}, NEW b \in Int, b <= Len(s)
  PROVE  SubSeq(Append(s, e), a, b) = SubSeq(s, a, b) /\ SubSeq(s, a, b) \in Seq(S)
<1>1. Append(s, e) \in Seq(S) /\ Len(s) \in Nat
  OBVIOUS
<1>2. \A i \in a .. b : s[i] \in S /\ Append(s, e)[i] = s[i]
  OBVIOUS
<1>3. /\ SubSeq(s, a, b) \in Seq(S) /\ Len(SubSeq(s, a, b)) = IF a <= b THEN b - a + 1 ELSE 0
      /\ \A i \in 1 .. b - a + 1 : SubSeq(s, a, b)[i] = s[a + i - 1]
  BY <1>2, SubSeqProperties
<1> DEFINE t == Append(s, e)
<1>4. \A i \in a .. b : t[i] \in S
  BY <1>2
<1>5. /\ SubSeq(t, a, b) \in Seq(S) /\ Len(SubSeq(t, a, b)) = IF a <= b THEN b - a + 1 ELSE 0
      /\ \A i \in 1 .. b - a + 1 : SubSeq(t, a, b)[i] = t[a + i - 1]
  <2> HIDE DEF t
  <2> QED BY <1>4, SubSeqProperties
<1>6. \A i \in 1 .. b - a + 1 : a + i - 1 \in a .. b
  OBVIOUS
<1>7. \A i \in 1 .. Len(SubSeq(s, a, b)) : SubSeq(t, a, b)[i] = SubSeq(s, a, b)[i]
  BY <1>2, <1>3, <1>5, <1>6
<1> QED
  <2> HIDE DEF t
  <2>1. SubSeq(t, a, b) = SubSeq(s, a, b)
    BY <1>3, <1>5, <1>7, SeqEqual
  <2> QED BY <2>1, <1>3 DEF t

\* and one up to its end has the byte more itself.
LEMMA PartGrows ==
  ASSUME NEW S, NEW s \in Seq(S), NEW e \in S, NEW a \in 1 .. Len(s) + 1
  PROVE  /\ SubSeq(Append(s, e), a, Len(s) + 1) = Append(SubSeq(s, a, Len(s)), e)
         /\ SubSeq(s, a, Len(s)) \in Seq(S)
<1> DEFINE t == Append(s, e)
           n == Len(s)
           p == SubSeq(s, a, n)
           q == SubSeq(t, a, n + 1)
<1>1. t \in Seq(S) /\ n \in Nat
  OBVIOUS
<1>2. \A i \in a .. n : s[i] \in S /\ t[i] = s[i]
  OBVIOUS
<1>3. t[n + 1] = e /\ \A i \in a .. n + 1 : t[i] \in S
  OBVIOUS
<1>4. /\ p \in Seq(S) /\ Len(p) = (n + 1) - a
      /\ \A i \in 1 .. (n + 1) - a : p[i] = s[a + i - 1]
  <2>1. /\ p \in Seq(S) /\ Len(p) = IF a <= n THEN n - a + 1 ELSE 0
        /\ \A i \in 1 .. n - a + 1 : p[i] = s[a + i - 1]
    <3> HIDE DEF n
    <3> QED BY <1>1, <1>2, SubSeqProperties
  <2> QED BY <1>1, <2>1
<1>5. /\ q \in Seq(S) /\ Len(q) = (n + 2) - a
      /\ \A i \in 1 .. (n + 2) - a : q[i] = t[a + i - 1]
  <2> DEFINE m == n + 1
  <2>1. /\ SubSeq(t, a, m) \in Seq(S) /\ Len(SubSeq(t, a, m)) = IF a <= m THEN m - a + 1 ELSE 0
        /\ \A i \in 1 .. m - a + 1 : SubSeq(t, a, m)[i] = t[a + i - 1]
    <3>1. m \in Int /\ \A i \in a .. m : t[i] \in S
      BY <1>1, <1>3
    <3> HIDE DEF m, t
    <3> QED BY <3>1, SubSeqProperties
  <2> QED BY <1>1, <2>1
<1>6. Append(p, e) \in Seq(S) /\ Len(Append(p, e)) = (n + 2) - a
  <2>1. n \in Nat /\ a \in 1 .. n + 1
    BY <1>1
  <2> HIDE DEF p, n
  <2> QED BY <1>4, <2>1
<1>7. ASSUME NEW i \in 1 .. Len(q) PROVE q[i] = Append(p, e)[i]
  <2>1. i \in 1 .. (n + 2) - a
    BY <1>5, <1>7
  <2>2. CASE i = (n + 2) - a
    <3>1. q[i] = e
      BY <1>1, <1>3, <1>5, <2>1, <2>2
    <3>2. Len(p) + 1 = i
      BY <1>1, <1>4, <2>2
    <3> HIDE DEF p, q, t
    <3>3. Append(p, e)[Len(p) + 1] = e
      BY <1>4, OneMore
    <3> QED BY <3>1, <3>2, <3>3
  <2>3. CASE i # (n + 2) - a
    <3>1. i \in 1 .. (n + 1) - a /\ a + i - 1 \in a .. n
      BY <1>1, <2>1, <2>3
    <3>2. q[i] = t[a + i - 1] /\ p[i] = s[a + i - 1]
      <4> HIDE DEF p, q, t
      <4> QED BY <1>4, <1>5, <2>1, <3>1
    <3>3. q[i] = p[i]
      BY <1>2, <3>1, <3>2
    <3> HIDE DEF p, q, t
    <3> QED BY <1>1, <1>4, <3>1, <3>3
  <2> QED BY <2>2, <2>3
<1> HIDE DEF p, q
<1>8. q = Append(p, e)
  BY <1>5, <1>6, <1>7, SeqEqual
<1> QED BY <1>4, <1>8 DEF p, q

\* Where bytes of a kind stand first, in a text and in one with a byte more.
LEMMA FirstIs ==
  ASSUME NEW bytes, NEW text \in Seq(Byte), NEW m \in 1 .. Len(text) + 1,
         \A i \in 1 .. Len(text) : text[i] \in bytes => m <= i,
         m <= Len(text) => text[m] \in bytes
  PROVE  FirstOf(bytes, text) = m
<1> DEFINE T == {i \in DOMAIN text : text[i] \in bytes} \cup {Len(text) + 1}
<1>1. DOMAIN text = 1 .. Len(text) /\ Len(text) \in Nat
  OBVIOUS
<1>2. m \in T /\ T \subseteq Int /\ \A x \in T : m <= x
  BY <1>1
<1> HIDE DEF T
<1>3. Min(T) = m
  BY <1>2, MinIs
<1> QED BY <1>3 DEF FirstOf, T

\* The first place of some bytes is one, and none is in front of it.
LEMMA FirstFacts ==
  ASSUME NEW bytes, NEW text \in Seq(Byte)
  PROVE  /\ FirstOf(bytes, text) \in 1 .. Len(text) + 1
         /\ \A i \in 1 .. Len(text) : text[i] \in bytes => FirstOf(bytes, text) <= i
         /\ FirstOf(bytes, text) <= Len(text) => text[FirstOf(bytes, text)] \in bytes
<1> DEFINE T == {i \in DOMAIN text : text[i] \in bytes} \cup {Len(text) + 1}
<1>1. DOMAIN text = 1 .. Len(text) /\ Len(text) \in Nat
  OBVIOUS
<1>2. T \in SUBSET Nat /\ T # {}
  BY <1>1
<1>3. PICK m \in T : \A y \in T : m <= y
  <2> HIDE DEF T
  <2> QED BY <1>2, Smallest
<1>4. /\ m \in 1 .. Len(text) + 1
      /\ \A i \in 1 .. Len(text) : text[i] \in bytes => m <= i
      /\ m <= Len(text) => text[m] \in bytes
  BY <1>1, <1>3
<1>5. FirstOf(bytes, text) = m
  <2> HIDE DEF T
  <2> QED BY <1>4, FirstIs
<1> QED BY <1>4, <1>5

\* The first place of some bytes stays where it is when the text grows, or is the
\* byte that is added.
LEMMA FirstGrows ==
  ASSUME NEW bytes, NEW text \in Seq(Byte), NEW ch \in Byte
  PROVE  FirstOf(bytes, Append(text, ch)) =
           IF FirstOf(bytes, text) <= Len(text) THEN FirstOf(bytes, text)
           ELSE IF ch \in bytes THEN Len(text) + 1 ELSE Len(text) + 2
<1> DEFINE n == Len(text)
           t == Append(text, ch)
           f == FirstOf(bytes, text)
<1>1. /\ n \in Nat /\ t \in Seq(Byte) /\ Len(t) = n + 1 /\ t[n + 1] = ch
      /\ \A i \in 1 .. n : t[i] = text[i]
  OBVIOUS
<1>2. /\ f \in 1 .. n + 1
      /\ f <= n => text[f] \in bytes
      /\ \A i \in 1 .. n : text[i] \in bytes => f <= i
  BY FirstFacts
<1> HIDE DEF f, t, n
<1>3. CASE f <= n
  <2>1. f \in 1 .. Len(t) + 1 /\ t[f] \in bytes
    BY <1>1, <1>2, <1>3
  <2>2. \A i \in 1 .. Len(t) : t[i] \in bytes => f <= i
    BY <1>1, <1>2, <1>3
  <2>3. FirstOf(bytes, t) = f
    BY <1>1, <2>1, <2>2, FirstIs
  <2> QED BY <1>3, <2>3 DEF t, f, n
<1>4. CASE ~(f <= n) /\ ch \in bytes
  <2> DEFINE e == n + 1
  <2>1. e \in 1 .. Len(t) + 1 /\ t[e] \in bytes
    BY <1>1, <1>4
  <2>2. \A i \in 1 .. Len(t) : t[i] \in bytes => e <= i
    BY <1>1, <1>2, <1>4
  <2>3. FirstOf(bytes, t) = e
    <3> HIDE DEF e
    <3> QED BY <1>1, <2>1, <2>2, FirstIs
  <2> QED BY <1>4, <2>3 DEF t, f, n
<1>5. CASE ~(f <= n) /\ ch \notin bytes
  <2> DEFINE e == n + 2
  <2>1. e \in 1 .. Len(t) + 1 /\ ~(e <= Len(t))
    BY <1>1
  <2>2. \A i \in 1 .. Len(t) : t[i] \in bytes => e <= i
    BY <1>1, <1>2, <1>5
  <2>3. FirstOf(bytes, t) = e
    <3> HIDE DEF e
    <3> QED BY <1>1, <2>1, <2>2, FirstIs
  <2> QED BY <1>5, <2>3 DEF t, f, n
<1> QED BY <1>3, <1>4, <1>5

\* The last word of a text grows with a byte of a numeral, and any other byte ends it.
LEMMA WordIs ==
  ASSUME NEW text \in Seq(Byte), NEW s \in 0 .. Len(text),
         s > 0 => text[s] \notin NumeralBytes,
         \A i \in s + 1 .. Len(text) : text[i] \in NumeralBytes
  PROVE  LastWord(text) = SubSeq(text, s + 1, Len(text))
<1> DEFINE T == {0} \cup {i \in DOMAIN text : text[i] \notin NumeralBytes}
<1>1. DOMAIN text = 1 .. Len(text) /\ Len(text) \in Nat
  OBVIOUS
<1>2. s \in T /\ T \subseteq Int
  BY <1>1
<1>3. \A x \in T : s >= x
  BY <1>1
<1> HIDE DEF T
<1>4. Max(T) = s
  BY <1>2, <1>3, MaxIs
<1> QED BY <1>4 DEF LastWord, T

\* The longest end of a text that is made of bytes of numerals begins somewhere.
LEMMA WordStarts ==
  ASSUME NEW text \in Seq(Byte)
  PROVE  \E s \in 0 .. Len(text) :
           /\ s > 0 => text[s] \notin NumeralBytes
           /\ \A i \in s + 1 .. Len(text) : text[i] \in NumeralBytes
<1> DEFINE n == Len(text)
           T == {k \in 0 .. n : n - k > 0 => text[n - k] \notin NumeralBytes}
<1>1. n \in Nat
  OBVIOUS
<1>2. n \in T /\ T \in SUBSET Nat
  BY <1>1
<1>3. PICK k \in T : \A y \in T : k <= y
  <2> HIDE DEF T
  <2> QED BY <1>2, Smallest
<1>4. n - k \in 0 .. n /\ (n - k > 0 => text[n - k] \notin NumeralBytes)
  BY <1>1, <1>3
<1>5. ASSUME NEW i \in (n - k) + 1 .. n PROVE text[i] \in NumeralBytes
  <2>1. n - i \in 0 .. n /\ n - (n - i) = i /\ ~(k <= n - i) /\ i > 0
    BY <1>1, <1>3
  <2>2. n - i \notin T
    BY <1>3, <2>1
  <2> QED BY <2>1, <2>2
<1> QED BY <1>4, <1>5

\* A byte of a numeral makes it longer, and any other byte ends it.
LEMMA WordGrows ==
  ASSUME NEW text \in Seq(Byte), NEW ch \in Byte
  PROVE  /\ LastWord(text) \in Seq(Byte)
         /\ ch \in NumeralBytes => LastWord(Append(text, ch)) = Append(LastWord(text), ch)
         /\ ch \notin NumeralBytes => LastWord(Append(text, ch)) = <<>>
<1> DEFINE n == Len(text)
           t == Append(text, ch)
<1>1. /\ n \in Nat /\ t \in Seq(Byte) /\ Len(t) = n + 1 /\ t[n + 1] = ch
      /\ \A i \in 1 .. n : t[i] = text[i]
  OBVIOUS
<1>2. PICK s \in 0 .. n : /\ s > 0 => text[s] \notin NumeralBytes
                          /\ \A i \in s + 1 .. n : text[i] \in NumeralBytes
  BY WordStarts
<1>3. LastWord(text) = SubSeq(text, s + 1, n)
  BY <1>2, WordIs
<1>4. s + 1 \in 1 .. n + 1
  BY <1>1, <1>2
<1>5. /\ SubSeq(t, s + 1, n + 1) = Append(SubSeq(text, s + 1, n), ch)
      /\ SubSeq(text, s + 1, n) \in Seq(Byte)
  BY <1>4, PartGrows
<1> HIDE DEF t, n
<1>6. ASSUME ch \in NumeralBytes PROVE LastWord(t) = SubSeq(t, s + 1, n + 1)
  <2>1. s > 0 => t[s] \notin NumeralBytes
    BY <1>1, <1>2
  <2>2. \A i \in s + 1 .. Len(t) : t[i] \in NumeralBytes
    BY <1>1, <1>2, <1>6
  <2>3. s \in 0 .. Len(t)
    BY <1>1, <1>2
  <2> QED BY <1>1, <2>1, <2>2, <2>3, WordIs
<1>7. ASSUME ch \notin NumeralBytes PROVE LastWord(t) = <<>>
  <2> DEFINE r == n + 1
  <2>1. r \in 0 .. Len(t) /\ (r > 0 => t[r] \notin NumeralBytes) /\ r = Len(t)
    BY <1>1, <1>7
  <2>2. \A i \in r + 1 .. Len(t) : t[i] \in NumeralBytes
    BY <1>1
  <2> HIDE DEF r
  <2>3. LastWord(t) = SubSeq(t, r + 1, Len(t))
    BY <1>1, <2>1, <2>2, WordIs
  <2>4. Len(t) < r + 1 /\ r + 1 \in Int /\ Len(t) \in Int
    BY <2>1, <1>1
  <2> QED BY <2>3, <2>4, SubSeqEmpty
<1> QED BY <1>3, <1>5, <1>6, <1>7 DEF t, n

\* Nothing was read of a numeral when nothing was read.
LEMMA WordOfNothing == LastWord(<<>>) = <<>>
<1> DEFINE e == <<>>
<1>1. e \in Seq(Byte) /\ Len(e) = 0
  OBVIOUS
<1> HIDE DEF e
<1>2. PICK s \in 0 .. Len(e) : /\ s > 0 => e[s] \notin NumeralBytes
                              /\ \A i \in s + 1 .. Len(e) : e[i] \in NumeralBytes
  BY <1>1, WordStarts
<1>3. LastWord(e) = SubSeq(e, s + 1, Len(e))
  <2> HIDE DEF NumeralBytes
  <2> QED BY <1>1, <1>2, WordIs
<1>4. SubSeq(e, s + 1, Len(e)) = <<>>
  <2> DEFINE a == s + 1
             b == Len(e)
  <2>1. a \in Int /\ b \in Int /\ b < a
    BY <1>1, <1>2
  <2> HIDE DEF a, b
  <2>2. SubSeq(e, a, b) = <<>>
    BY <2>1, SubSeqEmpty
  <2> QED BY <2>2 DEF a, b
<1> QED BY <1>3, <1>4 DEF e

-----------------------------------------------------------------------------
(* The parts of a numeral that grows. *)

\* The parts a numeral has.
PartsSet ==
  [minus : BOOLEAN, int : Seq(Byte), hasFrac : BOOLEAN, frac : Seq(Byte),
   hasExp : BOOLEAN, expMinus : BOOLEAN, exp : Seq(Byte)]

\* Where a text is cut into its parts.
MarkOf(text) == FirstOf(ExpMark, text)
DotOf(text) == Min({FirstOf({Ascii.dot}, text), MarkOf(text)})
MinusOf(text) == Len(text) > 0 /\ text[1] = Ascii.minus
SignOf(text) == MarkOf(text) < Len(text) /\ text[MarkOf(text) + 1] \in {Ascii.minus, Ascii.plus}

\* Parts(), by where the text is cut.
LEMMA PartsAre ==
  ASSUME NEW text
  PROVE  Parts(text) =
           [minus |-> MinusOf(text),
            int |-> SubSeq(text, IF MinusOf(text) THEN 2 ELSE 1, DotOf(text) - 1),
            hasFrac |-> DotOf(text) < MarkOf(text),
            frac |-> SubSeq(text, DotOf(text) + 1, MarkOf(text) - 1),
            hasExp |-> MarkOf(text) <= Len(text),
            expMinus |-> SignOf(text) /\ text[MarkOf(text) + 1] = Ascii.minus,
            exp |-> SubSeq(text, IF SignOf(text) THEN MarkOf(text) + 2 ELSE MarkOf(text) + 1, Len(text))]
BY DEF Parts, MarkOf, DotOf, MinusOf, SignOf

\* A record of parts, field by field.
LEMMA Fields ==
  ASSUME NEW a, NEW b, NEW c, NEW d, NEW e, NEW f, NEW g, NEW x, NEW r,
         r = [minus |-> a, int |-> b, hasFrac |-> c, frac |-> d,
                 hasExp |-> e, expMinus |-> f, exp |-> g]
  PROVE  /\ r.minus = a /\ r.int = b /\ r.hasFrac = c /\ r.frac = d
         /\ r.hasExp = e /\ r.expMinus = f /\ r.exp = g
         /\ [r EXCEPT !.int = x] =
                [minus |-> a, int |-> x, hasFrac |-> c, frac |-> d,
                 hasExp |-> e, expMinus |-> f, exp |-> g]
         /\ [r EXCEPT !.hasFrac = x] =
                [minus |-> a, int |-> b, hasFrac |-> x, frac |-> d,
                 hasExp |-> e, expMinus |-> f, exp |-> g]
         /\ [r EXCEPT !.frac = x] =
                [minus |-> a, int |-> b, hasFrac |-> c, frac |-> x,
                 hasExp |-> e, expMinus |-> f, exp |-> g]
         /\ [r EXCEPT !.hasExp = x] =
                [minus |-> a, int |-> b, hasFrac |-> c, frac |-> d,
                 hasExp |-> x, expMinus |-> f, exp |-> g]
         /\ [r EXCEPT !.expMinus = x] =
                [minus |-> a, int |-> b, hasFrac |-> c, frac |-> d,
                 hasExp |-> e, expMinus |-> x, exp |-> g]
         /\ [r EXCEPT !.exp = x] =
                [minus |-> a, int |-> b, hasFrac |-> c, frac |-> d,
                 hasExp |-> e, expMinus |-> f, exp |-> x]
OBVIOUS

\* The cuts lie in the text, in their order, or behind it.
LEMMA CutFacts ==
  ASSUME NEW text \in Seq(Byte)
  PROVE  /\ Len(text) \in Nat
         /\ MarkOf(text) \in 1 .. Len(text) + 1
         /\ DotOf(text) \in 1 .. MarkOf(text)
         /\ MinusOf(text) => Len(text) > 0
         /\ SignOf(text) => MarkOf(text) < Len(text)
<1>1. MarkOf(text) \in 1 .. Len(text) + 1 /\ FirstOf({Ascii.dot}, text) \in 1 .. Len(text) + 1
  BY FirstFacts DEF MarkOf
<1>2. Len(text) \in Nat
  OBVIOUS
<1>3. DotOf(text) = IF FirstOf({Ascii.dot}, text) <= MarkOf(text)
                    THEN FirstOf({Ascii.dot}, text) ELSE MarkOf(text)
  <2> DEFINE a == FirstOf({Ascii.dot}, text)
             b == MarkOf(text)
  <2>1. a \in Int /\ b \in Int
    BY <1>1, <1>2
  <2> HIDE DEF a, b
  <2>2. Min({a, b}) = IF a <= b THEN a ELSE b
    BY <2>1, MinOfTwo
  <2> QED BY <2>2 DEF DotOf, a, b
<1> QED BY <1>1, <1>2, <1>3 DEF MinusOf, SignOf

\* A part of a text is one.
LEMMA PartIsText ==
  ASSUME NEW text \in Seq(Byte), NEW a \in Nat \ {0}, NEW b \in Int, b <= Len(text)
  PROVE  SubSeq(text, a, b) \in Seq(Byte)
<1>1. 0 \in Byte
  BY DEF Byte
<1> QED BY <1>1, PartKept

\* What is missing is empty.
LEMMA PartsFacts ==
  ASSUME NEW text \in Seq(Byte)
  PROVE  /\ Parts(text) \in PartsSet
         /\ ~Parts(text).hasFrac => Parts(text).frac = <<>>
         /\ ~Parts(text).hasExp => Parts(text).exp = <<>> /\ ~Parts(text).expMinus
<1> DEFINE n == Len(text)
           m == MarkOf(text)
           d == DotOf(text)
           minus == MinusOf(text)
           sign == SignOf(text)
           a == IF minus THEN 2 ELSE 1
           e == IF sign THEN m + 2 ELSE m + 1
<1>1. n \in Nat /\ m \in 1 .. n + 1 /\ d \in 1 .. m /\ (sign => m < n)
  BY CutFacts
<1>2. Parts(text) = [minus |-> minus, int |-> SubSeq(text, a, d - 1), hasFrac |-> d < m,
                     frac |-> SubSeq(text, d + 1, m - 1), hasExp |-> m <= n,
                     expMinus |-> sign /\ text[m + 1] = Ascii.minus, exp |-> SubSeq(text, e, n)]
  BY PartsAre
<1>3. minus \in BOOLEAN /\ sign \in BOOLEAN
  BY DEF MinusOf, SignOf
<1> HIDE DEF n, m, d, minus, sign
<1>4. /\ a \in Nat \ {0} /\ d - 1 \in Int /\ d - 1 <= n
      /\ d + 1 \in Nat \ {0} /\ m - 1 \in Int /\ m - 1 <= n
      /\ e \in Nat \ {0} /\ n \in Int /\ n <= n
  BY <1>1
<1> HIDE DEF a, e
<1>5. /\ SubSeq(text, a, d - 1) \in Seq(Byte) /\ SubSeq(text, d + 1, m - 1) \in Seq(Byte)
      /\ SubSeq(text, e, n) \in Seq(Byte)
  <2>1. SubSeq(text, a, d - 1) \in Seq(Byte)
    BY <1>4, PartIsText DEF n
  <2>2. SubSeq(text, d + 1, m - 1) \in Seq(Byte)
    BY <1>4, PartIsText DEF n
  <2>3. SubSeq(text, e, n) \in Seq(Byte)
    BY <1>4, PartIsText DEF n
  <2> QED BY <2>1, <2>2, <2>3
<1>6. Parts(text) \in PartsSet
  BY <1>2, <1>3, <1>5 DEF PartsSet
<1>7. ~(d < m) => SubSeq(text, d + 1, m - 1) = <<>>
  BY <1>1, SubSeqEmpty
<1>8. ~(m <= n) => SubSeq(text, e, n) = <<>> /\ ~sign
  <2> SUFFICES ASSUME ~(m <= n) PROVE SubSeq(text, e, n) = <<>> /\ ~sign
    OBVIOUS
  <2>1. ~sign /\ n < e /\ e \in Int
    BY <1>1 DEF e
  <2>2. n \in Int
    BY <1>1
  <2>3. SubSeq(text, e, n) = <<>>
    BY <2>1, <2>2, SubSeqEmpty
  <2> QED BY <2>1, <2>3
<1> DEFINE ip == SubSeq(text, a, d - 1)
           fp == SubSeq(text, d + 1, m - 1)
           ep == SubSeq(text, e, n)
           hf == d < m
           he == m <= n
           neg == sign /\ text[m + 1] = Ascii.minus
<1>12. Parts(text) = [minus |-> minus, int |-> ip, hasFrac |-> hf,
                     frac |-> fp, hasExp |-> he,
                     expMinus |-> neg, exp |-> ep]
  BY <1>2
<1> HIDE DEF ip, fp, ep, hf, he, neg
<1>9. /\ Parts(text).hasFrac = hf
      /\ Parts(text).frac = fp
      /\ Parts(text).hasExp = he
      /\ Parts(text).exp = ep
      /\ Parts(text).expMinus = neg
  BY <1>12
<1>10. ~Parts(text).hasFrac => Parts(text).frac = <<>>
  BY <1>7, <1>9 DEF hf, fp
<1>11. ~Parts(text).hasExp => Parts(text).exp = <<>> /\ ~Parts(text).expMinus
  BY <1>8, <1>9 DEF he, neg, ep
<1> QED BY <1>6, <1>10, <1>11

\* The cuts of a text with a byte more.
LEMMA CutsGrow ==
  ASSUME NEW text \in Seq(Byte), NEW ch \in Byte
  PROVE  /\ MarkOf(Append(text, ch)) =
              IF MarkOf(text) <= Len(text) THEN MarkOf(text)
              ELSE IF ch \in ExpMark THEN Len(text) + 1 ELSE Len(text) + 2
         /\ DotOf(Append(text, ch)) =
              IF DotOf(text) <= Len(text) THEN DotOf(text)
              ELSE IF ch \in ExpMark \cup {Ascii.dot} THEN Len(text) + 1 ELSE Len(text) + 2
         /\ MinusOf(Append(text, ch)) <=>
              IF Len(text) = 0 THEN ch = Ascii.minus ELSE MinusOf(text)
         /\ SignOf(Append(text, ch)) <=>
              IF MarkOf(text) = Len(text) THEN ch \in {Ascii.minus, Ascii.plus} ELSE SignOf(text)
<1> DEFINE t == Append(text, ch)
           n == Len(text)
           m == MarkOf(text)
           f == FirstOf({Ascii.dot}, text)
<1>1. /\ t \in Seq(Byte) /\ n \in Nat /\ Len(t) = n + 1 /\ t[n + 1] = ch
      /\ \A i \in 1 .. n : t[i] = text[i]
  OBVIOUS
<1>2. m \in 1 .. n + 1 /\ f \in 1 .. n + 1
  BY FirstFacts DEF MarkOf
<1>3. MarkOf(t) = IF m <= n THEN m ELSE IF ch \in ExpMark THEN n + 1 ELSE n + 2
  BY FirstGrows DEF MarkOf
<1>4. FirstOf({Ascii.dot}, t) = IF f <= n THEN f ELSE IF ch \in {Ascii.dot} THEN n + 1 ELSE n + 2
  BY FirstGrows
<1>5. DotOf(text) = IF f <= m THEN f ELSE m
  <2>1. f \in Int /\ m \in Int
    BY <1>1, <1>2
  <2>2. Min({f, m}) = IF f <= m THEN f ELSE m
    <3> HIDE DEF f, m
    <3> QED BY <2>1, MinOfTwo
  <2> QED BY <2>2 DEF DotOf
<1> DEFINE mt == MarkOf(t)
           ft == FirstOf({Ascii.dot}, t)
<1>6. DotOf(t) = IF ft <= mt THEN ft ELSE mt
  <2>1. ft \in Int /\ mt \in Int
    <3> HIDE DEF m, n, f
    <3> QED BY <1>1, <1>2, <1>3, <1>4
  <2> QED BY <2>1, MinOfTwo DEF DotOf
<1>7. MinusOf(t) <=> IF n = 0 THEN ch = Ascii.minus ELSE MinusOf(text)
  BY <1>1 DEF MinusOf
<1>8. SignOf(t) <=> IF m = n THEN ch \in {Ascii.minus, Ascii.plus} ELSE SignOf(text)
  <2> HIDE DEF t
  <2>1. CASE m = n
    <3>1. mt = n /\ n < Len(t) /\ t[n + 1] = ch
      BY <1>1, <1>3, <2>1
    <3> QED BY <2>1, <3>1 DEF SignOf
  <2>2. CASE m < n
    <3>1. mt = m /\ m < Len(t) /\ t[m + 1] = text[m + 1]
      BY <1>1, <1>2, <1>3, <2>2
    <3> QED BY <2>2, <3>1 DEF SignOf
  <2>3. CASE m = n + 1
    <3>1. ~(mt < Len(t)) /\ ~(m < n) /\ m # n
      BY <1>1, <1>2, <1>3, <2>3
    <3> QED BY <3>1 DEF SignOf
  <2> QED BY <1>1, <1>2, <2>1, <2>2, <2>3
<1> DEFINE d == DotOf(text)
           dt == DotOf(t)
<1>9. dt = IF d <= n THEN d ELSE IF ch \in ExpMark \cup {Ascii.dot} THEN n + 1 ELSE n + 2
  <2> HIDE DEF m, n, f, d, dt, mt, ft
  <2>1. CASE d <= n
    <3>1. CASE f <= m
      <4>1. f <= n /\ d = f /\ ft = f
        BY <1>1, <1>2, <1>4, <1>5, <2>1, <3>1 DEF d, ft
      <4>2. ft <= mt
        BY <1>1, <1>2, <1>3, <3>1, <4>1 DEF mt
      <4> QED BY <1>6, <2>1, <4>1, <4>2 DEF dt
    <3>2. CASE ~(f <= m)
      <4>1. m <= n /\ d = m /\ mt = m
        BY <1>1, <1>2, <1>3, <1>5, <2>1, <3>2 DEF d, mt
      <4>2. ~(ft <= mt)
        BY <1>1, <1>2, <1>4, <3>2, <4>1 DEF ft
      <4> QED BY <1>6, <2>1, <4>1, <4>2 DEF dt
    <3> QED BY <3>1, <3>2
  <2>2. CASE ~(d <= n)
    <3>1. f = n + 1 /\ m = n + 1
      BY <1>1, <1>2, <1>5, <2>2 DEF d
    <3>2. /\ ft = IF ch \in {Ascii.dot} THEN n + 1 ELSE n + 2
          /\ mt = IF ch \in ExpMark THEN n + 1 ELSE n + 2
      BY <1>1, <1>3, <1>4, <3>1 DEF ft, mt
    <3> QED BY <1>1, <1>6, <2>2, <3>2 DEF dt
  <2> QED BY <2>1, <2>2
<1> QED BY <1>1, <1>3, <1>7, <1>8, <1>9

\* A digit is one more of the last part.
LEMMA DigitGrows ==
  ASSUME NEW text \in Seq(Byte), NEW ch \in Digit
  PROVE  LET p == Parts(text)
         IN  Parts(Append(text, ch)) =
               IF p.hasExp THEN [p EXCEPT !.exp = Append(@, ch)]
               ELSE IF p.hasFrac THEN [p EXCEPT !.frac = Append(@, ch)]
               ELSE [p EXCEPT !.int = Append(@, ch)]
<1> DEFINE t == Append(text, ch)
           n == Len(text)
           m == MarkOf(text)
           d == DotOf(text)
           minus == MinusOf(text)
           sign == SignOf(text)
           a == IF minus THEN 2 ELSE 1
           e == IF sign THEN m + 2 ELSE m + 1
           neg == sign /\ text[m + 1] = Ascii.minus
           hf == d < m
           he == m <= n
           ip == SubSeq(text, a, d - 1)
           fp == SubSeq(text, d + 1, m - 1)
           ep == SubSeq(text, e, n)
<1>0. ch \in Byte /\ ch \notin ExpMark \cup {Ascii.dot, Ascii.minus, Ascii.plus}
  BY DEF Digit, Byte, ExpMark, Ascii
<1>1. n \in Nat /\ m \in 1 .. n + 1 /\ d \in 1 .. m /\ (sign => m < n) /\ (minus => n > 0)
  BY CutFacts
<1>2. Parts(text) = [minus |-> minus, int |-> ip, hasFrac |-> hf,
                     frac |-> fp, hasExp |-> he,
                     expMinus |-> neg, exp |-> ep]
  BY PartsAre
<1>3. /\ t \in Seq(Byte) /\ Len(t) = n + 1 /\ t[n + 1] = ch
      /\ \A i \in 1 .. n : t[i] = text[i]
  BY <1>0, OneMore
<1> DEFINE mt == IF m <= n THEN m ELSE n + 2
           dt == IF d <= n THEN d ELSE n + 2
           et == IF sign THEN mt + 2 ELSE mt + 1
<1>4. MarkOf(t) = mt /\ DotOf(t) = dt /\ (MinusOf(t) <=> minus) /\ (SignOf(t) <=> sign)
  <2>1. MarkOf(t) = mt /\ DotOf(t) = dt
    BY <1>0, CutsGrow
  <2>2. MinusOf(t) <=> minus
    BY <1>0, <1>1, CutsGrow
  <2>3. SignOf(t) <=> sign
    BY <1>0, <1>1, CutsGrow
  <2> QED BY <2>1, <2>2, <2>3
<1>5. Parts(t) = [minus |-> minus, int |-> SubSeq(t, a, dt - 1), hasFrac |-> dt < mt,
                  frac |-> SubSeq(t, dt + 1, mt - 1), hasExp |-> mt <= n + 1,
                  expMinus |-> neg, exp |-> SubSeq(t, et, n + 1)]
  <2>1. Parts(t) = [minus |-> MinusOf(t),
                    int |-> SubSeq(t, IF MinusOf(t) THEN 2 ELSE 1, dt - 1), hasFrac |-> dt < mt,
                    frac |-> SubSeq(t, dt + 1, mt - 1), hasExp |-> mt <= n + 1,
                    expMinus |-> SignOf(t) /\ t[mt + 1] = Ascii.minus,
                    exp |-> SubSeq(t, IF SignOf(t) THEN mt + 2 ELSE mt + 1, n + 1)]
    <3> HIDE DEF mt, dt
    <3> QED BY <1>3, <1>4, PartsAre
  <2>2. SignOf(t) /\ t[mt + 1] = Ascii.minus <=> neg
    BY <1>1, <1>3, <1>4
  <2>3. MinusOf(t) = minus /\ SignOf(t) = sign
    BY <1>4 DEF MinusOf, SignOf
  <2> HIDE DEF t, n, m, d, minus, sign, mt, dt, neg
  <2>4. (SignOf(t) /\ t[mt + 1] = Ascii.minus) = neg
    BY <2>2 DEF neg
  <2> QED BY <2>1, <2>3, <2>4
<1> HIDE DEF n, m, d, minus, sign, neg, hf, he, ip, fp, ep
<1>6. a \in 1 .. n + 1 /\ a \in Nat \ {0}
  BY <1>1
<1>7. CASE m <= n
  <2>1. mt = m /\ dt = d /\ et = e
    BY <1>1, <1>7
  <2>2. SubSeq(t, a, d - 1) = ip
    <3>1. d - 1 \in Int /\ d - 1 <= n
      BY <1>1
    <3> QED BY <1>0, <1>6, <3>1, PartKept DEF n, ip
  <2>3. SubSeq(t, d + 1, m - 1) = fp
    <3> DEFINE b == d + 1
               c == m - 1
    <3>1. b \in Nat \ {0} /\ c \in Int /\ c <= n
      BY <1>1
    <3> HIDE DEF b, c
    <3>2. SubSeq(t, b, c) = SubSeq(text, b, c)
      BY <1>0, <3>1, PartKept DEF n
    <3> QED BY <3>2 DEF b, c, fp
  <2>4. SubSeq(t, e, n + 1) = Append(ep, ch)
    <3>1. e \in 1 .. n + 1
      BY <1>1, <1>7
    <3> HIDE DEF e
    <3> QED BY <1>0, <3>1, PartGrows DEF n, ep
  <2>5. (mt <= n + 1) = he /\ (dt < mt) = hf
    BY <1>1, <1>7, <2>1 DEF he, hf
  <2> HIDE DEF a, e, mt, dt, et, t
  <2> DEFINE g == Append(ep, ch)
  <2>6. Parts(t) = [minus |-> minus, int |-> ip, hasFrac |-> hf,
                    frac |-> fp, hasExp |-> he,
                    expMinus |-> neg, exp |-> g]
    BY <1>5, <2>1, <2>2, <2>3, <2>4, <2>5
  <2> DEFINE P == Parts(text)
  <2> HIDE DEF g
  <2>7. P.hasExp = he /\ P.hasFrac = hf /\ P.exp = ep
    BY <1>2
  <2>8. [P EXCEPT !.exp = g] = Parts(t)
    BY <1>2, <2>6
  <2> QED BY <1>7, <2>7, <2>8 DEF t, he, hf, g
<1>8. CASE ~(m <= n) /\ d < m
  <2>1. m = n + 1 /\ mt = n + 2 /\ dt = d
    BY <1>1, <1>8
  <2>2. SubSeq(t, a, d - 1) = ip
    <3>1. d - 1 \in Int /\ d - 1 <= n
      BY <1>1
    <3> QED BY <1>0, <1>6, <3>1, PartKept DEF n, ip
  <2>3. SubSeq(t, d + 1, mt - 1) = Append(fp, ch)
    <3> DEFINE b == d + 1
    <3>1. b \in 1 .. n + 1 /\ mt - 1 = n + 1 /\ m - 1 = n
      BY <1>1, <1>8, <2>1
    <3> HIDE DEF b
    <3>2. SubSeq(t, b, n + 1) = Append(SubSeq(text, b, n), ch)
      BY <1>0, <3>1, PartGrows DEF n
    <3> QED BY <3>1, <3>2 DEF b, fp
  <2>4. SubSeq(t, et, n + 1) = <<>> /\ ep = <<>>
    <3>1. et \in Int /\ n + 1 \in Int /\ n + 1 < et /\ e \in Int /\ n \in Int /\ n < e
      BY <1>1, <2>1
    <3> HIDE DEF et, e
    <3> QED BY <3>1, SubSeqEmpty DEF ep
  <2>5. (mt <= n + 1) = he /\ (dt < mt) = hf
    BY <1>1, <1>8, <2>1 DEF he, hf
  <2> HIDE DEF a, e, mt, dt, et, t
  <2> DEFINE g == Append(fp, ch)
  <2>6. Parts(t) = [minus |-> minus, int |-> ip, hasFrac |-> hf,
                    frac |-> g, hasExp |-> he,
                    expMinus |-> neg, exp |-> ep]
    BY <1>5, <2>1, <2>2, <2>3, <2>4, <2>5
  <2> DEFINE P == Parts(text)
  <2> HIDE DEF g
  <2>7. P.hasExp = he /\ P.hasFrac = hf /\ P.frac = fp
    BY <1>2
  <2>8. [P EXCEPT !.frac = g] = Parts(t)
    BY <1>2, <2>6
  <2> QED BY <1>8, <2>7, <2>8 DEF t, he, hf, g
<1>9. CASE ~(m <= n) /\ ~(d < m)
  <2>1. m = n + 1 /\ d = n + 1 /\ mt = n + 2 /\ dt = n + 2
    BY <1>1, <1>9
  <2>2. SubSeq(t, a, dt - 1) = Append(ip, ch)
    <3>1. dt - 1 = n + 1 /\ d - 1 = n
      BY <1>1, <2>1
    <3> QED BY <1>0, <1>6, <3>1, PartGrows DEF n, ip
  <2>3. SubSeq(t, dt + 1, mt - 1) = <<>> /\ fp = <<>>
    <3>1. /\ dt + 1 \in Int /\ mt - 1 \in Int /\ mt - 1 < dt + 1
          /\ d + 1 \in Int /\ m - 1 \in Int /\ m - 1 < d + 1
      BY <1>1, <2>1
    <3> HIDE DEF dt, mt
    <3> QED BY <3>1, SubSeqEmpty DEF fp
  <2>4. SubSeq(t, et, n + 1) = <<>> /\ ep = <<>>
    <3>1. et \in Int /\ n + 1 \in Int /\ n + 1 < et /\ e \in Int /\ n \in Int /\ n < e
      BY <1>1, <2>1
    <3> HIDE DEF et, e
    <3> QED BY <3>1, SubSeqEmpty DEF ep
  <2>5. (mt <= n + 1) = he /\ (dt < mt) = hf
    BY <1>1, <1>9, <2>1 DEF he, hf
  <2> HIDE DEF a, e, mt, dt, et, t
  <2> DEFINE g == Append(ip, ch)
  <2>6. Parts(t) = [minus |-> minus, int |-> g, hasFrac |-> hf,
                    frac |-> fp, hasExp |-> he,
                    expMinus |-> neg, exp |-> ep]
    BY <1>5, <2>1, <2>2, <2>3, <2>4, <2>5
  <2> DEFINE P == Parts(text)
  <2> HIDE DEF g
  <2>7. P.hasExp = he /\ P.hasFrac = hf /\ P.int = ip
    BY <1>2
  <2>8. [P EXCEPT !.int = g] = Parts(t)
    BY <1>2, <2>6
  <2> QED BY <1>9, <2>7, <2>8 DEF t, he, hf, g
<1> QED BY <1>7, <1>8, <1>9

\* A text with a byte more: what is cut where.
LEMMA PartsGrow ==
  ASSUME NEW text \in Seq(Byte), NEW ch \in Byte, Len(text) > 0
  PROVE  LET t == Append(text, ch)
         IN  Parts(t) =
               [minus |-> MinusOf(text),
                int |-> SubSeq(t, IF MinusOf(text) THEN 2 ELSE 1, DotOf(t) - 1),
                hasFrac |-> DotOf(t) < MarkOf(t),
                frac |-> SubSeq(t, DotOf(t) + 1, MarkOf(t) - 1),
                hasExp |-> MarkOf(t) <= Len(text) + 1,
                expMinus |-> SignOf(t) /\ t[MarkOf(t) + 1] = Ascii.minus,
                exp |-> SubSeq(t, IF SignOf(t) THEN MarkOf(t) + 2 ELSE MarkOf(t) + 1, Len(text) + 1)]
<1> DEFINE t == Append(text, ch)
<1>1. MinusOf(t) = MinusOf(text)
  <2>1. MinusOf(t) <=> MinusOf(text)
    BY CutsGrow
  <2> QED BY <2>1 DEF MinusOf
<1>2. Len(t) = Len(text) + 1
  BY OneMore
<1> HIDE DEF t
<1>3. Parts(t) =
       [minus |-> MinusOf(text),
        int |-> SubSeq(t, IF MinusOf(text) THEN 2 ELSE 1, DotOf(t) - 1),
        hasFrac |-> DotOf(t) < MarkOf(t),
        frac |-> SubSeq(t, DotOf(t) + 1, MarkOf(t) - 1),
        hasExp |-> MarkOf(t) <= Len(text) + 1,
        expMinus |-> SignOf(t) /\ t[MarkOf(t) + 1] = Ascii.minus,
        exp |-> SubSeq(t, IF SignOf(t) THEN MarkOf(t) + 2 ELSE MarkOf(t) + 1, Len(text) + 1)]
  BY <1>1, <1>2, PartsAre
<1> QED BY <1>3 DEF t

\* A point begins the decimals,
LEMMA DotGrows ==
  ASSUME NEW text \in Seq(Byte), Len(text) > 0, DotOf(text) > Len(text)
  PROVE  Parts(Append(text, Ascii.dot)) = [Parts(text) EXCEPT !.hasFrac = TRUE]
<1> DEFINE ch == Ascii.dot
           t == Append(text, ch)
           n == Len(text)
           m == MarkOf(text)
           d == DotOf(text)
           minus == MinusOf(text)
           sign == SignOf(text)
           a == IF minus THEN 2 ELSE 1
           e == IF sign THEN m + 2 ELSE m + 1
           neg == sign /\ text[m + 1] = Ascii.minus
           hf == d < m
           he == m <= n
           ip == SubSeq(text, a, d - 1)
           fp == SubSeq(text, d + 1, m - 1)
           ep == SubSeq(text, e, n)
           P == Parts(text)
<1>0. ch \in Byte /\ ch \notin ExpMark /\ ch \in {Ascii.dot}
  BY DEF Byte, ExpMark, Ascii
<1>1. n \in Nat /\ n > 0 /\ m \in 1 .. n + 1 /\ d \in 1 .. m /\ (sign => m < n) /\ (minus => n > 0)
  BY CutFacts
<1>2. P = [minus |-> minus, int |-> ip, hasFrac |-> hf,
           frac |-> fp, hasExp |-> he, expMinus |-> neg, exp |-> ep]
  BY PartsAre
<1>4. m = n + 1 /\ d = n + 1 /\ ~sign
  BY <1>1
<1>5. MarkOf(t) = n + 2 /\ DotOf(t) = n + 1 /\ ~SignOf(t)
  <2>1. MarkOf(t) = n + 2 /\ DotOf(t) = n + 1
    BY <1>0, <1>1, <1>4, CutsGrow
  <2>2. ~SignOf(t)
    BY <1>0, <1>1, <1>4, CutsGrow
  <2> QED BY <2>1, <2>2
<1> DEFINE mt == MarkOf(t)
           dt == DotOf(t)
           et == IF SignOf(t) THEN mt + 2 ELSE mt + 1
           negt == SignOf(t) /\ t[mt + 1] = Ascii.minus
           hft == dt < mt
           het == mt <= n + 1
           ipt == SubSeq(t, a, dt - 1)
           fpt == SubSeq(t, dt + 1, mt - 1)
           ept == SubSeq(t, et, n + 1)
<1>6. Parts(t) = [minus |-> minus, int |-> ipt, hasFrac |-> hft, frac |-> fpt, hasExp |-> het,
                  expMinus |-> negt, exp |-> ept]
  BY <1>0, PartsGrow
<1>7. ipt = ip
  <2> DEFINE b == dt - 1
  <2>1. a \in Nat \ {0} /\ b = d - 1 /\ b \in Int /\ b <= n
    BY <1>1, <1>4, <1>5
  <2> HIDE DEF a, b, ch
  <2>2. SubSeq(Append(text, ch), a, b) = SubSeq(text, a, b)
    BY <1>0, <2>1, PartKept
  <2> QED BY <2>1, <2>2 DEF b
<1>8. fpt = fp /\ ept = ep
  <2>1. /\ dt + 1 \in Int /\ mt - 1 \in Int /\ mt - 1 < dt + 1
        /\ d + 1 \in Int /\ m - 1 \in Int /\ m - 1 < d + 1
        /\ et \in Int /\ n + 1 \in Int /\ n + 1 < et
        /\ e \in Int /\ n \in Int /\ n < e
    BY <1>1, <1>4, <1>5
  <2> HIDE DEF dt, mt, d, m, et, n, e, t
  <2>2. fpt = <<>> /\ fp = <<>>
    BY <2>1, SubSeqEmpty
  <2>3. ept = <<>> /\ ep = <<>>
    BY <2>1, SubSeqEmpty
  <2> QED BY <2>2, <2>3
<1>9. het = he /\ negt = neg
  <2>1. het = FALSE /\ he = FALSE
    BY <1>1, <1>4, <1>5
  <2>2. negt = FALSE /\ neg = FALSE
    BY <1>4, <1>5 DEF SignOf
  <2> QED BY <2>1, <2>2
<1>11. hft = TRUE
  BY <1>1, <1>4, <1>5
<1> HIDE DEF t, n, m, d, minus, sign, a, e, neg, hf, he, ip, fp, ep, mt, dt, et, negt, hft, het, ipt, fpt, ept, ch
<1>10. Parts(t) = [P EXCEPT !.hasFrac = hft]
  BY <1>2, <1>6, <1>7, <1>8, <1>9
<1> QED BY <1>10, <1>11 DEF t, ch
\* an e begins the exponent,
LEMMA MarkGrows ==
  ASSUME NEW text \in Seq(Byte), NEW ch \in ExpMark, Len(text) > 0, MarkOf(text) > Len(text)
  PROVE  /\ Parts(Append(text, ch)) = [Parts(text) EXCEPT !.hasExp = TRUE]
         /\ MarkOf(Append(text, ch)) = Len(text) + 1
<1> DEFINE t == Append(text, ch)
           n == Len(text)
           m == MarkOf(text)
           d == DotOf(text)
           minus == MinusOf(text)
           sign == SignOf(text)
           a == IF minus THEN 2 ELSE 1
           e == IF sign THEN m + 2 ELSE m + 1
           neg == sign /\ text[m + 1] = Ascii.minus
           hf == d < m
           he == m <= n
           ip == SubSeq(text, a, d - 1)
           fp == SubSeq(text, d + 1, m - 1)
           ep == SubSeq(text, e, n)
           P == Parts(text)
<1>0. ch \in Byte
  BY DEF Byte, ExpMark, Ascii
<1>1. n \in Nat /\ n > 0 /\ m \in 1 .. n + 1 /\ d \in 1 .. m /\ (sign => m < n) /\ (minus => n > 0)
  BY CutFacts
<1>2. P = [minus |-> minus, int |-> ip, hasFrac |-> hf,
           frac |-> fp, hasExp |-> he, expMinus |-> neg, exp |-> ep]
  BY PartsAre
<1>4. m = n + 1 /\ ~sign
  BY <1>1
<1>5. MarkOf(t) = n + 1 /\ DotOf(t) = d /\ ~SignOf(t)
  <2>1. MarkOf(t) = n + 1 /\ DotOf(t) = d
    BY <1>0, <1>1, <1>4, CutsGrow
  <2>2. ~SignOf(t)
    BY <1>0, <1>1, <1>4, CutsGrow
  <2> QED BY <2>1, <2>2
<1> DEFINE mt == MarkOf(t)
           dt == DotOf(t)
           et == IF SignOf(t) THEN mt + 2 ELSE mt + 1
           negt == SignOf(t) /\ t[mt + 1] = Ascii.minus
           hft == dt < mt
           het == mt <= n + 1
           ipt == SubSeq(t, a, dt - 1)
           fpt == SubSeq(t, dt + 1, mt - 1)
           ept == SubSeq(t, et, n + 1)
<1>6. Parts(t) = [minus |-> minus, int |-> ipt, hasFrac |-> hft, frac |-> fpt, hasExp |-> het,
                  expMinus |-> negt, exp |-> ept]
  BY <1>0, PartsGrow
<1>7. ipt = ip /\ fpt = fp
  <2> DEFINE b == d - 1
             c == d + 1
             f == m - 1
  <2>1. /\ a \in Nat \ {0} /\ dt - 1 = b /\ b \in Int /\ b <= n
        /\ dt + 1 = c /\ c \in Nat \ {0} /\ mt - 1 = f /\ f \in Int /\ f <= n
    BY <1>1, <1>4, <1>5
  <2> HIDE DEF a, b, c, f
  <2>2. SubSeq(t, a, b) = SubSeq(text, a, b)
    BY <1>0, <2>1, PartKept
  <2>3. SubSeq(t, c, f) = SubSeq(text, c, f)
    BY <1>0, <2>1, PartKept
  <2> HIDE DEF t, d, dt, m, mt
  <2>4. ipt = ip
    BY <2>1, <2>2 DEF b
  <2>5. fpt = fp
    BY <2>1, <2>3 DEF c, f
  <2> QED BY <2>4, <2>5
<1>8. ept = ep
  <2>1. /\ et \in Int /\ n + 1 \in Int /\ n + 1 < et
        /\ e \in Int /\ n \in Int /\ n < e
    BY <1>1, <1>4, <1>5
  <2> HIDE DEF et, n, e, t
  <2> QED BY <2>1, SubSeqEmpty
<1>9. hft = hf /\ negt = neg
  <2>1. hft = hf
    BY <1>1, <1>4, <1>5
  <2>2. negt = FALSE /\ neg = FALSE
    BY <1>4, <1>5 DEF SignOf
  <2> QED BY <2>1, <2>2
<1>11. het = TRUE
  BY <1>1, <1>4, <1>5
<1> HIDE DEF t, n, m, d, minus, sign, a, e, neg, hf, he, ip, fp, ep, mt, dt, et, negt, hft, het, ipt, fpt, ept
<1>10. Parts(t) = [P EXCEPT !.hasExp = het]
  BY <1>2, <1>6, <1>7, <1>8, <1>9
<1> QED BY <1>5, <1>10, <1>11 DEF t, n

\* and a sign behind it is the sign of the exponent.
LEMMA SignGrows ==
  ASSUME NEW text \in Seq(Byte), NEW ch \in {Ascii.minus, Ascii.plus},
         Len(text) > 0, MarkOf(text) = Len(text)
  PROVE  Parts(Append(text, ch)) = [Parts(text) EXCEPT !.expMinus = (ch = Ascii.minus)]
<1> DEFINE t == Append(text, ch)
           n == Len(text)
           m == MarkOf(text)
           d == DotOf(text)
           minus == MinusOf(text)
           sign == SignOf(text)
           a == IF minus THEN 2 ELSE 1
           e == IF sign THEN m + 2 ELSE m + 1
           neg == sign /\ text[m + 1] = Ascii.minus
           hf == d < m
           he == m <= n
           ip == SubSeq(text, a, d - 1)
           fp == SubSeq(text, d + 1, m - 1)
           ep == SubSeq(text, e, n)
           P == Parts(text)
<1>0. ch \in Byte
  BY DEF Byte, Ascii
<1>1. n \in Nat /\ n > 0 /\ m \in 1 .. n + 1 /\ d \in 1 .. m /\ (sign => m < n) /\ (minus => n > 0)
  BY CutFacts
<1>2. P = [minus |-> minus, int |-> ip, hasFrac |-> hf,
           frac |-> fp, hasExp |-> he, expMinus |-> neg, exp |-> ep]
  BY PartsAre
<1>4. m = n /\ ~sign
  BY <1>1
<1>5. MarkOf(t) = n /\ DotOf(t) = d /\ SignOf(t)
  <2>1. MarkOf(t) = n /\ DotOf(t) = d
    BY <1>0, <1>1, <1>4, CutsGrow
  <2>2. SignOf(t)
    BY <1>0, <1>1, <1>4, CutsGrow
  <2> QED BY <2>1, <2>2
<1> DEFINE mt == MarkOf(t)
           dt == DotOf(t)
           et == IF SignOf(t) THEN mt + 2 ELSE mt + 1
           negt == SignOf(t) /\ t[mt + 1] = Ascii.minus
           hft == dt < mt
           het == mt <= n + 1
           ipt == SubSeq(t, a, dt - 1)
           fpt == SubSeq(t, dt + 1, mt - 1)
           ept == SubSeq(t, et, n + 1)
<1>6. Parts(t) = [minus |-> minus, int |-> ipt, hasFrac |-> hft, frac |-> fpt, hasExp |-> het,
                  expMinus |-> negt, exp |-> ept]
  BY <1>0, PartsGrow
<1>7. ipt = ip /\ fpt = fp
  <2> DEFINE b == d - 1
             c == d + 1
             f == m - 1
  <2>1. /\ a \in Nat \ {0} /\ dt - 1 = b /\ b \in Int /\ b <= n
        /\ dt + 1 = c /\ c \in Nat \ {0} /\ mt - 1 = f /\ f \in Int /\ f <= n
    BY <1>1, <1>4, <1>5
  <2> HIDE DEF a, b, c, f
  <2>2. SubSeq(t, a, b) = SubSeq(text, a, b)
    BY <1>0, <2>1, PartKept
  <2>3. SubSeq(t, c, f) = SubSeq(text, c, f)
    BY <1>0, <2>1, PartKept
  <2> HIDE DEF t, d, dt, m, mt
  <2>4. ipt = ip
    BY <2>1, <2>2 DEF b
  <2>5. fpt = fp
    BY <2>1, <2>3 DEF c, f
  <2> QED BY <2>4, <2>5
<1>8. ept = ep
  <2>1. /\ et \in Int /\ n + 1 \in Int /\ n + 1 < et
        /\ e \in Int /\ n \in Int /\ n < e
    BY <1>1, <1>4, <1>5
  <2> HIDE DEF et, n, e, t
  <2> QED BY <2>1, SubSeqEmpty
<1>9. hft = hf /\ het = he
  BY <1>1, <1>4, <1>5
<1>11. negt = (ch = Ascii.minus)
  <2>1. t[mt + 1] = ch
    <3>1. Append(text, ch)[Len(text) + 1] = ch
      BY <1>0, OneMore
    <3> QED BY <1>5, <3>1
  <2> QED BY <1>5, <2>1
<1> HIDE DEF t, n, m, d, minus, sign, a, e, neg, hf, he, ip, fp, ep, mt, dt, et, negt, hft, het, ipt, fpt, ept
<1>10. Parts(t) = [P EXCEPT !.expMinus = negt]
  BY <1>2, <1>6, <1>7, <1>8, <1>9
<1> QED BY <1>10, <1>11 DEF t

\* Where the cuts are is known from the parts.
LEMMA CutsKnown ==
  ASSUME NEW text \in Seq(Byte)
  PROVE  /\ Parts(text).minus <=> MinusOf(text)
         /\ Parts(text).hasExp <=> MarkOf(text) <= Len(text)
         /\ Parts(text).hasFrac <=> DotOf(text) < MarkOf(text)
         /\ ~Parts(text).hasExp => MarkOf(text) = Len(text) + 1
         /\ ~Parts(text).hasExp /\ ~Parts(text).hasFrac => DotOf(text) > Len(text)
<1> DEFINE he == MarkOf(text) <= Len(text)
           hf == DotOf(text) < MarkOf(text)
<1>1. /\ Parts(text).minus = MinusOf(text)
      /\ Parts(text).hasExp = he
      /\ Parts(text).hasFrac = hf
  BY PartsAre
<1>2. /\ Len(text) \in Nat
      /\ MarkOf(text) \in 1 .. Len(text) + 1
      /\ DotOf(text) \in 1 .. MarkOf(text)
  BY CutFacts
<1>3. /\ ~he => MarkOf(text) = Len(text) + 1
      /\ ~he /\ ~hf => DotOf(text) > Len(text)
  BY <1>2
<1> HIDE DEF he, hf
<1>4. /\ Parts(text).minus <=> MinusOf(text)
      /\ Parts(text).hasExp <=> he
      /\ Parts(text).hasFrac <=> hf
      /\ ~Parts(text).hasExp => MarkOf(text) = Len(text) + 1
      /\ ~Parts(text).hasExp /\ ~Parts(text).hasFrac => DotOf(text) > Len(text)
  BY <1>1, <1>3, Zenon
<1> QED BY <1>4 DEF he, hf

\* Nothing, and a minus, taken apart.
EmptyParts == [minus |-> FALSE, int |-> <<>>, hasFrac |-> FALSE, frac |-> <<>>,
               hasExp |-> FALSE, expMinus |-> FALSE, exp |-> <<>>]

\* The parts of a numeral of which nothing was read.
LEMMA PartsOfNothing ==
  /\ Parts(<<>>) = EmptyParts
  /\ MarkOf(<<>>) = 1 /\ DotOf(<<>>) = 1 /\ ~MinusOf(<<>>) /\ ~SignOf(<<>>)
<1> DEFINE e == <<>>
<1>1. e \in Seq(Byte) /\ Len(e) = 0
  OBVIOUS
<1>2. MarkOf(e) = 1 /\ DotOf(e) = 1 /\ MinusOf(e) = FALSE /\ SignOf(e) = FALSE
  <2>1. MarkOf(e) = 1 /\ DotOf(e) = 1
    <3> HIDE DEF e
    <3>1. MarkOf(e) \in 1 .. 0 + 1 /\ DotOf(e) \in 1 .. MarkOf(e)
      <4>1. MarkOf(e) \in 1 .. Len(e) + 1 /\ DotOf(e) \in 1 .. MarkOf(e)
        BY <1>1, CutFacts, Zenon
      <4> QED BY <1>1, <4>1
    <3> QED BY <3>1
  <2> QED BY <1>1, <2>1 DEF MinusOf, SignOf
<1>3. SubSeq(e, 1, 0) = <<>> /\ SubSeq(e, 2, 0) = <<>>
  <2> HIDE DEF e
  <2> QED BY SubSeqEmpty
<1> DEFINE ip == SubSeq(e, IF MinusOf(e) THEN 2 ELSE 1, DotOf(e) - 1)
           fp == SubSeq(e, DotOf(e) + 1, MarkOf(e) - 1)
           ep == SubSeq(e, IF SignOf(e) THEN MarkOf(e) + 2 ELSE MarkOf(e) + 1, Len(e))
           hf == DotOf(e) < MarkOf(e)
           he == MarkOf(e) <= Len(e)
           neg == SignOf(e) /\ e[MarkOf(e) + 1] = Ascii.minus
<1>4. ip = <<>> /\ fp = <<>> /\ ep = <<>>
  <2> HIDE DEF e
  <2> QED BY <1>1, <1>2, <1>3
<1>5. hf = FALSE /\ he = FALSE /\ neg = FALSE
  <2> HIDE DEF e
  <2> QED BY <1>1, <1>2
<1>6. Parts(e) = [minus |-> MinusOf(e), int |-> ip, hasFrac |-> hf, frac |-> fp,
                  hasExp |-> he, expMinus |-> neg, exp |-> ep]
  <2> HIDE DEF e
  <2> QED BY PartsAre
<1>7. Parts(e) = EmptyParts
  <2> HIDE DEF e, ip, fp, ep, hf, he, neg
  <2> QED BY <1>2, <1>4, <1>5, <1>6 DEF EmptyParts
<1> QED BY <1>2, <1>7

-----------------------------------------------------------------------------
(* The number of the digits of a text that grows. *)

\* No digits are zero, and digits are a number that is told apart or MaxU + 1.
LEMMA NumberFacts ==
  /\ NumberOf(<<>>) = 0
  /\ \A ds \in Seq(Digit) : NumberOf(ds) \in 0 .. MaxU + 1
<1>1. ASSUME NEW ds \in Seq(Digit) PROVE NumberOf(ds) \in 0 .. MaxU + 1
  <2>1. PICK f : Counts(ds, f, Len(ds))
    BY CountsExist
  <2>2. f[Len(ds)] \in 0 .. MaxU + 1
    BY <2>1 DEF Counts
  <2> QED BY <2>1, <2>2, NumberIs
<1>2. NumberOf(<<>>) = 0
  <2> DEFINE e == <<>>
  <2>1. e \in Seq(Digit) /\ Len(e) = 0
    OBVIOUS
  <2> HIDE DEF e
  <2>2. PICK f : Counts(e, f, Len(e))
    BY <2>1, CountsExist
  <2>3. NumberOf(e) = f[0]
    BY <2>1, <2>2, NumberIs
  <2> QED BY <2>2, <2>3 DEF Counts, e
<1> QED BY <1>1, <1>2

\* A digit more multiplies by ten and adds (READ of a digit in parser.c).
LEMMA NumberGrows ==
  ASSUME NEW ds \in Seq(Digit), NEW ch \in Digit
  PROVE  /\ NumberOf(Append(ds, ch)) =
              IF 10 * NumberOf(ds) + (ch - 48) <= MaxU
              THEN 10 * NumberOf(ds) + (ch - 48) ELSE MaxU + 1
         /\ Append(ds, ch) \in Seq(Digit)
<1> DEFINE es == Append(ds, ch)
           n == Len(ds)
<1>1. /\ es \in Seq(Digit) /\ Len(es) = n + 1 /\ es[n + 1] = ch
      /\ \A i \in 1 .. n : es[i] = ds[i]
  BY OneMore
<1>2. n \in Nat
  OBVIOUS
<1>3. PICK f : Counts(ds, f, n)
  BY CountsExist
<1> HIDE DEF es
<1>4. PICK g : Counts(es, g, n + 1)
  BY <1>1, CountsExist
<1>5. f[n] = g[n]
  <2>1. n <= n /\ n <= n + 1 /\ n + 1 \in Nat /\ \A k \in 1 .. n : ds[k] = es[k]
    BY <1>1, <1>2
  <2> HIDE DEF n
  <2> QED BY <1>2, <1>3, <1>4, <2>1, CountsAgree
<1>6. NumberOf(ds) = f[n] /\ NumberOf(es) = g[n + 1]
  BY <1>1, <1>3, <1>4, NumberIs
<1>7. g[n + 1] = More(g[n], ch)
  <2>1. g[n + 1] = More(g[(n + 1) - 1], es[n + 1])
    BY <1>2, <1>4 DEF Counts
  <2> QED BY <1>1, <1>2, <2>1
<1>8. NumberOf(ds) \in 0 .. MaxU + 1
  BY NumberFacts
<1>9. NumberOf(es) = More(NumberOf(ds), ch)
  BY <1>5, <1>6, <1>7
<1> QED BY <1>1, <1>8, <1>9, MoreFacts DEF es

\* A digit does not fit if the code finds so.
LEMMA OverflowIs ==
  ASSUME NEW n \in 0 .. MaxU, NEW ch \in Digit
  PROVE  /\ Overflows(n, ch - Ascii.zero) <=> 10 * n + (ch - 48) > MaxU
         /\ ~Overflows(n, ch - Ascii.zero) => Shift10(n, ch - Ascii.zero) = 10 * n + (ch - 48)
<1>1. Ascii.zero = 48 /\ ch \in 48 .. 57 /\ MaxU \in Nat /\ MaxU >= 9
  BY NumberAssumption DEF Ascii, Digit
<1> DEFINE d == ch - 48
<1>2. d \in 0 .. 9
  BY <1>1
<1> HIDE DEF d
<1>3. Overflows(n, d) <=> 10 * n + d > MaxU
  <2>1. (MaxU - 9) \div 10 < n <=> 10 * n > MaxU - 9
    BY <1>1
  <2>2. (MaxU - d) \div 10 < n <=> 10 * n > MaxU - d
    BY <1>1, <1>2
  <2> QED BY <1>1, <1>2, <2>1, <2>2 DEF Overflows
<1>4. ASSUME 10 * n + d <= MaxU PROVE Shift10(n, d) = 10 * n + d
  <2> DEFINE x == 10 * n + d
             m == MaxU + 1
  <2>1. x \in Nat /\ m \in Nat /\ x < m
    BY <1>1, <1>2, <1>4
  <2> HIDE DEF x, m
  <2>2. x % m = x
    BY <2>1
  <2> QED BY <2>2 DEF Shift10, Uint, x, m
<1>5. 10 * n + d \in Int /\ MaxU \in Int
  BY <1>1, <1>2
<1> QED BY <1>1, <1>3, <1>4, <1>5 DEF d

-----------------------------------------------------------------------------
(* The digits that are dropped. *)

\* The first digit that does not fit rounds those in front of it.
LEMMA DropFirst ==
  ASSUME NEW ds \in Seq(Digit), NEW ch \in Digit, Fits64(ds),
         10 * NumberOf(ds) + (ch - 48) > MaxU \/ Len(ds) = MaxU
  PROVE  RoundedTo(Append(ds, ch), RoundUp(NumberOf(ds), ch - Ascii.zero), 1)
<1> DEFINE es == Append(ds, ch)
           n == Len(ds)
           kept == NumberOf(ds)
<1>1. n \in Nat /\ Ascii.zero = 48
  BY DEF Ascii
<1>2. Len(es) = n + 1 /\ es[n + 1] = ch /\ es \in Seq(Digit)
  BY OneMore
<1>3. SubSeq(es, 1, n) = ds
  <2>1. SubSeq(es, 1, n) = SubSeq(ds, 1, n)
    <3>1. 1 \in Nat \ {0} /\ n \in Int /\ n <= Len(ds)
      BY <1>1
    <3> HIDE DEF n
    <3> QED BY <3>1, PartKept
  <2>2. SubSeq(ds, 1, n) = ds
    OBVIOUS
  <2> QED BY <2>1, <2>2
<1>4. /\ 1 \in 1 .. Len(es) /\ Len(es) - 1 = n /\ n + 1 \in 1 .. n + 1
  BY <1>1, <1>2
<1> HIDE DEF es, n
<1>5. /\ SubSeq(es, 1, Len(es) - 1) = ds
      /\ es[Len(es) - 1 + 1] = ch
  BY <1>1, <1>2, <1>3, <1>4
<1> HIDE DEF kept
<1>6. /\ 10 * kept + (ch - 48) > MaxU \/ Len(es) - 1 = MaxU
      /\ RoundUp(kept, ch - 48) = IF ch - 48 >= 5 /\ kept < MaxU THEN kept + 1 ELSE kept
  BY <1>4 DEF RoundUp, kept, n
<1>7. RoundedTo(es, RoundUp(kept, ch - 48), 1)
  BY <1>1, <1>4, <1>5, <1>6 DEF RoundedTo, kept
<1> QED BY <1>1, <1>7 DEF es, kept

\* More of them change nothing.
LEMMA DropMore ==
  ASSUME NEW ds \in Seq(Digit), NEW ch \in Digit, NEW n, NEW k, RoundedTo(ds, n, k)
  PROVE  RoundedTo(Append(ds, ch), n, k + 1)
<1> DEFINE es == Append(ds, ch)
           l == Len(ds)
           j == l - k
<1>1. l \in Nat /\ k \in 1 .. l /\ j \in Nat /\ j <= l /\ j + 1 \in 1 .. l
  BY DEF RoundedTo
<1>2. Len(es) = l + 1 /\ \A i \in 1 .. l : es[i] = ds[i]
  BY OneMore
<1>3. SubSeq(es, 1, j) = SubSeq(ds, 1, j)
  <2>1. 1 \in Nat \ {0} /\ j \in Int /\ j <= Len(ds)
    BY <1>1
  <2> HIDE DEF j
  <2> QED BY <2>1, PartKept
<1>4. Len(es) - (k + 1) = j /\ k + 1 \in 1 .. Len(es)
  BY <1>1, <1>2
<1>5. es[j + 1] = ds[j + 1]
  BY <1>1, <1>2
<1>6. LET kept == NumberOf(SubSeq(ds, 1, j))
          next == ds[j + 1] - Ascii.zero
      IN  /\ 10 * kept + next > MaxU \/ j = MaxU
          /\ n = IF next >= 5 /\ kept < MaxU THEN kept + 1 ELSE kept
  BY DEF RoundedTo
<1> HIDE DEF es, j, l
<1> QED BY <1>3, <1>4, <1>5, <1>6 DEF RoundedTo, es

-----------------------------------------------------------------------------
(* What was read of a numeral. *)

\* The label says which part of the numeral was read last.
NegLabels == {"num.neg", "txt.neg"}
ZeroLabels == {"num.zero", "txt.zero"}
IntLabels == {"num.int", "num.big", "txt.int"}
DotLabels == {"num.dot", "txt.dot"}
FracLabels == {"num.dec", "num.decmore", "txt.frac"}
ExpLabels == {"num.exp", "txt.exp"}
SignLabels == {"num.expneg", "num.exppos", "txt.expsign"}
ExpDigitLabels == {"num.expd", "num.expinf", "txt.expd"}

\* No part of that kind was read.
NoFrac(p) == ~p.hasFrac /\ p.frac = <<>>
NoExp(p) == ~p.hasExp /\ p.exp = <<>> /\ ~p.expMinus
\* The integer part, and it with decimals, is complete.
IntRead(p) == IsDigits(p.int) /\ (p.int[1] = Ascii.zero => Len(p.int) = 1)
MantissaRead(p) == IntRead(p) /\ (p.hasFrac => IsDigits(p.frac)) /\ (~p.hasFrac => p.frac = <<>>)

\* What was read of a numeral, part by part.
Blank(p) == p.int = <<>> /\ NoFrac(p) /\ NoExp(p)
\* A zero, and nothing behind it.
ZeroRead(p) == p.int = <<Ascii.zero>> /\ NoFrac(p) /\ NoExp(p)
\* Digits, and nothing behind them.
WholeRead(p) == IsDigits(p.int) /\ p.int[1] # Ascii.zero /\ NoFrac(p) /\ NoExp(p)
\* The dot was read last.
DotRead(p) == IntRead(p) /\ p.hasFrac /\ p.frac = <<>> /\ NoExp(p)
\* Decimals were read last.
FracRead(p) == IntRead(p) /\ p.hasFrac /\ IsDigits(p.frac) /\ NoExp(p)
\* The mark of the exponent was read last, or its sign.
SignRead(p) == MantissaRead(p) /\ p.hasExp /\ p.exp = <<>>
\* Digits of the exponent were read last.
ExpRead(p) == MantissaRead(p) /\ p.hasExp /\ IsDigits(p.exp)

\* Only digits stand where digits belong.
AllDigits(p) == p.int \in Seq(Digit) /\ p.frac \in Seq(Digit) /\ p.exp \in Seq(Digit)

\* What was read up to a label of the scanners: the same for both.
Shape(l, p) ==
  /\ AllDigits(p)
  /\ l \in NegLabels => Blank(p)
  /\ l \in ZeroLabels => ZeroRead(p)
  /\ l \in IntLabels => WholeRead(p)
  /\ l \in DotLabels => DotRead(p)
  /\ l \in FracLabels => FracRead(p)
  /\ l \in ExpLabels => SignRead(p) /\ ~p.expMinus
  /\ l \in SignLabels => SignRead(p)
  /\ l \in ExpDigitLabels => ExpRead(p)

\* The same of a text; the sign of the exponent comes right behind the mark.
Shaped(l, u) ==
  /\ Shape(l, Parts(u)) /\ u # <<>>
  /\ l \in ExpLabels => MarkOf(u) = Len(u)

\* What the components hold of the integer part, of the decimals and of the exponent.
IntHeld(p, c) ==
  IF Fits64(p.int) THEN c.integer = NumberOf(p.int) /\ c.exponent = 0
                   ELSE RoundedTo(p.int, c.integer, c.exponent)
\* All decimals were counted, or some were dropped.
DecExact(p, c) ==
  c.decimal = NumberOf(p.frac) /\ c.decimal_places = Len(p.frac) /\ Fits64(p.frac)
DecDropped(p, c) ==
  /\ RoundedTo(p.frac, c.decimal, Len(p.frac) - c.decimal_places)
  /\ Fits64(p.frac) => c.decimal_places = MaxU /\ Len(p.frac) > MaxU
DecHeld(p, c) == DecExact(p, c) \/ DecDropped(p, c)
\* The exponent of a numeral whose integer fits.
ExpHeld(p, c) ==
  Fits64(p.int) => /\ c.integer = NumberOf(p.int)
                   /\ c.exponent = IF Fits64(p.exp) THEN NumberOf(p.exp) ELSE MaxU

\* The labels behind the mark of the exponent.
Exponential == {"num.exp", "num.expneg", "num.exppos", "num.expd", "num.expinf"}

\* What the components hold of the parts p at a label of the scanner.
ReadSoFar(l, p, c) ==
  /\ c.positive <=> ~p.minus
  /\ c.exponent_positive <=> ~p.expMinus
  /\ DecHeld(p, c)
  /\ IF l \in Exponential THEN ExpHeld(p, c) ELSE IntHeld(p, c)
  /\ l \in {"num.neg", "num.zero", "num.int", "num.big"} => (c.isinteger <=> Fits64(p.int))
  /\ l \in {"num.dec", "num.decmore", "num.expneg", "num.exppos", "num.expd", "num.expinf"} => ~c.isinteger
  /\ l \in {"num.neg", "num.zero", "num.int"} => Fits64(p.int)
  /\ l = "num.big" => ~Fits64(p.int)
  /\ l = "num.dec" => DecExact(p, c)
  /\ l = "num.decmore" => DecDropped(p, c)
  /\ l = "num.expinf" => c.exponent = MaxU

-----------------------------------------------------------------------------
(* What a byte adds to the parts. *)

\* What a byte leaves of the parts, and what it makes longer.
Rest(p, q) == (q.minus <=> p.minus) /\ (q.expMinus <=> p.expMinus)
Flags(p, q) == (q.hasFrac <=> p.hasFrac) /\ (q.hasExp <=> p.hasExp)

GrownInt(p, q, ch) ==
  /\ Rest(p, q) /\ Flags(p, q)
  /\ q.int = Append(p.int, ch) /\ q.frac = p.frac /\ q.exp = p.exp
GrownFrac(p, q, ch) ==
  /\ Rest(p, q) /\ Flags(p, q)
  /\ q.int = p.int /\ q.frac = Append(p.frac, ch) /\ q.exp = p.exp
GrownExp(p, q, ch) ==
  /\ Rest(p, q) /\ Flags(p, q)
  /\ q.int = p.int /\ q.frac = p.frac /\ q.exp = Append(p.exp, ch)
\* No part is made longer.
SameDigits(p, q) == q.int = p.int /\ q.frac = p.frac /\ q.exp = p.exp

\* A digit makes the last part longer.
LEMMA DigitParts ==
  ASSUME NEW text \in Seq(Byte), NEW ch \in Digit
  PROVE  LET p == Parts(text)
             q == Parts(Append(text, ch))
         IN  /\ ~p.hasExp /\ ~p.hasFrac => GrownInt(p, q, ch)
             /\ ~p.hasExp /\ p.hasFrac => GrownFrac(p, q, ch)
             /\ p.hasExp => GrownExp(p, q, ch)
<1> DEFINE p == Parts(text)
           q == Parts(Append(text, ch))
<1>1. p \in PartsSet
  BY PartsFacts
<1>2. q = IF p.hasExp THEN [p EXCEPT !.exp = Append(p.exp, ch)]
          ELSE IF p.hasFrac THEN [p EXCEPT !.frac = Append(p.frac, ch)]
          ELSE [p EXCEPT !.int = Append(p.int, ch)]
  BY DigitGrows
<1> HIDE DEF p, q
<1>3. ASSUME NEW x PROVE
        LET e == [p EXCEPT !.exp = x]
            f == [p EXCEPT !.frac = x]
            i == [p EXCEPT !.int = x]
        IN  /\ Rest(p, e) /\ Flags(p, e) /\ e.int = p.int /\ e.frac = p.frac /\ e.exp = x
            /\ Rest(p, f) /\ Flags(p, f) /\ f.int = p.int /\ f.frac = x /\ f.exp = p.exp
            /\ Rest(p, i) /\ Flags(p, i) /\ i.int = x /\ i.frac = p.frac /\ i.exp = p.exp
  BY <1>1 DEF PartsSet, Rest, Flags
<1>4. p.hasExp => GrownExp(p, q, ch)
  BY <1>2, <1>3 DEF GrownExp
<1>5. ~p.hasExp /\ p.hasFrac => GrownFrac(p, q, ch)
  BY <1>2, <1>3 DEF GrownFrac
<1>6. ~p.hasExp /\ ~p.hasFrac => GrownInt(p, q, ch)
  BY <1>2, <1>3 DEF GrownInt
<1> QED BY <1>4, <1>5, <1>6 DEF p, q

\* A dot begins the decimals.
LEMMA DotParts ==
  ASSUME NEW text \in Seq(Byte), text # <<>>, ~Parts(text).hasFrac, ~Parts(text).hasExp
  PROVE  LET p == Parts(text)
             q == Parts(Append(text, Ascii.dot))
         IN  /\ Rest(p, q) /\ SameDigits(p, q) /\ q.hasFrac /\ (q.hasExp <=> p.hasExp)
<1> DEFINE p == Parts(text)
           q == Parts(Append(text, Ascii.dot))
<1>1. p \in PartsSet
  BY PartsFacts
<1>2. Len(text) > 0
  OBVIOUS
<1>3. DotOf(text) > Len(text)
  BY CutsKnown, Zenon
<1>4. q = [p EXCEPT !.hasFrac = TRUE]
  BY <1>2, <1>3, DotGrows
<1> HIDE DEF p, q
<1> QED
  <2>1. Rest(p, q) /\ SameDigits(p, q) /\ q.hasFrac /\ (q.hasExp <=> p.hasExp)
    BY <1>1, <1>4 DEF PartsSet, Rest, SameDigits
  <2> QED BY <2>1 DEF p, q

\* An e begins the exponent.
LEMMA MarkParts ==
  ASSUME NEW text \in Seq(Byte), NEW ch \in ExpMark, text # <<>>, ~Parts(text).hasExp
  PROVE  LET p == Parts(text)
             q == Parts(Append(text, ch))
         IN  /\ Rest(p, q) /\ SameDigits(p, q) /\ q.hasExp /\ (q.hasFrac <=> p.hasFrac)
             /\ MarkOf(Append(text, ch)) = Len(Append(text, ch))
<1> DEFINE p == Parts(text)
           q == Parts(Append(text, ch))
<1>1. p \in PartsSet
  BY PartsFacts
<1>2. Len(text) > 0 /\ Len(text) \in Nat
  OBVIOUS
<1>3. MarkOf(text) > Len(text)
  <2>1. MarkOf(text) = Len(text) + 1
    BY CutsKnown, Zenon
  <2> QED BY <1>2, <2>1
<1>4. q = [p EXCEPT !.hasExp = TRUE] /\ MarkOf(Append(text, ch)) = Len(text) + 1
  BY <1>2, <1>3, MarkGrows
<1>5. Len(Append(text, ch)) = Len(text) + 1
  <2>1. ch \in Byte
    BY DEF ExpMark, Byte, Ascii
  <2> QED BY <2>1, OneMore
<1> HIDE DEF p, q
<1> QED
  <2>1. Rest(p, q) /\ SameDigits(p, q) /\ q.hasExp /\ (q.hasFrac <=> p.hasFrac)
    BY <1>1, <1>4 DEF PartsSet, Rest, SameDigits
  <2> QED BY <1>4, <1>5, <2>1 DEF p, q

\* The sign of an exponent is read.
LEMMA SignParts ==
  ASSUME NEW text \in Seq(Byte), NEW ch \in {Ascii.minus, Ascii.plus},
         text # <<>>, MarkOf(text) = Len(text)
  PROVE  LET p == Parts(text)
             q == Parts(Append(text, ch))
         IN  /\ SameDigits(p, q) /\ Flags(p, q) /\ (q.minus <=> p.minus)
             /\ q.expMinus <=> ch = Ascii.minus
<1> DEFINE p == Parts(text)
           q == Parts(Append(text, ch))
<1>1. p \in PartsSet
  BY PartsFacts
<1>2. Len(text) > 0
  OBVIOUS
<1>4. q = [p EXCEPT !.expMinus = (ch = Ascii.minus)]
  BY <1>2, SignGrows
<1> HIDE DEF p, q
<1> QED
  <2>1. SameDigits(p, q) /\ Flags(p, q) /\ (q.minus <=> p.minus) /\ (q.expMinus <=> ch = Ascii.minus)
    BY <1>1, <1>4 DEF PartsSet, Flags, SameDigits
  <2> QED BY <2>1 DEF p, q

\* A minus that begins a numeral.
LEMMA MinusParts ==
  LET q == Parts(Append(<<>>, Ascii.minus))
  IN  AllDigits(q) /\ Blank(q) /\ q.minus
<1> DEFINE e == <<>>
           m == Ascii.minus
           t == Append(e, m)
           q == Parts(t)
<1>1. e \in Seq(Byte) /\ Len(e) = 0 /\ m \in Byte /\ m = Ascii.minus
  BY DEF Byte, Ascii
<1>2. m \notin ExpMark \cup {Ascii.dot}
  BY DEF ExpMark, Ascii
<1> HIDE DEF e, m
<1>3. t \in Seq(Byte) /\ Len(t) = 1
  BY <1>1, OneMore
<1>4. MarkOf(t) = 2 /\ DotOf(t) = 2 /\ MinusOf(t) /\ ~SignOf(t)
  <2>1. MarkOf(e) = 1 /\ DotOf(e) = 1 /\ ~MinusOf(e) /\ ~SignOf(e)
    BY PartsOfNothing DEF e
  <2>2. /\ MarkOf(t) = IF MarkOf(e) <= Len(e) THEN MarkOf(e)
                       ELSE IF m \in ExpMark THEN Len(e) + 1 ELSE Len(e) + 2
        /\ DotOf(t) = IF DotOf(e) <= Len(e) THEN DotOf(e)
                      ELSE IF m \in ExpMark \cup {Ascii.dot} THEN Len(e) + 1 ELSE Len(e) + 2
    BY <1>1, CutsGrow, Zenon
  <2>3. /\ MinusOf(t) <=> IF Len(e) = 0 THEN m = Ascii.minus ELSE MinusOf(e)
        /\ SignOf(t) <=> IF MarkOf(e) = Len(e) THEN m \in {Ascii.minus, Ascii.plus} ELSE SignOf(e)
    BY <1>1, CutsGrow, Zenon
  <2> HIDE DEF t
  <2>4. MarkOf(t) = 2 /\ DotOf(t) = 2
    BY <1>1, <1>2, <2>1, <2>2
  <2>5. MarkOf(e) # Len(e)
    BY <1>1, <2>1
  <2>6. MinusOf(t) /\ ~SignOf(t)
    BY <1>1, <2>1, <2>3, <2>5, Zenon
  <2> QED BY <2>4, <2>6
<1> HIDE DEF t
<1>5. q.minus /\ ~q.hasFrac /\ ~q.hasExp
  <2>1. ~(DotOf(t) < MarkOf(t)) /\ ~(MarkOf(t) <= Len(t))
    BY <1>3, <1>4
  <2> QED BY <1>3, <1>4, <2>1, CutsKnown, Zenon
<1>6. q.frac = <<>> /\ q.exp = <<>> /\ ~q.expMinus
  BY <1>3, <1>5, PartsFacts
<1>7. q.int = <<>>
  <2> DEFINE ip == SubSeq(t, 2, 1)
  <2>1. ip = <<>>
    BY SubSeqEmpty
  <2>2. SubSeq(t, IF MinusOf(t) THEN 2 ELSE 1, DotOf(t) - 1) = ip
    BY <1>4
  <2>3. q.int = SubSeq(t, IF MinusOf(t) THEN 2 ELSE 1, DotOf(t) - 1)
    BY <1>3, PartsAre
  <2> QED BY <2>1, <2>2, <2>3
<1>8. <<>> \in Seq(Digit)
  OBVIOUS
<1> HIDE DEF q
<1>9. AllDigits(q) /\ Blank(q) /\ q.minus
  BY <1>5, <1>6, <1>7, <1>8 DEF AllDigits, Blank, NoFrac, NoExp
<1> QED BY <1>9 DEF q, t, e, m

-----------------------------------------------------------------------------
(* The parts a numeral goes through. *)

\* Digits with a digit more are digits that begin with the same one.
LEMMA DigitsGrow ==
  ASSUME NEW ds \in Seq(Digit), NEW ch \in Digit
  PROVE  /\ Append(ds, ch) \in Seq(Digit) /\ IsDigits(Append(ds, ch))
         /\ ds = <<>> => Append(ds, ch) = <<ch>> /\ Append(ds, ch)[1] = ch /\ Len(Append(ds, ch)) = 1
         /\ IsDigits(ds) => Append(ds, ch)[1] = ds[1]
<1> DEFINE es == Append(ds, ch)
<1>1. /\ es \in Seq(Digit) /\ Len(es) = Len(ds) + 1 /\ es[Len(ds) + 1] = ch
      /\ \A i \in 1 .. Len(ds) : es[i] = ds[i]
  BY OneMore
<1>2. es # <<>> /\ \A i \in DOMAIN es : es[i] \in Digit
  <2> HIDE DEF es
  <2>1. Len(es) > 0
    BY <1>1
  <2> QED BY <1>1, <2>1
<1>3. ds = <<>> => es = <<ch>> /\ es[1] = ch /\ Len(es) = 1
  OBVIOUS
<1>4. ds # <<>> => es[1] = ds[1]
  OBVIOUS
<1> QED BY <1>1, <1>2, <1>3, <1>4 DEF IsDigits

\* A digit leads from the shape in front of it to the one behind it.
LEMMA GrownShapes ==
  ASSUME NEW p, NEW q, NEW ch \in Digit, AllDigits(p)
  PROVE  /\ GrownInt(p, q, ch) /\ Blank(p) =>
              AllDigits(q) /\ (ch = Ascii.zero => ZeroRead(q)) /\ (ch # Ascii.zero => WholeRead(q))
         /\ GrownInt(p, q, ch) /\ WholeRead(p) => AllDigits(q) /\ WholeRead(q)
         /\ GrownFrac(p, q, ch) /\ (DotRead(p) \/ FracRead(p)) => AllDigits(q) /\ FracRead(q)
         /\ GrownExp(p, q, ch) /\ (SignRead(p) \/ ExpRead(p)) => AllDigits(q) /\ ExpRead(q)
<1>0. /\ \A ds \in Seq(Digit) : Append(ds, ch) \in Seq(Digit) /\ IsDigits(Append(ds, ch))
      /\ \A ds \in Seq(Digit) : ds = <<>> =>
           Append(ds, ch) = <<ch>> /\ Append(ds, ch)[1] = ch /\ Len(Append(ds, ch)) = 1
      /\ \A ds \in Seq(Digit) : IsDigits(ds) => Append(ds, ch)[1] = ds[1]
  BY DigitsGrow
<1> USE DEF AllDigits
<1>1. ASSUME GrownInt(p, q, ch), NoFrac(p), NoExp(p) PROVE NoFrac(q) /\ NoExp(q) /\ AllDigits(q)
  BY <1>1, <1>0, Zenon DEF GrownInt, Rest, Flags, NoFrac, NoExp
<1>2. ASSUME GrownInt(p, q, ch), Blank(p)
      PROVE  AllDigits(q) /\ (ch = Ascii.zero => ZeroRead(q)) /\ (ch # Ascii.zero => WholeRead(q))
  <2>1. NoFrac(q) /\ NoExp(q) /\ AllDigits(q)
    BY <1>1, <1>2 DEF Blank
  <2>2. q.int = <<ch>> /\ q.int[1] = ch /\ IsDigits(q.int)
    BY <1>2, <1>0, Zenon DEF Blank, GrownInt
  <2> QED BY <2>1, <2>2 DEF ZeroRead, WholeRead
<1>3. ASSUME GrownInt(p, q, ch), WholeRead(p) PROVE AllDigits(q) /\ WholeRead(q)
  <2>1. NoFrac(q) /\ NoExp(q) /\ AllDigits(q)
    BY <1>1, <1>3 DEF WholeRead
  <2>2. q.int[1] = p.int[1] /\ IsDigits(q.int)
    BY <1>3, <1>0, Zenon DEF WholeRead, GrownInt
  <2> QED BY <1>3, <2>1, <2>2 DEF WholeRead
<1>4. ASSUME GrownFrac(p, q, ch), DotRead(p) \/ FracRead(p) PROVE AllDigits(q) /\ FracRead(q)
  <2>1. IsDigits(q.frac) /\ q.frac \in Seq(Digit)
    BY <1>4, <1>0, Zenon DEF GrownFrac
  <2>2. IntRead(q) /\ NoExp(q) /\ q.hasFrac /\ AllDigits(q)
    BY <1>4, <2>1, Zenon DEF GrownFrac, Rest, Flags, DotRead, FracRead, IntRead, NoExp
  <2> QED BY <2>1, <2>2 DEF FracRead
<1>5. ASSUME GrownExp(p, q, ch), SignRead(p) \/ ExpRead(p) PROVE AllDigits(q) /\ ExpRead(q)
  <2>1. IsDigits(q.exp) /\ q.exp \in Seq(Digit)
    BY <1>5, <1>0, Zenon DEF GrownExp
  <2>2. MantissaRead(q) /\ q.hasExp /\ AllDigits(q)
    BY <1>5, <2>1, Zenon DEF GrownExp, Rest, Flags, SignRead, ExpRead, MantissaRead, IntRead
  <2> QED BY <2>1, <2>2 DEF ExpRead
<1> QED BY <1>2, <1>3, <1>4, <1>5

\* And so do a dot, an e and a sign.
LEMMA SameShapes ==
  ASSUME NEW p, NEW q, AllDigits(p), SameDigits(p, q)
  PROVE  /\ AllDigits(q)
         /\ Rest(p, q) /\ q.hasFrac /\ (q.hasExp <=> p.hasExp) /\ (ZeroRead(p) \/ WholeRead(p))
              => DotRead(q)
         /\ Rest(p, q) /\ q.hasExp /\ (q.hasFrac <=> p.hasFrac)
              /\ (ZeroRead(p) \/ WholeRead(p) \/ FracRead(p)) => SignRead(q) /\ ~q.expMinus
         /\ Flags(p, q) /\ SignRead(p) => SignRead(q)
<1>1. AllDigits(q)
  BY DEF AllDigits, SameDigits
<1>2. ZeroRead(p) \/ WholeRead(p) => IntRead(p) /\ NoFrac(p) /\ NoExp(p)
  <2>1. IsDigits(<<Ascii.zero>>) /\ Len(<<Ascii.zero>>) = 1
    BY DEF IsDigits, Ascii, Digit
  <2> QED BY <2>1 DEF ZeroRead, WholeRead, IntRead
<1>3. IntRead(p) <=> IntRead(q)
  BY DEF SameDigits, IntRead
<1>4. ZeroRead(p) \/ WholeRead(p) \/ FracRead(p) => MantissaRead(p) /\ NoExp(p)
  BY <1>2, Zenon DEF MantissaRead, NoFrac, FracRead
<1>5. (q.hasFrac <=> p.hasFrac) => (MantissaRead(p) <=> MantissaRead(q))
  BY <1>3, Zenon DEF SameDigits, MantissaRead
<1>6. ASSUME Rest(p, q), q.hasFrac, q.hasExp <=> p.hasExp, ZeroRead(p) \/ WholeRead(p) PROVE DotRead(q)
  BY <1>2, <1>3, <1>6, Zenon DEF DotRead, SameDigits, Rest, NoFrac, NoExp
<1>7. ASSUME Rest(p, q), q.hasExp, q.hasFrac <=> p.hasFrac, ZeroRead(p) \/ WholeRead(p) \/ FracRead(p)
      PROVE  SignRead(q) /\ ~q.expMinus
  BY <1>4, <1>5, <1>7, Zenon DEF SignRead, SameDigits, Rest, NoExp
<1>8. ASSUME Flags(p, q), SignRead(p) PROVE SignRead(q)
  BY <1>5, <1>8, Zenon DEF SignRead, SameDigits, Flags
<1> QED BY <1>1, <1>6, <1>7, <1>8

-----------------------------------------------------------------------------
(* The steps of a numeral, part by part. *)

\* A text with a byte more is not empty.
LEMMA SomeMore ==
  ASSUME NEW u \in Seq(Byte), NEW ch \in Digit \cup ExpMark \cup {Ascii.dot, Ascii.minus, Ascii.plus}
  PROVE  Append(u, ch) # <<>>
<1>1. ch \in Byte
  BY DEF Digit, ExpMark, Ascii, Byte
<1>2. Len(Append(u, ch)) = Len(u) + 1
  BY <1>1, OneMore
<1> DEFINE t == Append(u, ch)
<1>3. Len(u) \in Nat /\ Len(<<>>) = 0
  OBVIOUS
<1> HIDE DEF t
<1>4. t # <<>>
  BY <1>2, <1>3 DEF t
<1> QED BY <1>4 DEF t

\* The label says what was read.
LEMMA ShapeIs ==
  ASSUME NEW p, AllDigits(p)
  PROVE  /\ \A l \in NegLabels : Shape(l, p) <=> Blank(p)
         /\ \A l \in ZeroLabels : Shape(l, p) <=> ZeroRead(p)
         /\ \A l \in IntLabels : Shape(l, p) <=> WholeRead(p)
         /\ \A l \in DotLabels : Shape(l, p) <=> DotRead(p)
         /\ \A l \in FracLabels : Shape(l, p) <=> FracRead(p)
         /\ \A l \in ExpLabels : Shape(l, p) <=> SignRead(p) /\ ~p.expMinus
         /\ \A l \in SignLabels : Shape(l, p) <=> SignRead(p)
         /\ \A l \in ExpDigitLabels : Shape(l, p) <=> ExpRead(p)
BY DEF Shape, NegLabels, ZeroLabels, IntLabels, DotLabels, FracLabels, ExpLabels, SignLabels, ExpDigitLabels

\* A text is shaped as its parts are.
LEMMA ShapedIs ==
  ASSUME NEW u, u # <<>>, AllDigits(Parts(u))
  PROVE  /\ \A l \in NegLabels \cup ZeroLabels \cup IntLabels \cup DotLabels \cup FracLabels
                       \cup SignLabels \cup ExpDigitLabels : Shape(l, Parts(u)) => Shaped(l, u)
         /\ \A l \in ExpLabels : Shape(l, Parts(u)) /\ MarkOf(u) = Len(u) => Shaped(l, u)
<1>1. ExpLabels \cap (NegLabels \cup ZeroLabels \cup IntLabels \cup DotLabels \cup FracLabels
                       \cup SignLabels \cup ExpDigitLabels) = {}
  BY DEF NegLabels, ZeroLabels, IntLabels, DotLabels, FracLabels, ExpLabels, SignLabels, ExpDigitLabels
<1> QED BY <1>1 DEF Shaped

\* The first digit of the integer part.
LEMMA FirstDigitStep ==
  ASSUME NEW u \in Seq(Byte), NEW ch \in Digit, NEW l \in NegLabels, Shape(l, Parts(u))
  PROVE  LET p == Parts(u)
             t == Append(u, ch)
             q == Parts(t)
         IN  /\ AllDigits(p) /\ Blank(p) /\ GrownInt(p, q, ch)
             /\ ch = Ascii.zero => \A m \in ZeroLabels : Shaped(m, t)
             /\ ch # Ascii.zero => \A m \in IntLabels : Shaped(m, t)
<1> DEFINE p == Parts(u)
           t == Append(u, ch)
           q == Parts(t)
<1>1. AllDigits(p) /\ Blank(p)
  BY ShapeIs DEF Shape
<1>2. GrownInt(p, q, ch)
  <2>1. ~p.hasExp /\ ~p.hasFrac
    BY <1>1, Zenon DEF Blank, NoFrac, NoExp
  <2> QED BY <2>1, DigitParts, Zenon
<1>3. t # <<>>
  BY SomeMore
<1> HIDE DEF p, t, q
<1>4. AllDigits(q) /\ (ch = Ascii.zero => ZeroRead(q)) /\ (ch # Ascii.zero => WholeRead(q))
  BY <1>1, <1>2, GrownShapes, Zenon
<1>5. /\ ch = Ascii.zero => \A m \in ZeroLabels : Shape(m, q)
      /\ ch # Ascii.zero => \A m \in IntLabels : Shape(m, q)
  BY <1>4, ShapeIs, Zenon
<1>6. /\ ch = Ascii.zero => \A m \in ZeroLabels : Shaped(m, t)
      /\ ch # Ascii.zero => \A m \in IntLabels : Shaped(m, t)
  BY <1>3, <1>4, <1>5, ShapedIs DEF q
<1> QED BY <1>1, <1>2, <1>6 DEF p, t, q

\* More digits of it.
LEMMA IntDigitStep ==
  ASSUME NEW u \in Seq(Byte), NEW ch \in Digit, NEW l \in IntLabels, Shape(l, Parts(u))
  PROVE  LET p == Parts(u)
             t == Append(u, ch)
             q == Parts(t)
         IN  AllDigits(p) /\ GrownInt(p, q, ch) /\ \A m \in IntLabels : Shaped(m, t)
<1> DEFINE p == Parts(u)
           t == Append(u, ch)
           q == Parts(t)
<1>1. AllDigits(p) /\ WholeRead(p)
  BY ShapeIs DEF Shape
<1>2. GrownInt(p, q, ch)
  <2>1. ~p.hasExp /\ ~p.hasFrac
    BY <1>1, Zenon DEF WholeRead, NoFrac, NoExp
  <2> QED BY <2>1, DigitParts, Zenon
<1>3. t # <<>>
  BY SomeMore
<1> HIDE DEF p, t, q
<1>4. AllDigits(q) /\ WholeRead(q)
  BY <1>1, <1>2, GrownShapes, Zenon
<1>5. \A m \in IntLabels : Shaped(m, t)
  BY <1>3, <1>4, ShapeIs, ShapedIs DEF q
<1> QED BY <1>1, <1>2, <1>5 DEF p, t, q

\* The dot behind it.
LEMMA DotStep ==
  ASSUME NEW u \in Seq(Byte), u # <<>>, NEW l \in ZeroLabels \cup IntLabels, Shape(l, Parts(u))
  PROVE  LET p == Parts(u)
             t == Append(u, Ascii.dot)
             q == Parts(t)
         IN  Rest(p, q) /\ SameDigits(p, q) /\ \A m \in DotLabels : Shaped(m, t)
<1> DEFINE p == Parts(u)
           t == Append(u, Ascii.dot)
           q == Parts(t)
<1>1. AllDigits(p) /\ (ZeroRead(p) \/ WholeRead(p))
  BY ShapeIs DEF Shape
<1>2. Rest(p, q) /\ SameDigits(p, q) /\ q.hasFrac /\ (q.hasExp <=> p.hasExp)
  <2>1. ~p.hasExp /\ ~p.hasFrac
    BY <1>1, Zenon DEF ZeroRead, WholeRead, NoFrac, NoExp
  <2> QED BY <2>1, DotParts, Zenon
<1>3. t # <<>>
  BY SomeMore
<1> HIDE DEF p, t, q
<1>4. AllDigits(q) /\ DotRead(q)
  BY <1>1, <1>2, SameShapes, Zenon
<1>5. \A m \in DotLabels : Shaped(m, t)
  BY <1>3, <1>4, ShapeIs, ShapedIs DEF q
<1> QED BY <1>2, <1>5 DEF p, t, q

\* A digit of the decimals.
LEMMA FracDigitStep ==
  ASSUME NEW u \in Seq(Byte), NEW ch \in Digit, NEW l \in DotLabels \cup FracLabels, Shape(l, Parts(u))
  PROVE  LET p == Parts(u)
             t == Append(u, ch)
             q == Parts(t)
         IN  /\ AllDigits(p) /\ GrownFrac(p, q, ch) /\ \A m \in FracLabels : Shaped(m, t)
             /\ l \in DotLabels => p.frac = <<>>
<1> DEFINE p == Parts(u)
           t == Append(u, ch)
           q == Parts(t)
<1>1. AllDigits(p) /\ (DotRead(p) \/ FracRead(p)) /\ (l \in DotLabels => p.frac = <<>>)
  <2>1. AllDigits(p) /\ (DotRead(p) \/ FracRead(p)) /\ (l \in DotLabels => DotRead(p))
    BY ShapeIs DEF Shape
  <2> QED BY <2>1 DEF DotRead
<1>2. GrownFrac(p, q, ch)
  <2>1. ~p.hasExp /\ p.hasFrac
    BY <1>1, Zenon DEF DotRead, FracRead, NoExp
  <2> QED BY <2>1, DigitParts, Zenon
<1>3. t # <<>>
  BY SomeMore
<1> HIDE DEF p, t, q
<1>4. AllDigits(q) /\ FracRead(q)
  BY <1>1, <1>2, GrownShapes, Zenon
<1>5. \A m \in FracLabels : Shaped(m, t)
  BY <1>3, <1>4, ShapeIs, ShapedIs DEF q
<1> QED BY <1>1, <1>2, <1>5 DEF p, t, q

\* The e of the exponent.
LEMMA MarkStep ==
  ASSUME NEW u \in Seq(Byte), u # <<>>, NEW ch \in ExpMark,
         NEW l \in ZeroLabels \cup IntLabels \cup FracLabels, Shape(l, Parts(u))
  PROVE  LET p == Parts(u)
             t == Append(u, ch)
             q == Parts(t)
         IN  Rest(p, q) /\ SameDigits(p, q) /\ p.exp = <<>> /\ \A m \in ExpLabels : Shaped(m, t)
<1> DEFINE p == Parts(u)
           t == Append(u, ch)
           q == Parts(t)
<1>1. AllDigits(p) /\ (ZeroRead(p) \/ WholeRead(p) \/ FracRead(p))
  BY ShapeIs DEF Shape
<1>2. NoExp(p)
  BY <1>1 DEF ZeroRead, WholeRead, FracRead
<1>3. /\ Rest(p, q) /\ SameDigits(p, q) /\ q.hasExp /\ (q.hasFrac <=> p.hasFrac)
      /\ MarkOf(t) = Len(t)
  <2>1. ~p.hasExp
    BY <1>2, Zenon DEF NoExp
  <2> QED BY <2>1, MarkParts, Zenon
<1>4. t # <<>>
  BY SomeMore
<1> HIDE DEF p, t, q
<1>5. AllDigits(q) /\ SignRead(q) /\ ~q.expMinus
  BY <1>1, <1>3, SameShapes, Zenon
<1>6. \A m \in ExpLabels : Shape(m, q)
  BY <1>5, ShapeIs, Zenon
<1>7. \A m \in ExpLabels : Shaped(m, t)
  BY <1>3, <1>4, <1>5, <1>6, ShapedIs DEF q
<1>8. p.exp = <<>>
  BY <1>2 DEF NoExp
<1> QED BY <1>3, <1>7, <1>8 DEF p, t, q

\* The sign of the exponent.
LEMMA SignStep ==
  ASSUME NEW u \in Seq(Byte), NEW ch \in {Ascii.minus, Ascii.plus}, NEW l \in ExpLabels, Shaped(l, u)
  PROVE  LET p == Parts(u)
             t == Append(u, ch)
             q == Parts(t)
         IN  /\ SameDigits(p, q) /\ (q.minus <=> p.minus) /\ ~p.expMinus
             /\ q.expMinus <=> ch = Ascii.minus
             /\ \A m \in SignLabels : Shaped(m, t)
<1> DEFINE p == Parts(u)
           t == Append(u, ch)
           q == Parts(t)
<1>1. AllDigits(p) /\ SignRead(p) /\ ~p.expMinus /\ MarkOf(u) = Len(u) /\ u # <<>>
  BY ShapeIs DEF Shaped, Shape
<1>2. SameDigits(p, q) /\ Flags(p, q) /\ (q.minus <=> p.minus) /\ (q.expMinus <=> ch = Ascii.minus)
  BY <1>1, SignParts, Zenon
<1>3. t # <<>>
  BY SomeMore
<1> HIDE DEF p, t, q
<1>4. AllDigits(q) /\ SignRead(q)
  BY <1>1, <1>2, SameShapes, Zenon
<1>5. \A m \in SignLabels : Shaped(m, t)
  BY <1>3, <1>4, ShapeIs, ShapedIs DEF q
<1>6. SameDigits(p, q) /\ (q.minus <=> p.minus) /\ ~p.expMinus /\ (q.expMinus <=> ch = Ascii.minus)
  BY <1>1, <1>2, Zenon
<1> QED BY <1>5, <1>6 DEF p, t, q

\* A digit of the exponent.
LEMMA ExpDigitStep ==
  ASSUME NEW u \in Seq(Byte), NEW ch \in Digit,
         NEW l \in ExpLabels \cup SignLabels \cup ExpDigitLabels, Shape(l, Parts(u))
  PROVE  LET p == Parts(u)
             t == Append(u, ch)
             q == Parts(t)
         IN  /\ AllDigits(p) /\ GrownExp(p, q, ch) /\ \A m \in ExpDigitLabels : Shaped(m, t)
             /\ l \in ExpLabels => ~p.expMinus
<1> DEFINE p == Parts(u)
           t == Append(u, ch)
           q == Parts(t)
<1>1. AllDigits(p) /\ (SignRead(p) \/ ExpRead(p)) /\ (l \in ExpLabels => ~p.expMinus)
  BY ShapeIs DEF Shape
<1>2. GrownExp(p, q, ch)
  <2>1. p.hasExp
    BY <1>1, Zenon DEF SignRead, ExpRead
  <2> QED BY <2>1, DigitParts, Zenon
<1>3. t # <<>>
  BY SomeMore
<1> HIDE DEF p, t, q
<1>4. AllDigits(q) /\ ExpRead(q)
  BY <1>1, <1>2, GrownShapes, Zenon
<1>5. \A m \in ExpDigitLabels : Shaped(m, t)
  BY <1>3, <1>4, ShapeIs, ShapedIs DEF q
<1> QED BY <1>1, <1>2, <1>5 DEF p, t, q

-----------------------------------------------------------------------------
(* What the components hold, label by label. *)

\* The signs are those read.
SignsHeld(p, c) == (c.positive <=> ~p.minus) /\ (c.exponent_positive <=> ~p.expMinus)

\* What is held at each label, spelled out.
LEMMA ReadSoFarIs ==
  ASSUME NEW p, NEW c
  PROVE  /\ \A l \in {"num.neg", "num.zero", "num.int"} :
              ReadSoFar(l, p, c) <=>
                SignsHeld(p, c) /\ DecHeld(p, c) /\ IntHeld(p, c) /\ c.isinteger /\ Fits64(p.int)
         /\ ReadSoFar("num.big", p, c) <=>
              SignsHeld(p, c) /\ DecHeld(p, c) /\ IntHeld(p, c) /\ ~c.isinteger /\ ~Fits64(p.int)
         /\ ReadSoFar("num.dot", p, c) <=> SignsHeld(p, c) /\ DecHeld(p, c) /\ IntHeld(p, c)
         /\ ReadSoFar("num.dec", p, c) <=>
              SignsHeld(p, c) /\ DecExact(p, c) /\ IntHeld(p, c) /\ ~c.isinteger
         /\ ReadSoFar("num.decmore", p, c) <=>
              SignsHeld(p, c) /\ DecDropped(p, c) /\ IntHeld(p, c) /\ ~c.isinteger
         /\ ReadSoFar("num.exp", p, c) <=> SignsHeld(p, c) /\ DecHeld(p, c) /\ ExpHeld(p, c)
         /\ \A l \in {"num.expneg", "num.exppos", "num.expd"} :
              ReadSoFar(l, p, c) <=>
                SignsHeld(p, c) /\ DecHeld(p, c) /\ ExpHeld(p, c) /\ ~c.isinteger
         /\ ReadSoFar("num.expinf", p, c) <=>
              /\ SignsHeld(p, c) /\ DecHeld(p, c) /\ ExpHeld(p, c) /\ ~c.isinteger
              /\ c.exponent = MaxU
<1> USE DEF ReadSoFar, SignsHeld, Exponential, DecHeld
<1>1. \A l \in {"num.neg", "num.zero", "num.int"} :
              ReadSoFar(l, p, c) <=>
                SignsHeld(p, c) /\ DecHeld(p, c) /\ IntHeld(p, c) /\ c.isinteger /\ Fits64(p.int)
  OBVIOUS
<1>2. ReadSoFar("num.big", p, c) <=>
              SignsHeld(p, c) /\ DecHeld(p, c) /\ IntHeld(p, c) /\ ~c.isinteger /\ ~Fits64(p.int)
  OBVIOUS
<1>3. ReadSoFar("num.dot", p, c) <=> SignsHeld(p, c) /\ DecHeld(p, c) /\ IntHeld(p, c)
  OBVIOUS
<1>4. ReadSoFar("num.dec", p, c) <=>
              SignsHeld(p, c) /\ DecExact(p, c) /\ IntHeld(p, c) /\ ~c.isinteger
  OBVIOUS
<1>5. ReadSoFar("num.decmore", p, c) <=>
              SignsHeld(p, c) /\ DecDropped(p, c) /\ IntHeld(p, c) /\ ~c.isinteger
  OBVIOUS
<1>6. ReadSoFar("num.exp", p, c) <=> SignsHeld(p, c) /\ DecHeld(p, c) /\ ExpHeld(p, c)
  OBVIOUS
<1>7. \A l \in {"num.expneg", "num.exppos", "num.expd"} :
              ReadSoFar(l, p, c) <=>
                SignsHeld(p, c) /\ DecHeld(p, c) /\ ExpHeld(p, c) /\ ~c.isinteger
  OBVIOUS
<1>8. ReadSoFar("num.expinf", p, c) <=>
              /\ SignsHeld(p, c) /\ DecHeld(p, c) /\ ExpHeld(p, c) /\ ~c.isinteger
              /\ c.exponent = MaxU
  OBVIOUS
<1> QED BY <1>1, <1>2, <1>3, <1>4, <1>5, <1>6, <1>7, <1>8

\* Setting one component leaves the others.
SameSigns(c, b) == (b.positive <=> c.positive) /\ (b.exponent_positive <=> c.exponent_positive)
SameInt(c, b) == b.integer = c.integer
SameDec(c, b) == b.decimal = c.decimal /\ b.decimal_places = c.decimal_places

-----------------------------------------------------------------------------
(* Digits of the integer part. *)

\* A digit is added to the integer, or rounds it if it does not fit.
LEMMA WholeDigit ==
  ASSUME NEW p, NEW q, NEW ch \in Digit, p.int \in Seq(Digit), q.int = Append(p.int, ch),
         NEW c \in Components, IntHeld(p, c), Fits64(p.int)
  PROVE  /\ ~Overflows(c.integer, ch - Ascii.zero) =>
              Fits64(q.int) /\ NumberOf(q.int) = Shift10(c.integer, ch - Ascii.zero)
         /\ Overflows(c.integer, ch - Ascii.zero) =>
              ~Fits64(q.int) /\ RoundedTo(q.int, RoundUp(c.integer, ch - Ascii.zero), 1)
<1> DEFINE n == c.integer
           d == ch - Ascii.zero
           t == 10 * n + (ch - 48)
           up == RoundUp(n, d)
<1>1. n \in 0 .. MaxU /\ NumberOf(p.int) = n /\ MaxU \in Nat
  BY NumberFacts, NumberAssumption DEF IntHeld, Fits64
<1>2. NumberOf(q.int) = IF t <= MaxU THEN t ELSE MaxU + 1
  BY <1>1, NumberGrows
<1>3. t > MaxU => RoundedTo(q.int, up, 1)
  BY <1>1, DropFirst
<1>4. /\ Overflows(n, d) <=> t > MaxU
      /\ ~Overflows(n, d) => Shift10(n, d) = t
  BY <1>1, OverflowIs
<1>5. t \in Nat
  BY <1>1 DEF Digit, Ascii
<1> HIDE DEF n, d, t, up
<1>6. t > MaxU => ~Fits64(q.int)
  BY <1>1, <1>2, <1>5 DEF Fits64
<1>7. t > MaxU \/ (Fits64(q.int) /\ NumberOf(q.int) = t)
  BY <1>1, <1>2, <1>5 DEF Fits64
<1>8. /\ ~Overflows(n, d) => Fits64(q.int) /\ NumberOf(q.int) = Shift10(n, d)
      /\ Overflows(n, d) => ~Fits64(q.int) /\ RoundedTo(q.int, up, 1)
  BY <1>3, <1>4, <1>6, <1>7, Zenon
<1> QED BY <1>8 DEF n, d, up

\* A digit is dropped behind one that did not fit.
LEMMA WholeDropped ==
  ASSUME NEW p, NEW q, NEW ch \in Digit, p.int \in Seq(Digit), q.int = Append(p.int, ch),
         NEW c \in Components, IntHeld(p, c), ~Fits64(p.int)
  PROVE  ~Fits64(q.int) /\ RoundedTo(q.int, c.integer, c.exponent + 1)
<1> DEFINE n == NumberOf(p.int)
<1>1. n \in 0 .. MaxU + 1 /\ n > MaxU /\ MaxU \in Nat
  BY NumberFacts, NumberAssumption DEF Fits64
<1>2. NumberOf(q.int) = IF 10 * n + (ch - 48) <= MaxU THEN 10 * n + (ch - 48) ELSE MaxU + 1
  BY NumberGrows
<1>3. RoundedTo(q.int, c.integer, c.exponent + 1)
  BY DropMore DEF IntHeld
<1> HIDE DEF n
<1>5. ch - 48 \in 0 .. 9
  BY DEF Digit, Ascii
<1> QED BY <1>1, <1>2, <1>3, <1>5 DEF Fits64

\* IntegerDigit() keeps what is held.
LEMMA IntegerDigitHeld ==
  ASSUME NEW p, NEW q, NEW ch \in Digit, AllDigits(p), GrownInt(p, q, ch), NEW c \in Components,
         NEW l \in {"num.neg", "num.int"}, ReadSoFar(l, p, c)
  PROVE  LET d == ch - Ascii.zero
             b == [c EXCEPT !.integer = Shift10(@, d)]
             o == [c EXCEPT !.isinteger = FALSE, !.integer = RoundUp(@, d)]
             e == [o EXCEPT !.exponent = @ + 1]
         IN  /\ ~Overflows(c.integer, d) => ReadSoFar("num.int", q, b)
             /\ Overflows(c.integer, d) => ReadSoFar("num.big", q, e)
<1> DEFINE d == ch - Ascii.zero
           s == Shift10(c.integer, d)
           r == RoundUp(c.integer, d)
           b == [c EXCEPT !.integer = s]
           o == [c EXCEPT !.isinteger = FALSE, !.integer = r]
           e == [o EXCEPT !.exponent = o.exponent + 1]
<1>1. SignsHeld(p, c) /\ DecHeld(p, c) /\ IntHeld(p, c) /\ c.isinteger /\ Fits64(p.int)
  BY ReadSoFarIs
<1>2. p.int \in Seq(Digit) /\ q.int = Append(p.int, ch) /\ q.frac = p.frac
      /\ (q.minus <=> p.minus) /\ (q.expMinus <=> p.expMinus)
  BY DEF AllDigits, GrownInt, Rest
<1>3. /\ ~Overflows(c.integer, d) => Fits64(q.int) /\ NumberOf(q.int) = s
      /\ Overflows(c.integer, d) => ~Fits64(q.int) /\ RoundedTo(q.int, r, 1)
  BY <1>1, <1>2, WholeDigit
<1>4. c.exponent = 0 /\ r \in 0 .. MaxU
  <2>1. c.integer \in 0 .. MaxU /\ d \in 0 .. 9
    BY DEF Components, Digit, Ascii
  <2> QED BY <1>1, <2>1, CounterFacts DEF IntHeld
<1> HIDE DEF s, r
<1>5. /\ SameSigns(c, b) /\ SameDec(c, b) /\ b.exponent = c.exponent
      /\ b.integer = s /\ (b.isinteger <=> c.isinteger)
  BY DEF Components, SameSigns, SameDec
<1>6. /\ SameSigns(c, o) /\ SameDec(c, o) /\ o.exponent = c.exponent
      /\ o.integer = r /\ ~o.isinteger
  BY DEF Components, SameSigns, SameDec
<1>7. o \in Components
  BY <1>4 DEF Components
<1> HIDE DEF b, o
<1>8. /\ SameSigns(o, e) /\ SameDec(o, e) /\ SameInt(o, e)
      /\ e.exponent = o.exponent + 1 /\ (e.isinteger <=> o.isinteger)
  BY <1>7 DEF Components, SameSigns, SameDec, SameInt
<1> HIDE DEF e
<1>9. ASSUME ~Overflows(c.integer, d) PROVE ReadSoFar("num.int", q, b)
  <2>1. SignsHeld(q, b) /\ b.isinteger
    BY <1>1, <1>2, <1>5, Zenon DEF SignsHeld, SameSigns
  <2>2. DecHeld(q, b)
    BY <1>1, <1>2, <1>5 DEF DecHeld, DecExact, DecDropped, SameDec
  <2>3. IntHeld(q, b) /\ Fits64(q.int)
    BY <1>3, <1>4, <1>5, <1>9 DEF IntHeld
  <2> QED BY <2>1, <2>2, <2>3, ReadSoFarIs
<1>10. ASSUME Overflows(c.integer, d) PROVE ReadSoFar("num.big", q, e)
  <2>1. SignsHeld(q, e) /\ ~e.isinteger
    BY <1>1, <1>2, <1>6, <1>8, Zenon DEF SignsHeld, SameSigns
  <2>2. DecHeld(q, e)
    BY <1>1, <1>2, <1>6, <1>8 DEF DecHeld, DecExact, DecDropped, SameDec
  <2>3. e.exponent = 1 /\ e.integer = r
    BY <1>4, <1>6, <1>8 DEF SameInt
  <2>4. IntHeld(q, e) /\ ~Fits64(q.int)
    BY <1>3, <2>3, <1>10 DEF IntHeld
  <2> QED BY <2>1, <2>2, <2>4, ReadSoFarIs
<1> QED BY <1>9, <1>10 DEF b, o, e, s, r

\* Digits do not fit again once they did not.
LEMMA FitsGrows ==
  ASSUME NEW ds \in Seq(Digit), NEW ch \in Digit
  PROVE  /\ ~Fits64(ds) => ~Fits64(Append(ds, ch))
         /\ Fits64(ds) => NumberOf(ds) \in 0 .. MaxU
         /\ Fits64(ds) /\ ~Overflows(NumberOf(ds), ch - Ascii.zero) =>
              /\ Fits64(Append(ds, ch))
              /\ NumberOf(Append(ds, ch)) = Shift10(NumberOf(ds), ch - Ascii.zero)
         /\ Fits64(ds) /\ Overflows(NumberOf(ds), ch - Ascii.zero) =>
              ~Fits64(Append(ds, ch)) /\ 10 * NumberOf(ds) + (ch - 48) > MaxU
<1> DEFINE n == NumberOf(ds)
           es == Append(ds, ch)
           d == ch - Ascii.zero
           t == 10 * n + (ch - 48)
<1>1. n \in 0 .. MaxU + 1 /\ MaxU \in Nat
  BY NumberFacts, NumberAssumption
<1>2. NumberOf(es) = IF t <= MaxU THEN t ELSE MaxU + 1
  BY NumberGrows
<1>4. n <= MaxU => /\ Overflows(n, d) <=> t > MaxU
                   /\ ~Overflows(n, d) => Shift10(n, d) = t
  <2> HIDE DEF n
  <2>1. SUFFICES ASSUME n <= MaxU PROVE /\ Overflows(n, d) <=> t > MaxU
                                        /\ ~Overflows(n, d) => Shift10(n, d) = t
    OBVIOUS
  <2>2. n \in 0 .. MaxU
    BY <1>1, <2>1
  <2> QED BY <2>2, OverflowIs
<1>5. t \in Nat /\ (n = MaxU + 1 => t > MaxU)
  <2>1. ch - 48 \in 0 .. 9
    BY DEF Digit, Ascii
  <2> HIDE DEF n
  <2> QED BY <1>1, <2>1
<1>6. Fits64(ds) <=> n <= MaxU
  BY DEF Fits64
<1>7. Fits64(es) <=> NumberOf(es) <= MaxU
  BY DEF Fits64
<1> HIDE DEF n, d, t, es
<1>8. t > MaxU => ~Fits64(es)
  BY <1>1, <1>2, <1>5, <1>7
<1>9. t > MaxU \/ (Fits64(es) /\ NumberOf(es) = t)
  BY <1>1, <1>2, <1>5, <1>7
<1>10. /\ ~Fits64(ds) => n = MaxU + 1
       /\ Fits64(ds) => n \in 0 .. MaxU
  BY <1>1, <1>6
<1>11. /\ ~Fits64(ds) => ~Fits64(es)
       /\ Fits64(ds) => n \in 0 .. MaxU
       /\ Fits64(ds) /\ ~Overflows(n, d) => Fits64(es) /\ NumberOf(es) = Shift10(n, d)
       /\ Fits64(ds) /\ Overflows(n, d) => ~Fits64(es) /\ t > MaxU
  BY <1>4, <1>5, <1>6, <1>8, <1>9, <1>10, Zenon
<1> QED BY <1>11 DEF n, d, es, t

\* DroppedDigit() keeps what is held behind a digit that did not fit.
LEMMA BigDigitHeld ==
  ASSUME NEW p, NEW q, NEW ch \in Digit, AllDigits(p), GrownInt(p, q, ch), NEW c \in Components,
         ReadSoFar("num.big", p, c)
  PROVE  ReadSoFar("num.big", q, [c EXCEPT !.exponent = @ + 1])
<1> DEFINE b == [c EXCEPT !.exponent = c.exponent + 1]
<1>1. SignsHeld(p, c) /\ DecHeld(p, c) /\ IntHeld(p, c) /\ ~c.isinteger /\ ~Fits64(p.int)
  BY ReadSoFarIs
<1>2. p.int \in Seq(Digit) /\ q.int = Append(p.int, ch) /\ q.frac = p.frac
      /\ (q.minus <=> p.minus) /\ (q.expMinus <=> p.expMinus)
  BY DEF AllDigits, GrownInt, Rest
<1>3. ~Fits64(q.int) /\ RoundedTo(q.int, c.integer, c.exponent + 1)
  BY <1>1, <1>2, WholeDropped
<1>4. /\ SameSigns(c, b) /\ SameDec(c, b) /\ b.exponent = c.exponent + 1
      /\ b.integer = c.integer /\ (b.isinteger <=> c.isinteger)
  BY DEF Components, SameSigns, SameDec
<1> HIDE DEF b
<1>5. SignsHeld(q, b) /\ ~b.isinteger
  BY <1>1, <1>2, <1>4, Zenon DEF SignsHeld, SameSigns
<1>6. DecHeld(q, b)
  BY <1>1, <1>2, <1>4 DEF DecHeld, DecExact, DecDropped, SameDec
<1>7. IntHeld(q, b)
  BY <1>3, <1>4 DEF IntHeld
<1>8. ReadSoFar("num.big", q, b)
  BY <1>3, <1>5, <1>6, <1>7, ReadSoFarIs
<1> QED BY <1>8 DEF b

\* The parts and the components are read apart.
LEMMA HeldFacts ==
  ASSUME NEW p, NEW q, NEW c
  PROVE  /\ q.int = p.int => (Fits64(q.int) <=> Fits64(p.int)) /\ (IntHeld(p, c) => IntHeld(q, c))
         /\ q.frac = p.frac => (DecHeld(p, c) => DecHeld(q, c))
         /\ q.int = p.int /\ q.exp = p.exp => (ExpHeld(p, c) => ExpHeld(q, c))
         /\ Rest(p, q) => (SignsHeld(p, c) => SignsHeld(q, c))
<1>1. q.int = p.int => (Fits64(q.int) <=> Fits64(p.int)) /\ (IntHeld(p, c) => IntHeld(q, c))
  BY DEF IntHeld
<1>2. q.frac = p.frac => (DecHeld(p, c) => DecHeld(q, c))
  BY DEF DecHeld, DecExact, DecDropped
<1>3. q.int = p.int /\ q.exp = p.exp => (ExpHeld(p, c) => ExpHeld(q, c))
  BY DEF ExpHeld
<1>4. Rest(p, q) => (SignsHeld(p, c) => SignsHeld(q, c))
  BY Zenon DEF Rest, SignsHeld
<1> QED BY <1>1, <1>2, <1>3, <1>4

\* A leading zero is the integer.
LEMMA ZeroDigitHeld ==
  ASSUME NEW p, NEW q, GrownInt(p, q, Ascii.zero), Blank(p), NEW c \in Components,
         ReadSoFar("num.neg", p, c)
  PROVE  ReadSoFar("num.zero", q, c)
<1> DEFINE z == Ascii.zero
           e == <<>>
<1>1. SignsHeld(p, c) /\ DecHeld(p, c) /\ IntHeld(p, c) /\ c.isinteger /\ Fits64(p.int)
  BY ReadSoFarIs
<1>2. p.int = e /\ q.int = Append(e, z) /\ q.frac = p.frac /\ Rest(p, q)
  BY DEF GrownInt, Blank
<1>3. e \in Seq(Digit) /\ z \in Digit /\ z - 48 = 0
  BY DEF Digit, Ascii
<1>4. NumberOf(e) = 0 /\ MaxU \in Nat
  BY NumberFacts, NumberAssumption
<1> HIDE DEF e, z
<1>5. NumberOf(q.int) = IF 10 * NumberOf(e) + (z - 48) <= MaxU THEN 10 * NumberOf(e) + (z - 48) ELSE MaxU + 1
  BY <1>2, <1>3, NumberGrows
<1>6. NumberOf(q.int) = 0 /\ NumberOf(p.int) = 0
  BY <1>2, <1>3, <1>4, <1>5
<1>7. Fits64(q.int) /\ IntHeld(q, c)
  BY <1>1, <1>4, <1>6 DEF Fits64, IntHeld
<1>8. SignsHeld(q, c) /\ DecHeld(q, c)
  BY <1>1, <1>2, HeldFacts
<1> QED BY <1>1, <1>7, <1>8, ReadSoFarIs

\* A dot changes nothing of what is held.
LEMMA DotHeld ==
  ASSUME NEW p, NEW q, Rest(p, q), SameDigits(p, q), NEW c,
         NEW l \in {"num.zero", "num.int", "num.big"}, ReadSoFar(l, p, c)
  PROVE  ReadSoFar("num.dot", q, c)
<1>1. SignsHeld(p, c) /\ DecHeld(p, c) /\ IntHeld(p, c)
  BY ReadSoFarIs
<1>2. q.int = p.int /\ q.frac = p.frac
  BY DEF SameDigits
<1>3. SignsHeld(q, c) /\ DecHeld(q, c) /\ IntHeld(q, c)
  BY <1>1, <1>2, HeldFacts
<1> QED BY <1>3, ReadSoFarIs

\* An e changes nothing of it: the exponent, zero or the digits dropped, stays.
LEMMA MarkHeld ==
  ASSUME NEW p, NEW q, Rest(p, q), SameDigits(p, q), p.exp = <<>>, NEW c,
         NEW l \in {"num.zero", "num.int", "num.big", "num.dec", "num.decmore"}, ReadSoFar(l, p, c)
  PROVE  ReadSoFar("num.exp", q, c)
<1>1. SignsHeld(p, c) /\ DecHeld(p, c) /\ IntHeld(p, c)
  BY ReadSoFarIs DEF DecHeld
<1>2. q.int = p.int /\ q.frac = p.frac /\ q.exp = <<>>
  BY DEF SameDigits
<1>3. SignsHeld(q, c) /\ DecHeld(q, c) /\ IntHeld(q, c)
  BY <1>1, <1>2, HeldFacts
<1>4. Fits64(<<>>) /\ NumberOf(<<>>) = 0
  BY NumberFacts, NumberAssumption DEF Fits64
<1>5. ExpHeld(q, c)
  BY <1>2, <1>3, <1>4 DEF IntHeld, ExpHeld
<1> QED BY <1>3, <1>5, ReadSoFarIs

-----------------------------------------------------------------------------
(* Decimals. *)

\* Behind the dot, before the first decimal: no integer.
LEMMA DotDigitHeld ==
  ASSUME NEW p, p.frac = <<>>, NEW c \in Components, ReadSoFar("num.dot", p, c)
  PROVE  ReadSoFar("num.dec", p, [c EXCEPT !.isinteger = FALSE])
<1> DEFINE b == [c EXCEPT !.isinteger = FALSE]
<1>1. SignsHeld(p, c) /\ DecHeld(p, c) /\ IntHeld(p, c)
  BY ReadSoFarIs
<1>2. /\ SameSigns(c, b) /\ SameDec(c, b) /\ b.exponent = c.exponent
      /\ b.integer = c.integer /\ ~b.isinteger
  BY DEF Components, SameSigns, SameDec
<1> HIDE DEF b
<1>3. ~DecDropped(p, c)
  <2> DEFINE k == Len(p.frac) - c.decimal_places
  <2>1. Len(p.frac) = 0
    OBVIOUS
  <2> HIDE DEF k
  <2>2. ~RoundedTo(p.frac, c.decimal, k)
    BY <2>1 DEF RoundedTo
  <2> QED BY <2>2 DEF DecDropped, k
<1>4. DecExact(p, b)
  BY <1>1, <1>2, <1>3 DEF DecHeld, DecExact, SameDec
<1>5. IntHeld(p, b)
  BY <1>1, <1>2 DEF IntHeld
<1>6. SignsHeld(p, b)
  BY <1>1, <1>2, Zenon DEF SignsHeld, SameSigns
<1>7. ReadSoFar("num.dec", p, b)
  BY <1>2, <1>4, <1>5, <1>6, ReadSoFarIs
<1> QED BY <1>7 DEF b

\* DecimalDigit() adds the digit, or rounds if it does not fit or is not counted.
LEMMA DecimalDigitHeld ==
  ASSUME NEW p, NEW q, NEW ch \in Digit, AllDigits(p), GrownFrac(p, q, ch), NEW c \in Components,
         ReadSoFar("num.dec", p, c)
  PROVE  LET d == ch - Ascii.zero
         IN  IF Overflows(c.decimal, d) \/ c.decimal_places = MaxU
             THEN ReadSoFar("num.decmore", q, [c EXCEPT !.decimal = RoundUp(@, d)])
             ELSE ReadSoFar("num.dec", q, [c EXCEPT !.decimal = Shift10(@, d), !.decimal_places = @ + 1])
<1> DEFINE d == ch - Ascii.zero
           s == Shift10(c.decimal, d)
           r == RoundUp(c.decimal, d)
           n == Len(p.frac)
           o == [c EXCEPT !.decimal = r]
           b == [c EXCEPT !.decimal = s, !.decimal_places = c.decimal_places + 1]
<1>1. SignsHeld(p, c) /\ DecExact(p, c) /\ IntHeld(p, c) /\ ~c.isinteger
  BY ReadSoFarIs
<1>2. p.frac \in Seq(Digit) /\ q.frac = Append(p.frac, ch) /\ q.int = p.int /\ Rest(p, q)
  BY DEF AllDigits, GrownFrac
<1>3. c.decimal = NumberOf(p.frac) /\ c.decimal_places = n /\ Fits64(p.frac)
  BY <1>1 DEF DecExact
<1>4. Len(q.frac) = n + 1 /\ n \in Nat
  BY <1>2
<1>5. /\ ~Overflows(c.decimal, d) => Fits64(q.frac) /\ NumberOf(q.frac) = s
      /\ Overflows(c.decimal, d) => ~Fits64(q.frac) /\ 10 * NumberOf(p.frac) + (ch - 48) > MaxU
  BY <1>2, <1>3, FitsGrows
<1>6. Overflows(c.decimal, d) \/ n = MaxU => RoundedTo(q.frac, r, 1)
  <2>1. Overflows(c.decimal, d) \/ n = MaxU => 10 * NumberOf(p.frac) + (ch - 48) > MaxU \/ Len(p.frac) = MaxU
    BY <1>5
  <2> QED BY <1>2, <1>3, <2>1, DropFirst
<1>7. SignsHeld(q, c) /\ IntHeld(q, c)
  BY <1>1, <1>2, HeldFacts
<1> HIDE DEF s, r, n
<1>8. /\ SameSigns(c, b) /\ b.exponent = c.exponent /\ b.integer = c.integer
      /\ b.decimal = s /\ b.decimal_places = c.decimal_places + 1 /\ (b.isinteger <=> c.isinteger)
  BY DEF Components, SameSigns
<1>9. /\ SameSigns(c, o) /\ o.exponent = c.exponent /\ o.integer = c.integer
      /\ o.decimal = r /\ o.decimal_places = c.decimal_places /\ (o.isinteger <=> c.isinteger)
  BY DEF Components, SameSigns
<1> HIDE DEF b, o
<1>10. ASSUME Overflows(c.decimal, d) \/ c.decimal_places = MaxU PROVE ReadSoFar("num.decmore", q, o)
  <2>1. SignsHeld(q, o) /\ ~o.isinteger
    BY <1>1, <1>7, <1>9, Zenon DEF SignsHeld, SameSigns
  <2>2. IntHeld(q, o)
    BY <1>7, <1>9 DEF IntHeld
  <2>3. RoundedTo(q.frac, o.decimal, Len(q.frac) - o.decimal_places)
    <3>1. Len(q.frac) - o.decimal_places = 1
      BY <1>3, <1>4, <1>9
    <3>2. RoundedTo(q.frac, r, 1)
      BY <1>3, <1>6, <1>10
    <3> QED BY <1>9, <3>1, <3>2
  <2>4. Fits64(q.frac) => o.decimal_places = MaxU /\ Len(q.frac) > MaxU
    <3>1. Fits64(q.frac) => n = MaxU
      BY <1>3, <1>5, <1>10
    <3> QED BY <1>3, <1>4, <1>9, <3>1
  <2> QED BY <2>1, <2>2, <2>3, <2>4, ReadSoFarIs DEF DecDropped
<1>11. ASSUME ~(Overflows(c.decimal, d) \/ c.decimal_places = MaxU) PROVE ReadSoFar("num.dec", q, b)
  <2>1. SignsHeld(q, b) /\ ~b.isinteger
    BY <1>1, <1>7, <1>8, Zenon DEF SignsHeld, SameSigns
  <2>2. IntHeld(q, b)
    BY <1>7, <1>8 DEF IntHeld
  <2>3. DecExact(q, b)
    BY <1>3, <1>4, <1>5, <1>8, <1>11 DEF DecExact
  <2> QED BY <2>1, <2>2, <2>3, ReadSoFarIs
<1> QED BY <1>10, <1>11 DEF b, o, s, r

\* Decimals behind those are dropped.
LEMMA DecimalDropped ==
  ASSUME NEW p, NEW q, NEW ch \in Digit, AllDigits(p), GrownFrac(p, q, ch), NEW c \in Components,
         ReadSoFar("num.decmore", p, c)
  PROVE  ReadSoFar("num.decmore", q, c)
<1>1. SignsHeld(p, c) /\ DecDropped(p, c) /\ IntHeld(p, c) /\ ~c.isinteger
  BY ReadSoFarIs
<1>2. p.frac \in Seq(Digit) /\ q.frac = Append(p.frac, ch) /\ q.int = p.int /\ Rest(p, q)
  BY DEF AllDigits, GrownFrac
<1>3. SignsHeld(q, c) /\ IntHeld(q, c)
  BY <1>1, <1>2, HeldFacts
<1> DEFINE n == Len(p.frac)
           k == n - c.decimal_places
<1>4. Len(q.frac) = n + 1 /\ n \in Nat /\ c.decimal_places \in Nat /\ MaxU \in Nat
  BY <1>2, NumberAssumption DEF Components
<1>5. RoundedTo(p.frac, c.decimal, k)
  BY <1>1 DEF DecDropped
<1> HIDE DEF k
<1>6. RoundedTo(q.frac, c.decimal, k + 1)
  BY <1>2, <1>5, DropMore
<1>7. k + 1 = Len(q.frac) - c.decimal_places
  BY <1>4 DEF k
<1>8. Fits64(q.frac) => Fits64(p.frac)
  BY <1>2, FitsGrows
<1>9. Fits64(q.frac) => c.decimal_places = MaxU /\ Len(q.frac) > MaxU
  <2>1. Fits64(p.frac) => c.decimal_places = MaxU /\ n > MaxU
    BY <1>1 DEF DecDropped
  <2> HIDE DEF n
  <2> QED BY <1>4, <1>8, <2>1
<1>10. DecDropped(q, c)
  BY <1>6, <1>7, <1>9 DEF DecDropped
<1> QED BY <1>1, <1>3, <1>10, ReadSoFarIs

-----------------------------------------------------------------------------
(* The exponent. *)

\* The sign of the exponent is kept.
LEMMA SignHeld ==
  ASSUME NEW p, NEW q, SameDigits(p, q), q.minus <=> p.minus, ~p.expMinus, NEW c \in Components,
         ReadSoFar("num.exp", p, c)
  PROVE  LET b == [c EXCEPT !.isinteger = FALSE]
         IN  /\ ReadSoFar("num.exppos", p, b) /\ b \in Components
             /\ ~q.expMinus => ReadSoFar("num.exppos", q, b)
             /\ q.expMinus => ReadSoFar("num.expneg", q, [b EXCEPT !.exponent_positive = FALSE])
<1> DEFINE b == [c EXCEPT !.isinteger = FALSE]
           e == [b EXCEPT !.exponent_positive = FALSE]
<1>1. SignsHeld(p, c) /\ DecHeld(p, c) /\ ExpHeld(p, c)
  BY ReadSoFarIs
<1>2. q.int = p.int /\ q.frac = p.frac /\ q.exp = p.exp
  BY DEF SameDigits
<1>3. /\ SameSigns(c, b) /\ b.exponent = c.exponent /\ b.integer = c.integer /\ SameDec(c, b)
      /\ ~b.isinteger
  BY DEF Components, SameSigns, SameDec
<1>4. b \in Components
  BY DEF Components
<1> HIDE DEF b
<1>5. /\ e.exponent = b.exponent /\ e.integer = b.integer /\ SameDec(b, e)
      /\ (e.isinteger <=> b.isinteger) /\ (e.positive <=> b.positive) /\ ~e.exponent_positive
  BY <1>4 DEF Components, SameDec
<1> HIDE DEF e
<1>6. DecHeld(p, b) /\ ExpHeld(p, b) /\ DecHeld(p, e) /\ ExpHeld(p, e)
  BY <1>1, <1>3, <1>5 DEF DecHeld, DecExact, DecDropped, ExpHeld, SameDec
<1>7. DecHeld(q, b) /\ ExpHeld(q, b) /\ DecHeld(q, e) /\ ExpHeld(q, e)
  BY <1>2, <1>6, HeldFacts
<1>8. SignsHeld(p, b) /\ (~q.expMinus => SignsHeld(q, b)) /\ (q.expMinus => SignsHeld(q, e))
  BY <1>1, <1>3, <1>5, Zenon DEF SignsHeld, SameSigns
<1>9. ~b.isinteger /\ ~e.isinteger
  BY <1>3, <1>5, Zenon
<1>10. ReadSoFar("num.exppos", p, b)
  BY <1>6, <1>8, <1>9, ReadSoFarIs
<1>11. ~q.expMinus => ReadSoFar("num.exppos", q, b)
  BY <1>7, <1>8, <1>9, ReadSoFarIs
<1>12. q.expMinus => ReadSoFar("num.expneg", q, e)
  BY <1>7, <1>8, <1>9, ReadSoFarIs
<1> QED BY <1>4, <1>10, <1>11, <1>12 DEF b, e

\* ExponentDigit() adds the digit, or makes the exponent the largest there is.
LEMMA ExponentDigitHeld ==
  ASSUME NEW p, NEW q, NEW ch \in Digit, AllDigits(p), GrownExp(p, q, ch), NEW c \in Components,
         NEW l \in {"num.expneg", "num.exppos", "num.expd"}, ReadSoFar(l, p, c)
  PROVE  LET d == ch - Ascii.zero
         IN  IF Overflows(c.exponent, d)
             THEN ReadSoFar("num.expinf", q, [c EXCEPT !.exponent = MaxU])
             ELSE ReadSoFar("num.expd", q, [c EXCEPT !.exponent = Shift10(@, d)])
<1> DEFINE d == ch - Ascii.zero
           s == Shift10(c.exponent, d)
           o == [c EXCEPT !.exponent = MaxU]
           b == [c EXCEPT !.exponent = s]
<1>1. SignsHeld(p, c) /\ DecHeld(p, c) /\ ExpHeld(p, c) /\ ~c.isinteger
  BY ReadSoFarIs
<1>2. p.exp \in Seq(Digit) /\ q.exp = Append(p.exp, ch) /\ q.int = p.int /\ q.frac = p.frac /\ Rest(p, q)
  BY DEF AllDigits, GrownExp
<1>3. SignsHeld(q, c) /\ DecHeld(q, c) /\ (Fits64(q.int) <=> Fits64(p.int))
  BY <1>1, <1>2, HeldFacts
<1>4. Fits64(p.exp) /\ c.exponent = NumberOf(p.exp) =>
        /\ ~Overflows(c.exponent, d) => Fits64(q.exp) /\ NumberOf(q.exp) = s
        /\ Overflows(c.exponent, d) => ~Fits64(q.exp)
  BY <1>2, FitsGrows
<1>5. ~Fits64(p.exp) => ~Fits64(q.exp)
  BY <1>2, FitsGrows
<1>6. c.exponent = MaxU => Overflows(c.exponent, d)
  <2>1. d \in 0 .. 9 /\ MaxU \in Nat /\ MaxU >= 9
    BY NumberAssumption DEF Digit, Ascii
  <2> QED BY <2>1, OverflowsExactly
<1> HIDE DEF s
<1>7. /\ SameSigns(c, b) /\ b.exponent = s /\ b.integer = c.integer /\ SameDec(c, b)
      /\ (b.isinteger <=> c.isinteger)
  BY DEF Components, SameSigns, SameDec
<1>8. /\ SameSigns(c, o) /\ o.exponent = MaxU /\ o.integer = c.integer /\ SameDec(c, o)
      /\ (o.isinteger <=> c.isinteger)
  BY DEF Components, SameSigns, SameDec
<1> HIDE DEF b, o, d
<1>9. ASSUME NEW a, SameSigns(c, a), SameDec(c, a), a.isinteger <=> c.isinteger
      PROVE  SignsHeld(q, a) /\ DecHeld(q, a) /\ ~a.isinteger
  <2>1. SignsHeld(q, a) /\ ~a.isinteger
    BY <1>1, <1>3, <1>9, Zenon DEF SignsHeld, SameSigns
  <2>2. DecHeld(q, a)
    BY <1>3, <1>9 DEF DecHeld, DecExact, DecDropped, SameDec
  <2> QED BY <2>1, <2>2
<1>10. ASSUME Overflows(c.exponent, d) PROVE ReadSoFar("num.expinf", q, o)
  <2>1. Fits64(p.int) => ~Fits64(q.exp)
    BY <1>1, <1>4, <1>5, <1>10 DEF ExpHeld
  <2>2. ExpHeld(q, o)
    BY <1>1, <1>2, <1>3, <1>8, <2>1 DEF ExpHeld
  <2> QED BY <1>8, <1>9, <2>2, ReadSoFarIs
<1>11. ASSUME ~Overflows(c.exponent, d) PROVE ReadSoFar("num.expd", q, b)
  <2>1. Fits64(p.int) => Fits64(q.exp) /\ NumberOf(q.exp) = s
    BY <1>1, <1>4, <1>6, <1>11 DEF ExpHeld
  <2>2. ExpHeld(q, b)
    BY <1>1, <1>2, <1>3, <1>7, <2>1 DEF ExpHeld
  <2> QED BY <1>7, <1>9, <2>2, ReadSoFarIs
<1> QED BY <1>10, <1>11 DEF b, o, s, d

\* It stays the largest.
LEMMA ExponentDropped ==
  ASSUME NEW p, NEW q, NEW ch \in Digit, AllDigits(p), GrownExp(p, q, ch), NEW c \in Components,
         ReadSoFar("num.expinf", p, c)
  PROVE  ReadSoFar("num.expinf", q, c)
<1>1. SignsHeld(p, c) /\ DecHeld(p, c) /\ ExpHeld(p, c) /\ ~c.isinteger /\ c.exponent = MaxU
  BY ReadSoFarIs
<1>2. p.exp \in Seq(Digit) /\ q.exp = Append(p.exp, ch) /\ q.int = p.int /\ q.frac = p.frac /\ Rest(p, q)
  BY DEF AllDigits, GrownExp
<1>3. SignsHeld(q, c) /\ DecHeld(q, c)
  BY <1>1, <1>2, HeldFacts
<1>4. Overflows(MaxU, ch - Ascii.zero)
  <2>1. ch - Ascii.zero \in 0 .. 9 /\ MaxU \in Nat /\ MaxU >= 9
    BY NumberAssumption DEF Digit, Ascii
  <2> QED BY <2>1, OverflowsExactly
<1>5. /\ Fits64(p.exp) /\ Overflows(NumberOf(p.exp), ch - Ascii.zero) => ~Fits64(q.exp)
      /\ ~Fits64(p.exp) => ~Fits64(q.exp)
  BY <1>2, FitsGrows
<1>6. Fits64(p.int) => ~Fits64(q.exp)
  BY <1>1, <1>4, <1>5 DEF ExpHeld
<1>7. ExpHeld(q, c)
  BY <1>1, <1>2, <1>6 DEF ExpHeld
<1> QED BY <1>1, <1>3, <1>7, ReadSoFarIs

-----------------------------------------------------------------------------
(* The end of a numeral. *)

\* What is held of a numeral that is complete.
Complete(p, c) ==
  /\ IsNumeral(p)
  /\ SignsHeld(p, c) /\ DecHeld(p, c) /\ ExpHeld(p, c)
  /\ c.isinteger <=> IsInteger(p) /\ Fits64(p.int)
  /\ ~p.hasExp => NoExp(p)
  /\ ~p.hasExp /\ ~Fits64(p.int) => RoundedTo(p.int, c.integer, c.exponent)

\* AfterDecimals(): minus zero is no integer.
NotMinusZero(c) == [c EXCEPT !.isinteger = @ /\ (c.integer # 0 \/ c.positive)]

\* Nothing else of the components is changed.
LEMMA NotMinusZeroIs ==
  ASSUME NEW c \in Components
  PROVE  LET b == NotMinusZero(c)
         IN  /\ b \in Components
             /\ SameSigns(c, b) /\ SameDec(c, b) /\ SameInt(c, b) /\ b.exponent = c.exponent
             /\ b.isinteger <=> c.isinteger /\ (c.integer # 0 \/ c.positive)
<1> DEFINE v == c.isinteger /\ (c.integer # 0 \/ c.positive)
           b == [c EXCEPT !.isinteger = v]
<1>1. v \in BOOLEAN
  BY Zenon
<1> HIDE DEF v
<1>2. b \in Components /\ b.isinteger = v
  BY <1>1 DEF Components
<1>3. SameSigns(c, b) /\ SameDec(c, b) /\ SameInt(c, b) /\ b.exponent = c.exponent
  BY DEF Components, SameSigns, SameDec, SameInt
<1>4. b = NotMinusZero(c)
  BY DEF NotMinusZero, v
<1> HIDE DEF b
<1>5. b.isinteger <=> c.isinteger /\ (c.integer # 0 \/ c.positive)
  BY <1>2, Zenon DEF v
<1> QED BY <1>2, <1>3, <1>4, <1>5

\* A numeral is complete without an exponent.
LEMMA WithoutExponent ==
  ASSUME NEW p, NEW c \in Components, MantissaRead(p), NoExp(p),
         SignsHeld(p, c), DecHeld(p, c), IntHeld(p, c),
         c.isinteger <=> ~p.hasFrac /\ Fits64(p.int)
  PROVE  Complete(p, NotMinusZero(c))
<1> DEFINE b == NotMinusZero(c)
<1>1. /\ SameSigns(c, b) /\ SameDec(c, b) /\ SameInt(c, b) /\ b.exponent = c.exponent
      /\ b.isinteger <=> c.isinteger /\ (c.integer # 0 \/ c.positive)
  BY NotMinusZeroIs
<1> HIDE DEF b
<1>2. SignsHeld(p, b) /\ DecHeld(p, b) /\ IntHeld(p, b)
  <2>1. SignsHeld(p, b)
    BY <1>1, Zenon DEF SignsHeld, SameSigns
  <2>2. DecHeld(p, b) /\ IntHeld(p, b)
    BY <1>1 DEF DecHeld, DecExact, DecDropped, SameDec, SameInt, IntHeld
  <2> QED BY <2>1, <2>2
<1>3. ExpHeld(p, b)
  <2>1. Fits64(<<>>) /\ NumberOf(<<>>) = 0
    BY NumberFacts, NumberAssumption DEF Fits64
  <2>2. p.exp = <<>>
    BY DEF NoExp
  <2> QED BY <1>2, <2>1, <2>2 DEF ExpHeld, IntHeld
<1>4. IsNumeral(p) /\ ~p.hasExp
  BY Zenon DEF MantissaRead, IntRead, IsNumeral, NoExp
<1>5. ~Fits64(p.int) => RoundedTo(p.int, b.integer, b.exponent)
  BY <1>2 DEF IntHeld
<1>6. b.isinteger <=> IsInteger(p) /\ Fits64(p.int)
  <2>1. Fits64(p.int) => c.integer = NumberOf(p.int)
    BY DEF IntHeld
  <2>2. c.positive <=> ~p.minus
    BY Zenon DEF SignsHeld
  <2> QED BY <1>1, <1>4, <2>1, <2>2, Zenon DEF IsInteger
<1>7. Complete(p, b)
  BY <1>2, <1>3, <1>4, <1>5, <1>6, Zenon DEF Complete
<1> QED BY <1>7 DEF b

\* At the labels a numeral may end at it is complete.
LEMMA NumberEnds ==
  ASSUME NEW p, NEW c \in Components, NEW l, Shape(l, p), ReadSoFar(l, p, c)
  PROVE  /\ l \in {"num.zero", "num.int", "num.big", "num.dec", "num.decmore"} =>
              Complete(p, NotMinusZero(c))
         /\ l \in {"num.expd", "num.expinf"} => Complete(p, c)
<1>1. ASSUME l \in {"num.zero", "num.int", "num.big"} PROVE Complete(p, NotMinusZero(c))
  <2>1. ZeroRead(p) \/ WholeRead(p)
    BY <1>1 DEF Shape, ZeroLabels, IntLabels
  <2>2. IntRead(p) /\ NoFrac(p) /\ NoExp(p)
    <3>1. IsDigits(<<Ascii.zero>>) /\ Len(<<Ascii.zero>>) = 1
      BY DEF IsDigits, Ascii, Digit
    <3> QED BY <2>1, <3>1 DEF ZeroRead, WholeRead, IntRead
  <2>3. MantissaRead(p) /\ ~p.hasFrac
    BY <2>2, Zenon DEF MantissaRead, NoFrac
  <2>4. /\ SignsHeld(p, c) /\ DecHeld(p, c) /\ IntHeld(p, c)
        /\ \/ c.isinteger /\ Fits64(p.int)
           \/ ~c.isinteger /\ ~Fits64(p.int)
    <3>1. CASE l \in {"num.zero", "num.int"}
      BY <3>1, ReadSoFarIs, Zenon
    <3>2. CASE l = "num.big"
      BY <3>2, ReadSoFarIs, Zenon
    <3> QED BY <1>1, <3>1, <3>2
  <2>5. c.isinteger <=> ~p.hasFrac /\ Fits64(p.int)
    BY <2>3, <2>4, Zenon
  <2> QED BY <2>2, <2>3, <2>4, <2>5, WithoutExponent
<1>2. ASSUME l \in {"num.dec", "num.decmore"} PROVE Complete(p, NotMinusZero(c))
  <2>1. FracRead(p)
    BY <1>2 DEF Shape, FracLabels
  <2>2. MantissaRead(p) /\ NoExp(p) /\ p.hasFrac
    BY <2>1, Zenon DEF MantissaRead, FracRead
  <2>3. SignsHeld(p, c) /\ DecHeld(p, c) /\ IntHeld(p, c) /\ ~c.isinteger
    <3>1. CASE l = "num.dec"
      BY <3>1, ReadSoFarIs, Zenon DEF DecHeld
    <3>2. CASE l = "num.decmore"
      BY <3>2, ReadSoFarIs, Zenon DEF DecHeld
    <3> QED BY <1>2, <3>1, <3>2
  <2>4. c.isinteger <=> ~p.hasFrac /\ Fits64(p.int)
    BY <2>2, <2>3, Zenon
  <2> QED BY <2>2, <2>3, <2>4, WithoutExponent
<1>3. ASSUME l \in {"num.expd", "num.expinf"} PROVE Complete(p, c)
  <2>1. ExpRead(p)
    BY <1>3 DEF Shape, ExpDigitLabels
  <2>2. IsNumeral(p) /\ p.hasExp
    BY <2>1, Zenon DEF MantissaRead, ExpRead, IntRead, IsNumeral
  <2>3. SignsHeld(p, c) /\ DecHeld(p, c) /\ ExpHeld(p, c) /\ ~c.isinteger
    <3>1. CASE l = "num.expd"
      BY <3>1, ReadSoFarIs, Zenon
    <3>2. CASE l = "num.expinf"
      BY <3>2, ReadSoFarIs, Zenon
    <3> QED BY <1>3, <3>1, <3>2
  <2> QED BY <2>2, <2>3, Zenon DEF Complete, IsInteger
<1> QED BY <1>1, <1>2, <1>3

-----------------------------------------------------------------------------
(* What is answered of a complete numeral. *)

\* The components answered are the numeral's.
LEMMA CompleteComponents ==
  ASSUME NEW p \in PartsSet, NEW c \in Components, AllDigits(p), Complete(p, c)
  PROVE  (~Fits64(p.int) /\ (p.hasExp \/ p.hasFrac)) \/ ReadAsComponents(p, c)
<1>1. /\ p.minus \in BOOLEAN /\ p.expMinus \in BOOLEAN
      /\ c.positive \in BOOLEAN /\ c.exponent_positive \in BOOLEAN /\ c.isinteger \in BOOLEAN
  BY DEF PartsSet, Components
<1>2. c.positive = ~p.minus /\ c.exponent_positive = ~p.expMinus
      /\ c.isinteger = (IsInteger(p) /\ Fits64(p.int))
  BY <1>1, Zenon DEF Complete, SignsHeld
<1>3. DecimalsOf(p, c)
  BY Zenon DEF Complete, DecHeld, DecExact, DecDropped, DecimalsOf
<1>4. ASSUME Fits64(p.int) PROVE ExactInteger(p, c)
  <2> DEFINE e == NumberOf(p.exp)
  <2>1. e \in 0 .. MaxU + 1 /\ MaxU \in Nat
    BY NumberFacts, NumberAssumption DEF AllDigits
  <2>2. /\ c.integer = NumberOf(p.int)
        /\ c.exponent = IF e <= MaxU THEN e ELSE MaxU
    BY <1>4 DEF Complete, ExpHeld, Fits64
  <2> HIDE DEF e
  <2>3. Min({e, MaxU}) = IF e <= MaxU THEN e ELSE MaxU
    BY <2>1, MinOfTwo
  <2> QED BY <1>2, <2>2, <2>3, Zenon DEF ExactInteger, e
<1>5. ASSUME ~Fits64(p.int), ~p.hasExp PROVE RoundedInteger(p, c)
  <2>1. RoundedTo(p.int, c.integer, c.exponent) /\ ~p.expMinus
    BY <1>5, Zenon DEF Complete, NoExp
  <2> QED BY <1>2, <2>1, Zenon DEF RoundedInteger
<1> QED BY <1>2, <1>3, <1>4, <1>5, Zenon DEF ReadAsComponents

\* The integer answered is the numeral's, as far as an int64_t goes.
LEMMA CompleteInteger ==
  ASSUME NEW p, NEW c \in Components, AllDigits(p), Complete(p, c), c.isinteger,
         NumberOf(p.int) <= MaxU \div 2
  PROVE  Int64(IF c.positive THEN c.integer ELSE Uint(-c.integer)) = Signed(p)
<1> DEFINE n == NumberOf(p.int)
           h == MaxU \div 2
<1>1. Fits64(p.int) /\ IsInteger(p)
  BY Zenon DEF Complete
<1>2. c.integer = n
  BY <1>1 DEF Complete, ExpHeld
<1>3. n \in Nat /\ MaxU \in Nat /\ MaxU >= 9
  BY NumberFacts, NumberAssumption DEF AllDigits
<1>4. c.positive <=> ~p.minus
  BY Zenon DEF Complete, SignsHeld
<1>5. p.minus => n # 0
  BY <1>1, Zenon DEF IsInteger
<1> HIDE DEF n
<1>6. n <= h
  BY DEF n
<1>7. h \in Nat /\ h + h <= MaxU /\ MaxU <= h + h + 1
  BY <1>3
<1> HIDE DEF h
<1>8. Int64(n) = n
  BY <1>6 DEF Int64, h
<1>9. n # 0 => Int64(Uint(-n)) = -n
  <2> SUFFICES ASSUME n # 0 PROVE Int64(Uint(-n)) = -n
    OBVIOUS
  <2> DEFINE u == MaxU + 1 - n
  <2>1. u \in 0 .. MaxU /\ -n = u - (MaxU + 1)
    BY <1>3, <1>6, <1>7
  <2>2. Uint(-n) = u
    <3>1. -n = u + (MaxU + 1) * (-1)
      BY <1>3
    <3> HIDE DEF u
    <3> DEFINE m == MaxU + 1
    <3>2. m \in Nat \ {0} /\ u \in 0 .. m - 1
      BY <1>3, <2>1
    <3>3. (-n) % m = u
      BY <1>3, <3>1, <3>2
    <3> QED BY <3>3 DEF Uint
  <2>3. u > h
    BY <1>3, <1>6, <1>7
  <2> HIDE DEF u
  <2>4. Int64(u) = u - (MaxU + 1)
    BY <1>3, <1>7, <2>1, <2>3 DEF Int64, h
  <2> QED BY <2>1, <2>2, <2>4
<1>10. CASE p.minus
  <2>1. Signed(p) = -n
    BY <1>10, Zenon DEF Signed, n
  <2>2. (IF c.positive THEN c.integer ELSE Uint(-c.integer)) = Uint(-n)
    BY <1>2, <1>4, <1>10, Zenon
  <2> QED BY <1>5, <1>9, <1>10, <2>1, <2>2, Zenon
<1>11. CASE ~p.minus
  <2>1. Signed(p) = n
    BY <1>11, Zenon DEF Signed, n
  <2>2. (IF c.positive THEN c.integer ELSE Uint(-c.integer)) = n
    BY <1>2, <1>4, <1>11, Zenon
  <2> QED BY <1>8, <2>1, <2>2, Zenon
<1> QED BY <1>10, <1>11

\* The double answered is made of the numeral's sign, digits and exponent.
LEMMA CompleteDouble ==
  ASSUME NEW p \in PartsSet, NEW c \in Components, AllDigits(p), Complete(p, c),
         Fits64(p.int), Fits64(p.frac), Double(c).class # "nan"
  PROVE  ReadAsDouble(p, Double(c))
<1> DEFINE n == NumberOf(p.exp)
           x == c.exponent
           places == c.decimal_places
           l == Len(p.frac)
           scale == IF c.exponent_positive THEN x ELSE -x
           decimal == IF places > MinPow10 THEN 0 ELSE c.decimal
           d == Double(c)
           neg == p.minus
           zero == c.integer = 0 /\ decimal = 0
           rn == [class |-> "nan"]
           ri == [class |-> "infinity", positive |-> c.positive]
           rz == [class |-> "zero", positive |-> c.positive]
           rf == [class |-> "finite", positive |-> c.positive, integer |-> c.integer,
                  decimal |-> decimal, places |-> places, scale |-> scale]
<1>1. /\ n \in 0 .. MaxU + 1 /\ MaxU \in Nat /\ MaxPow10 \in Nat /\ MinPow10 \in Nat
      /\ MaxPow10 < MaxU /\ MinPow10 < MaxU /\ l \in Nat /\ x \in 0 .. MaxU /\ places \in 0 .. MaxU
  BY NumberFacts, NumberAssumption, PowAssumption DEF AllDigits, Components
<1>2. c.integer = NumberOf(p.int) /\ x = IF n <= MaxU THEN n ELSE MaxU
  BY DEF Complete, ExpHeld, Fits64
<1>3. c.positive = ~neg /\ (c.exponent_positive <=> ~p.expMinus)
  <2>1. neg \in BOOLEAN /\ c.positive \in BOOLEAN
    BY DEF PartsSet, Components
  <2> QED BY <2>1, Zenon DEF Complete, SignsHeld
<1>4. \/ c.decimal = NumberOf(p.frac) /\ places = l
      \/ places = MaxU /\ l > MaxU
  BY DEF Complete, DecHeld, DecExact, DecDropped
<1>5. d = CASE scale > MaxPow10 /\ zero -> rn
            [] scale > MaxPow10 /\ ~zero -> ri
            [] scale < -MinPow10 -> rz
            [] OTHER -> rf
  BY DEF Double
<1>6. d.class # "nan"
  OBVIOUS
<1>7. CASE p.expMinus
  <2>1. scale = -x
    BY <1>3, <1>7, Zenon
  <2> HIDE DEF n, x, scale, d, decimal, neg, l, places, zero, rn, ri, rz, rf
  <2>2. ~(scale > MaxPow10)
    BY <1>1, <2>1
  <2>3. scale < -MinPow10 => n > MinPow10
    BY <1>1, <1>2, <2>1
  <2>4. ~(scale < -MinPow10) => scale = -n
    BY <1>1, <1>2, <2>1
  <2>5. \/ decimal = NumberOf(p.frac) /\ places = l
        \/ decimal = 0 /\ l > MinPow10
    BY <1>1, <1>4 DEF decimal
  <2>6. CASE scale < -MinPow10
    <3>1. d = rz
      BY <1>5, <2>2, <2>6
    <3>2. d.class = "zero" /\ d.positive = c.positive
      BY <3>1 DEF rz
    <3>3. d.positive = ~neg
      BY <1>3, <3>2
    <3> QED BY <1>7, <2>3, <2>6, <3>2, <3>3 DEF ReadAsDouble, n, d, neg
  <2>7. CASE ~(scale < -MinPow10)
    <3>1. d = rf
      BY <1>5, <2>2, <2>7
    <3>2. /\ d.class = "finite" /\ d.positive = c.positive /\ d.integer = c.integer
          /\ d.decimal = decimal /\ d.places = places /\ d.scale = scale
      BY <3>1 DEF rf
    <3>3. d.positive = ~neg
      BY <1>3, <3>2
    <3>4. d.scale = (IF p.expMinus THEN -n ELSE n)
      BY <1>7, <2>4, <2>7, <3>2
    <3> QED BY <1>2, <1>7, <2>5, <3>2, <3>3, <3>4 DEF ReadAsDouble, n, d, neg, l
  <2> QED BY <2>6, <2>7
<1>8. CASE ~p.expMinus
  <2>1. scale = x
    BY <1>3, <1>8, Zenon
  <2> HIDE DEF n, x, scale, d, decimal, neg, l, places, zero, rn, ri, rz, rf
  <2>2. ~(scale < -MinPow10)
    BY <1>1, <2>1
  <2>3. scale > MaxPow10 => n > MaxPow10
    BY <1>1, <1>2, <2>1
  <2>4. ~(scale > MaxPow10) => scale = n
    BY <1>1, <1>2, <2>1
  <2>5. \/ decimal = NumberOf(p.frac) /\ places = l
        \/ decimal = 0 /\ l > MinPow10
    BY <1>1, <1>4 DEF decimal
  <2>6. CASE scale > MaxPow10
    <3>0. ~zero
      <4>1. SUFFICES ASSUME zero PROVE FALSE
        OBVIOUS
      <4>2. d = rn
        BY <1>5, <2>2, <2>6, <4>1
      <4> QED BY <1>6, <4>2 DEF rn
    <3>1. d = ri
      BY <1>5, <2>2, <2>6, <3>0
    <3>2. d.class = "infinity" /\ d.positive = c.positive
      BY <3>1 DEF ri
    <3>3. d.positive = ~neg
      BY <1>3, <3>2
    <3> QED BY <1>8, <2>3, <2>6, <3>2, <3>3 DEF ReadAsDouble, n, d, neg
  <2>7. CASE ~(scale > MaxPow10)
    <3>1. d = rf
      BY <1>5, <2>2, <2>7
    <3>2. /\ d.class = "finite" /\ d.positive = c.positive /\ d.integer = c.integer
          /\ d.decimal = decimal /\ d.places = places /\ d.scale = scale
      BY <3>1 DEF rf
    <3>3. d.positive = ~neg
      BY <1>3, <3>2
    <3>4. d.scale = (IF p.expMinus THEN -n ELSE n)
      BY <1>8, <2>4, <2>7, <3>2
    <3> QED BY <1>2, <1>8, <2>5, <3>2, <3>3, <3>4 DEF ReadAsDouble, n, d, neg, l
  <2> QED BY <2>6, <2>7
<1> QED BY <1>7, <1>8

-----------------------------------------------------------------------------
(* What no numeral is, nor goes on to be. *)

\* Where the integer part of a text begins, and where its exponent does.
IntAt(text) == IF MinusOf(text) THEN 2 ELSE 1
ExpAt(text) == IF SignOf(text) THEN MarkOf(text) + 2 ELSE MarkOf(text) + 1

\* A part of a text that is not empty, and one that is.
LEMMA PartBytes ==
  ASSUME NEW text \in Seq(Byte), NEW a \in Nat \ {0}, NEW b \in Int, b <= Len(text)
  PROVE  LET s == SubSeq(text, a, b)
         IN  /\ a <= b => Len(s) = b - a + 1 /\ s[1] = text[a]
             /\ s = <<>> <=> b < a
             /\ (\A i \in DOMAIN s : s[i] \in Digit) => \A i \in a .. b : text[i] \in Digit
<1> DEFINE s == SubSeq(text, a, b)
<1>1. \A i \in a .. b : text[i] \in Byte
  OBVIOUS
<1>2. /\ s \in Seq(Byte) /\ Len(s) = IF a <= b THEN b - a + 1 ELSE 0
      /\ \A i \in 1 .. b - a + 1 : s[i] = text[a + i - 1]
  BY <1>1, SubSeqProperties
<1> HIDE DEF s
<1>3. a <= b => Len(s) = b - a + 1 /\ s[1] = text[a]
  <2> SUFFICES ASSUME a <= b PROVE Len(s) = b - a + 1 /\ s[1] = text[a]
    OBVIOUS
  <2>1. 1 \in 1 .. b - a + 1 /\ a + 1 - 1 = a
    OBVIOUS
  <2> QED BY <1>2, <2>1
<1>4. s = <<>> <=> b < a
  <2>1. CASE b < a
    BY <2>1, SubSeqEmpty DEF s
  <2>2. CASE ~(b < a)
    <3>1. Len(s) > 0
      BY <1>2, <2>2
    <3> QED BY <2>2, <3>1
  <2> QED BY <2>1, <2>2
<1>5. ASSUME \A i \in DOMAIN s : s[i] \in Digit, NEW i \in a .. b PROVE text[i] \in Digit
  <2>1. i - a + 1 \in 1 .. b - a + 1 /\ a + (i - a + 1) - 1 = i
    BY <1>5
  <2>2. DOMAIN s = 1 .. b - a + 1
    BY <1>2, <1>5
  <2> QED BY <1>2, <1>5, <2>1, <2>2
<1> QED BY <1>3, <1>4, <1>5 DEF s

\* What RFC 8259 says of a numeral, by where it is cut.
NumeralCuts(text) ==
  LET n == Len(text)
      m == MarkOf(text)
      d == DotOf(text)
  IN  /\ IntAt(text) < d /\ (text[IntAt(text)] = 48 => d = IntAt(text) + 1)
      /\ \A i \in IntAt(text) .. d - 1 : text[i] \in Digit
      /\ d < m => d + 1 < m /\ \A i \in d + 1 .. m - 1 : text[i] \in Digit
      /\ m <= n => ExpAt(text) <= n /\ \A i \in ExpAt(text) .. n : text[i] \in Digit

\* A numeral is cut like that.
LEMMA NumeralIs ==
  ASSUME NEW text \in Seq(Byte), IsNumeralText(text)
  PROVE  NumeralCuts(text)
<1> DEFINE n == Len(text)
           m == MarkOf(text)
           d == DotOf(text)
           a == IntAt(text)
           e == ExpAt(text)
           int == SubSeq(text, a, d - 1)
           frac == SubSeq(text, d + 1, m - 1)
           exp == SubSeq(text, e, n)
<1>1. n \in Nat /\ m \in 1 .. n + 1 /\ d \in 1 .. m /\ a \in {1, 2} /\ e \in {m + 1, m + 2}
  BY CutFacts DEF IntAt, ExpAt
<1>2. /\ Parts(text).int = int /\ Parts(text).frac = frac /\ Parts(text).exp = exp
  BY PartsAre DEF IntAt, ExpAt
<1>3. /\ IsDigits(int) /\ (int[1] = 48 => Len(int) = 1)
      /\ d < m => IsDigits(frac)
      /\ m <= n => IsDigits(exp)
  <2>1. Parts(text).hasFrac <=> d < m
    BY CutsKnown
  <2>2. Parts(text).hasExp <=> m <= n
    BY CutsKnown
  <2>3. Ascii.zero = 48
    BY DEF Ascii
  <2> HIDE DEF int, frac, exp, n, m, d, a, e
  <2> QED BY <1>2, <2>1, <2>2, <2>3 DEF IsNumeralText, IsNumeral
<1>4. /\ a <= d - 1 => Len(int) = (d - 1) - a + 1 /\ int[1] = text[a]
      /\ int = <<>> <=> d - 1 < a
      /\ (\A i \in DOMAIN int : int[i] \in Digit) => \A i \in a .. d - 1 : text[i] \in Digit
  <2> HIDE DEF m, d, a
  <2>1. a \in Nat \ {0} /\ d - 1 \in Int /\ d - 1 <= Len(text)
    BY <1>1
  <2> QED BY <2>1, PartBytes
<1>5. /\ frac = <<>> <=> m - 1 < d + 1
      /\ (\A i \in DOMAIN frac : frac[i] \in Digit) => \A i \in d + 1 .. m - 1 : text[i] \in Digit
  <2> HIDE DEF m, d
  <2>1. d + 1 \in Nat \ {0} /\ m - 1 \in Int /\ m - 1 <= Len(text)
    BY <1>1
  <2> QED BY <2>1, PartBytes
<1>6. /\ exp = <<>> <=> n < e
      /\ (\A i \in DOMAIN exp : exp[i] \in Digit) => \A i \in e .. n : text[i] \in Digit
  <2> HIDE DEF e
  <2>1. e \in Nat \ {0} /\ n \in Int /\ n <= Len(text)
    <3> HIDE DEF m, n
    <3> QED BY <1>1 DEF n
  <2> QED BY <2>1, PartBytes
<1> HIDE DEF int, frac, exp, n, m, d, a, e
<1>7. a < d /\ (text[a] = 48 => d = a + 1) /\ \A i \in a .. d - 1 : text[i] \in Digit
  <2>1. int # <<>> /\ \A i \in DOMAIN int : int[i] \in Digit
    BY <1>3 DEF IsDigits
  <2>2. a < d /\ a <= d - 1
    BY <1>1, <1>4, <2>1
  <2>3. ASSUME text[a] = 48 PROVE d = a + 1
    <3>1. (d - 1) - a + 1 = 1
      BY <1>3, <1>4, <2>2, <2>3
    <3> QED BY <1>1, <3>1
  <2> QED BY <1>4, <2>1, <2>2, <2>3
<1>8. d < m => d + 1 < m /\ \A i \in d + 1 .. m - 1 : text[i] \in Digit
  BY <1>1, <1>3, <1>5 DEF IsDigits
<1>9. m <= n => e <= n /\ \A i \in e .. n : text[i] \in Digit
  BY <1>1, <1>3, <1>6 DEF IsDigits
<1> QED BY <1>7, <1>8, <1>9 DEF NumeralCuts, n, m, d, a, e

\* A byte of a numeral that is no digit is its minus, its dot, the mark of its exponent or the
\* sign of it.
LEMMA NonDigits ==
  ASSUME NEW text \in Seq(Byte), IsNumeralText(text), NEW i \in 1 .. Len(text), text[i] \notin Digit
  PROVE  /\ \/ i = 1 /\ MinusOf(text)
            \/ i = DotOf(text) /\ DotOf(text) < MarkOf(text)
            \/ i = MarkOf(text)
            \/ i = MarkOf(text) + 1 /\ SignOf(text)
         /\ text[i] \in NumeralBytes
<1> DEFINE n == Len(text)
           m == MarkOf(text)
           d == DotOf(text)
           f == FirstOf({Ascii.dot}, text)
<1>1. n \in Nat /\ m \in 1 .. n + 1 /\ d \in 1 .. m
  BY CutFacts
<1>2. NumeralCuts(text)
  BY NumeralIs
<1>3. \/ i = 1 /\ MinusOf(text)
      \/ i = d /\ d < m
      \/ i = m
      \/ i = m + 1 /\ SignOf(text)
  <2>1. /\ i \notin IntAt(text) .. d - 1
        /\ d < m => i \notin d + 1 .. m - 1
        /\ m <= n => i \notin ExpAt(text) .. n
    BY <1>2 DEF NumeralCuts
  <2> HIDE DEF m, d
  <2>2. CASE i < d
    <3>1. i < IntAt(text)
      <4>1. IntAt(text) \in Int
        BY DEF IntAt
      <4> QED BY <1>1, <2>1, <2>2, <4>1
    <3> QED BY <3>1 DEF IntAt
  <2>3. CASE i >= d /\ i < m
    BY <1>1, <2>1, <2>3
  <2>4. CASE i > m
    <3>1. i < ExpAt(text) /\ m <= n
      <4>1. ExpAt(text) \in Int
        BY <1>1 DEF ExpAt, m
      <4> QED BY <1>1, <2>1, <2>4, <4>1
    <3> QED BY <1>1, <2>4, <3>1 DEF ExpAt, m
  <2> QED BY <1>1, <2>2, <2>3, <2>4
<1>4. d < m => text[d] = Ascii.dot
  <2>1. d = IF f <= m THEN f ELSE m
    <3>1. f \in Int /\ m \in Int
      BY <1>1, FirstFacts
    <3> HIDE DEF f, m
    <3> QED BY <3>1, MinOfTwo DEF DotOf, f, m
  <2>2. f <= n => text[f] \in {Ascii.dot}
    BY FirstFacts
  <2> HIDE DEF f, m, d
  <2> QED BY <1>1, <2>1, <2>2
<1>5. m <= n => text[m] \in ExpMark
  BY FirstFacts DEF MarkOf
<1>6. text[i] \in ExpMark \cup {Ascii.minus, Ascii.plus, Ascii.dot}
  <2> HIDE DEF m, d
  <2>1. MinusOf(text) => text[1] = Ascii.minus
    BY DEF MinusOf
  <2>2. SignOf(text) => text[m + 1] \in {Ascii.minus, Ascii.plus}
    BY DEF SignOf, m
  <2> QED BY <1>1, <1>3, <1>4, <1>5, <2>1, <2>2
<1> QED BY <1>3, <1>6 DEF NumeralBytes

\* All bytes of a numeral are bytes of numerals, and there are some.
LEMMA NumeralHas ==
  ASSUME NEW text \in Seq(Byte), IsNumeralText(text)
  PROVE  text # <<>> /\ \A i \in 1 .. Len(text) : text[i] \in NumeralBytes
<1>1. \A i \in 1 .. Len(text) : text[i] \in NumeralBytes
  BY NonDigits DEF NumeralBytes
<1>2. text # <<>>
  <2>1. Parts(text).int # <<>>
    BY DEF IsNumeralText, IsNumeral, IsDigits
  <2> QED BY <2>1, PartsOfNothing DEF EmptyParts
<1> QED BY <1>1, <1>2

\* Every label of a numeral is one of a part, and of no other.
LEMMA LabelParts ==
  /\ NumberLabels \cup TextLabels =
       NegLabels \cup ZeroLabels \cup IntLabels \cup DotLabels \cup FracLabels \cup ExpLabels
         \cup SignLabels \cup ExpDigitLabels
  /\ NegLabels \cap (ZeroLabels \cup IntLabels \cup DotLabels \cup FracLabels \cup ExpLabels
                       \cup SignLabels \cup ExpDigitLabels) = {}
  /\ ZeroLabels \cap (IntLabels \cup DotLabels \cup FracLabels \cup ExpLabels \cup SignLabels
                        \cup ExpDigitLabels) = {}
  /\ IntLabels \cap (DotLabels \cup FracLabels \cup ExpLabels \cup SignLabels \cup ExpDigitLabels) = {}
  /\ DotLabels \cap (FracLabels \cup ExpLabels \cup SignLabels \cup ExpDigitLabels) = {}
  /\ FracLabels \cap (ExpLabels \cup SignLabels \cup ExpDigitLabels) = {}
  /\ ExpLabels \cap (SignLabels \cup ExpDigitLabels) = {}
  /\ SignLabels \cap ExpDigitLabels = {}
BY DEF NegLabels, ZeroLabels, IntLabels, DotLabels, FracLabels, ExpLabels, SignLabels,
       ExpDigitLabels, NumberLabels, TextLabels

\* The bytes a numeral goes on with at a label.
Accepts(l) ==
  {ch \in NumeralBytes :
     \/ ch \in Digit /\ l \notin ZeroLabels
     \/ ch = Ascii.dot /\ l \in ZeroLabels \cup IntLabels
     \/ ch \in ExpMark /\ l \in ZeroLabels \cup IntLabels \cup FracLabels
     \/ ch \in {Ascii.minus, Ascii.plus} /\ l \in ExpLabels}

\* The labels at which a numeral may end.
CompleteLabels == ZeroLabels \cup IntLabels \cup FracLabels \cup ExpDigitLabels

\* Where the text read up to a label is cut.
LEMMA CutsAt ==
  ASSUME NEW l \in NumberLabels \cup TextLabels, NEW text \in Seq(Byte), Shaped(l, text),
         l \in SignLabels => SignOf(text)
  PROVE  LET n == Len(text)
             m == MarkOf(text)
             d == DotOf(text)
         IN  /\ n >= 1
             /\ l \in NegLabels => n = 1 /\ MinusOf(text) /\ d = n + 1 /\ m = n + 1
             /\ l \in ZeroLabels => IntAt(text) = n /\ text[n] = 48 /\ d = n + 1 /\ m = n + 1
             /\ l \in IntLabels => d = n + 1 /\ m = n + 1
             /\ l \in DotLabels => d = n /\ m = n + 1
             /\ l \in FracLabels => d <= n /\ m = n + 1
             /\ l \in ExpLabels => m = n
             /\ l \in SignLabels \cup ExpDigitLabels => m < n
<1> DEFINE n == Len(text)
           m == MarkOf(text)
           d == DotOf(text)
           a == IntAt(text)
           e == ExpAt(text)
           int == SubSeq(text, a, d - 1)
           frac == SubSeq(text, d + 1, m - 1)
           exp == SubSeq(text, e, n)
           p == Parts(text)
<1>1. /\ n \in Nat /\ m \in 1 .. n + 1 /\ d \in 1 .. m /\ a \in {1, 2} /\ e \in {m + 1, m + 2}
      /\ n >= 1
  <2>1. n >= 1
    BY DEF Shaped
  <2> QED BY <2>1, CutFacts DEF IntAt, ExpAt
<1>2. /\ p.int = int /\ p.frac = frac /\ p.exp = exp
  BY PartsAre DEF IntAt, ExpAt
<1>3. /\ p.hasFrac <=> d < m
      /\ p.hasExp <=> m <= n
  BY CutsKnown
<1>4. Shape(l, p) /\ (l \in ExpLabels => m = n)
  BY DEF Shaped
<1>5. /\ a <= d - 1 => Len(int) = (d - 1) - a + 1 /\ int[1] = text[a]
      /\ int = <<>> <=> d - 1 < a
  <2> HIDE DEF m, d, a
  <2>1. a \in Nat \ {0} /\ d - 1 \in Int /\ d - 1 <= Len(text)
    BY <1>1
  <2> QED BY <2>1, PartBytes
<1>6. frac = <<>> <=> m - 1 < d + 1
  <2> HIDE DEF m, d
  <2>1. d + 1 \in Nat \ {0} /\ m - 1 \in Int /\ m - 1 <= Len(text)
    BY <1>1
  <2> QED BY <2>1, PartBytes
<1>7. exp = <<>> <=> n < e
  <2> HIDE DEF e
  <2>1. e \in Nat \ {0} /\ n \in Int /\ n <= Len(text)
    <3> HIDE DEF m, n
    <3> QED BY <1>1 DEF n
  <2> QED BY <2>1, PartBytes
<1> HIDE DEF int, frac, exp, n, m, d, p
<1>8. p.hasFrac \in BOOLEAN /\ p.hasExp \in BOOLEAN
  BY PartsFacts DEF PartsSet, p
<1>9. CASE l \in NegLabels
  <2>1. int = <<>> /\ ~(d < m) /\ ~(m <= n)
    BY <1>2, <1>3, <1>4, <1>9, Zenon DEF Shape, Blank, NoFrac, NoExp
  <2>2. d = n + 1 /\ m = n + 1 /\ n < a
    BY <1>1, <1>5, <2>1
  <2>3. a = 2 /\ MinusOf(text) /\ n = 1
    BY <1>1, <2>2 DEF IntAt
  <2> QED BY <1>1, <1>9, <2>2, <2>3, LabelParts DEF n, m, d
<1>10. CASE l \in ZeroLabels
  <2>1. int = <<48>> /\ ~(d < m) /\ ~(m <= n)
    <3>1. Ascii.zero = 48
      BY DEF Ascii
    <3> QED BY <1>2, <1>3, <1>4, <1>10, <3>1, Zenon DEF Shape, ZeroRead, NoFrac, NoExp
  <2>2. d = n + 1 /\ m = n + 1
    BY <1>1, <2>1
  <2>3. a <= d - 1
    BY <1>1, <1>5, <2>1
  <2>4. a = n /\ text[a] = 48
    BY <1>1, <1>5, <2>1, <2>2, <2>3
  <2> QED BY <1>1, <1>10, <2>2, <2>4, LabelParts DEF n, m, d
<1>11. CASE l \in IntLabels
  <2>1. ~(d < m) /\ ~(m <= n)
    BY <1>2, <1>3, <1>4, <1>11, Zenon DEF Shape, WholeRead, NoFrac, NoExp
  <2>2. d = n + 1 /\ m = n + 1
    BY <1>1, <2>1
  <2> QED BY <1>1, <1>11, <2>2, LabelParts DEF n, m, d
<1>12. CASE l \in DotLabels
  <2>1. d < m /\ ~(m <= n) /\ frac = <<>>
    BY <1>2, <1>3, <1>4, <1>12, Zenon DEF Shape, DotRead, NoExp
  <2>2. d = n /\ m = n + 1
    BY <1>1, <1>6, <2>1
  <2> QED BY <1>1, <1>12, <2>2, LabelParts DEF n, m, d
<1>13. CASE l \in FracLabels
  <2>1. d < m /\ ~(m <= n)
    BY <1>2, <1>3, <1>4, <1>13, Zenon DEF Shape, FracRead, NoExp
  <2>2. d <= n /\ m = n + 1
    BY <1>1, <2>1
  <2> QED BY <1>1, <1>13, <2>2, LabelParts DEF n, m, d
<1>14. CASE l \in ExpLabels
  BY <1>1, <1>4, <1>14, LabelParts DEF n, m, d
<1>15. CASE l \in SignLabels
  <2>1. m < n
    BY <1>15 DEF SignOf, n, m
  <2> QED BY <1>1, <1>15, <2>1, LabelParts DEF n, m, d
<1>16. CASE l \in ExpDigitLabels
  <2>1. exp # <<>>
    BY <1>2, <1>4, <1>16, Zenon DEF Shape, ExpRead, IsDigits
  <2>2. m < n
    <3> HIDE DEF e
    <3> QED BY <1>1, <1>7, <2>1
  <2> QED BY <1>1, <1>16, <2>2, LabelParts DEF n, m, d
<1> QED BY <1>9, <1>10, <1>11, <1>12, <1>13, <1>14, <1>15, <1>16, LabelParts

\* A text that is not complete is no numeral.
LEMMA Unfinished ==
  ASSUME NEW l \in (NumberLabels \cup TextLabels) \ CompleteLabels, NEW text, Shaped(l, text)
  PROVE  ~IsNumeralText(text)
<1> DEFINE p == Parts(text)
<1>1. l \in NegLabels \cup DotLabels \cup ExpLabels \cup SignLabels
  BY LabelParts DEF CompleteLabels
<1>2. Shape(l, p)
  BY DEF Shaped
<1> HIDE DEF p
<1>3. \/ p.int = <<>>
      \/ p.hasFrac /\ p.frac = <<>>
      \/ p.hasExp /\ p.exp = <<>>
  BY <1>1, <1>2, Zenon DEF Shape, Blank, DotRead, SignRead
<1> QED BY <1>3, Zenon DEF IsNumeralText, IsNumeral, IsDigits, p

\* A text with a byte more, or with it and a digit.
Longer(text, ch) == {Append(text, ch), Append(Append(text, ch), 49)}

\* Where a longer text is cut: where it was, or behind.
LEMMA LongerCuts ==
  ASSUME NEW text \in Seq(Byte), Len(text) >= 1, NEW ch \in Byte, NEW u \in Longer(text, ch)
  PROVE  LET n == Len(text)
         IN  /\ n \in Nat /\ u \in Seq(Byte) /\ n + 1 \in 1 .. Len(u) /\ u[n + 1] = ch
             /\ \A i \in 1 .. n : u[i] = text[i]
             /\ MarkOf(text) <= n => MarkOf(u) = MarkOf(text)
             /\ ~(MarkOf(text) <= n) => IF ch \in ExpMark THEN MarkOf(u) = n + 1 ELSE MarkOf(u) > n + 1
             /\ DotOf(text) <= n => DotOf(u) = DotOf(text)
             /\ ~(DotOf(text) <= n) =>
                   IF ch \in ExpMark \cup {Ascii.dot} THEN DotOf(u) = n + 1 ELSE DotOf(u) > n + 1
             /\ MinusOf(u) <=> MinusOf(text)
             /\ MarkOf(text) = n => (SignOf(u) <=> ch \in {Ascii.minus, Ascii.plus})
<1> DEFINE n == Len(text)
           t == Append(text, ch)
           v == Append(t, 49)
           m == MarkOf(text)
           d == DotOf(text)
<1>1. 49 \in Byte /\ 49 \notin ExpMark /\ 49 \notin ExpMark \cup {Ascii.dot}
  BY DEF Byte, ExpMark, Ascii
<1>2. /\ n \in Nat /\ n >= 1 /\ t \in Seq(Byte) /\ Len(t) = n + 1 /\ t[n + 1] = ch
      /\ \A i \in 1 .. n : t[i] = text[i]
  OBVIOUS
<1>3. /\ v \in Seq(Byte) /\ Len(v) = (n + 1) + 1 /\ \A i \in 1 .. n + 1 : v[i] = t[i]
  <2> HIDE DEF t
  <2>1. /\ v \in Seq(Byte) /\ Len(v) = Len(t) + 1 /\ \A i \in 1 .. Len(t) : v[i] = t[i]
    BY <1>1, <1>2, OneMore
  <2> QED BY <1>2, <2>1
<1>4. /\ MarkOf(t) = IF m <= n THEN m ELSE IF ch \in ExpMark THEN n + 1 ELSE n + 2
      /\ DotOf(t) = IF d <= n THEN d ELSE IF ch \in ExpMark \cup {Ascii.dot} THEN n + 1 ELSE n + 2
      /\ MinusOf(t) <=> MinusOf(text)
      /\ SignOf(t) <=> IF m = n THEN ch \in {Ascii.minus, Ascii.plus} ELSE SignOf(text)
  <2>1. MinusOf(t) <=> IF n = 0 THEN ch = Ascii.minus ELSE MinusOf(text)
    BY CutsGrow
  <2> QED BY <1>2, <2>1, CutsGrow
<1>5. m \in Nat /\ d \in Nat
  BY CutFacts, <1>2
<1> HIDE DEF t, n, m, d
<1>6. /\ MarkOf(v) = IF MarkOf(t) <= n + 1 THEN MarkOf(t) ELSE (n + 1) + 2
      /\ DotOf(v) = IF DotOf(t) <= n + 1 THEN DotOf(t) ELSE (n + 1) + 2
      /\ MinusOf(v) <=> MinusOf(t)
      /\ MarkOf(t) # n + 1 => (SignOf(v) <=> SignOf(t))
  <2>1. /\ MarkOf(v) = IF MarkOf(t) <= Len(t) THEN MarkOf(t)
                       ELSE IF 49 \in ExpMark THEN Len(t) + 1 ELSE Len(t) + 2
        /\ DotOf(v) = IF DotOf(t) <= Len(t) THEN DotOf(t)
                      ELSE IF 49 \in ExpMark \cup {Ascii.dot} THEN Len(t) + 1 ELSE Len(t) + 2
        /\ MinusOf(v) <=> IF Len(t) = 0 THEN 49 = Ascii.minus ELSE MinusOf(t)
        /\ SignOf(v) <=> IF MarkOf(t) = Len(t) THEN 49 \in {Ascii.minus, Ascii.plus} ELSE SignOf(t)
    BY <1>1, <1>2, CutsGrow
  <2> QED BY <1>1, <1>2, <2>1
<1> HIDE DEF v
<1>7. u = t \/ u = v
  BY DEF Longer, t, v
<1>8. /\ u \in Seq(Byte) /\ n + 1 \in 1 .. Len(u) /\ u[n + 1] = ch
      /\ \A i \in 1 .. n : u[i] = text[i]
  <2>1. CASE u = t
    BY <1>2, <2>1
  <2>2. CASE u = v
    BY <1>2, <1>3, <2>2
  <2> QED BY <1>7, <2>1, <2>2
<1>9. /\ m <= n => MarkOf(u) = m
      /\ ~(m <= n) => IF ch \in ExpMark THEN MarkOf(u) = n + 1 ELSE MarkOf(u) > n + 1
  BY <1>2, <1>4, <1>5, <1>6, <1>7
<1>10. /\ d <= n => DotOf(u) = d
       /\ ~(d <= n) => IF ch \in ExpMark \cup {Ascii.dot} THEN DotOf(u) = n + 1 ELSE DotOf(u) > n + 1
  BY <1>2, <1>4, <1>5, <1>6, <1>7
<1>11. MinusOf(u) <=> MinusOf(text)
  BY <1>4, <1>6, <1>7
<1>12. ASSUME m = n PROVE SignOf(u) <=> ch \in {Ascii.minus, Ascii.plus}
  <2>1. MarkOf(t) # n + 1
    BY <1>2, <1>4, <1>5, <1>12
  <2> QED BY <1>4, <1>6, <1>7, <1>12, <2>1
<1> QED BY <1>2, <1>8, <1>9, <1>10, <1>11, <1>12 DEF n, m, d

\* With a byte a label does not accept, and whatever comes next, a text is no numeral.
LEMMA Blocked ==
  ASSUME NEW l \in NumberLabels \cup TextLabels, NEW text \in Seq(Byte), Shaped(l, text),
         l \in SignLabels => SignOf(text),
         NEW ch \in Byte, ch \notin Accepts(l), NEW u \in Longer(text, ch)
  PROVE  ~IsNumeralText(u)
<1> SUFFICES ASSUME IsNumeralText(u) PROVE FALSE
  OBVIOUS
<1> DEFINE n == Len(text)
           m == MarkOf(text)
           d == DotOf(text)
<1>1. /\ n >= 1
      /\ l \in NegLabels => n = 1 /\ MinusOf(text) /\ d = n + 1 /\ m = n + 1
      /\ l \in ZeroLabels => IntAt(text) = n /\ text[n] = 48 /\ d = n + 1 /\ m = n + 1
      /\ l \in IntLabels => d = n + 1 /\ m = n + 1
      /\ l \in DotLabels => d = n /\ m = n + 1
      /\ l \in FracLabels => d <= n /\ m = n + 1
      /\ l \in ExpLabels => m = n
      /\ l \in SignLabels \cup ExpDigitLabels => m < n
  BY CutsAt
<1>2. /\ n \in Nat /\ u \in Seq(Byte) /\ n + 1 \in 1 .. Len(u) /\ u[n + 1] = ch
      /\ \A i \in 1 .. n : u[i] = text[i]
      /\ m <= n => MarkOf(u) = m
      /\ ~(m <= n) => IF ch \in ExpMark THEN MarkOf(u) = n + 1 ELSE MarkOf(u) > n + 1
      /\ d <= n => DotOf(u) = d
      /\ ~(d <= n) => IF ch \in ExpMark \cup {Ascii.dot} THEN DotOf(u) = n + 1 ELSE DotOf(u) > n + 1
      /\ MinusOf(u) <=> MinusOf(text)
      /\ m = n => (SignOf(u) <=> ch \in {Ascii.minus, Ascii.plus})
  BY <1>1, LongerCuts
<1>3. /\ m \in Nat /\ d \in 1 .. m /\ MarkOf(u) \in Nat /\ DotOf(u) \in 1 .. MarkOf(u)
  BY <1>2, CutFacts
<1>4. /\ IntAt(u) < DotOf(u) /\ (u[IntAt(u)] = 48 => DotOf(u) = IntAt(u) + 1)
      /\ DotOf(u) < MarkOf(u) => DotOf(u) + 1 < MarkOf(u)
  BY <1>2, NumeralIs DEF NumeralCuts
<1>5. ASSUME ch \notin Digit
      PROVE  /\ \/ n + 1 = DotOf(u) /\ DotOf(u) < MarkOf(u)
                \/ n + 1 = MarkOf(u)
                \/ n + 1 = MarkOf(u) + 1 /\ SignOf(u)
             /\ ch \in NumeralBytes
  BY <1>1, <1>2, <1>5, NonDigits
<1>6. IntAt(u) = IntAt(text) /\ IntAt(u) \in {1, 2}
  BY <1>2 DEF IntAt
<1> HIDE DEF n, m, d
<1>7. ch \in NumeralBytes
  BY <1>5 DEF NumeralBytes
<1>8. /\ ch \in Digit => l \in ZeroLabels
      /\ ch = Ascii.dot => l \notin ZeroLabels \cup IntLabels
      /\ ch \in ExpMark => l \notin ZeroLabels \cup IntLabels \cup FracLabels
      /\ ch \in {Ascii.minus, Ascii.plus} => l \notin ExpLabels
  BY <1>7 DEF Accepts
<1>9. /\ Digit \cap (ExpMark \cup {Ascii.dot, Ascii.minus, Ascii.plus}) = {}
      /\ ExpMark \cap {Ascii.dot, Ascii.minus, Ascii.plus} = {}
      /\ Ascii.dot \notin {Ascii.minus, Ascii.plus}
  BY DEF Digit, ExpMark, Ascii
<1>10. ch \in Digit \/ ch = Ascii.dot \/ ch \in ExpMark \/ ch \in {Ascii.minus, Ascii.plus}
  BY <1>7 DEF NumeralBytes
<1>11. CASE ch \in Digit
  <2>1. DotOf(u) > n + 1 /\ IntAt(u) = n /\ u[n] = 48
    BY <1>1, <1>2, <1>3, <1>6, <1>8, <1>9, <1>11
  <2> QED BY <1>2, <1>3, <1>4, <2>1
<1>12. CASE l \in NegLabels /\ ch \notin Digit
  <2>1. IntAt(u) = 2 /\ n = 1 /\ m = 2
    BY <1>1, <1>6, <1>12 DEF IntAt
  <2>2. MarkOf(u) >= 2 /\ DotOf(u) > 2
    BY <1>2, <1>3, <1>4, <2>1
  <2> QED BY <1>3, <1>5, <1>12, <2>1, <2>2
<1>13. CASE l \in ZeroLabels \cup IntLabels /\ ch \notin Digit
  <2>1. ch \in {Ascii.minus, Ascii.plus}
    BY <1>8, <1>10, <1>13
  <2>2. MarkOf(u) > n + 1 /\ DotOf(u) > n + 1
    BY <1>1, <1>2, <1>3, <1>9, <1>13, <2>1
  <2> QED BY <1>2, <1>3, <1>5, <1>13, <2>2
<1>14. CASE l \in DotLabels /\ ch \notin Digit
  <2>1. DotOf(u) = n /\ MarkOf(u) >= n + 1
    BY <1>1, <1>2, <1>3, <1>14
  <2> QED BY <1>2, <1>3, <1>4, <1>5, <1>14, <2>1
<1>15. CASE l \in FracLabels /\ ch \notin Digit
  <2>1. DotOf(u) <= n /\ MarkOf(u) > n + 1
    BY <1>1, <1>2, <1>3, <1>8, <1>15
  <2> QED BY <1>2, <1>3, <1>5, <1>15, <2>1
<1>16. CASE l \in ExpLabels /\ ch \notin Digit
  <2>1. MarkOf(u) = n /\ ~SignOf(u)
    BY <1>1, <1>2, <1>3, <1>8, <1>16
  <2> QED BY <1>2, <1>3, <1>5, <1>16, <2>1
<1>17. CASE l \in SignLabels \cup ExpDigitLabels /\ ch \notin Digit
  <2>1. MarkOf(u) < n
    BY <1>1, <1>2, <1>3, <1>17
  <2> QED BY <1>2, <1>3, <1>5, <1>17, <2>1
<1> QED BY <1>11, <1>12, <1>13, <1>14, <1>15, <1>16, <1>17, LabelParts

\* A text without the space at its end.
LEMMA StrippedIs ==
  ASSUME NEW text \in Seq(Byte)
  PROVE  LET s == Stripped(text)
         IN  \/ s = text /\ (text # <<>> => text[Len(text)] # 32)
             \/ /\ text # <<>> /\ text[Len(text)] = 32
                /\ s \in Seq(Byte) /\ Len(s) = Len(text) - 1 /\ \A i \in 1 .. Len(text) - 1 : s[i] = text[i]
<1> DEFINE n == Len(text)
           m == n - 1
           f == SubSeq(text, 1, m)
<1>1. CASE ~(text # <<>> /\ text[n] = 32)
  BY <1>1 DEF Stripped, Last
<1>2. CASE text # <<>> /\ text[n] = 32
  <2>1. n \in Nat /\ n >= 1 /\ m \in Nat /\ \A i \in 1 .. m : text[i] \in Byte
    BY <1>2
  <2>2. Stripped(text) = f
    BY <1>2 DEF Stripped, Last, Front
  <2> HIDE DEF m, n
  <2>3. /\ f \in Seq(Byte) /\ Len(f) = (IF 1 <= m THEN m - 1 + 1 ELSE 0)
        /\ \A i \in 1 .. m - 1 + 1 : f[i] = text[1 + i - 1]
    BY <2>1, SubSeqProperties
  <2> HIDE DEF f
  <2>4. Len(f) = m /\ \A i \in 1 .. m : f[i] = text[i]
    BY <2>1, <2>3
  <2> QED BY <1>2, <2>2, <2>3, <2>4 DEF m, n
<1> QED BY <1>1, <1>2

\* The text in front of a byte is what is left when that is a space.
LEMMA StrippedOfMore ==
  ASSUME NEW text \in Seq(Byte), NEW ch \in Byte
  PROVE  Stripped(Append(text, ch)) = IF ch = 32 THEN text ELSE Append(text, ch)
<1> DEFINE t == Append(text, ch)
           n == Len(text)
           s == Stripped(t)
<1>1. t \in Seq(Byte) /\ n \in Nat /\ Len(t) = n + 1 /\ t[n + 1] = ch /\ \A i \in 1 .. n : t[i] = text[i]
  BY OneMore
<1> HIDE DEF t
<1>2. \/ s = t /\ (t # <<>> => t[Len(t)] # 32)
      \/ t[Len(t)] = 32 /\ s \in Seq(Byte) /\ Len(s) = Len(t) - 1 /\ \A i \in 1 .. Len(t) - 1 : s[i] = t[i]
  BY <1>1, StrippedIs
<1> HIDE DEF s
<1>3. t # <<>>
  BY <1>1
<1>4. CASE ch = 32
  <2>1. s \in Seq(Byte) /\ Len(s) = Len(text) /\ \A i \in 1 .. Len(s) : s[i] = text[i]
    BY <1>1, <1>2, <1>3, <1>4
  <2>2. s = text
    BY <2>1, SeqEqual
  <2> QED BY <1>4, <2>2 DEF s, t
<1>5. CASE ch # 32
  <2>1. s = t
    BY <1>1, <1>2, <1>5
  <2> QED BY <1>5, <2>1 DEF s, t
<1> QED BY <1>4, <1>5

\* With a byte no label accepts, a text cannot become a numeral; a space may come behind one
\* that is complete.
LEMMA NotViable ==
  ASSUME NEW l \in NumberLabels \cup TextLabels, NEW text \in Seq(Byte), Shaped(l, text),
         l \in SignLabels => SignOf(text),
         NEW ch \in Byte, ch \notin Accepts(l), ch = 32 => l \notin CompleteLabels
  PROVE  ~IsViable(Append(text, ch))
<1> DEFINE t == Append(text, ch)
<1>1. ~IsNumeralText(t) /\ ~IsNumeralText(Append(t, 49))
  <2>1. t \in Longer(text, ch) /\ Append(t, 49) \in Longer(text, ch)
    BY DEF Longer
  <2> QED BY <2>1, Blocked
<1>2. Stripped(t) = IF ch = 32 THEN text ELSE t
  BY StrippedOfMore
<1> HIDE DEF t
<1>3. ~IsNumeralText(Stripped(t))
  <2>1. CASE ch = 32
    BY <1>2, <2>1, Unfinished
  <2>2. CASE ch # 32
    BY <1>1, <1>2, <2>2
  <2> QED BY <2>1, <2>2
<1> QED BY <1>1, <1>3 DEF IsViable, t

\* A numeral begins with a digit or a minus.
LEMMA NoBegin ==
  ASSUME NEW ch \in Byte, ch \notin Digit \cup {Ascii.minus}
  PROVE  ~IsViable(<<ch>>)
<1> DEFINE e == <<>>
           t == <<ch>>
           v == Append(t, 49)
<1>1. ASSUME NEW u \in Seq(Byte), Len(u) >= 1, u[1] = ch, IsNumeralText(u) PROVE FALSE
  <2>1. 1 \in 1 .. Len(u) /\ u[1] \notin Digit
    BY <1>1
  <2>2. ~MinusOf(u)
    BY <1>1 DEF MinusOf
  <2>3. \/ 1 = DotOf(u)
        \/ 1 = MarkOf(u)
        \/ 1 = MarkOf(u) + 1
    BY <1>1, <2>1, <2>2, NonDigits
  <2>4. MarkOf(u) \in Nat \ {0} /\ DotOf(u) \in 1 .. MarkOf(u)
    BY <1>1, CutFacts
  <2>5. 1 < DotOf(u)
    BY <1>1, <2>2, NumeralIs DEF NumeralCuts, IntAt
  <2> QED BY <2>3, <2>4, <2>5
<1>2. /\ t \in Seq(Byte) /\ Len(t) = 1 /\ t[1] = ch
      /\ v \in Seq(Byte) /\ Len(v) = 2 /\ v[1] = ch
  BY DEF Byte
<1>3. t = Append(e, ch) /\ e \in Seq(Byte)
  OBVIOUS
<1>4. ~IsNumeralText(e)
  BY PartsOfNothing DEF IsNumeralText, IsNumeral, IsDigits, EmptyParts
<1> HIDE DEF t, v, e
<1>5. Stripped(t) = e \/ Stripped(t) = t
  BY <1>3, StrippedOfMore
<1>6. ~IsNumeralText(t) /\ ~IsNumeralText(v)
  BY <1>1, <1>2
<1> QED BY <1>4, <1>5, <1>6 DEF IsViable, t, v

\* Nor does it have another byte, nor go on behind one.
LEMMA OtherByte ==
  ASSUME NEW text \in Seq(Byte), NEW i \in 1 .. Len(text), text[i] \notin NumeralBytes
  PROVE  /\ i = 1 \/ text[i] # 32 => ~IsNumeralText(Stripped(text))
         /\ i < Len(text) => ~IsViable(text)
<1> DEFINE s == Stripped(text)
           n == Len(text)
           v == Append(text, 49)
<1>1. \/ s = text
      \/ /\ text[n] = 32 /\ s \in Seq(Byte) /\ Len(s) = n - 1 /\ \A k \in 1 .. n - 1 : s[k] = text[k]
  BY StrippedIs
<1>2. s \in Seq(Byte) /\ n \in Nat
  BY <1>1
<1>3. v \in Seq(Byte) /\ i \in 1 .. Len(v) /\ v[i] = text[i]
  BY DEF Byte
<1> HIDE DEF s, v, n
<1>4. i \in 1 .. Len(s) => s[i] = text[i]
  BY <1>1, <1>2 DEF n
<1>5. ASSUME i \in 1 .. Len(s) PROVE ~IsNumeralText(s)
  BY <1>2, <1>4, <1>5, NumeralHas
<1>6. ASSUME i \notin 1 .. Len(s) PROVE i = n /\ text[i] = 32 /\ Len(s) = n - 1
  BY <1>1, <1>2, <1>6 DEF n
<1>7. ASSUME i = 1 \/ text[i] # 32 PROVE ~IsNumeralText(s)
  <2>1. CASE i \in 1 .. Len(s)
    BY <1>5, <2>1
  <2>2. CASE i \notin 1 .. Len(s)
    <3>1. Len(s) = 0
      BY <1>6, <1>7, <2>2
    <3>2. s = <<>>
      BY <1>2, <3>1
    <3> QED BY <1>2, <3>2, NumeralHas
  <2> QED BY <2>1, <2>2
<1>8. ASSUME i < n PROVE ~IsViable(text)
  <2>1. ~IsNumeralText(s)
    BY <1>2, <1>5, <1>6, <1>8
  <2>2. ~IsNumeralText(v)
    BY <1>3, NumeralHas
  <2> QED BY <2>1, <2>2 DEF IsViable, s, v
<1> QED BY <1>7, <1>8 DEF s, n

=============================================================================
