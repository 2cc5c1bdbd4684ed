-------------------------- MODULE SearchHttpProofs --------------------------
(***************************************************************************)
(* Proofs about SearchHttp for every deployment, every query and cursors   *)
(* of any length: what is refused, that a token is read back as the        *)
(* position it was written for and nothing else is, and that a run leads   *)
(* from page to page.                                                      *)
(***************************************************************************)
EXTENDS SearchHttp, SequenceTheorems, WellFoundedInduction, TLAPS

(* Induction, for properties that are sets.                                *)
LEMMA LeastOf ==
  ASSUME NEW set \in SUBSET Nat, set # {}
  PROVE  \E n \in set : \A m \in set : n <= m
<1> DEFINE less == {ss \in Nat \X Nat : ss[1] < ss[2]}
<1>1. IsWellFoundedOn(less, Nat)
  BY NatLessThanWellFounded DEF OpToRel
<1>2. PICK n \in set : \A m \in set : ~ (<<m, n>> \in less)
  BY <1>1, WFMin
<1>3. \A m \in set : m \in Nat /\ n \in Nat /\ ~ (m < n)
  BY <1>2
<1> QED
  BY <1>3

LEMMA SetInduction ==
  ASSUME NEW set, 0 \in set, \A n \in Nat : n \in set => n + 1 \in set
  PROVE  Nat \subseteq set
<1> SUFFICES ASSUME Nat \ set # {} PROVE FALSE
  OBVIOUS
<1>1. PICK n \in Nat \ set : \A m \in Nat \ set : n <= m
  BY LeastOf
<1>2. n # 0 /\ n - 1 \in Nat
  BY <1>1
<1>3. n - 1 \in set
  BY <1>1, <1>2
<1>4. (n - 1) + 1 = n
  BY <1>1
<1> QED
  BY <1>1, <1>2, <1>3, <1>4

(* A definition that recurs on something smaller has the function that it  *)
(* describes.                                                              *)
Recurs(D, V, size, before, base, step) ==
  /\ size \in [D -> Nat] /\ before \in [D -> D]
  /\ base \in [D -> V] /\ step \in [D \X V -> V]
  /\ \A x \in D : size[x] # 0 => size[before[x]] < size[x]

Solves(f, D, V, size, before, base, step) ==
  /\ f \in [D -> V]
  /\ \A x \in D : f[x] = IF size[x] = 0 THEN base[x] ELSE step[<<x, f[before[x]]>>]

LEMMA Recursion ==
  ASSUME NEW D, NEW V, NEW size, NEW before, NEW base, NEW step,
         Recurs(D, V, size, before, base, step)
  PROVE  \E f : Solves(f, D, V, size, before, base, step)
<1> SUFFICES ASSUME size \in [D -> Nat], before \in [D -> D],
                    base \in [D -> V], step \in [D \X V -> V],
                    \A x \in D : size[x] # 0 => size[before[x]] < size[x]
             PROVE  \E f : Solves(f, D, V, size, before, base, step)
  BY DEF Recurs
<1> DEFINE at(f, x) == IF size[x] = 0 THEN base[x] ELSE step[<<x, f[before[x]]>>]
           UpTo(f, n) == f \in [D -> V] /\ \A x \in D : size[x] < n => f[x] = at(f, x)
           done == {n \in Nat : \E f \in [D -> V] : UpTo(f, n)}
<1>1. 0 \in done
  <2>1. UpTo(base, 0)
    OBVIOUS
  <2> QED
    BY <2>1
<1>2. ASSUME NEW n \in Nat, n \in done PROVE n + 1 \in done
  <2>1. PICK f \in [D -> V] : UpTo(f, n)
    BY <1>2
  <2> DEFINE g == [x \in D |-> IF size[x] < n THEN f[x] ELSE at(f, x)]
  <2>2. \A x \in D : before[x] \in D /\ size[x] \in Nat /\ base[x] \in V /\ f[x] \in V
    OBVIOUS
  <2>3. \A x \in D : at(f, x) \in V
    BY <2>2
  <2>4. g \in [D -> V]
    BY <2>3
  <2>5. ASSUME NEW x \in D, size[x] < n + 1 PROVE g[x] = at(g, x)
    <3>1. size[x] # 0 => size[before[x]] < n
      BY <2>2, <2>5
    <3>2. size[x] # 0 => g[before[x]] = f[before[x]]
      BY <2>2, <3>1
    <3>3. at(g, x) = at(f, x)
      BY <3>2
    <3>4. g[x] = at(f, x)
      BY <2>1
    <3> QED
      BY <3>3, <3>4
  <2> HIDE DEF g, at
  <2>6. UpTo(g, n + 1)
    BY <2>4, <2>5
  <2> QED
    BY <2>4, <2>6
<1> HIDE DEF done
<1>3. Nat \subseteq done
  BY <1>1, <1>2, SetInduction
<1> USE DEF done
<1>4. ASSUME NEW n \in Nat, NEW f, UpTo(f, n), NEW g, UpTo(g, n)
      PROVE  \A x \in D : size[x] < n => f[x] = g[x]
  <2> DEFINE same == {k \in Nat : \A x \in D : size[x] < k /\ k <= n => f[x] = g[x]}
  <2>1. 0 \in same
    OBVIOUS
  <2>2. ASSUME NEW k \in Nat, k \in same PROVE k + 1 \in same
    <3> SUFFICES ASSUME NEW x \in D, size[x] < k + 1, k + 1 <= n PROVE f[x] = g[x]
      OBVIOUS
    <3>1. before[x] \in D /\ size[x] \in Nat /\ size[x] < n
          /\ (size[x] # 0 => size[before[x]] \in Nat /\ size[before[x]] < k)
      OBVIOUS
    <3>2. size[x] # 0 => f[before[x]] = g[before[x]]
      BY <2>2, <3>1
    <3>3. f[x] = at(f, x) /\ g[x] = at(g, x)
      BY <1>4, <3>1
    <3> QED
      BY <3>2, <3>3
  <2> HIDE DEF same
  <2>3. Nat \subseteq same
    BY <2>1, <2>2, SetInduction
  <2> QED
    BY <2>3 DEF same
<1> DEFINE A(n) == CHOOSE f \in [D -> V] : UpTo(f, n)
           F == [x \in D |-> A(size[x] + 1)[x]]
<1>5. \A n \in Nat : A(n) \in [D -> V] /\ UpTo(A(n), n)
  <2> HIDE DEF UpTo
  <2> QED
  BY <1>3
<1> HIDE DEF A
<1>6. ASSUME NEW x \in D PROVE F[x] = at(F, x) /\ F[x] \in V
  <2>1. size[x] \in Nat /\ size[x] + 1 \in Nat /\ size[x] < size[x] + 1 /\ before[x] \in D
        /\ size[before[x]] \in Nat /\ size[before[x]] + 1 \in Nat
    OBVIOUS
  <2>2. F[x] = A(size[x] + 1)[x] /\ F[before[x]] = A(size[before[x]] + 1)[before[x]]
    BY <2>1
  <2> HIDE DEF F
  <2>3. F[x] = at(A(size[x] + 1), x) /\ F[x] \in V
    BY <1>5, <2>1, <2>2
  <2>4. CASE size[x] = 0
    BY <2>3, <2>4
  <2>5. CASE size[x] # 0
    <3> DEFINE n == size[before[x]] + 1
    <3>1. n \in Nat /\ size[before[x]] < n /\ n <= size[x] + 1
      BY <2>1, <2>5
    <3>2. UpTo(A(n), n) /\ UpTo(A(size[x] + 1), n)
      <4>1. UpTo(A(n), n) /\ UpTo(A(size[x] + 1), size[x] + 1)
        BY <1>5, <2>1, <3>1
      <4>2. \A y \in D : size[y] < n => size[y] < size[x] + 1
        BY <2>1, <3>1
      <4> HIDE DEF n
      <4> QED
        BY <4>1, <4>2
    <3> HIDE DEF n, UpTo
    <3>3. A(n)[before[x]] = A(size[x] + 1)[before[x]]
      BY <1>4, <2>1, <3>1, <3>2
    <3>4. F[before[x]] = A(size[x] + 1)[before[x]]
      BY <2>2, <3>3 DEF n
    <3> QED
      BY <2>3, <2>5, <3>4
  <2> QED
    BY <2>4, <2>5, <2>3
<1>7. F \in [D -> V]
  BY <1>6
<1> QED
  BY <1>6, <1>7 DEF Solves
-----------------------------------------------------------------------------
(* Numerals, and the values of them.                                       *)
Digits == {"0", "1"}

LEMMA Halves ==
  ASSUME NEW n \in Nat
  PROVE  /\ n \div 2 \in Nat /\ n % 2 \in {0, 1} /\ n = 2 * (n \div 2) + (n % 2)
         /\ n >= 2 => n \div 2 < n /\ n \div 2 >= 1
OBVIOUS

LEMMA NumeralExists ==
  \E f \in [Nat -> Seq(Digits)] : \A n \in Nat :
    f[n] = IF n < 2 THEN <<Digit(n)>> ELSE Append(f[n \div 2], Digit(n % 2))
<1> DEFINE V == Seq(Digits)
           size == [n \in Nat |-> IF n < 2 THEN 0 ELSE n]
           half == [n \in Nat |-> n \div 2]
           base == [n \in Nat |-> <<Digit(n)>>]
           step == [x \in Nat \X V |-> Append(x[2], Digit(x[1] % 2))]
<1>1. size \in [Nat -> Nat] /\ half \in [Nat -> Nat]
  BY Halves
<1>2. \A d : Digit(d) \in Digits
  BY DEF Digit, Digits
<1>3. base \in [Nat -> V] /\ step \in [Nat \X V -> V]
  BY <1>2
<1>4. \A n \in Nat : size[n] # 0 => size[half[n]] < size[n]
  BY Halves
<1>5. /\ \A n \in Nat : size[n] = 0 <=> n < 2
      /\ \A n \in Nat : base[n] = <<Digit(n)>> /\ half[n] = n \div 2
      /\ \A n \in Nat, s \in V : step[<<n, s>>] = Append(s, Digit(n % 2))
  OBVIOUS
<1>6. Recurs(Nat, V, size, half, base, step)
  BY <1>1, <1>3, <1>4 DEF Recurs
<1> HIDE DEF V, size, half, base, step
<1>7. PICK f : Solves(f, Nat, V, size, half, base, step)
  BY <1>6, Recursion
<1>8. f \in [Nat -> V] /\ \A n \in Nat :
        f[n] = IF size[n] = 0 THEN base[n] ELSE step[<<n, f[half[n]]>>]
  BY <1>7 DEF Solves
<1>9. ASSUME NEW n \in Nat
      PROVE  f[n] = IF n < 2 THEN <<Digit(n)>> ELSE Append(f[n \div 2], Digit(n % 2))
  <2>1. /\ half[n] \in Nat /\ half[n] = n \div 2 /\ f[half[n]] \in V
        /\ f[n] = IF size[n] = 0 THEN base[n] ELSE step[<<n, f[half[n]]>>]
    BY <1>1, <1>5, <1>8
  <2>2. step[<<n, f[half[n]]>>] = Append(f[half[n]], Digit(n % 2))
    BY <1>5, <2>1
  <2> QED
    BY <1>5, <2>1, <2>2
<1> QED
  BY <1>8, <1>9 DEF V

LEMMA NumeralEquation ==
  \A n \in Nat :
    Numeral[n] = IF n < 2 THEN <<Digit(n)>> ELSE Append(Numeral[n \div 2], Digit(n % 2))
<1> DEFINE P(f) ==
      f = [n \in Nat |-> IF n < 2 THEN <<Digit(n)>> ELSE Append(f[n \div 2], Digit(n % 2))]
<1>1. Numeral = CHOOSE f : P(f)
  BY DEF Numeral
<1>2. PICK f \in [Nat -> Seq(Digits)] : \A n \in Nat :
        f[n] = IF n < 2 THEN <<Digit(n)>> ELSE Append(f[n \div 2], Digit(n % 2))
  BY NumeralExists
<1>3. P(f)
  BY <1>2
<1> HIDE DEF P
<1>4. P(Numeral)
  BY <1>1, <1>3
<1> QED
  BY <1>4 DEF P

Shorter(text) == SubSeq(text, 1, Len(text) - 1)

LastDigit(text) == IF text[Len(text)] = "0" THEN 0 ELSE 1

LEMMA ValueExists ==
  \E f \in [Seq(Digits) -> Int] : \A text \in Seq(Digits) :
    f[text] = IF text = <<>> THEN 0 ELSE 2 * f[Shorter(text)] + LastDigit(text)
<1> DEFINE D == Seq(Digits)
           size == [text \in D |-> Len(text)]
           front == [text \in D |-> IF text = <<>> THEN <<>> ELSE Shorter(text)]
           base == [text \in D |-> 0]
           step == [x \in D \X Int |-> 2 * x[2] + LastDigit(x[1])]
<1>1. \A text \in D : text # <<>> =>
        Shorter(text) \in D /\ Len(Shorter(text)) \in Nat /\ Len(Shorter(text)) < Len(text)
  BY DEF Shorter
<1>2. size \in [D -> Nat] /\ front \in [D -> D] /\ base \in [D -> Int]
  BY <1>1
<1>3. step \in [D \X Int -> Int]
  BY DEF LastDigit
<1>4. \A text \in D : size[text] # 0 => size[front[text]] < size[text]
  BY <1>1
<1>5. Recurs(D, Int, size, front, base, step)
  BY <1>2, <1>3, <1>4 DEF Recurs
<1>6. /\ \A text \in D : size[text] = 0 <=> text = <<>>
      /\ \A text \in D : base[text] = 0 /\ (text # <<>> => front[text] = Shorter(text))
      /\ \A text \in D, v \in Int : step[<<text, v>>] = 2 * v + LastDigit(text)
  OBVIOUS
<1> HIDE DEF D, size, front, base, step
<1>7. PICK f : Solves(f, D, Int, size, front, base, step)
  BY <1>5, Recursion
<1>8. f \in [D -> Int] /\ \A text \in D :
        f[text] = IF size[text] = 0 THEN base[text] ELSE step[<<text, f[front[text]]>>]
  BY <1>7 DEF Solves
<1>9. \A text \in D :
        f[text] = IF text = <<>> THEN 0 ELSE 2 * f[Shorter(text)] + LastDigit(text)
  BY <1>2, <1>6, <1>8
<1> QED
  BY <1>8, <1>9 DEF D

LEMMA ValueEquation ==
  \A text \in Seq(Digits) :
    DigitsValue[text] =
      IF text = <<>> THEN 0 ELSE 2 * DigitsValue[Shorter(text)] + LastDigit(text)
<1> DEFINE P(f) ==
      f = [text \in Seq(Digits) |->
             IF text = <<>> THEN 0 ELSE 2 * f[Shorter(text)] + LastDigit(text)]
<1>1. DigitsValue = CHOOSE f : P(f)
  BY DEF DigitsValue, Digits, Shorter, LastDigit
<1>2. PICK f \in [Seq(Digits) -> Int] : \A text \in Seq(Digits) :
        f[text] = IF text = <<>> THEN 0 ELSE 2 * f[Shorter(text)] + LastDigit(text)
  BY ValueExists
<1>3. P(f)
  BY <1>2
<1> HIDE DEF P
<1>4. P(DigitsValue)
  BY <1>1, <1>3
<1> QED
  BY <1>4 DEF P

(* A number is read back from its numeral, whatever its size.              *)
LEMMA NumeralsReadBack ==
  \A n \in Nat : /\ Numeral[n] \in Seq(Digits) /\ Numeral[n] # <<>>
                 /\ DigitsValue[Numeral[n]] = n
<1> DEFINE Reads(n) == /\ Numeral[n] \in Seq(Digits) /\ Numeral[n] # <<>>
                       /\ DigitsValue[Numeral[n]] = n
           done == {n \in Nat : \A m \in Nat : m <= n => Reads(m)}
<1>1. ASSUME NEW n \in Nat, n < 2 PROVE Reads(n)
  <2>1. Numeral[n] = <<Digit(n)>> /\ Digit(n) \in Digits
    BY <1>1, NumeralEquation DEF Digit, Digits
  <2> DEFINE text == <<Digit(n)>>
  <2>2. text \in Seq(Digits) /\ text # <<>> /\ Shorter(text) = <<>> /\ LastDigit(text) = n
    BY <1>1, <2>1 DEF Shorter, LastDigit, Digit
  <2>3. DigitsValue[<<>>] = 0
    <3> DEFINE none == <<>>
    <3>1. none \in Seq(Digits) /\ none = <<>>
      OBVIOUS
    <3> HIDE DEF none
    <3>2. DigitsValue[none] = 0
      BY <3>1, ValueEquation
    <3> QED
      BY <3>1, <3>2
  <2>4. DigitsValue[text] = 2 * DigitsValue[<<>>] + n
    BY <2>2, ValueEquation
  <2> QED
    BY <2>1, <2>2, <2>3, <2>4
<1>2. ASSUME NEW n \in Nat, n >= 2, Reads(n \div 2) PROVE Reads(n)
  <2>1. /\ n \div 2 \in Nat /\ n % 2 \in {0, 1} /\ n = 2 * (n \div 2) + (n % 2)
        /\ Digit(n % 2) \in Digits
    BY Halves DEF Digit, Digits
  <2> DEFINE half == Numeral[n \div 2]
             text == Append(half, Digit(n % 2))
  <2>2. half \in Seq(Digits) /\ DigitsValue[half] = n \div 2
    BY <1>2
  <2>3. Numeral[n] = text
    <3>1. ~ (n < 2)
      BY <1>2
    <3> QED
      BY <3>1, NumeralEquation
  <2> HIDE DEF half
  <2>4. text \in Seq(Digits) /\ text # <<>> /\ Shorter(text) = half
    BY <2>1, <2>2 DEF Shorter
  <2>5. LastDigit(text) = n % 2
    BY <2>1, <2>2 DEF LastDigit, Digit
  <2>6. DigitsValue[text] = 2 * (n \div 2) + (n % 2)
    BY <2>2, <2>4, <2>5, ValueEquation
  <2> QED
    BY <2>1, <2>3, <2>4, <2>6
<1>3. 0 \in done
  BY <1>1
<1>4. ASSUME NEW n \in Nat, n \in done PROVE n + 1 \in done
  <2> SUFFICES ASSUME NEW m \in Nat, m <= n + 1 PROVE Reads(m)
    OBVIOUS
  <2>1. CASE m < 2
    BY <1>1, <2>1
  <2>2. CASE m >= 2
    <3>1. m \div 2 \in Nat /\ m \div 2 <= n
      BY <2>2, Halves
    <3> QED
      BY <1>2, <1>4, <2>2, <3>1
  <2> QED
    BY <2>1, <2>2
<1> HIDE DEF done, Reads
<1>5. Nat \subseteq done
  BY <1>3, <1>4, SetInduction
<1>6. \A n \in Nat : Reads(n)
  BY <1>5 DEF done
<1> QED
  BY <1>6 DEF Reads

LEMMA NumeralsAreCanonical ==
  ASSUME NEW n \in Nat, MaxMillis \in Nat, n <= MaxMillis
  PROVE  CanonicalMillis(Numeral[n]) /\ ParseInt(Numeral[n]) = n
<1> DEFINE text == Numeral[n]
<1>1. text \in Seq(Digits) /\ text # <<>> /\ DigitsValue[text] = n
  BY NumeralsReadBack
<1> HIDE DEF text
<1>2. IsDigits(text) /\ Head(text) # "-"
  BY <1>1 DEF IsDigits, Digits
<1>3. IsInt(text) /\ ParseInt(text) = n
  BY <1>1, <1>2 DEF IsInt, ParseInt
<1> QED
  BY <1>3 DEF CanonicalMillis, text
-----------------------------------------------------------------------------
(* Tokens: what strings.SplitN makes of a text.                            *)
LEMMA FirstOfFacts ==
  ASSUME NEW set \in SUBSET Nat, set # {}
  PROVE  FirstOf(set) \in set /\ \A m \in set : FirstOf(set) <= m
BY LeastOf DEF FirstOf

LEMMA FirstOfIs ==
  ASSUME NEW set \in SUBSET Nat, NEW n \in set, \A m \in set : n <= m
  PROVE  FirstOf(set) = n
<1>1. FirstOf(set) \in set /\ FirstOf(set) <= n /\ n <= FirstOf(set)
  BY FirstOfFacts
<1>2. FirstOf(set) \in Nat /\ n \in Nat
  BY <1>1
<1> QED
  BY <1>1, <1>2

(* The text of a token, place by place.                                    *)
TextOf(num, key) == <<"v1", "|">> \o num \o <<"|">> \o key

LEMMA TextFacts ==
  ASSUME NEW num \in Seq(Chars), NEW key \in Seq(Chars)
  PROVE  /\ TextOf(num, key) \in Seq(Chars)
         /\ Len(num) \in Nat /\ Len(key) \in Nat
         /\ Len(TextOf(num, key)) = Len(num) + Len(key) + 3
         /\ TextOf(num, key)[1] = "v1" /\ TextOf(num, key)[2] = "|"
         /\ \A i \in 1 .. Len(num) : TextOf(num, key)[i + 2] = num[i]
         /\ TextOf(num, key)[Len(num) + 3] = "|"
         /\ \A i \in 1 .. Len(key) : TextOf(num, key)[i + Len(num) + 3] = key[i]
<1> DEFINE head == <<"v1", "|">>
           bar  == <<"|">>
           a    == head \o num
           b    == a \o bar
           c    == b \o key
<1>1. /\ head \in Seq(Chars) /\ Len(head) = 2 /\ head[1] = "v1" /\ head[2] = "|"
      /\ bar \in Seq(Chars) /\ Len(bar) = 1 /\ bar[1] = "|"
      /\ Len(num) \in Nat /\ Len(key) \in Nat
  BY DEF Chars
<1>2. TextOf(num, key) = c
  BY DEF TextOf
<1> HIDE DEF head, bar
<1>3. /\ a \in Seq(Chars) /\ Len(a) = Len(num) + 2
      /\ a[1] = "v1" /\ a[2] = "|" /\ \A i \in 1 .. Len(num) : a[i + 2] = num[i]
  <2>1. /\ a \in Seq(Chars) /\ Len(a) = Len(head) + Len(num)
        /\ \A i \in 1 .. Len(head) + Len(num) :
             a[i] = IF i <= Len(head) THEN head[i] ELSE num[i - Len(head)]
    BY <1>1, ConcatProperties
  <2> HIDE DEF a
  <2> QED
    BY <1>1, <2>1
<1> HIDE DEF a
<1>4. /\ b \in Seq(Chars) /\ Len(b) = Len(num) + 3
      /\ \A i \in 1 .. Len(a) : b[i] = a[i]
      /\ b[Len(num) + 3] = "|"
  <2>1. /\ b \in Seq(Chars) /\ Len(b) = Len(a) + Len(bar)
        /\ \A i \in 1 .. Len(a) + Len(bar) :
             b[i] = IF i <= Len(a) THEN a[i] ELSE bar[i - Len(a)]
    BY <1>1, <1>3, ConcatProperties
  <2> HIDE DEF b
  <2> QED
    BY <1>1, <1>3, <2>1
<1> HIDE DEF b
<1>5. /\ c \in Seq(Chars) /\ Len(c) = Len(num) + Len(key) + 3
      /\ \A i \in 1 .. Len(b) : c[i] = b[i]
      /\ \A i \in 1 .. Len(key) : c[i + Len(num) + 3] = key[i]
  <2>1. /\ c \in Seq(Chars) /\ Len(c) = Len(b) + Len(key)
        /\ \A i \in 1 .. Len(b) + Len(key) :
             c[i] = IF i <= Len(b) THEN b[i] ELSE key[i - Len(b)]
    BY <1>1, <1>4, ConcatProperties
  <2> HIDE DEF c
  <2>2. /\ Len(c) = Len(num) + Len(key) + 3
        /\ \A i \in 1 .. Len(b) : c[i] = b[i]
    BY <1>1, <1>4, <2>1
  <2>3. ASSUME NEW i \in 1 .. Len(key) PROVE c[i + Len(num) + 3] = key[i]
    <3> DEFINE k == i + Len(num) + 3
    <3>1. k \in 1 .. Len(b) + Len(key) /\ ~ (k <= Len(b)) /\ k - Len(b) = i
      BY <1>1, <1>4
    <3> QED
      BY <2>1, <3>1
  <2> QED
    BY <2>1, <2>2, <2>3
<1> HIDE DEF c
<1>6. c[1] = "v1" /\ c[2] = "|" /\ c[Len(num) + 3] = "|"
      /\ \A i \in 1 .. Len(num) : c[i + 2] = num[i]
  <2>1. \A i \in 1 .. Len(num) + 2 : c[i] = a[i]
    <3>1. ASSUME NEW i \in 1 .. Len(num) + 2 PROVE i \in 1 .. Len(a) /\ i \in 1 .. Len(b)
      BY <1>1, <1>3, <1>4
    <3> QED
      BY <1>4, <1>5, <3>1
  <2>2. c[1] = "v1" /\ c[2] = "|"
    BY <1>1, <1>3, <2>1
  <2>3. c[Len(num) + 3] = "|"
    <3>1. Len(num) + 3 \in 1 .. Len(b)
      BY <1>1, <1>4
    <3> QED
      BY <1>4, <1>5, <3>1
  <2>4. ASSUME NEW i \in 1 .. Len(num) PROVE c[i + 2] = num[i]
    <3>1. i + 2 \in 1 .. Len(num) + 2
      BY <1>1
    <3> QED
      BY <1>3, <2>1, <3>1
  <2> QED
    BY <2>2, <2>3, <2>4
<1> QED
  BY <1>1, <1>2, <1>5, <1>6

(* A text with a numeral in it is split where it was joined.               *)
LEMMA SplitUndoesJoin ==
  ASSUME NEW num \in Seq(Digits), NEW key \in Seq(Chars)
  PROVE  /\ HasThreeFields(TextOf(num, key))
         /\ Split(TextOf(num, key)) = [tag |-> <<"v1">>, millis |-> num, key |-> key]
<1> DEFINE text == TextOf(num, key)
           n == Len(num)
<1>1. num \in Seq(Chars) /\ \A i \in 1 .. n : num[i] # "|"
  <2>1. Digits \subseteq Chars /\ "|" \notin Digits
    BY DEF Digits, Chars
  <2> QED
    BY <2>1, SeqMonotonic
<1>2. /\ text \in Seq(Chars) /\ n \in Nat /\ Len(key) \in Nat
      /\ Len(text) = n + Len(key) + 3 /\ text[1] = "v1" /\ text[2] = "|"
      /\ \A i \in 1 .. n : text[i + 2] = num[i]
      /\ text[n + 3] = "|" /\ \A i \in 1 .. Len(key) : text[i + n + 3] = key[i]
  BY <1>1, TextFacts
<1> HIDE DEF text, n
<1>3. Bars(text) \in SUBSET Nat /\ 2 \in Bars(text) /\ n + 3 \in Bars(text)
  BY <1>2 DEF Bars
<1>4. \A i \in Bars(text) : i = 2 \/ i >= n + 3
  <2> SUFFICES ASSUME NEW i \in Bars(text), i # 2, i < n + 3 PROVE FALSE
    BY <1>2, <1>3
  <2>1. i \in Nat /\ text[i] = "|" /\ i # 1 /\ i >= 1
    BY <1>2 DEF Bars
  <2>2. i - 2 \in 1 .. n /\ (i - 2) + 2 = i
    BY <1>2, <2>1
  <2> QED
    BY <1>1, <1>2, <2>1, <2>2
<1>5. FirstOf(Bars(text)) = 2
  <2>1. \A m \in Bars(text) : 2 <= m
    BY <1>2, <1>3, <1>4
  <2> QED
    BY <1>3, <2>1, FirstOfIs
<1>6. FirstOf(Bars(text) \ {2}) = n + 3
  <2>1. /\ Bars(text) \ {2} \in SUBSET Nat /\ n + 3 \in Bars(text) \ {2}
        /\ \A m \in Bars(text) \ {2} : n + 3 <= m
    BY <1>2, <1>3, <1>4
  <2> QED
    BY <2>1, FirstOfIs
<1>7. HasThreeFields(text)
  BY <1>2, <1>3 DEF HasThreeFields
<1>8. SubSeq(text, 1, 1) = <<"v1">>
  <2>1. \A i \in 1 .. 1 : text[i] \in Chars
    BY <1>2
  <2>2. /\ SubSeq(text, 1, 1) \in Seq(Chars) /\ Len(SubSeq(text, 1, 1)) = 1
        /\ SubSeq(text, 1, 1)[1] = text[1]
    BY <2>1, SubSeqProperties
  <2> DEFINE tag == <<"v1">>
  <2>3. tag \in Seq(Chars) /\ Len(tag) = 1 /\ tag[1] = "v1"
    BY DEF Chars
  <2> HIDE DEF tag
  <2>4. SubSeq(text, 1, 1) = tag
    BY <1>2, <2>2, <2>3, SeqEqual
  <2> QED
    BY <2>4 DEF tag
<1>9. SubSeq(text, 3, n + 2) = num
  <2>1. \A i \in 3 .. n + 2 : text[i] \in Chars
    BY <1>2
  <2>2. /\ SubSeq(text, 3, n + 2) \in Seq(Chars)
        /\ Len(SubSeq(text, 3, n + 2)) = IF 3 <= n + 2 THEN n + 2 - 3 + 1 ELSE 0
        /\ \A i \in 1 .. n + 2 - 3 + 1 : SubSeq(text, 3, n + 2)[i] = text[3 + i - 1]
    BY <1>2, <2>1, SubSeqProperties
  <2>3. Len(SubSeq(text, 3, n + 2)) = n /\ \A i \in 1 .. n : SubSeq(text, 3, n + 2)[i] = num[i]
    BY <1>2, <2>2
  <2> QED
    BY <1>1, <2>2, <2>3, SeqEqual DEF n
<1>10. SubSeq(text, n + 4, Len(text)) = key
  <2> DEFINE l == Len(text)
             part == SubSeq(text, n + 4, l)
  <2>1. l = n + Len(key) + 3 /\ \A i \in n + 4 .. l : text[i] \in Chars
    BY <1>2
  <2> HIDE DEF l
  <2>2. /\ part \in Seq(Chars)
        /\ Len(part) = IF n + 4 <= l THEN l - (n + 4) + 1 ELSE 0
        /\ \A i \in 1 .. l - (n + 4) + 1 : part[i] = text[n + 4 + i - 1]
    BY <1>2, <2>1, SubSeqProperties
  <2> HIDE DEF part
  <2>3. Len(part) = Len(key) /\ \A i \in 1 .. Len(key) : part[i] = key[i]
    <3>1. Len(part) = Len(key) /\ l - (n + 4) + 1 = Len(key)
      BY <1>2, <2>1, <2>2
    <3>2. \A i \in 1 .. Len(key) : n + 4 + i - 1 = i + n + 3
      BY <1>2
    <3> QED
      BY <1>2, <2>2, <3>1, <3>2
  <2>4. part = key
    BY <2>2, <2>3, SeqEqual
  <2> QED
    BY <2>4 DEF part, l
<1>11. 2 - 1 = 1 /\ 2 + 1 = 3 /\ (n + 3) - 1 = n + 2 /\ (n + 3) + 1 = n + 4
  BY <1>2
<1> QED
  BY <1>5, <1>6, <1>7, <1>8, <1>9, <1>10, <1>11 DEF Split, text

(* A cursor is read back from the token the service writes for it.         *)
LEMMA CursorsReadBack ==
  ASSUME NEW c \in [millis : Nat, key : Seq(Chars)], ValidKey(c.key),
         MaxMillis \in Nat, c.millis <= MaxMillis,
         3 + Len(Numeral[c.millis]) + Len(c.key) <= MaxTokenLength
  PROVE  ParseCursor(Token(c)) = c
<1> DEFINE num  == Numeral[c.millis]
           text == TextOf(num, c.key)
<1>1. num \in Seq(Digits) /\ CanonicalMillis(num) /\ ParseInt(num) = c.millis
  BY NumeralsReadBack, NumeralsAreCanonical
<1>2. Token(c) = [encoding |-> "exact", text |-> text]
  BY DEF Token, TextOf
<1> HIDE DEF num, text
<1>3. /\ HasThreeFields(text)
      /\ Split(text) = [tag |-> <<"v1">>, millis |-> num, key |-> c.key]
  BY <1>1, SplitUndoesJoin DEF text
<1>4. text # <<>> /\ Len(text) <= MaxTokenLength
  <2>1. num \in Seq(Chars)
    BY <1>1, SeqMonotonic DEF Digits, Chars
  <2>2. Len(text) = Len(num) + Len(c.key) + 3 /\ Len(num) \in Nat /\ Len(c.key) \in Nat
    BY <2>1, TextFacts DEF text
  <2>3. 3 + Len(num) + Len(c.key) <= MaxTokenLength
    BY DEF num
  <2>4. Len(text) # 0 /\ Len(text) = 3 + Len(num) + Len(c.key)
    BY <2>2
  <2> QED
    BY <2>3, <2>4
<1>5. WellFormed(Token(c))
  BY <1>1, <1>2, <1>3, <1>4 DEF WellFormed, Decodes
<1>6. ParseCursor(Token(c)) = [millis |-> c.millis, key |-> c.key]
  BY <1>1, <1>2, <1>3, <1>5 DEF ParseCursor
<1> QED
  BY <1>6

(* Where the fields of a text are.                                         *)
LEMMA FieldFacts ==
  ASSUME NEW text \in Seq(Chars), HasThreeFields(text), Split(text).tag = <<"v1">>
  PROVE  /\ Split(text).millis \in Seq(Chars) /\ Split(text).key \in Seq(Chars)
         /\ text = TextOf(Split(text).millis, Split(text).key)
<1> DEFINE bars  == Bars(text)
           first == FirstOf(bars)
           rest  == bars \ {first}
           second == FirstOf(rest)
           tag == SubSeq(text, 1, first - 1)
           num == SubSeq(text, first + 1, second - 1)
           key == SubSeq(text, second + 1, Len(text))
<1>1. Split(text) = [tag |-> tag, millis |-> num, key |-> key]
  BY DEF Split
<1>2. /\ bars \in SUBSET (1 .. Len(text)) /\ Len(text) \in Nat
      /\ \A i \in bars : text[i] = "|"
      /\ \E i, j \in bars : i < j
  BY DEF Bars, HasThreeFields
<1> HIDE DEF bars
<1>3. first \in bars /\ \A i \in bars : first <= i
  <2>1. bars \in SUBSET Nat /\ bars # {}
    BY <1>2
  <2> QED
    BY <2>1, FirstOfFacts
<1> HIDE DEF first
<1>4. rest \in SUBSET Nat /\ rest # {}
  BY <1>2, <1>3
<1>5. second \in bars /\ second # first
  <2> HIDE DEF rest
  <2>1. second \in rest
    BY <1>4, FirstOfFacts
  <2> QED
    BY <2>1 DEF rest
<1> HIDE DEF second
<1>6. first \in 1 .. Len(text) /\ second \in 1 .. Len(text) /\ first < second
      /\ text[first] = "|" /\ text[second] = "|"
  BY <1>2, <1>3, <1>5
<1>7. first = 2 /\ text[1] = "v1"
  <2>1. tag = <<"v1">>
    BY <1>1
  <2>2. \A i \in 1 .. first - 1 : text[i] \in Chars
    BY <1>6
  <2>3. /\ Len(tag) = IF 1 <= first - 1 THEN first - 1 - 1 + 1 ELSE 0
        /\ \A i \in 1 .. first - 1 - 1 + 1 : tag[i] = text[1 + i - 1]
    BY <1>6, <2>2, SubSeqProperties
  <2> HIDE DEF tag
  <2>4. Len(tag) = 1 /\ tag[1] = "v1"
    BY <2>1
  <2>5. first \in Nat
    BY <1>2, <1>6
  <2>6. first = 2
    <3> DEFINE size == Len(tag)
    <3>1. size = 1 /\ size = IF 1 <= first - 1 THEN first - 1 - 1 + 1 ELSE 0
      BY <2>3, <2>4
    <3> HIDE DEF size
    <3> QED
      BY <2>5, <3>1
  <2> QED
    BY <1>6, <2>3, <2>4, <2>6
<1>8. /\ num \in Seq(Chars) /\ Len(num) = second - 3
      /\ \A i \in 1 .. Len(num) : num[i] = text[i + 2]
  <2>1. \A i \in first + 1 .. second - 1 : text[i] \in Chars
    BY <1>6
  <2>2. /\ num \in Seq(Chars)
        /\ Len(num) = IF first + 1 <= second - 1 THEN second - 1 - (first + 1) + 1 ELSE 0
        /\ \A i \in 1 .. second - 1 - (first + 1) + 1 : num[i] = text[first + 1 + i - 1]
    BY <1>6, <2>1, SubSeqProperties
  <2> HIDE DEF num
  <2>3. Len(num) = second - 3 /\ second - 1 - (first + 1) + 1 = Len(num)
    BY <1>6, <1>7, <2>2
  <2>4. \A i \in 1 .. Len(num) : first + 1 + i - 1 = i + 2
    BY <1>7
  <2> QED
    BY <2>2, <2>3, <2>4
<1>9. /\ key \in Seq(Chars) /\ Len(key) = Len(text) - second
      /\ \A i \in 1 .. Len(key) : key[i] = text[i + second]
  <2> DEFINE l == Len(text)
  <2>1. \A i \in second + 1 .. l : text[i] \in Chars /\ l \in Nat
    BY <1>6
  <2>2. second \in 1 .. l
    BY <1>6
  <2>3. l \in Nat
    BY <1>2
  <2> HIDE DEF l
  <2>4. /\ SubSeq(text, second + 1, l) \in Seq(Chars)
        /\ Len(SubSeq(text, second + 1, l)) = IF second + 1 <= l THEN l - (second + 1) + 1 ELSE 0
        /\ \A i \in 1 .. l - (second + 1) + 1 :
             SubSeq(text, second + 1, l)[i] = text[second + 1 + i - 1]
    BY <2>1, <2>2, <2>3, SubSeqProperties
  <2>5. l - (second + 1) + 1 = l - second /\ \A i \in 1 .. l - second : second + 1 + i - 1 = i + second
    BY <2>2, <2>3
  <2>6. Len(SubSeq(text, second + 1, l)) = l - second
    BY <2>2, <2>3, <2>4
  <2>7. key = SubSeq(text, second + 1, l)
    BY DEF l
  <2> HIDE DEF key
  <2>8. key \in Seq(Chars) /\ Len(key) = l - second /\ \A i \in 1 .. Len(key) : key[i] = text[i + second]
    BY <2>4, <2>5, <2>6, <2>7
  <2> QED
    BY <2>8 DEF l
<1> HIDE DEF tag, num, key
<1>10. text = TextOf(num, key)
  <2> DEFINE other == TextOf(num, key)
  <2>1. /\ other \in Seq(Chars) /\ Len(num) \in Nat /\ Len(key) \in Nat
        /\ Len(other) = Len(num) + Len(key) + 3
        /\ other[1] = "v1" /\ other[2] = "|"
        /\ \A i \in 1 .. Len(num) : other[i + 2] = num[i]
        /\ other[Len(num) + 3] = "|"
        /\ \A i \in 1 .. Len(key) : other[i + Len(num) + 3] = key[i]
    BY <1>8, <1>9, TextFacts
  <2> HIDE DEF other
  <2>2. Len(other) = Len(text) /\ Len(num) + 3 = second
    BY <1>6, <1>8, <1>9, <2>1
  <2>3. ASSUME NEW i \in 1 .. Len(text) PROVE text[i] = other[i]
    <3>1. CASE i = 1 \/ i = 2 \/ i = second
      BY <1>6, <1>7, <2>1, <2>2, <3>1
    <3>2. CASE i > 2 /\ i < second
      <4>1. i - 2 \in 1 .. Len(num) /\ (i - 2) + 2 = i
        BY <2>1, <2>2, <3>2
      <4> QED
        BY <1>8, <2>1, <4>1
    <3>3. CASE i > second
      <4> DEFINE k == i - second
      <4>1. k \in 1 .. Len(key) /\ k + second = i /\ k + Len(num) + 3 = i
        <5>1. i \in Nat /\ second \in Nat /\ Len(text) \in Nat /\ i <= Len(text)
          BY <1>2, <1>6
        <5>2. Len(key) = Len(text) - second /\ Len(num) = second - 3
          BY <1>8, <1>9
        <5> QED
          BY <3>3, <5>1, <5>2
      <4> HIDE DEF k
      <4>2. key[k] = text[k + second] /\ other[k + Len(num) + 3] = key[k]
        BY <1>9, <2>1, <4>1
      <4> QED
        BY <4>1, <4>2
    <3> QED
      BY <1>6, <3>1, <3>2, <3>3
  <2>4. text = other
    BY <2>1, <2>2, <2>3, SeqEqual
  <2> QED
    BY <2>4 DEF other
<1> QED
  BY <1>1, <1>8, <1>9, <1>10

(* Nothing but that token is taken for a cursor.                           *)
TokenType == [encoding : Encodings, text : Seq(Chars)]

LEMMA OnlyOneToken ==
  ASSUME NEW token \in TokenType, ParseCursor(token) # NoCursor
  PROVE  Token(ParseCursor(token)) = token
<1> DEFINE fields == Split(token.text)
<1>1. WellFormed(token)
  BY DEF ParseCursor
<1>2. /\ token.encoding = "exact" /\ HasThreeFields(token.text)
      /\ fields.tag = <<"v1">> /\ CanonicalMillis(fields.millis)
  BY <1>1 DEF WellFormed, Decodes
<1>3. token = [encoding |-> token.encoding, text |-> token.text] /\ token.text \in Seq(Chars)
  BY DEF TokenType
<1>4. ParseCursor(token) = [millis |-> ParseInt(fields.millis), key |-> fields.key]
  BY <1>1 DEF ParseCursor
<1>5. Numeral[ParseInt(fields.millis)] = fields.millis
  BY <1>2 DEF CanonicalMillis
<1>6. token.text = TextOf(fields.millis, fields.key)
  BY <1>2, <1>3, FieldFacts
<1> HIDE DEF fields
<1>7. Token(ParseCursor(token)) = [encoding |-> "exact", text |-> TextOf(fields.millis, fields.key)]
  <2>1. /\ ParseCursor(token).millis = ParseInt(fields.millis)
        /\ ParseCursor(token).key = fields.key
    BY <1>4
  <2> QED
    BY <1>5, <2>1 DEF Token, TextOf
<1> QED
  BY <1>2, <1>3, <1>6, <1>7
-----------------------------------------------------------------------------
(* The path of a Link, resolved against the path that was asked, is that.  *)
Ends(S, path) ==
  /\ path \in Seq(S) /\ Len(path) >= 2
  /\ path[Len(path) - 1] = "/" /\ path[Len(path)] = "bom"

LEMMA LastIsKept ==
  ASSUME NEW S, NEW path \in Seq(S), Len(path) >= 2, "bom" \in S,
         path[Len(path) - 1] = "/", path[Len(path)] = "bom"
  PROVE  Resolve(path, <<"bom">>) = path
<1> DEFINE n == Len(path)
           dir == SubSeq(path, 1, n - 1)
           last == <<"bom">>
<1>1. n \in Nat /\ n >= 2 /\ path[n - 1] = "/" /\ path[n] = "bom"
      /\ \A i \in 1 .. n : path[i] \in S
  OBVIOUS
<1>2. LastSlash(path) = n - 1
  <2> DEFINE Is(i) == path[i] = "/" /\ \A j \in i + 1 .. n : path[j] # "/"
  <2> HIDE DEF n
  <2>1. Is(n - 1) /\ n - 1 \in 1 .. n
    BY <1>1
  <2>2. ASSUME NEW i \in 1 .. n, Is(i) PROVE i = n - 1
    BY <1>1, <2>2
  <2>3. LastSlash(path) = CHOOSE i \in 1 .. n : Is(i)
    BY DEF LastSlash, n
  <2> HIDE DEF Is
  <2>4. (CHOOSE i \in 1 .. n : Is(i)) = n - 1
    BY <2>1, <2>2
  <2> QED
    BY <2>3, <2>4
<1>3. last \in Seq(S) /\ Len(last) = 1 /\ last[1] = "bom"
  OBVIOUS
<1>4. Resolve(path, last) = SubSeq(path, 1, LastSlash(path)) \o last
  BY DEF Resolve
<1>5. Resolve(path, last) = dir \o last
  BY <1>2, <1>4
<1> HIDE DEF n, last
<1>6. dir \in Seq(S) /\ Len(dir) = n - 1 /\ \A i \in 1 .. n - 1 : dir[i] = path[i]
  <2>1. \A i \in 1 .. n - 1 : path[i] \in S
    BY <1>1
  <2>2. /\ dir \in Seq(S) /\ Len(dir) = IF 1 <= n - 1 THEN n - 1 - 1 + 1 ELSE 0
        /\ \A i \in 1 .. n - 1 - 1 + 1 : dir[i] = path[1 + i - 1]
    BY <1>1, <2>1, SubSeqProperties
  <2> HIDE DEF dir
  <2>3. n - 1 - 1 + 1 = n - 1 /\ 1 <= n - 1 /\ \A i \in 1 .. n - 1 : 1 + i - 1 = i
    BY <1>1
  <2> QED
    BY <2>2, <2>3
<1> HIDE DEF dir
<1> DEFINE whole == dir \o last
<1>7. /\ whole \in Seq(S) /\ Len(whole) = Len(dir) + Len(last)
      /\ \A i \in 1 .. Len(dir) + Len(last) :
           whole[i] = IF i <= Len(dir) THEN dir[i] ELSE last[i - Len(dir)]
  <2>1. dir \in Seq(S) /\ last \in Seq(S)
    BY <1>3, <1>6
  <2> QED
    BY <2>1, ConcatProperties, Zenon
<1> HIDE DEF whole
<1>8. Len(whole) = n
  BY <1>1, <1>3, <1>6, <1>7
<1>9. \A i \in 1 .. n : whole[i] = path[i]
  <2>1. \A i \in 1 .. n : whole[i] = IF i <= n - 1 THEN dir[i] ELSE last[i - (n - 1)]
    BY <1>1, <1>3, <1>6, <1>7
  <2>2. \A i \in 1 .. n - 1 : whole[i] = path[i]
    BY <1>1, <1>6, <2>1
  <2>3. whole[n] = last[1]
    BY <1>1, <2>1
  <2> QED
    BY <1>1, <1>3, <2>2, <2>3
<1>10. whole = path
  BY <1>7, <1>8, <1>9, SeqEqual DEF n
<1> QED
  BY <1>5, <1>10 DEF last, whole

LEMMA PrefixType ==
  ASSUME NEW S, "/" \in S, NEW path \in Seq(S)
  PROVE  NormalPrefix(path) \in Seq(S)
<1> DEFINE trimmed == TrimSlash(path)
<1>1. trimmed \in Seq(S)
  <2>1. CASE path # <<>> /\ path[Len(path)] = "/"
    <3> DEFINE n == Len(path)
    <3>1. n \in Nat /\ n >= 1 /\ \A i \in 1 .. n - 1 : path[i] \in S
      BY <2>1
    <3>2. trimmed = SubSeq(path, 1, n - 1)
      BY <2>1 DEF TrimSlash
    <3> HIDE DEF n, trimmed
    <3>3. SubSeq(path, 1, n - 1) \in Seq(S)
      BY <3>1, SubSeqProperties
    <3> QED
      BY <3>2, <3>3
  <2>2. CASE ~ (path # <<>> /\ path[Len(path)] = "/")
    BY <2>2 DEF TrimSlash
  <2> QED
    BY <2>1, <2>2
<1>2. <<"/">> \in Seq(S)
  OBVIOUS
<1>3. NormalPrefix(path) = trimmed \/ NormalPrefix(path) = <<"/">> \o trimmed
  BY DEF NormalPrefix
<1> HIDE DEF trimmed
<1>4. <<"/">> \o trimmed \in Seq(S)
  BY <1>1, <1>2
<1> QED
  BY <1>1, <1>3, <1>4

LEMMA EndOfJoin ==
  ASSUME NEW S, NEW front \in Seq(S), NEW end, Ends(S, end)
  PROVE  Ends(S, front \o end)
<1> DEFINE m == Len(front)
           n == Len(end)
           whole == front \o end
<1>0. end \in Seq(S) /\ Len(end) >= 2 /\ end[Len(end) - 1] = "/" /\ end[Len(end)] = "bom"
  BY DEF Ends
<1>1. /\ whole \in Seq(S) /\ Len(whole) = Len(front) + Len(end)
      /\ \A i \in 1 .. Len(front) + Len(end) :
           whole[i] = IF i <= Len(front) THEN front[i] ELSE end[i - Len(front)]
  BY <1>0, ConcatProperties
<1> HIDE DEF whole
<1>2. m \in Nat /\ n \in Nat /\ n >= 2
  BY <1>0
<1>3. /\ Len(whole) = m + n
      /\ \A i \in 1 .. m + n : whole[i] = IF i <= m THEN front[i] ELSE end[i - m]
  BY <1>1
<1>4. end[n - 1] = "/" /\ end[n] = "bom"
  BY <1>0
<1> HIDE DEF m, n
<1>5. m + n - 1 \in 1 .. m + n /\ ~ (m + n - 1 <= m) /\ (m + n - 1) - m = n - 1
  BY <1>2
<1>6. m + n \in 1 .. m + n /\ ~ (m + n <= m) /\ (m + n) - m = n
  BY <1>2
<1>7. whole[m + n - 1] = end[n - 1] /\ whole[m + n] = end[n]
  BY <1>3, <1>5, <1>6
<1>8. whole \in Seq(S) /\ Len(whole) >= 2
      /\ whole[Len(whole) - 1] = "/" /\ whole[Len(whole)] = "bom"
  BY <1>1, <1>2, <1>3, <1>4, <1>7
<1> QED
  BY <1>8 DEF whole, Ends

(* The parts of a path; a literal is a string, which the provers do not    *)
(* know.                                                                   *)
Parts == STRING \cup {"/", "api", "v1", "bom"}

LEMMA LinkIsTheRoute ==
  ASSUME prefix \in Seq(Parts), mount \in Seq(Parts), NEW c
  PROVE  Resolve(mount \o Route, Link(c).path) = mount \o Route
<1> DEFINE S == Parts
<1>1. /\ "/" \in S /\ "v1" \in S /\ "bom" \in S
      /\ prefix \in Seq(S) /\ mount \in Seq(S)
  <2>1. "/" \in S /\ "v1" \in S /\ "bom" \in S
    BY DEF Parts
  <2>2. prefix \in Seq(S) /\ mount \in Seq(S)
    OBVIOUS
  <2> QED
    BY <2>1, <2>2
<1> HIDE DEF S
<1> DEFINE end == RouteBOM
           front == NormalPrefix(prefix)
<1>2. end \in Seq(S) /\ Ends(S, end) /\ RouteBOM[Len(RouteBOM)] = "bom"
  BY <1>1 DEF RouteBOM, Ends
<1>3. front \in Seq(S)
  BY <1>1, PrefixType, Zenon
<1>4. Link(c).path = <<"bom">>
  BY <1>2 DEF Link
<1> HIDE DEF end, front
<1>5. Ends(S, front \o end)
  BY <1>2, <1>3, EndOfJoin, Zenon
<1>6. Ends(S, mount \o (front \o end))
  BY <1>1, <1>5, EndOfJoin, Zenon
<1> DEFINE whole == mount \o (front \o end)
<1> HIDE DEF whole
<1>7. Ends(S, whole)
  BY <1>6 DEF whole
<1>8. Resolve(whole, <<"bom">>) = whole
  BY <1>1, <1>7, LastIsKept DEF Ends
<1> QED
  BY <1>4, <1>8 DEF whole, front, end, Route
-----------------------------------------------------------------------------
(* The invariant.  What a request asks decides whether it is refused, and  *)
(* what is accepted of it; what follows a Link is a request for the        *)
(* position that the Link was written for.                                 *)
Queried(q) ==
  q.decodes \in BOOLEAN /\ q.cursor \in Seq(TokenType)

Deployed ==
  /\ prefix \in Seq(Parts) /\ mount \in Seq(Parts)
  /\ origins \subseteq Entries /\ Sensible(origins)
  /\ consumer \in Consumers \cup {Program}

Asked ==
  /\ Queried(query) /\ limit = LimitOf(query.limit)
  /\ phase # "idle" => Reaches(url)
  /\ phase \in {"idle", "sent"} => pages < MaxPages

Answers ==
  \/ /\ reply \in {200, 500} /\ Valid(query) /\ accepted = Accepted(query)
     /\ reply = 500 => next = NoCursor
  \/ reply = 400 /\ ~ Valid(query) /\ next = NoCursor

Replied ==
  /\ Answered => Answers
  /\ next \in Cursors \cup {NoCursor}
  /\ Answered /\ next # NoCursor => accepted.limit > 0 /\ pages < MaxPages

Followed ==
  followed # NoCursor =>
    /\ followed \in Cursors /\ limit \in 1 .. MaxSearchLimit
    /\ query = Continuing(Token(followed), limit)

Ended ==
  /\ phase = "complete" => next = NoCursor
  /\ phase = "failed" /\ reply = 200 => ~ Readable

HttpInvariant ==
  HttpTypeOK /\ Deployed /\ Asked /\ Replied /\ Followed /\ Ended

-----------------------------------------------------------------------------
(* Which queries are accepted, and as what.                                *)
LEMMA ConstantTypes ==
  /\ MaxSearchLimit \in Nat \ {0} /\ MaxSearchLimit \in Nat /\ MaxPages \in Nat \ {0}
  /\ Cursors \subseteq [millis : Nat, key : Seq(Chars)]
  /\ \A c \in Cursors : ValidKey(c.key) /\ Len(c.key) <= MaxKeyLength /\ c.millis <= MaxMillis
  /\ Cursors # {}
  /\ MaxTokenLength \in Nat /\ MaxMillis \in Nat /\ MaxKeyLength \in Nat
  /\ \A m \in 0 .. MaxMillis : 3 + Len(Numeral[m]) + MaxKeyLength <= MaxTokenLength
  /\ Tokens \subseteq TokenType
  /\ Prefixes \subseteq Seq(STRING) /\ Mounts \subseteq Seq(STRING)
  /\ \A list \in OriginLists : list \subseteq Entries
  /\ Nothing \notin Consumers \cup {Program}
<1>1. MaxSearchLimit \in Nat \ {0} /\ MaxPages \in Nat \ {0}
  BY SearchHttpAssumption, Zenon
<1>2. MaxSearchLimit \in Nat
  BY <1>1
<1> QED
  BY <1>1, <1>2, SearchHttpAssumption, Zenon DEF TokenType

LEMMA TokenTypes ==
  ASSUME NEW c \in Cursors
  PROVE  /\ c \in [millis : Nat, key : Seq(Chars)] /\ ValidKey(c.key)
         /\ Token(c) \in TokenType /\ ParseCursor(Token(c)) = c
<1>1. c \in [millis : Nat, key : Seq(Chars)] /\ ValidKey(c.key)
  BY ConstantTypes
<1>2. /\ MaxTokenLength \in Nat /\ MaxMillis \in Nat /\ MaxKeyLength \in Nat
      /\ Len(c.key) <= MaxKeyLength /\ c.millis <= MaxMillis
      /\ \A m \in 0 .. MaxMillis : 3 + Len(Numeral[m]) + MaxKeyLength <= MaxTokenLength
  BY ConstantTypes, Zenon
<1>3. c.millis \in Nat /\ c.key \in Seq(Chars)
  BY <1>1
<1>4. Numeral[c.millis] \in Seq(Chars)
  BY <1>3, NumeralsReadBack, SeqMonotonic DEF Digits, Chars
<1>5. TextOf(Numeral[c.millis], c.key) \in Seq(Chars)
  BY <1>3, <1>4, TextFacts, Zenon
<1>6. Token(c) = [encoding |-> "exact", text |-> TextOf(Numeral[c.millis], c.key)]
  BY DEF Token, TextOf
<1>7. Token(c) \in TokenType
  BY <1>5, <1>6 DEF TokenType, Encodings
<1>8. ParseCursor(Token(c)) = c
  <2> DEFINE size == Len(Numeral[c.millis])
  <2>1. c.millis \in 0 .. MaxMillis
    BY <1>2, <1>3
  <2>2. 3 + size + MaxKeyLength <= MaxTokenLength
    BY <1>2, <2>1, Zenon
  <2> DEFINE rest == Len(c.key)
  <2>3. size \in Nat /\ rest \in Nat
    BY <1>3, <1>4
  <2>4. rest <= MaxKeyLength /\ MaxKeyLength \in Nat /\ MaxTokenLength \in Nat
    BY <1>2, Zenon
  <2> HIDE DEF size, rest
  <2>5. 3 + size + rest <= MaxTokenLength
    BY <2>2, <2>3, <2>4
  <2> QED
    BY <1>1, <1>2, <2>5, CursorsReadBack, Zenon DEF size, rest
<1> QED
  BY <1>1, <1>7, <1>8, Zenon

LEMMA Acceptable ==
  ASSUME NEW q, Queried(q), Valid(q)
  PROVE  /\ Accepted(q).after \in Nat /\ Accepted(q).limit \in 0 .. MaxSearchLimit
         /\ Accepted(q).limit = LimitOf(q.limit)
         /\ Accepted(q).cursor # NoCursor =>
              Accepted(q).after = 0 /\ Accepted(q).limit > 0
         /\ ~ Inconsistent(Accepted(q))
<1>1. MaxSearchLimit \in Nat \ {0}
  BY ConstantTypes
<1>2. \/ q.limit = <<>> /\ ~ Has(q.limit) /\ LimitOf(q.limit) = 0
      \/ Has(q.limit) /\ LimitOf(q.limit) = q.limit[1].number
  BY DEF Has, LimitOf
<1>3. Has(q.limit) => LimitOk(q.limit)
  BY DEF Valid, OpensRun, ContinuesRun
<1>4. LimitOf(q.limit) \in 0 .. MaxSearchLimit
      /\ (Has(q.limit) => LimitOf(q.limit) > 0)
  BY <1>1, <1>2, <1>3 DEF LimitOk
<1>5. CASE Has(q.cursor)
  <2>1. Has(q.limit)
    BY <1>5 DEF Valid, ContinuesRun
  <2>2. Accepted(q).after = 0 /\ Accepted(q).limit = LimitOf(q.limit)
    BY <1>5 DEF Accepted
  <2> QED
    BY <1>1, <1>4, <2>1, <2>2 DEF Inconsistent
<1>6. CASE ~ Has(q.cursor)
  <2>1. q.after[1].number \in Nat
    BY <1>6 DEF Valid, OpensRun, AfterOk
  <2>2. /\ Accepted(q).after = q.after[1].number /\ Accepted(q).limit = LimitOf(q.limit)
        /\ Accepted(q).cursor = NoCursor
    BY <1>6 DEF Accepted
  <2> QED
    BY <1>4, <2>1, <2>2 DEF Inconsistent
<1> QED
  BY <1>5, <1>6

LEMMA CanonicalTokens ==
  ASSUME NEW q, Queried(q), Valid(q)
  PROVE  \A i \in 1 .. Len(q.cursor) : q.cursor[i] = Token(Accepted(q).cursor)
<1>1. CASE Has(q.cursor)
  <2>1. Len(q.cursor) = 1 /\ ParseCursor(q.cursor[1]) # NoCursor
    BY <1>1 DEF Valid, ContinuesRun
  <2>2. q.cursor[1] \in TokenType
    BY <2>1 DEF Queried
  <2>3. Token(ParseCursor(q.cursor[1])) = q.cursor[1]
    BY <2>1, <2>2, OnlyOneToken
  <2>4. Accepted(q).cursor = ParseCursor(q.cursor[1])
    BY <1>1 DEF Accepted
  <2> QED
    BY <2>1, <2>3, <2>4
<1>2. CASE ~ Has(q.cursor)
  BY <1>2 DEF Has
<1> QED
  BY <1>1, <1>2

LEMMA Refusals ==
  ASSUME NEW q, Queried(q)
  PROVE  ~ Valid(q) <=> Documented(q)
<1>1. (Has(q.limit) => LimitOk(q.limit))
      <=> ~ (Has(q.limit) /\ q.limit[1].number \notin 1 .. MaxSearchLimit)
  BY Zenon DEF LimitOk
<1>5. q.cursor \in Seq(TokenType) /\ q.decodes \in BOOLEAN
  BY DEF Queried
<1>6. Len(q.cursor) \in Nat /\ (Has(q.cursor) <=> Len(q.cursor) > 0)
  BY <1>5 DEF Has
<1>7. CASE Has(q.cursor)
  <2>1. ContinuesRun(q) <=>
          /\ ~ Has(q.after) /\ Len(q.cursor) = 1 /\ Has(q.limit)
          /\ ~ (Has(q.limit) /\ q.limit[1].number \notin 1 .. MaxSearchLimit)
          /\ ParseCursor(q.cursor[1]) # NoCursor
    BY <1>1, Zenon DEF ContinuesRun
  <2>2. Len(q.cursor) = 1 <=> ~ (Len(q.cursor) > 1)
    <3> DEFINE n == Len(q.cursor)
    <3>1. n \in Nat /\ n > 0
      BY <1>6, <1>7, Zenon
    <3> HIDE DEF n
    <3>2. n = 1 <=> ~ (n > 1)
      BY <3>1
    <3> QED
      BY <3>2 DEF n
  <2>3. ASSUME Len(q.cursor) = 1
        PROVE  ParseCursor(q.cursor[1]) # NoCursor
               <=> ~ \E i \in 1 .. Len(q.cursor) : ParseCursor(q.cursor[i]) = NoCursor
    <3>1. 1 .. Len(q.cursor) = {1}
      BY <2>3
    <3> QED
      BY <3>1, Zenon
  <2>4. ASSUME Documented(q) PROVE ~ Valid(q)
    <3>1. Valid(q) => q.decodes /\ ContinuesRun(q)
      BY <1>7, Zenon DEF Valid
    <3>2. CASE ~ q.decodes
      BY <3>1, <3>2, Zenon
    <3>3. CASE q.decodes
      <4> SUFFICES ASSUME ContinuesRun(q) PROVE FALSE
        BY <3>1, Zenon
      <4>1. /\ ~ Has(q.after) /\ Has(q.limit) /\ ~ (Len(q.cursor) > 1)
            /\ q.limit[1].number \in 1 .. MaxSearchLimit
            /\ ~ \E i \in 1 .. Len(q.cursor) : ParseCursor(q.cursor[i]) = NoCursor
        BY <2>1, <2>2, <2>3
      <4> QED
        BY <1>7, <2>4, <3>3, <4>1, Zenon DEF Documented
    <3> QED
      BY <3>2, <3>3, Zenon
  <2>5. ASSUME ~ Documented(q) PROVE Valid(q)
    BY <1>7, <2>1, <2>2, <2>3, <2>5, Zenon DEF Documented, Valid
  <2> QED
    BY <2>4, <2>5
<1>8. CASE ~ Has(q.cursor)
  <2>1. ~ (Len(q.cursor) > 1)
        /\ ~ \E i \in 1 .. Len(q.cursor) : ParseCursor(q.cursor[i]) = NoCursor
    BY <1>6, <1>8
  <2>2. OpensRun(q) <=>
          /\ Has(q.after) /\ ~ q.after[1].blanks /\ q.after[1].number \in Nat
          /\ ~ (Has(q.limit) /\ q.limit[1].number \notin 1 .. MaxSearchLimit)
    BY <1>1, Zenon DEF OpensRun, AfterOk
  <2>3. ASSUME Documented(q) PROVE ~ Valid(q)
    BY <1>8, <2>1, <2>2, <2>3, Zenon DEF Documented, Valid
  <2>4. ASSUME ~ Documented(q) PROVE Valid(q)
    BY <1>8, <2>1, <2>2, <2>4, Zenon DEF Documented, Valid
  <2> QED
    BY <2>3, <2>4
<1> QED
  BY <1>7, <1>8

(* What follows a Link is accepted, for the position of the Link.          *)
LEMMA Continued ==
  ASSUME NEW c \in Cursors, c # NoCursor, NEW l \in 1 .. MaxSearchLimit
  PROVE  /\ Queried(Continuing(Token(c), l)) /\ Valid(Continuing(Token(c), l))
         /\ LimitOf(Continuing(Token(c), l).limit) = l
         /\ Accepted(Continuing(Token(c), l)) = [after |-> 0, cursor |-> c, limit |-> l]
<1> DEFINE q == Continuing(Token(c), l)
<1>1. q.after = <<>> /\ q.cursor = <<Token(c)>> /\ q.limit = <<Bare(l)>>
      /\ q.decodes = TRUE
  BY DEF Continuing, Query
<1> HIDE DEF q
<1>2. ~ Has(q.after) /\ Has(q.cursor) /\ Has(q.limit)
      /\ Len(q.cursor) = 1 /\ q.cursor[1] = Token(c) /\ q.limit[1].number = l
  BY <1>1 DEF Has, Bare
<1>3. Token(c) \in TokenType /\ ParseCursor(Token(c)) = c
  BY TokenTypes
<1>5. Queried(q)
  <2>1. q.cursor \in Seq(TokenType)
    BY <1>1, <1>3
  <2>2. q.decodes \in BOOLEAN
    BY <1>1, Zenon
  <2> QED
    BY <2>1, <2>2 DEF Queried
<1>6. Valid(q)
  BY <1>1, <1>2, <1>3 DEF Valid, ContinuesRun, LimitOk
<1>7. LimitOf(q.limit) = l
  BY <1>2 DEF LimitOf
<1>8. Accepted(q) = [after |-> 0, cursor |-> c, limit |-> l]
  BY <1>2, <1>3, <1>7 DEF Accepted
<1> QED
  BY <1>5, <1>6, <1>7, <1>8 DEF q

-----------------------------------------------------------------------------
(* The invariant holds in the initial states.                              *)
LEMMA QueryTypes ==
  ASSUME NEW q \in Queries
  PROVE  Queried(q)
<1>1. SomeToken \in TokenType
  <2>1. (CHOOSE c \in Cursors : TRUE) \in Cursors
    BY ConstantTypes
  <2> QED
    BY <2>1, TokenTypes DEF SomeToken
<1>2. BadToken \in TokenType
  BY <1>1 DEF BadToken, TokenType, Encodings
<1>5. CASE q \in {Query(a, c, l) : a \in Afters, l \in Limits,
                    c \in {<<>>, <<SomeToken>>, <<BadToken>>, <<SomeToken, SomeToken>>}}
  <2>1. PICK a \in Afters, l \in Limits,
             c \in {<<>>, <<SomeToken>>, <<BadToken>>, <<SomeToken, SomeToken>>} :
               q = Query(a, c, l)
    BY <1>5
  <2>2. c \in Seq(TokenType)
    <3>1. /\ <<>> \in Seq(TokenType) /\ <<SomeToken>> \in Seq(TokenType)
          /\ <<BadToken>> \in Seq(TokenType) /\ <<SomeToken, SomeToken>> \in Seq(TokenType)
      BY <1>1, <1>2
    <3> QED
      BY <3>1, Zenon
  <2>3. q.cursor = c /\ q.decodes = TRUE
    BY <2>1 DEF Query
  <2>4. q.decodes \in BOOLEAN
    BY <2>3, Zenon
  <2> QED
    BY <2>2, <2>3, <2>4, Zenon DEF Queried
<1>6. CASE q \in {Query(<<>>, <<t>>, <<Bare(1)>>) : t \in Tokens}
  <2>1. PICK t \in Tokens : q = Query(<<>>, <<t>>, <<Bare(1)>>)
    BY <1>6
  <2>2. t \in TokenType
    BY ConstantTypes
  <2>3. <<t>> \in Seq(TokenType)
    BY <2>2
  <2>4. q.cursor = <<t>> /\ q.decodes = TRUE
    BY <2>1 DEF Query
  <2>5. q.decodes \in BOOLEAN
    BY <2>4, Zenon
  <2> QED
    BY <2>3, <2>4, <2>5, Zenon DEF Queried
<1>7. CASE q = [Query(<<Bare(0)>>, <<>>, <<Bare(1)>>) EXCEPT !.decodes = FALSE]
  <2>1. q = [after |-> <<Bare(0)>>, cursor |-> <<>>, limit |-> <<Bare(1)>>, decodes |-> FALSE]
    BY <1>7 DEF Query
  <2>2. q.cursor = <<>> /\ q.decodes = FALSE
    BY <2>1
  <2>3. q.decodes \in BOOLEAN /\ q.cursor \in Seq(TokenType)
    <3>1. <<>> \in Seq(TokenType)
      OBVIOUS
    <3> QED
      BY <2>2, <3>1, Zenon
  <2> QED
    BY <2>2, <2>3, Zenon DEF Queried
<1> QED
  BY <1>5, <1>6, <1>7 DEF Queries

LEMMA InitiallySo ==
  HttpInit => HttpInvariant
<1> SUFFICES ASSUME HttpInit PROVE HttpInvariant
  OBVIOUS
<1>1. /\ phase = "idle" /\ followed = NoCursor /\ accepted = NoRequest
      /\ reply = 0 /\ next = NoCursor /\ pages = 0
  BY DEF HttpInit
<1>2. MaxPages \in Nat /\ 0 < MaxPages /\ MaxSearchLimit \in Nat
  BY ConstantTypes
<1>3. Seq(STRING) \subseteq Seq(Parts)
  BY DEF Parts
<1>4. Deployed /\ Queried(query) /\ limit = LimitOf(query.limit)
  <2>1. CASE AnyDeployment
    <3>1. /\ prefix \in Prefixes /\ mount \in Mounts /\ origins \in OriginLists
          /\ Sensible(origins) /\ consumer \in Consumers
          /\ limit \in 1 .. MaxSearchLimit /\ query = Opening(limit)
      BY <2>1 DEF AnyDeployment
    <3>2. Deployed
      BY <1>3, <3>1, ConstantTypes, Zenon DEF Deployed
    <3>3. query.cursor = <<>> /\ query.limit = <<Bare(limit)>> /\ query.decodes = TRUE
      BY <3>1 DEF Opening, Query
    <3>4. Queried(query)
      <4>1. <<>> \in Seq(TokenType)
        OBVIOUS
      <4> QED
        BY <3>3, <4>1, Zenon DEF Queried
    <3>5. limit = LimitOf(query.limit)
      BY <3>3 DEF LimitOf, Has, Bare
    <3> QED
      BY <3>2, <3>4, <3>5
  <2>2. CASE AnyQuery
    <3>1. /\ prefix = <<"/", "api">> /\ mount = <<>> /\ origins = {} /\ consumer = Program
          /\ query \in Queries /\ limit = LimitOf(query.limit)
      BY <2>2 DEF AnyQuery
    <3>2. <<"/", "api">> \in Seq(Parts) /\ <<>> \in Seq(Parts)
      BY DEF Parts
    <3>3. Deployed
      BY <3>1, <3>2 DEF Deployed, Sensible
    <3> QED
      BY <3>1, <3>3, QueryTypes
  <2> QED
    BY <2>1, <2>2 DEF HttpInit
<1>5. HttpTypeOK
  BY <1>1, <1>2 DEF HttpTypeOK, NoRequest
<1>6. Asked /\ Replied /\ Followed /\ Ended
  BY <1>1, <1>2, <1>4 DEF Asked, Replied, Followed, Ended, Answered
<1> QED
  BY <1>4, <1>5, <1>6 DEF HttpInvariant

(* Every step keeps it.                                                    *)
LEMMA DeploymentStays ==
  ASSUME Deployed, UNCHANGED deployment
  PROVE  Deployed' /\ Route' = Route /\ (Readable' <=> Readable)
<1>1. /\ prefix' = prefix /\ mount' = mount /\ origins' = origins
      /\ consumer' = consumer /\ limit' = limit
  BY DEF deployment
<1>2. Deployed'
  BY <1>1 DEF Deployed
<1>3. Route' = Route
  BY <1>1 DEF Route
<1>4. Readable' <=> Readable
  BY <1>1, Zenon DEF Readable, Allowed
<1> QED
  BY <1>2, <1>3, <1>4

LEMMA RequestStep ==
  ASSUME HttpInvariant, Request
  PROVE  HttpInvariant'
<1> USE DEF HttpInvariant
<1>1. /\ phase = "idle" /\ phase' = "sent" /\ url' = mount \o Route /\ query' = query
      /\ UNCHANGED deployment /\ followed' = followed /\ accepted' = accepted
      /\ reply' = reply /\ next' = next /\ pages' = pages
      /\ limit' = limit /\ mount' = mount
  BY DEF Request, Send, replyVars, deployment
<1>2. Deployed' /\ Route' = Route
  BY <1>1, DeploymentStays
<1>3. HttpTypeOK'
  BY <1>1 DEF HttpTypeOK
<1>4. Reaches(url)'
  BY <1>1, <1>2 DEF Reaches
<1>5. Queried(query)' /\ (limit = LimitOf(query.limit))' /\ (pages < MaxPages)'
  BY <1>1 DEF Asked
<1>6. Asked'
  BY <1>4, <1>5 DEF Asked
<1>7. Replied' /\ Ended'
  BY <1>1 DEF Replied, Ended, Answered
<1>8. Followed'
  BY <1>1 DEF Followed
<1> QED
  BY <1>2, <1>3, <1>6, <1>7, <1>8

LEMMA SearchStep ==
  ASSUME HttpInvariant, Search
  PROVE  HttpInvariant'
<1> USE DEF HttpInvariant
<1>1. /\ phase = "sent" /\ phase' = "answered" /\ pages' = pages + 1
      /\ UNCHANGED deployment /\ url' = url /\ query' = query /\ followed' = followed
      /\ limit' = limit /\ mount' = mount
  BY DEF Search, requestVars, deployment
<1>2. Reaches(url) /\ Queried(query) /\ limit = LimitOf(query.limit)
      /\ pages < MaxPages /\ pages \in 0 .. MaxPages
  BY <1>1 DEF Asked, HttpTypeOK
<1>3. IF ~ Valid(query) THEN Refuse(400) ELSE Accept(Accepted(query))
  BY <1>2 DEF Search
<1>4. Deployed' /\ Route' = Route
  BY <1>1, DeploymentStays
<1>5. Reaches(url)'
  BY <1>1, <1>2, <1>4 DEF Reaches
<1>6. Asked'
  BY <1>1, <1>2, <1>5 DEF Asked
<1>7. Followed'
  BY <1>1 DEF Followed
<1>8. MaxPages \in Nat /\ pages' \in 0 .. MaxPages /\ MaxSearchLimit \in Nat
  BY <1>1, <1>2, ConstantTypes
<1>9. Answered' /\ Ended'
  BY <1>1 DEF Answered, Ended
<1>10. CASE Valid(query)
  <2>1. Accept(Accepted(query))
    BY <1>3, <1>10
  <2>2. accepted' = Accepted(query) /\ reply' \in {200, 500}
    BY <2>1 DEF Accept
  <2>3. \/ reply' = 500 /\ next' = NoCursor
        \/ /\ reply' = 200
           /\ next' \in {NoCursor} \cup (IF MayGoOn(Accepted(query)) THEN Cursors ELSE {})
    BY <2>1 DEF Accept
  <2>4. /\ accepted'.after \in Nat /\ accepted'.limit \in 0 .. MaxSearchLimit
        /\ accepted'.cursor # NoCursor => accepted'.after = 0 /\ accepted'.limit > 0
    BY <1>2, <1>10, <2>2, Acceptable
  <2>5. HttpTypeOK'
    BY <1>1, <1>8, <2>2, <2>4 DEF HttpTypeOK
  <2>6. next' \in Cursors \cup {NoCursor}
    BY <2>3
  <2>7. next' # NoCursor => accepted'.limit > 0 /\ pages' < MaxPages
    BY <1>1, <2>2, <2>3 DEF MayGoOn
  <2>8. Answers'
    BY <1>1, <1>10, <2>2, <2>3 DEF Answers
  <2>9. Replied'
    BY <2>6, <2>7, <2>8 DEF Replied
  <2> QED
    BY <1>4, <1>6, <1>7, <1>9, <2>5, <2>9
<1>11. CASE ~ Valid(query)
  <2>1. reply' = 400 /\ accepted' = NoRequest /\ next' = NoCursor
    BY <1>3, <1>11 DEF Refuse
  <2>2. HttpTypeOK'
    BY <1>1, <1>8, <2>1 DEF HttpTypeOK, NoRequest
  <2>3. Answers'
    BY <1>1, <1>11, <2>1 DEF Answers
  <2>4. Replied'
    BY <2>1, <2>3 DEF Replied
  <2> QED
    BY <1>4, <1>6, <1>7, <1>9, <2>2, <2>4
<1> QED
  BY <1>10, <1>11

LEMMA FollowStep ==
  ASSUME HttpInvariant, FollowLink
  PROVE  HttpInvariant'
<1> USE DEF HttpInvariant
<1>1. /\ phase = "answered" /\ reply = 200 /\ next # NoCursor /\ phase' = "sent"
      /\ url' = Resolve(url, Link(next).path)
      /\ query' = Continuing(Link(next).token, accepted.limit)
      /\ followed' = next /\ UNCHANGED deployment
      /\ accepted' = accepted /\ reply' = reply /\ next' = next /\ pages' = pages
      /\ limit' = limit /\ mount' = mount
  BY DEF FollowLink, Send, replyVars, deployment
<1>2. Answers /\ Queried(query) /\ Reaches(url) /\ limit = LimitOf(query.limit)
  BY <1>1 DEF Replied, Asked, Answered
<1>3. Valid(query) /\ accepted = Accepted(query)
  BY <1>1, <1>2 DEF Answers
<1>4. next \in Cursors /\ accepted.limit > 0 /\ pages < MaxPages
  BY <1>1 DEF Replied, Answered
<1>5. accepted.limit = limit /\ limit \in 1 .. MaxSearchLimit
  <2>1. accepted.limit = LimitOf(query.limit) /\ accepted.limit \in 0 .. MaxSearchLimit
    BY <1>2, <1>3, Acceptable
  <2>2. MaxSearchLimit \in Nat
    BY ConstantTypes
  <2> QED
    BY <1>2, <1>4, <2>1, <2>2
<1>6. Link(next).token = Token(next)
  BY DEF Link
<1>7. query' = Continuing(Token(next), limit)
  BY <1>1, <1>5, <1>6
<1>8. /\ Queried(Continuing(Token(next), limit))
      /\ LimitOf(Continuing(Token(next), limit).limit) = limit
  BY <1>1, <1>4, <1>5, Continued
<1>9. Deployed' /\ Route' = Route
  BY <1>1, DeploymentStays
<1>10. url' = mount \o Route
  <2>1. prefix \in Seq(Parts) /\ mount \in Seq(Parts)
    BY DEF Deployed
  <2>2. url = mount \o Route
    BY <1>2 DEF Reaches
  <2> QED
    BY <1>1, <2>1, <2>2, LinkIsTheRoute
<1>11. Reaches(url)'
  BY <1>1, <1>9, <1>10 DEF Reaches
<1>12. Queried(query)' /\ (limit = LimitOf(query.limit))' /\ (pages < MaxPages)'
  BY <1>1, <1>4, <1>7, <1>8
<1>13. Asked'
  BY <1>11, <1>12 DEF Asked
<1>14. HttpTypeOK'
  BY <1>1 DEF HttpTypeOK
<1>15. Replied' /\ Ended'
  BY <1>1 DEF Replied, Ended, Answered
<1>16. Followed'
  BY <1>1, <1>4, <1>5, <1>7 DEF Followed
<1> QED
  BY <1>9, <1>13, <1>14, <1>15, <1>16

LEMMA EndStep ==
  ASSUME HttpInvariant, EndRun \/ FailRun
  PROVE  HttpInvariant'
<1> USE DEF HttpInvariant
<1>1. /\ phase = "answered" /\ phase' \in {"complete", "failed"}
      /\ UNCHANGED deployment /\ url' = url /\ query' = query /\ followed' = followed
      /\ accepted' = accepted /\ reply' = reply /\ next' = next /\ pages' = pages
      /\ limit' = limit /\ mount' = mount
  BY DEF EndRun, FailRun, requestVars, replyVars, deployment
<1>2. Deployed' /\ Route' = Route /\ (Readable' <=> Readable)
  BY <1>1, DeploymentStays
<1>3. Reaches(url)'
  BY <1>1, <1>2 DEF Reaches, Asked
<1>4. Asked'
  BY <1>1, <1>3 DEF Asked
<1>5. Answers'
  BY <1>1 DEF Replied, Answered, Answers
<1>6. Replied'
  BY <1>1, <1>5 DEF Replied, Answered
<1>7. HttpTypeOK'
  BY <1>1 DEF HttpTypeOK
<1>8. Followed'
  BY <1>1 DEF Followed
<1>9. Ended'
  <2>1. CASE EndRun
    <3>1. SeesLink
      BY DEF SeesLink, Exposed
    <3>2. phase' = "complete" /\ next = NoCursor
      BY <2>1, <3>1 DEF EndRun
    <3> QED
      BY <1>1, <3>2 DEF Ended
  <2>2. CASE FailRun
    <3>1. phase' = "failed" /\ (reply # 200 \/ ~ Readable)
      BY <2>2 DEF FailRun
    <3>2. phase' # "complete"
      BY <3>1
    <3>3. reply' = 200 => ~ Readable'
      BY <1>1, <1>2, <3>1
    <3> QED
      BY <3>2, <3>3 DEF Ended
  <2> QED
    BY <2>1, <2>2
<1> QED
  BY <1>2, <1>4, <1>6, <1>7, <1>8, <1>9

LEMMA Invariance ==
  HttpSpec => []HttpInvariant
<1>1. HttpInvariant /\ [HttpNext]_httpVars => HttpInvariant'
  <2> SUFFICES ASSUME HttpInvariant, [HttpNext]_httpVars PROVE HttpInvariant'
    OBVIOUS
  <2>1. CASE HttpNext
    BY <2>1, RequestStep, SearchStep, FollowStep, EndStep DEF HttpNext
  <2>2. CASE UNCHANGED httpVars
    <3>1. /\ prefix' = prefix /\ mount' = mount /\ origins' = origins
          /\ consumer' = consumer /\ limit' = limit /\ phase' = phase
          /\ url' = url /\ query' = query /\ followed' = followed
          /\ accepted' = accepted /\ reply' = reply /\ next' = next /\ pages' = pages
      BY <2>2 DEF httpVars, deployment, requestVars, replyVars
    <3>2. Deployed' /\ Route' = Route /\ (Readable' <=> Readable)
      BY <3>1, DeploymentStays DEF HttpInvariant, deployment
    <3>3. Asked'
      BY <3>1, <3>2 DEF HttpInvariant, Asked, Reaches
    <3>4. HttpTypeOK' /\ Followed'
      BY <3>1 DEF HttpInvariant, HttpTypeOK, Followed
    <3>5. Replied'
      BY <3>1 DEF HttpInvariant, Replied, Answered, Answers
    <3>6. Ended'
      BY <3>1, <3>2 DEF HttpInvariant, Ended
    <3> QED
      BY <3>2, <3>3, <3>4, <3>5, <3>6 DEF HttpInvariant
  <2> QED
    BY <2>1, <2>2
<1> QED
  BY <1>1, InitiallySo, PTL DEF HttpSpec

-----------------------------------------------------------------------------
(* The variables keep their types, and parseSearchRequest passes on to     *)
(* Service.Search only a limit in its range, and a cursor only with one.   *)
THEOREM HttpTypeCorrect ==
  HttpSpec => []HttpTypeOK
<1>1. HttpInvariant => HttpTypeOK
  BY DEF HttpInvariant
<1> QED
  BY <1>1, Invariance, PTL

(* A token that is accepted is the one that the service writes for the     *)
(* position it was read as (cursor.go), whatever texts are sent.           *)
THEOREM AcceptedTokensAreOurs ==
  HttpSpec => []TokensAreCanonical
<1>1. HttpInvariant => TokensAreCanonical
  <2> SUFFICES ASSUME HttpInvariant, Answered, reply = 200 PROVE TokensAreCanonical
    BY DEF TokensAreCanonical
  <2>1. Valid(query) /\ accepted = Accepted(query) /\ Queried(query)
    BY DEF HttpInvariant, Replied, Answers, Asked
  <2> QED
    BY <2>1, CanonicalTokens DEF TokensAreCanonical
<1> QED
  BY <1>1, Invariance, PTL

(* parseSearchRequest refuses a query exactly where the README says so.    *)
THEOREM OnlyTheDocumentedRefusals ==
  HttpSpec => []RefusedAsDocumented
<1>1. HttpInvariant => RefusedAsDocumented
  <2> SUFFICES ASSUME HttpInvariant, Answered PROVE RefusedAsDocumented
    BY DEF RefusedAsDocumented
  <2>1. Queried(query) /\ Answers
    BY DEF HttpInvariant, Replied, Asked
  <2>2. reply = 400 <=> ~ Valid(query)
    BY <2>1 DEF Answers
  <2>3. reply = 400 <=> Documented(query)
    BY <2>1, <2>2, Refusals
  <2> QED
    BY <2>3, Zenon DEF RefusedAsDocumented
<1> QED
  BY <1>1, Invariance, PTL

(* A Link, resolved under any prefix and any mount, is taken for what it   *)
(* is, the position at which the page before it ended: its request is      *)
(* answered with that page, unless the storage fails.  It needs the length *)
(* of the storage's keys (SearchHttpAssumption): a token that is too long  *)
(* is refused.                                                             *)
THEOREM LinksLeadOn ==
  HttpSpec => []LinkLeadsOn
<1>1. HttpInvariant => LinkLeadsOn
  <2> SUFFICES ASSUME HttpInvariant, Answered, followed # NoCursor PROVE LinkLeadsOn
    BY DEF LinkLeadsOn
  <2>1. /\ followed \in Cursors /\ limit \in 1 .. MaxSearchLimit
        /\ query = Continuing(Token(followed), limit)
    BY DEF HttpInvariant, Followed
  <2>2. /\ Valid(query)
        /\ Accepted(query) = [after |-> 0, cursor |-> followed, limit |-> limit]
    BY <2>1, Continued
  <2>3. reply \in {200, 500} /\ accepted = Accepted(query)
    BY <2>2 DEF HttpInvariant, Replied, Answers
  <2> QED
    BY <2>2, <2>3 DEF LinkLeadsOn
<1> QED
  BY <1>1, Invariance, PTL

(* An origin that the operator configured is allowed, however it is        *)
(* written in the list.                                                    *)
LEMMA ConfiguredOriginsAreAllowed ==
  ASSUME Deployed, NEW e \in origins, e.origin = "*" \/ e.origin = consumer
  PROVE  Readable
<1>1. e \in Entries /\ Configurable(e) /\ consumer \in Consumers \cup {Program}
  BY DEF Deployed, Sensible
<1>2. consumer # Nothing
  BY <1>1, ConstantTypes
<1>3. "*" # Nothing
  BY Zenon DEF Nothing
<1>4. e.origin # Nothing
  BY <1>2, <1>3
<1>5. Trimmed(e) \in Usable(origins)
  BY <1>4, Zenon DEF Usable
<1>6. /\ Lower(Trimmed(e)) = [origin |-> e.origin, extras |-> e.extras \ {"blanks", "capitals"}]
      /\ Trimmed(e).origin = e.origin
  <2>1. Trimmed(e) = [origin |-> e.origin, extras |-> e.extras \ {"blanks"}]
    BY <1>1 DEF Trimmed, Entries
  <2> QED
    BY <2>1 DEF Lower
<1>7. CASE e.origin = "*"
  <2>1. Trimmed(e).origin = "*"
    BY <1>6, <1>7
  <2> QED
    BY <1>5, <2>1, Zenon DEF Readable, Allowed
<1>8. CASE e.origin # "*"
  <2>1. e.origin = consumer /\ "path" \notin e.extras
    BY <1>1, <1>4, <1>8 DEF Configurable
  <2>2. e.extras \ {"blanks", "capitals"} = {}
    BY <1>1, <2>1 DEF Entries, Extras
  <2>3. Lower(Trimmed(e)) = Sent(consumer)
    BY <1>6, <2>1, <2>2, Zenon DEF Sent
  <2> QED
    BY <1>5, <2>3, Zenon DEF Readable, Allowed
<1> QED
  BY <1>7, <1>8

(* A consumer in a browser reads every answer if its origin is configured, *)
(* and sees the Link of every page that is not the last.                   *)
THEOREM BrowsersSeeEveryPage ==
  HttpSpec => []BrowserSeesEveryPage
<1>1. HttpInvariant => BrowserSeesEveryPage
  <2> SUFFICES ASSUME HttpInvariant PROVE BrowserSeesEveryPage
    OBVIOUS
  <2>1. Ended /\ Deployed
    BY DEF HttpInvariant
  <2>2. phase = "failed" /\ reply = 200 => \A e \in origins : e.origin \notin {"*", consumer}
    BY <2>1, ConfiguredOriginsAreAllowed DEF Ended
  <2> QED
    BY <2>1, <2>2 DEF BrowserSeesEveryPage, Ended
<1> QED
  BY <1>1, Invariance, PTL
=============================================================================
