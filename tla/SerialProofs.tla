---------------------------- MODULE SerialProofs ----------------------------
(***************************************************************************)
(* What is proved of the serial console, for every size of the buffer and  *)
(* every set of calls:                                                     *)
(*   TextsInReach    no message passes the end of buf by more than one     *)
(*                   conversion, and one that fits does not pass it;       *)
(*   WholeMessages   messages that fit arrive whole and in order;          *)
(*   BeginningsSent  of one that does not fit the beginning arrives.       *)
(* The model runs vkformat's loop, the properties speak of the text a call *)
(* stands for (Text).  What connects them: at each iteration the text is   *)
(* what is in buf followed by the text of the rest of the format           *)
(* (Formatting); and what has been sent, followed by what the current      *)
(* message has still to send, is the texts of the calls (Sending).  Both   *)
(* need that no second activation runs while one prints: the gates are     *)
(* interrupt gates (OneActive).                                            *)
(***************************************************************************)
EXTENDS Serial, WellFoundedInduction, SequenceTheorems, TLAPS

\* A set of numbers that is not empty has a least one.
LEMMA Least ==
  ASSUME NEW T, T \subseteq Nat, T # {}
  PROVE  \E x \in T : \A y \in T : x <= y
<1> DEFINE R == OpToRel(<, Nat)
<1>1. IsWellFoundedOn(R, Nat)
  BY NatLessThanWellFounded
<1>2. \A x, y \in Nat : x < y => <<x, y>> \in R
  BY Zenon DEF OpToRel
<1> HIDE DEF R
<1>3. PICK x \in T : \A y \in T : ~(<<y, x>> \in R)
  BY <1>1, WFMin
<1>4. \A y \in T : ~(y < x)
  BY <1>2, <1>3
<1> QED
  BY <1>3, <1>4

\* Induction, for a set instead of a predicate.
LEMMA Induction ==
  ASSUME NEW P, P \subseteq Nat, 0 \in P, \A n \in Nat : n \in P => n + 1 \in P
  PROVE  P = Nat
<1> SUFFICES ASSUME Nat \ P # {} PROVE FALSE
  OBVIOUS
<1>1. PICK x \in Nat \ P : \A y \in Nat \ P : x <= y
  BY Least
<1>2. x # 0 /\ x - 1 \in Nat /\ x - 1 \notin Nat \ P
  BY <1>1
<1> QED
  BY <1>2

\* A recursive definition whose argument becomes smaller is satisfied by some
\* function.
Solves(f, X, size, next, first, step) ==
  \A x \in X : f[x] = IF size[x] = 0 THEN first[x] ELSE step[<<x, f[next[x]]>>]
LEMMA Recursion ==
  ASSUME NEW X, NEW S, NEW N \in Nat, NEW size \in [X -> 0 .. N], NEW next \in [X -> X],
         NEW first \in [X -> S], NEW step \in [X \X S -> S],
         \A x \in X : size[x] # 0 => size[next[x]] < size[x]
  PROVE  \E f \in [X -> S] : Solves(f, X, size, next, first, step)
<1> DEFINE Upto(f, m) ==
             \A x \in X : size[x] <= m =>
               f[x] = IF size[x] = 0 THEN first[x] ELSE step[<<x, f[next[x]]>>]
           P == {m \in Nat : \E f \in [X -> S] : Upto(f, m)}
<1>1. 0 \in P
  <2>1. Upto(first, 0)
    OBVIOUS
  <2> QED
    BY <2>1
<1>2. ASSUME NEW m \in Nat, m \in P PROVE m + 1 \in P
  <2>1. PICK f \in [X -> S] : Upto(f, m)
    BY <1>2
  <2> DEFINE h == [x \in X |-> IF size[x] <= m THEN f[x] ELSE step[<<x, f[next[x]]>>]]
  <2>2. h \in [X -> S]
    OBVIOUS
  <2>3. ASSUME NEW x \in X, size[x] <= m + 1
        PROVE  h[x] = IF size[x] = 0 THEN first[x] ELSE step[<<x, h[next[x]]>>]
    <3>1. next[x] \in X /\ size[x] \in 0 .. N /\ size[next[x]] \in 0 .. N
      OBVIOUS
    <3>2. size[x] # 0 => size[next[x]] <= m
      BY <2>3, <3>1
    <3>3. size[x] # 0 => h[next[x]] = f[next[x]]
      BY <3>1, <3>2
    <3>4. CASE size[x] <= m
      <4>1. h[x] = f[x]
        BY <3>4
      <4>2. f[x] = IF size[x] = 0 THEN first[x] ELSE step[<<x, f[next[x]]>>]
        BY <2>1, <3>4
      <4> HIDE DEF h
      <4> QED
        BY <3>3, <4>1, <4>2
    <3>5. CASE ~(size[x] <= m)
      <4>1. h[x] = step[<<x, f[next[x]]>>] /\ size[x] # 0
        BY <3>5
      <4> HIDE DEF h
      <4> QED
        BY <3>3, <4>1
    <3> QED
      BY <3>4, <3>5
  <2>4. Upto(h, m + 1)
    BY <2>3
  <2> HIDE DEF Upto, h
  <2> QED
    BY <2>2, <2>4
<1>3. N \in P
  <2>1. P \subseteq Nat
    OBVIOUS
  <2> HIDE DEF P
  <2>2. P = Nat
    BY <1>1, <1>2, <2>1, Induction
  <2> QED
    BY <2>2
<1> QED
  BY <1>3 DEF Solves

----------------------------------------------------------------------------

\* The text of a call, from a place in its format on, given the texts behind.
TextStep(call, from, i) ==
  [k \in Nat |->
     IF i > Len(call.fmt) THEN <<>>
     ELSE IF call.fmt[i] # "%" THEN <<call.fmt[i]>> \o from[i + 1][k]
     ELSE IF TakesArg(call.fmt[i + 1])
          THEN Piece(call.fmt[i + 1], call.args[k]) \o from[i + 2][k + 1]
     ELSE <<call.fmt[i + 1]>> \o from[i + 2][k]]

\* TextFrom is a solution of its definition.
LEMMA TextSolved ==
  ASSUME NEW call, Len(call.fmt) \in Nat
  PROVE  \A i \in Nat : TextFrom(call)[i] = TextStep(call, TextFrom(call), i)
<1> DEFINE n == Len(call.fmt)
           Eq(from) == from = [i \in Nat |-> TextStep(call, from, i)]
           Upto(f, m) == f = [i \in Nat |-> f[i]]
                         /\ \A i \in Nat : i + m > n => f[i] = TextStep(call, f, i)
           P == {m \in Nat : \E f : Upto(f, m)}
<1>1. 0 \in P
  <2> DEFINE f == [i \in Nat |-> [k \in Nat |-> <<>>]]
  <2>1. f = [i \in Nat |-> f[i]]
    OBVIOUS
  <2>2. \A i \in Nat : i > n => f[i] = TextStep(call, f, i)
    BY DEF TextStep
  <2>3. \A i \in Nat : i + 0 > n => i > n
    OBVIOUS
  <2> HIDE DEF f
  <2>4. Upto(f, 0)
    BY <2>1, <2>2, <2>3
  <2> QED
    BY <2>4
<1>2. ASSUME NEW m \in Nat, m \in P PROVE m + 1 \in P
  <2>1. PICK f : Upto(f, m)
    BY <1>2
  <2> DEFINE h == [i \in Nat |-> IF i + m > n THEN f[i] ELSE TextStep(call, f, i)]
  <2>2. h = [i \in Nat |-> h[i]]
    OBVIOUS
  <2>3. ASSUME NEW i \in Nat, i + (m + 1) > n
        PROVE  h[i] = TextStep(call, h, i)
    <3>1. h[i] = TextStep(call, f, i)
      BY <2>1
    <3>2. h[i + 1] = f[i + 1] /\ h[i + 2] = f[i + 2]
      <4>1. /\ i + 1 \in Nat /\ (i + 1) + m > n
            /\ i + 2 \in Nat /\ (i + 2) + m > n
        BY <2>3
      <4> QED
        BY <4>1
    <3> HIDE DEF h
    <3> QED
      BY <3>1, <3>2 DEF TextStep
  <2>4. Upto(h, m + 1)
    BY <2>2, <2>3
  <2> HIDE DEF Upto, h
  <2> QED
    BY <2>4
<1>3. P \subseteq Nat
  OBVIOUS
<1>4. n + 1 \in P
  <2> HIDE DEF P
  <2>1. P = Nat
    BY <1>1, <1>2, <1>3, Induction
  <2> QED
    BY <2>1
<1>5. \E f : Eq(f)
  <2>1. PICK f : Upto(f, n + 1)
    BY <1>4
  <2>2. \A i \in Nat : f[i] = TextStep(call, f, i)
    BY <2>1
  <2>3. f = [i \in Nat |-> f[i]]
    BY <2>1
  <2>4. Eq(f)
    BY <2>2, <2>3
  <2> QED
    BY <2>4
<1>6. TextFrom(call) = CHOOSE f : Eq(f)
  BY DEF TextFrom, TextStep
<1>7. Eq(TextFrom(call))
  <2> HIDE DEF Eq
  <2> QED
    BY <1>5, <1>6
<1> QED
  BY <1>7

\* Whether the rest of a call is one, given whether what is behind is.
CallStep(call, from, i) ==
  [k \in Nat |->
     IF i > Len(call.fmt) THEN i = Len(call.fmt) + 1
     ELSE IF call.fmt[i] # "%" THEN from[i + 1][k]
     ELSE IF TakesArg(call.fmt[i + 1])
          THEN k \in DOMAIN call.args /\ Suits(call.fmt[i + 1], call.args[k]) /\ from[i + 2][k + 1]
     ELSE from[i + 2][k]]

\* So is IsCall of its own.
LEMMA CallSolved ==
  ASSUME NEW call, Len(call.fmt) \in Nat
  PROVE  \A i \in Nat : IsCall(call)[i] = CallStep(call, IsCall(call), i)
<1> DEFINE n == Len(call.fmt)
           Eq(from) == from = [i \in Nat |-> CallStep(call, from, i)]
           Upto(f, m) == f = [i \in Nat |-> f[i]]
                         /\ \A i \in Nat : i + m > n => f[i] = CallStep(call, f, i)
           P == {m \in Nat : \E f : Upto(f, m)}
<1>1. 0 \in P
  <2> DEFINE f == [i \in Nat |-> [k \in Nat |-> i = n + 1]]
  <2>1. f = [i \in Nat |-> f[i]]
    OBVIOUS
  <2>2. \A i \in Nat : i > n => f[i] = CallStep(call, f, i)
    BY DEF CallStep
  <2>3. \A i \in Nat : i + 0 > n => i > n
    OBVIOUS
  <2> HIDE DEF f
  <2>4. Upto(f, 0)
    BY <2>1, <2>2, <2>3
  <2> QED
    BY <2>4
<1>2. ASSUME NEW m \in Nat, m \in P PROVE m + 1 \in P
  <2>1. PICK f : Upto(f, m)
    BY <1>2
  <2> DEFINE h == [i \in Nat |-> IF i + m > n THEN f[i] ELSE CallStep(call, f, i)]
  <2>2. h = [i \in Nat |-> h[i]]
    OBVIOUS
  <2>3. ASSUME NEW i \in Nat, i + (m + 1) > n
        PROVE  h[i] = CallStep(call, h, i)
    <3>1. h[i] = CallStep(call, f, i)
      BY <2>1
    <3>2. h[i + 1] = f[i + 1] /\ h[i + 2] = f[i + 2]
      <4>1. /\ i + 1 \in Nat /\ (i + 1) + m > n
            /\ i + 2 \in Nat /\ (i + 2) + m > n
        BY <2>3
      <4> QED
        BY <4>1
    <3> HIDE DEF h
    <3> QED
      BY <3>1, <3>2 DEF CallStep
  <2>4. Upto(h, m + 1)
    BY <2>2, <2>3
  <2> HIDE DEF Upto, h
  <2> QED
    BY <2>4
<1>3. P \subseteq Nat
  OBVIOUS
<1>4. n + 1 \in P
  <2> HIDE DEF P
  <2>1. P = Nat
    BY <1>1, <1>2, <1>3, Induction
  <2> QED
    BY <2>1
<1>5. \E f : Eq(f)
  <2>1. PICK f : Upto(f, n + 1)
    BY <1>4
  <2>2. \A i \in Nat : f[i] = CallStep(call, f, i)
    BY <2>1
  <2>3. f = [i \in Nat |-> f[i]]
    BY <2>1
  <2>4. Eq(f)
    BY <2>2, <2>3
  <2> QED
    BY <2>4
<1>6. IsCall(call) = CHOOSE f : Eq(f)
  BY DEF IsCall, CallStep
<1>7. Eq(IsCall(call))
  <2> HIDE DEF Eq
  <2> QED
    BY <1>5, <1>6
<1> QED
  BY <1>7

\* The characters of numbers.
LEMMA Digits == \A n \in 0 .. 15 : Digit(n) \in Character
<1>1. HexDigits \in Seq(Character) /\ Len(HexDigits) = 16
  BY CharactersAssumption DEF HexDigits
<1>2. \A n \in 0 .. 15 : n + 1 \in 1 .. 16
  OBVIOUS
<1> QED
  BY <1>1, <1>2, ElementOfSeq DEF Digit
\* Dividing by ten first.
LEMMA DivTen == \A n \in Nat : \A i \in 1 .. 9 : (n \div 10) \div Powers[i] = n \div Powers[i + 1]
<1> SUFFICES ASSUME NEW n \in Nat, NEW i \in 1 .. 9
             PROVE  (n \div 10) \div Powers[i] = n \div Powers[i + 1]
  OBVIOUS
<1>1. /\ (n \div 10) \div 1 = n \div 10
      /\ (n \div 10) \div 10 = n \div 100
      /\ (n \div 10) \div 100 = n \div 1000
      /\ (n \div 10) \div 1000 = n \div 10000
      /\ (n \div 10) \div 10000 = n \div 100000
      /\ (n \div 10) \div 100000 = n \div 1000000
      /\ (n \div 10) \div 1000000 = n \div 10000000
      /\ (n \div 10) \div 10000000 = n \div 100000000
      /\ (n \div 10) \div 100000000 = n \div 1000000000
  OBVIOUS
<1> QED
  BY <1>1 DEF Powers

\* Of the numbers a 32-bit int can be, without its sign.
Magnitude == 2147483648
\* The table of the powers of ten.
LEMMA PowersOfTen ==
  /\ \A i \in 1 .. 10 : Powers[i] \in Nat \ {0}
  /\ \A i \in 1 .. 9 : Powers[i + 1] = 10 * Powers[i]
  /\ Powers[1] = 1 /\ Powers[10] = 1000000000
BY DEF Powers

\* A number has so many digits.
IsWidth(n, k) == (k = 1 \/ n >= Powers[k]) /\ (k = 10 \/ n < Powers[k + 1])

\* There is one width, and a tenth of a number has a digit less.
LEMMA Widths ==
  ASSUME NEW n \in Nat, n <= Magnitude
  PROVE  /\ \E k \in 1 .. 10 : IsWidth(n, k)
         /\ \A k, l \in 1 .. 10 : IsWidth(n, k) /\ IsWidth(n, l) => k = l
         /\ n >= 10 => \A k \in 1 .. 10 : IsWidth(n, k) => k > 1 /\ IsWidth(n \div 10, k - 1)
<1>1. \E k \in 1 .. 10 : IsWidth(n, k)
  BY DEF IsWidth, Powers, Magnitude
<1>2. \A k, l \in 1 .. 10 : IsWidth(n, k) /\ IsWidth(n, l) => k = l
  BY DEF IsWidth, Powers, Magnitude
<1>3. ASSUME n >= 10, NEW k \in 1 .. 10, IsWidth(n, k) PROVE k > 1 /\ IsWidth(n \div 10, k - 1)
  <2> DEFINE m == n \div 10
  <2>1. m \in Nat /\ 10 * m <= n /\ n < 10 * (m + 1)
    BY DEF Magnitude
  <2> HIDE DEF m
  <2>2. k > 1
    BY <1>3 DEF IsWidth, Powers, Magnitude
  <2>3. m >= Powers[k - 1]
    <3>1. /\ k - 1 \in 1 .. 9 /\ (k - 1) + 1 = k
          /\ Powers[k] = 10 * Powers[k - 1] /\ Powers[k - 1] \in Nat
      BY <2>2, PowersOfTen
    <3>2. n >= 10 * Powers[k - 1]
      BY <1>3, <2>2, <3>1 DEF IsWidth
    <3> QED
      BY <2>1, <3>1, <3>2 DEF Magnitude
  <2>4. m < Powers[k]
    <3>1. CASE k = 10
      <4>1. m < 1000000000
        BY <2>1 DEF Magnitude
      <4> QED
        BY <3>1, <4>1, PowersOfTen
    <3>2. CASE k < 10
      <4>1. n < 10 * Powers[k] /\ Powers[k] \in Nat
        BY <1>3, <3>2, PowersOfTen DEF IsWidth
      <4> QED
        <5>1. \A a, p, b \in Nat : 10 * a <= b /\ b < 10 * p => a < p
          OBVIOUS
        <5>2. n \in Nat
          BY DEF Magnitude
        <5> QED
          BY <2>1, <4>1, <5>1, <5>2
    <3> QED
      BY <3>1, <3>2
  <2>5. IsWidth(m, k - 1)
    <3>1. k - 1 \in 1 .. 9 /\ (k - 1) + 1 = k
      BY <2>2
    <3> QED BY <2>3, <2>4, <3>1 DEF IsWidth
  <2> QED
    BY <2>2, <2>5 DEF m
<1> QED
  BY <1>1, <1>2, <1>3

\* The last k digits of a number, the highest first.
Shown(n, k) == [j \in 1 .. k |-> Digit((n \div Powers[k + 1 - j]) % 10)]

\* The decimal representation, given the number of digits.
LEMMA DecimalOfWidth ==
  ASSUME NEW n \in Nat, n <= Magnitude, NEW k \in 1 .. 10, IsWidth(n, k)
  PROVE  Decimal(n) = Shown(n, k)
<1> DEFINE width == CHOOSE l \in 1 .. 10 : IsWidth(n, l)
<1>1. width \in 1 .. 10 /\ IsWidth(n, width)
  BY Widths
<1>2. width = k
  <2> HIDE DEF width
  <2> QED
    BY <1>1, Widths
<1>3. Decimal(n) = [j \in 1 .. width |-> Digit((n \div Powers[width + 1 - j]) % 10)]
  BY DEF Decimal, IsWidth
<1> HIDE DEF width
<1> QED
  BY <1>2, <1>3 DEF Shown

\* Of a number of one digit, and of one digit more.
LEMMA DecimalStep ==
  ASSUME NEW n \in Nat, n <= Magnitude
  PROVE  /\ Decimal(n) \in Seq(Character) /\ Len(Decimal(n)) \in 1 .. 10
         /\ n < 10 => Decimal(n) = <<Digit(n)>>
         /\ n >= 10 => Decimal(n) = Append(Decimal(n \div 10), Digit(n % 10))
<1>1. PICK k \in 1 .. 10 : IsWidth(n, k)
  BY Widths
<1>2. Decimal(n) = Shown(n, k)
  BY <1>1, DecimalOfWidth
<1>3. \A m \in Nat, i \in 1 .. 10 : m \div Powers[i] \in Nat
  BY PowersOfTen
<1>4. \A m \in Nat, i \in 1 .. 10 : Digit((m \div Powers[i]) % 10) \in Character
  <2>1. \A m \in Nat : m % 10 \in 0 .. 15
    OBVIOUS
  <2> QED
    BY <1>3, <2>1, Digits
<1>5. ASSUME NEW m \in Nat, NEW l \in Nat, l <= 10
      PROVE  Shown(m, l) \in Seq(Character) /\ Len(Shown(m, l)) = l
  <2>1. Shown(m, l) \in [1 .. l -> Character]
    BY <1>4, <1>5 DEF Shown
  <2> QED
    BY <2>1, SeqDef
<1>6. Decimal(n) \in Seq(Character) /\ Len(Decimal(n)) \in 1 .. 10
  <2>1. Shown(n, k) \in Seq(Character) /\ Len(Shown(n, k)) = k
    BY <1>5
  <2> QED
    BY <1>2, <2>1
<1>7. ASSUME n < 10 PROVE Decimal(n) = <<Digit(n)>>
  <2>1. IsWidth(n, 1)
    BY <1>7, PowersOfTen DEF IsWidth
  <2>2. k = 1
    BY <1>1, <2>1, Widths
  <2>3. Digit((n \div Powers[1]) % 10) = Digit(n)
    BY <1>7, PowersOfTen
  <2>4. Shown(n, 1) = <<Digit(n)>>
    BY <2>3 DEF Shown
  <2> QED
    BY <1>2, <2>2, <2>4
<1>8. ASSUME n >= 10 PROVE Decimal(n) = Append(Decimal(n \div 10), Digit(n % 10))
  <2> DEFINE m == n \div 10
  <2>1. m \in Nat /\ m <= Magnitude
    BY DEF Magnitude
  <2>2. k > 1 /\ IsWidth(m, k - 1)
    BY <1>1, <1>8, Widths
  <2> HIDE DEF m
  <2>3. Decimal(m) = Shown(m, k - 1)
    BY <2>1, <2>2, DecimalOfWidth
  <2>4. \A j \in 1 .. k - 1 : Shown(m, k - 1)[j] = Shown(n, k)[j]
    <3>1. ASSUME NEW j \in 1 .. k - 1
          PROVE  (m \div Powers[k - j]) = n \div Powers[k + 1 - j]
      <4>1. k - j \in 1 .. 9 /\ (k - j) + 1 = k + 1 - j
        BY <2>2
      <4>2. m \div Powers[k - j] = n \div Powers[(k - j) + 1]
        BY <4>1, DivTen DEF m
      <4> QED
        BY <4>1, <4>2
    <3>2. ASSUME NEW j \in 1 .. k - 1 PROVE (k - 1) + 1 - j = k - j /\ j \in 1 .. k
      BY <2>2
    <3> QED
      BY <3>1, <3>2 DEF Shown
  <2>5. Shown(n, k)[k] = Digit(n % 10)
    <3>1. k + 1 - k = 1 /\ n \div Powers[1] = n
      BY PowersOfTen
    <3> QED
      BY <3>1 DEF Shown
  <2>6. Decimal(m) \in Seq(Character) /\ Len(Decimal(m)) = k - 1
    BY <1>5, <2>1, <2>2, <2>3
  <2>7. Digit(n % 10) \in Character
    BY Digits
  <2>8. Len(Decimal(n)) = k
    BY <1>2, <1>5
  <2> DEFINE a == Append(Decimal(m), Digit(n % 10))
  <2>9. /\ a \in Seq(Character) /\ Len(a) = k
        /\ a[k] = Digit(n % 10)
        /\ \A j \in 1 .. k - 1 : a[j] = Shown(m, k - 1)[j]
    <3> HIDE DEF m
    <3> QED
      BY <2>2, <2>3, <2>6, <2>7, AppendProperties
  <2> HIDE DEF a, m
  <2>10. \A j \in 1 .. k : Decimal(n)[j] = a[j]
    BY <1>2, <2>2, <2>4, <2>5, <2>9
  <2>11. Decimal(n) = a
    BY <1>6, <2>8, <2>9, <2>10, SeqEqual
  <2> QED
    BY <2>11 DEF a, m
<1> QED
  BY <1>6, <1>7, <1>8

\* parse_num writes the decimal representation.
LEMMA ParseNum ==
  ASSUME NEW value \in Nat, value <= Magnitude
  PROVE  parse_num(value, 10) = Decimal(value)
<1> DEFINE X == 0 .. value
           Eq(f) == f = [n \in X |-> IF n >= 10 THEN Append(f[n \div 10], Digit(n % 10))
                                     ELSE <<Digit(n % 10)>>]
<1>1. /\ \A n \in X : n \in Nat /\ n \div 10 \in X /\ (n >= 10 => n \div 10 < n)
      /\ \A n \in X : n < 10 => n % 10 = n
      /\ value \in X
  OBVIOUS
<1>2. \A n \in Nat : Digit(n % 10) \in Character
  <2>1. \A n \in Nat : n % 10 \in 0 .. 15
    OBVIOUS
  <2> QED
    BY <2>1, Digits
<1>3. \E f : Eq(f)
  <2> DEFINE S == Seq(Character)
             size == [n \in X |-> IF n >= 10 THEN n ELSE 0]
             next == [n \in X |-> n \div 10]
             first == [n \in X |-> <<Digit(n % 10)>>]
             step == [p \in X \X S |-> Append(p[2], Digit(p[1] % 10))]
  <2>1. size \in [X -> 0 .. value] /\ next \in [X -> X]
    BY <1>1
  <2>2. first \in [X -> S]
    <3>1. \A n \in X : <<Digit(n % 10)>> \in S
      BY <1>1, <1>2
    <3> QED
      BY <3>1
  <2>3. step \in [X \X S -> S]
    <3>1. \A p \in X \X S : p[1] \in X /\ p[2] \in S
      OBVIOUS
    <3>2. \A p \in X \X S : Append(p[2], Digit(p[1] % 10)) \in S
      BY <1>1, <1>2, <3>1, AppendProperties
    <3> QED
      BY <3>2
  <2>4. \A n \in X : size[n] # 0 => size[next[n]] < size[n]
    <3>1. ASSUME NEW n \in X, size[n] # 0 PROVE size[n \div 10] < size[n]
      <4>1. n >= 10 /\ size[n] = n
        BY <3>1
      <4>2. size[n \div 10] \in {n \div 10, 0}
        BY <1>1
      <4> HIDE DEF size
      <4> QED
        BY <1>1, <4>1, <4>2
    <3>2. \A n \in X : next[n] = n \div 10
      OBVIOUS
    <3> HIDE DEF size, next
    <3> QED
      BY <3>1, <3>2
  <2> HIDE DEF S, size, next, first, step
  <2>5. PICK f \in [X -> S] : Solves(f, X, size, next, first, step)
    BY <2>1, <2>2, <2>3, <2>4, Recursion
  <2>6. \A n \in X : f[n] = IF size[n] = 0 THEN first[n] ELSE step[<<n, f[next[n]]>>]
    BY <2>5 DEF Solves
  <2>7. ASSUME NEW n \in X
        PROVE  f[n] = IF n >= 10 THEN Append(f[n \div 10], Digit(n % 10)) ELSE <<Digit(n % 10)>>
    <3>1. size[n] = 0 <=> ~(n >= 10)
      BY <1>1 DEF size
    <3>2. first[n] = <<Digit(n % 10)>> /\ next[n] = n \div 10
      BY DEF first, next
    <3>3. <<n, f[n \div 10]>> \in X \X S
      BY <1>1, <2>5
    <3>4. step[<<n, f[n \div 10]>>] = Append(f[n \div 10], Digit(n % 10))
      BY <3>3 DEF step
    <3> QED
      BY <2>6, <3>1, <3>2, <3>4
  <2>8. Eq(f)
    BY <2>5, <2>7
  <2> QED
    BY <2>8
<1> DEFINE digits == CHOOSE f : Eq(f)
<1>4. Eq(digits)
  <2> HIDE DEF Eq
  <2> QED
    BY <1>3
<1>5. parse_num(value, 10) = digits[value]
  BY Zenon DEF parse_num
<1>6. \A n \in X : digits[n] = IF n >= 10 THEN Append(digits[n \div 10], Digit(n % 10))
                                ELSE <<Digit(n % 10)>>
  <2> HIDE DEF digits
  <2> QED
    BY <1>4
<1> HIDE DEF digits
<1>7. ASSUME {n \in X : digits[n] # Decimal(n)} # {} PROVE FALSE
  <2> DEFINE T == {n \in X : digits[n] # Decimal(n)}
  <2>1. T \subseteq Nat
    BY <1>1
  <2>2. PICK n \in T : \A m \in T : n <= m
    BY <1>7, <2>1, Least
  <2>3. n \in X /\ n \in Nat /\ n <= Magnitude
    BY <1>1 DEF Magnitude
  <2>4. CASE n < 10
    <3>1. digits[n] = <<Digit(n)>>
      <4>1. n % 10 = n /\ ~(n >= 10)
        BY <2>3, <2>4
      <4> HIDE DEF X
      <4> QED
        BY <1>6, <2>3, <4>1
    <3> QED
      BY <2>2, <2>3, <2>4, <3>1, DecimalStep
  <2>5. CASE n >= 10
    <3>1. n \div 10 \in X /\ n \div 10 < n
      BY <1>1, <2>3, <2>5
    <3>2. digits[n \div 10] = Decimal(n \div 10)
      <4>1. n \div 10 \notin T
        BY <2>2, <2>3, <3>1, <1>1
      <4> QED
        BY <3>1, <4>1
    <3>3. digits[n] = Append(Decimal(n \div 10), Digit(n % 10))
      BY <1>6, <2>3, <2>5, <3>2
    <3> QED
      BY <2>2, <2>3, <2>5, <3>3, DecimalStep
  <2> QED
    BY <2>3, <2>4, <2>5
<1> QED
  BY <1>1, <1>5, <1>7

\* A function on 1 .. n is a sequence.
LEMMA OfFunction ==
  ASSUME NEW S, NEW n \in Nat, NEW f \in [1 .. n -> S]
  PROVE  f \in Seq(S) /\ Len(f) = n
BY SeqDef

\* The eight digits of %x.
LEMMA Hexadecimal ==
  ASSUME NEW value \in Nat
  PROVE  parse_hex(value) \in Seq(Character) /\ Len(parse_hex(value)) = 8
<1>1. \A k \in 1 .. 8 : Shifts[k] \in Nat \ {0}
  BY DEF Shifts
<1>2. \A d \in Nat \ {0} : (value \div d) % 16 \in 0 .. 15
  OBVIOUS
<1>3. \A k \in 1 .. 8 : Digit((value \div Shifts[k]) % 16) \in Character
  BY <1>1, <1>2, Digits
<1>4. parse_hex(value) \in [1 .. 8 -> Character]
  BY <1>3 DEF parse_hex
<1>5. 8 \in Nat
  OBVIOUS
<1> QED
  BY <1>4, <1>5, OfFunction, Zenon

\* One element is a sequence.
LEMMA Singleton ==
  ASSUME NEW S, NEW e \in S
  PROVE  <<e>> \in Seq(S) /\ Len(<<e>>) = 1 /\ <<e>>[1] = e
OBVIOUS

\* What a conversion writes is the text it stands for, but for the end of a
\* string for which there is no room; all but a string is at most 11
\* characters.
LEMMA Conversions ==
  ASSUME NEW conv, NEW arg, TakesArg(conv), Suits(conv, arg)
  PROVE  /\ Piece(conv, arg) \in Seq(Character)
         /\ conv # "s" => Convert(conv, arg) = Piece(conv, arg) /\ Len(Piece(conv, arg)) <= 11
<1>1. CASE conv = "s"
  BY <1>1 DEF Piece, Suits
<1>2. CASE conv = "c"
  <2>1. arg \in Character /\ Piece(conv, arg) = <<arg>> /\ Convert(conv, arg) = <<arg>>
    BY <1>2 DEF Piece, Convert, Suits
  <2> QED
    BY <2>1, Singleton
<1>3. CASE conv = "d"
  <2>1. /\ arg \in Int /\ arg <= Magnitude /\ -arg <= Magnitude
    BY <1>3 DEF Suits, Magnitude
  <2>2. CASE arg < 0
    <3>1. -arg \in Nat
      BY <2>1, <2>2
    <3>2. /\ parse_num(-arg, 10) = Decimal(-arg)
          /\ Decimal(-arg) \in Seq(Character) /\ Len(Decimal(-arg)) \in 1 .. 10
      BY <2>1, <3>1, ParseNum, DecimalStep
    <3>3. <<"-">> \in Seq(Character) /\ Len(<<"-">>) = 1
      BY CharactersAssumption, Singleton
    <3>4. /\ Piece(conv, arg) = <<"-">> \o Decimal(-arg)
          /\ Convert(conv, arg) = <<"-">> \o parse_num(-arg, 10)
      BY <1>3, <2>2 DEF Piece, Convert
    <3>5. /\ <<"-">> \o Decimal(-arg) \in Seq(Character)
          /\ Len(<<"-">> \o Decimal(-arg)) = 1 + Len(Decimal(-arg))
      BY <3>2, <3>3, ConcatProperties
    <3>6. \A n \in 1 .. 10 : 1 + n <= 11
      OBVIOUS
    <3> QED
      BY <3>2, <3>4, <3>5, <3>6
  <2>3. CASE ~(arg < 0)
    <3>1. arg \in Nat
      BY <2>1, <2>3
    <3>2. /\ parse_num(arg, 10) = Decimal(arg)
          /\ Decimal(arg) \in Seq(Character) /\ Len(Decimal(arg)) \in 1 .. 10
      BY <2>1, <3>1, ParseNum, DecimalStep
    <3>3. Piece(conv, arg) = Decimal(arg) /\ Convert(conv, arg) = parse_num(arg, 10)
      BY <1>3, <2>3 DEF Piece, Convert
    <3>4. 10 <= 11 /\ \A n \in 1 .. 10 : n <= 11
      OBVIOUS
    <3> QED
      BY <3>2, <3>3, <3>4
  <2> QED
    BY <2>2, <2>3
<1>4. CASE conv = "x"
  <2>1. arg \in Nat /\ Piece(conv, arg) = parse_hex(arg) /\ Convert(conv, arg) = parse_hex(arg)
    BY <1>4 DEF Piece, Convert, Suits
  <2>2. parse_hex(arg) \in Seq(Character) /\ Len(parse_hex(arg)) = 8 /\ 8 <= 11
    BY <2>1, Hexadecimal
  <2> QED
    BY <2>1, <2>2
<1> QED
  BY <1>1, <1>2, <1>3, <1>4 DEF TakesArg

\* What stands at a place of a format, and what its text is then.
AtEnd(c, i, k) == i = Len(c.fmt) + 1 /\ TextFrom(c)[i][k] = <<>>
AtPlain(c, i, k) ==
  /\ i <= Len(c.fmt) /\ c.fmt[i] # "%" /\ IsCall(c)[i + 1][k]
  /\ TextFrom(c)[i][k] = <<c.fmt[i]>> \o TextFrom(c)[i + 1][k]
AtArgument(c, i, k) ==
  /\ i < Len(c.fmt) /\ c.fmt[i] = "%" /\ TakesArg(c.fmt[i + 1])
  /\ Suits(c.fmt[i + 1], c.args[k]) /\ IsCall(c)[i + 2][k + 1]
  /\ TextFrom(c)[i][k] = Piece(c.fmt[i + 1], c.args[k]) \o TextFrom(c)[i + 2][k + 1]
AtOther(c, i, k) ==
  /\ i < Len(c.fmt) /\ c.fmt[i] = "%" /\ ~TakesArg(c.fmt[i + 1]) /\ IsCall(c)[i + 2][k]
  /\ TextFrom(c)[i][k] = <<c.fmt[i + 1]>> \o TextFrom(c)[i + 2][k]
LEMMA CallCases ==
  ASSUME NEW c, c.fmt \in Seq(Character), NEW i \in Nat, NEW k \in Nat, i >= 1,
         IsCall(c)[i][k]
  PROVE  AtEnd(c, i, k) \/ AtPlain(c, i, k) \/ AtArgument(c, i, k) \/ AtOther(c, i, k)
<1>1. Len(c.fmt) \in Nat
  BY LenProperties
<1>2. \A m, l \in Nat : IsCall(c)[m][l] = CallStep(c, IsCall(c), m)[l]
  BY <1>1, CallSolved
<1>3. TextFrom(c)[i][k] = TextStep(c, TextFrom(c), i)[k]
  BY <1>1, TextSolved
<1>4. \A m, l \in Nat : IsCall(c)[m][l] /\ m > Len(c.fmt) => m = Len(c.fmt) + 1
  BY <1>2 DEF CallStep
<1>5. CASE i > Len(c.fmt)
  BY <1>3, <1>4, <1>5 DEF TextStep, AtEnd
<1>6. ASSUME ~(i > Len(c.fmt)), c.fmt[i] # "%" PROVE AtPlain(c, i, k)
  <2>1. TextFrom(c)[i][k] = <<c.fmt[i]>> \o TextFrom(c)[i + 1][k]
    BY <1>3, <1>6, Zenon DEF TextStep
  <2>2. IsCall(c)[i + 1][k]
    BY <1>2, <1>6, Zenon DEF CallStep
  <2> QED
    BY <1>1, <1>6, <2>1, <2>2 DEF AtPlain
<1>7. ASSUME ~(i > Len(c.fmt)), c.fmt[i] = "%", TakesArg(c.fmt[i + 1]) PROVE AtArgument(c, i, k)
  <2>1. TextFrom(c)[i][k] = Piece(c.fmt[i + 1], c.args[k]) \o TextFrom(c)[i + 2][k + 1]
    BY <1>3, <1>7, Zenon DEF TextStep
  <2>2. Suits(c.fmt[i + 1], c.args[k]) /\ IsCall(c)[i + 2][k + 1]
    BY <1>2, <1>7, Zenon DEF CallStep
  <2>3. i < Len(c.fmt)
    BY <1>1, <1>4, <1>7, <2>2
  <2> QED
    BY <1>7, <2>1, <2>2, <2>3 DEF AtArgument
<1>8. ASSUME ~(i > Len(c.fmt)), c.fmt[i] = "%", ~TakesArg(c.fmt[i + 1]) PROVE AtOther(c, i, k)
  <2>1. TextFrom(c)[i][k] = <<c.fmt[i + 1]>> \o TextFrom(c)[i + 2][k]
    BY <1>3, <1>8, Zenon DEF TextStep
  <2>2. IsCall(c)[i + 2][k]
    BY <1>2, <1>8, Zenon DEF CallStep
  <2>3. i < Len(c.fmt)
    BY <1>1, <1>4, <1>8, <2>2
  <2> QED
    BY <1>8, <2>1, <2>2, <2>3 DEF AtOther
<1> QED
  BY <1>5, <1>6, <1>7, <1>8, Zenon

\* The text of a call is one of characters.
LEMMA TextTyped ==
  ASSUME NEW c, c.fmt \in Seq(Character)
  PROVE  \A i, k \in Nat : i >= 1 /\ IsCall(c)[i][k] => TextFrom(c)[i][k] \in Seq(Character)
<1> DEFINE n == Len(c.fmt)
           P == {m \in Nat : \A i, k \in Nat :
                   i >= 1 /\ i + m > n /\ IsCall(c)[i][k] => TextFrom(c)[i][k] \in Seq(Character)}
<1>1. n \in Nat /\ \A i \in 1 .. n : c.fmt[i] \in Character
  BY LenProperties, ElementOfSeq
<1>2. 0 \in P
  <2> SUFFICES ASSUME NEW i \in Nat, NEW k \in Nat, i >= 1, i > n, IsCall(c)[i][k]
               PROVE  TextFrom(c)[i][k] \in Seq(Character)
    BY <1>1
  <2> HIDE DEF P
  <2>1. TextFrom(c)[i][k] = <<>>
    <3>1. AtEnd(c, i, k) \/ AtPlain(c, i, k) \/ AtArgument(c, i, k) \/ AtOther(c, i, k)
      BY CallCases
    <3>2. ~(i <= n) /\ ~(i < n)
      BY <1>1
    <3>3. AtEnd(c, i, k)
      BY <3>1, <3>2, Zenon DEF AtPlain, AtArgument, AtOther
    <3> QED
      BY <3>3 DEF AtEnd
  <2> QED
    BY <2>1, EmptySeq
<1>3. ASSUME NEW m \in Nat, m \in P PROVE m + 1 \in P
  <2>1. SUFFICES ASSUME NEW i \in Nat, NEW k \in Nat, i >= 1, i + (m + 1) > n, IsCall(c)[i][k]
                 PROVE  TextFrom(c)[i][k] \in Seq(Character)
    OBVIOUS
  <2>2. \A j, l \in Nat : j > i /\ IsCall(c)[j][l] => TextFrom(c)[j][l] \in Seq(Character)
    BY <1>1, <1>3, <2>1
  <2> HIDE DEF P
  <2>3. CASE AtEnd(c, i, k)
    BY <2>3, EmptySeq DEF AtEnd
  <2>4. CASE AtPlain(c, i, k)
    <3>1. c.fmt[i] \in Character /\ TextFrom(c)[i + 1][k] \in Seq(Character)
      BY <1>1, <2>1, <2>2, <2>4 DEF AtPlain
    <3>2. <<c.fmt[i]>> \in Seq(Character)
      BY <3>1, Singleton
    <3> QED
      BY <2>4, <3>1, <3>2, ConcatProperties DEF AtPlain
  <2>5. CASE AtArgument(c, i, k)
    <3>1. TextFrom(c)[i + 2][k + 1] \in Seq(Character)
      BY <2>2, <2>5 DEF AtArgument
    <3>2. Piece(c.fmt[i + 1], c.args[k]) \in Seq(Character)
      BY <2>5, Conversions DEF AtArgument
    <3> QED
      BY <2>5, <3>1, <3>2, ConcatProperties DEF AtArgument
  <2>6. CASE AtOther(c, i, k)
    <3>1. c.fmt[i + 1] \in Character /\ TextFrom(c)[i + 2][k] \in Seq(Character)
      BY <1>1, <2>1, <2>2, <2>6 DEF AtOther
    <3>2. <<c.fmt[i + 1]>> \in Seq(Character)
      BY <3>1, Singleton
    <3> QED
      BY <2>6, <3>1, <3>2, ConcatProperties DEF AtOther
  <2> QED
    BY <2>1, <2>3, <2>4, <2>5, <2>6, CallCases
<1>4. P \subseteq Nat
  OBVIOUS
<1> HIDE DEF P
<1>5. n + 1 \in P
  <2>1. P = Nat
    BY <1>2, <1>3, <1>4, Induction
  <2> QED
    BY <1>1, <2>1
<1> QED
  BY <1>1, <1>5 DEF P

----------------------------------------------------------------------------
\* What a call sends to the port, and the calls up to the n-th one.
Line(call) == IF call.to = "port" THEN Text(call) ELSE <<>>
AreLines(f, calls, m) == f[0] = <<>> /\ \A n \in 1 .. m : f[n] = f[n - 1] \o Line(calls[n])

\* What a call consists of.
LEMMA LineTyped ==
  ASSUME NEW c \in Calls
  PROVE  /\ c.fmt \in Seq(Character) /\ IsCall(c)[1][1]
         /\ Text(c) \in Seq(Character) /\ Line(c) \in Seq(Character)
         /\ c.to \in {"port", "memory"}
<1>1. c.fmt \in Seq(Character) /\ IsCall(c)[1][1] /\ c.to \in {"port", "memory"}
  BY CallsAssumption
<1>2. Text(c) \in Seq(Character)
  BY <1>1, TextTyped DEF Text
<1>3. <<>> \in Seq(Character)
  BY EmptySeq
<1> QED
  BY <1>1, <1>2, <1>3 DEF Line

\* The recursion has one solution, which depends on the calls up to there.
LEMMA SameLines ==
  ASSUME NEW m \in Nat, NEW f, NEW g, NEW calls, NEW others,
         AreLines(f, calls, m), AreLines(g, others, m),
         \A n \in 1 .. m : calls[n] = others[n]
  PROVE  f[m] = g[m]
<1> DEFINE P == {n \in Nat : n <= m => f[n] = g[n]}
<1>1. 0 \in P
  BY DEF AreLines
<1>2. ASSUME NEW n \in Nat, n \in P PROVE n + 1 \in P
  <2>1. SUFFICES ASSUME n + 1 <= m PROVE f[n + 1] = g[n + 1]
    OBVIOUS
  <2>2. f[n] = g[n] /\ n + 1 \in 1 .. m /\ (n + 1) - 1 = n
    BY <1>2, <2>1
  <2> HIDE DEF P
  <2> QED
    BY <2>2 DEF AreLines
<1>3. P \subseteq Nat
  OBVIOUS
<1> HIDE DEF P
<1>4. m \in P
  BY <1>1, <1>2, <1>3, Induction
<1> QED
  BY <1>4 DEF P

\* Texts is that solution.
LEMMA TextsSolved ==
  ASSUME NEW calls \in Seq(Calls)
  PROVE  \E f \in [0 .. Len(calls) -> Seq(Character)] :
           AreLines(f, calls, Len(calls)) /\ Texts(calls) = f[Len(calls)]
<1> DEFINE m == Len(calls)
           X == 0 .. m
           Eq(f) == f = [n \in X |-> IF n = 0 THEN <<>> ELSE f[n - 1] \o Line(calls[n])]
<1>1. m \in Nat /\ \A n \in 1 .. m : calls[n] \in Calls
  BY LenProperties, ElementOfSeq
<1>2. \A n \in 1 .. m : Line(calls[n]) \in Seq(Character)
  BY <1>1, LineTyped
<1>3. \E f \in [X -> Seq(Character)] : Eq(f)
  <2> DEFINE S == Seq(Character)
             size == [n \in X |-> n]
             next == [n \in X |-> IF n = 0 THEN 0 ELSE n - 1]
             first == [n \in X |-> <<>>]
             step == [p \in X \X S |-> IF p[1] = 0 THEN <<>> ELSE p[2] \o Line(calls[p[1]])]
  <2>1. size \in [X -> 0 .. m] /\ next \in [X -> X]
    BY <1>1
  <2>2. first \in [X -> S]
    BY EmptySeq
  <2>3. step \in [X \X S -> S]
    <3>1. \A p \in X \X S : p[1] \in X /\ p[2] \in S
      OBVIOUS
    <3>2. ASSUME NEW p \in X \X S
          PROVE  (IF p[1] = 0 THEN <<>> ELSE p[2] \o Line(calls[p[1]])) \in S
      <4>1. CASE p[1] = 0
        BY <4>1, EmptySeq
      <4>2. CASE p[1] # 0
        <5>1. Line(calls[p[1]]) \in S
          BY <1>1, <1>2, <3>1, <4>2
        <5> QED
          BY <3>1, <4>2, <5>1, ConcatProperties
      <4> QED
        BY <4>1, <4>2
    <3> QED
      BY <3>2
  <2>4. \A n \in X : size[n] # 0 => size[next[n]] < size[n]
    BY <1>1
  <2> HIDE DEF S, size, next, first, step
  <2>5. PICK f \in [X -> S] : Solves(f, X, size, next, first, step)
    BY <1>1, <2>1, <2>2, <2>3, <2>4, Recursion
  <2>6. \A n \in X : f[n] = IF size[n] = 0 THEN first[n] ELSE step[<<n, f[next[n]]>>]
    BY <2>5 DEF Solves
  <2>7. ASSUME NEW n \in X
        PROVE  f[n] = IF n = 0 THEN <<>> ELSE f[n - 1] \o Line(calls[n])
    <3>1. CASE n = 0
      BY <2>6, <3>1 DEF size, first
    <3>2. CASE n # 0
      <4>1. size[n] = n /\ next[n] = n - 1 /\ n - 1 \in X
        BY <1>1, <3>2 DEF size, next
      <4>2. <<n, f[n - 1]>> \in X \X S
        BY <2>5, <4>1
      <4>3. step[<<n, f[n - 1]>>] = f[n - 1] \o Line(calls[n])
        BY <3>2, <4>2 DEF step
      <4> QED
        BY <2>6, <3>2, <4>1, <4>3
    <3> QED
      BY <3>1, <3>2
  <2>8. Eq(f)
    BY <2>5, <2>7
  <2> QED
    BY <2>5, <2>8 DEF S
<1> DEFINE upto == CHOOSE f : Eq(f)
<1>4. Eq(upto)
  <2> HIDE DEF Eq
  <2> QED
    BY <1>3
<1>5. Texts(calls) = upto[m]
  BY Zenon DEF Texts, Line
<1>6. PICK f \in [X -> Seq(Character)] : Eq(f)
  BY <1>3
<1>7. ASSUME NEW g, Eq(g) PROVE AreLines(g, calls, m)
  <2>1. \A n \in X : g[n] = IF n = 0 THEN <<>> ELSE g[n - 1] \o Line(calls[n])
    BY <1>7
  <2>2. 0 \in X /\ \A n \in 1 .. m : n \in X /\ n # 0
    BY <1>1
  <2> QED
    BY <2>1, <2>2 DEF AreLines
<1> HIDE DEF Eq, upto
<1>8. f[m] = upto[m]
  BY <1>1, <1>4, <1>6, <1>7, SameLines
<1> QED
  BY <1>5, <1>6, <1>7, <1>8

\* One more call: its text behind the others.
LEMMA TextsAppend ==
  ASSUME NEW calls \in Seq(Calls), NEW c \in Calls
  PROVE  /\ Texts(calls) \in Seq(Character)
         /\ Texts(Append(calls, c)) = Texts(calls) \o Line(c)
<1> DEFINE m == Len(calls)
           more == Append(calls, c)
<1>1. m \in Nat
  BY LenProperties
<1>2. /\ more \in Seq(Calls) /\ Len(more) = m + 1 /\ more[m + 1] = c
      /\ \A n \in 1 .. m : calls[n] = more[n]
  BY AppendProperties
<1>3. PICK f \in [0 .. m -> Seq(Character)] : AreLines(f, calls, m) /\ Texts(calls) = f[m]
  BY TextsSolved
<1>4. PICK g \in [0 .. m + 1 -> Seq(Character)] :
        AreLines(g, more, m + 1) /\ Texts(more) = g[m + 1]
  BY <1>2, TextsSolved
<1> HIDE DEF m, more
<1>5. AreLines(g, more, m)
  <2>1. \A n \in 1 .. m : n \in 1 .. m + 1
    BY <1>1
  <2> QED
    BY <1>4, <2>1, Zenon DEF AreLines
<1>6. f[m] = g[m]
  BY <1>1, <1>2, <1>3, <1>5, SameLines
<1>7. g[m + 1] = g[m] \o Line(c)
  <2>1. m + 1 \in 1 .. m + 1 /\ (m + 1) - 1 = m
    BY <1>1
  <2> QED
    BY <1>2, <1>4, <2>1 DEF AreLines
<1>8. f[m] \in Seq(Character)
  BY <1>1, <1>3
<1> QED
  BY <1>3, <1>4, <1>6, <1>7, <1>8 DEF more

\* Before any call.
LEMMA TextsNone == Texts(<<>>) = <<>>
<1>1. <<>> \in Seq(Calls) /\ Len(<<>>) = 0
  BY EmptySeq
<1>2. PICK f \in [0 .. Len(<<>>) -> Seq(Character)] :
        AreLines(f, <<>>, Len(<<>>)) /\ Texts(<<>>) = f[Len(<<>>)]
  BY <1>1, TextsSolved
<1> QED
  BY <1>1, <1>2 DEF AreLines

----------------------------------------------------------------------------
\* Prefixes.
LEMMA PrefixSelf ==
  ASSUME NEW S, NEW s \in Seq(S)
  PROVE  IsPrefix(s, s)
BY LenProperties DEF IsPrefix

\* Of a concatenation the first part is a prefix.
LEMMA PrefixConcat ==
  ASSUME NEW S, NEW s \in Seq(S), NEW t \in Seq(S)
  PROVE  IsPrefix(s, s \o t)
<1>1. /\ s \o t \in Seq(S) /\ Len(s \o t) = Len(s) + Len(t)
      /\ Len(s) \in Nat /\ Len(t) \in Nat
  BY ConcatProperties, LenProperties
<1>2. SubSeq(s, 1, Len(s)) = SubSeq(s \o t, 1, Len(s))
  <2>1. CASE Len(s) = 0
    BY <2>1, SubSeqEmpty
  <2>2. CASE Len(s) # 0
    BY <1>1, <2>2, SubSeqOfConcat1
  <2> QED
    BY <2>1, <2>2
<1> QED
  BY <1>1, <1>2 DEF IsPrefix

\* A prefix has the elements of the sequence, and one as long as it is it.
LEMMA PrefixElements ==
  ASSUME NEW S, NEW s \in Seq(S), NEW t \in Seq(S), IsPrefix(s, t)
  PROVE  Len(s) <= Len(t) /\ (Len(t) <= Len(s) => s = t)
<1>1. Len(s) \in Nat /\ Len(t) \in Nat
  BY LenProperties
<1>2. Len(s) <= Len(t) /\ SubSeq(s, 1, Len(s)) = SubSeq(t, 1, Len(s))
  BY DEF IsPrefix
<1>3. ASSUME Len(t) <= Len(s) PROVE s = t
  <2>1. Len(s) = Len(t)
    BY <1>1, <1>2, <1>3
  <2>2. SubSeq(s, 1, Len(s)) = s /\ SubSeq(t, 1, Len(t)) = t
    BY SubSeqFull
  <2> QED
    BY <1>2, <2>1, <2>2
<1> QED
  BY <1>2, <1>3

----------------------------------------------------------------------------
(***************************************************************************)
(* The invariant.                                                          *)
(***************************************************************************)
\* What is in buf.
Prefix == [n \in 1 .. ptr |-> buf[n - 1]]
\* What has been sent, with the character still in the transmit register.
Sent == out \o (IF thr = NUL THEN <<>> ELSE <<thr>>)
\* No message is being formatted or sent; what one has still to send.
Idle == stack = <<>> \/ Top.phase = "start"
Rest ==
  IF Idle \/ Call.to = "memory" THEN <<>>
  ELSE IF Top.phase = "format" THEN Text(Call)
  ELSE SubSeq(Prefix, Top.at + 1, ptr)

Activations ==
  [vector : {0, SYSCALL, MOUSE}, calls : Seq(Calls),
   phase : {"start", "format", "port", "memory"}, at : Nat, arg : Nat]
Typed ==
  /\ buf \in [0 .. SIZE - 1 + Beyond -> Character \union {NUL}]
  /\ ptr \in 0 .. SIZE - 1 + Beyond
  /\ stack \in Seq(Activations) /\ Len(stack) <= 1
  /\ out \in Seq(Character) /\ thr \in Character \union {NUL}
  /\ log \in Seq(Calls)

\* How far serial_init is; nothing is printed before it has returned.
LineSet ==
  /\ initStep \in 1 .. 8
  /\ regs = [dll |-> regs.dll, dlm |-> regs.dlm, ier |-> regs.ier, lcr |-> regs.lcr]
  /\ initStep \in 3 .. 5 => regs.lcr = 128
  /\ initStep >= 4 => regs.dll = 1
  /\ initStep >= 5 => regs.dlm = 0
  /\ initStep >= 6 => regs.lcr = 3
  /\ thr # NUL \/ stack # <<>> \/ DOMAIN idt # {} => initStep = 8

\* kmain prints before the gates are set, the handlers after.
OneActive ==
  /\ idt = [v \in {} |-> 0] \/ idt = [v \in {SYSCALL, MOUSE} |-> Gate(v)]
  /\ stack # <<>> => (Top.vector = 0 <=> DOMAIN idt = {})

\* What is in buf is the text of the current call, as far as it is formatted.
Formatting ==
  ~Idle =>
    /\ Top.calls # <<>> /\ log # <<>> /\ Last(log) = Call
    /\ IF Top.phase # "format"
       THEN /\ Top.phase = Call.to /\ Top.at <= ptr /\ buf[ptr] = NUL
            /\ Beginning(Prefix, Text(Call))
       ELSE IF ptr >= SIZE - 1 THEN IsPrefix(Prefix, Text(Call))
       ELSE /\ Top.at >= 1 /\ IsCall(Call)[Top.at][Top.arg]
            /\ Text(Call) = Prefix \o TextFrom(Call)[Top.at][Top.arg]

\* What has been sent and what the current message has to send.
AllFit == \A n \in DOMAIN log : Fits(log[n])
NoPrint == \A n \in DOMAIN log : log[n].to # "port"
PrintFormats == ~Idle /\ Call.to = "port" /\ Top.phase = "format"
Sending ==
  /\ AllFit => Sent \o Rest = Texts(log)
  /\ NoPrint => Sent = <<>>
  /\ \A n \in DOMAIN log : OnlyPrint(n) =>
       IF PrintFormats THEN Sent = <<>> ELSE Beginning(Sent \o Rest, Text(log[n]))

\* ksprintf has given its caller the text.
Copied ==
  Idle /\ log # <<>> /\ Last(log).to = "memory" /\ Fits(Last(log)) => copied = Text(Last(log))

Inv == Typed /\ LineSet /\ OneActive /\ Formatting /\ Sending /\ Copied
----------------------------------------------------------------------------
\* At most one activation: nothing interrupts a handler.
LEMMA OnStack ==
  ASSUME Typed, stack # <<>>
  PROVE  stack = <<Top>> /\ Top \in Activations /\ Tail(stack) = <<>>
<1>1. stack \in Seq(Activations) /\ Len(stack) = 1
  <2>1. stack \in Seq(Activations) /\ Len(stack) <= 1 /\ Len(stack) \in Nat \ {0}
    BY EmptySeq DEF Typed
  <2> QED
    BY <2>1
<1>2. Top \in Activations
  BY <1>1, HeadTailProperties DEF Top
<1>3. stack = <<Top>>
  <2>1. Top = stack[1]
    BY <1>1 DEF Top
  <2> QED
    BY <1>1, <1>2, <2>1
<1>4. Tail(stack) = <<>>
  BY <1>3
<1> QED
  BY <1>2, <1>3, <1>4

\* Advance replaces the only activation.
LEMMA Advanced ==
  ASSUME Typed, stack # <<>>, NEW f, Advance(f)
  PROVE  stack' = <<f>> /\ Top' = f /\ stack' # <<>>
<1>1. stack' = <<f>>
  <2>1. stack' = <<f>> \o <<>>
    BY OnStack DEF Advance
  <2>2. <<f>> \in Seq({f})
    BY Singleton
  <2> QED
    BY <2>1, <2>2, ConcatEmptySeq
<1>2. Top' = f
  BY <1>1 DEF Top
<1> QED
  BY <1>1, <1>2

\* A stack of one activation.
LEMMA OneTyped ==
  ASSUME NEW a \in Activations
  PROVE  <<a>> \in Seq(Activations) /\ Len(<<a>>) = 1
OBVIOUS

\* What is in buf is the beginning of the text of the current call.
LEMMA CurrentCall ==
  ASSUME Typed, Formatting, ~Idle
  PROVE  Call \in Calls /\ Tail(Top.calls) \in Seq(Calls)
<1>1. Top.calls \in Seq(Calls) /\ Top.calls # <<>>
  BY OnStack DEF Formatting, Idle, Activations
<1> QED
  BY <1>1, HeadTailProperties DEF Call

\* And it holds no NUL before ptr.
LEMMA PrefixTyped ==
  ASSUME Typed, Formatting, ~Idle
  PROVE  /\ Prefix \in Seq(Character) /\ Len(Prefix) = ptr /\ ptr \in Nat
         /\ IsPrefix(Prefix, Text(Call))
         /\ \A n \in 0 .. ptr - 1 : buf[n] = Prefix[n + 1] /\ buf[n] \in Character
<1> DEFINE S == Character \union {NUL}
           T == Text(Call)
<1>1. ptr \in Nat
  BY BoundsAssumption DEF Typed, Beyond
<1>2. Prefix \in Seq(S) /\ Len(Prefix) = ptr
  <2>1. \A n \in 1 .. ptr : buf[n - 1] \in S
    BY <1>1, BoundsAssumption DEF Typed, Beyond
  <2>2. Prefix \in [1 .. ptr -> S]
    BY <2>1 DEF Prefix
  <2> QED
    BY <1>1, <2>2, OfFunction
<1>3. T \in Seq(Character) /\ T \in Seq(S)
  <2>1. T \in Seq(Character)
    BY CurrentCall, LineTyped
  <2> QED
    BY <2>1, SeqMonotonic
<1>4. IsPrefix(Prefix, T)
  <2>1. CASE Top.phase # "format"
    BY <2>1 DEF Formatting, Beginning
  <2>2. CASE Top.phase = "format" /\ ptr >= SIZE - 1
    BY <2>2 DEF Formatting
  <2>3. CASE Top.phase = "format" /\ ~(ptr >= SIZE - 1)
    <3> DEFINE r == TextFrom(Call)[Top.at][Top.arg]
    <3>1. /\ Top.at \in Nat /\ Top.at >= 1 /\ Top.arg \in Nat
          /\ IsCall(Call)[Top.at][Top.arg] /\ T = Prefix \o r
      BY <2>3, OnStack DEF Formatting, Idle, Activations
    <3>2. r \in Seq(Character)
      BY <3>1, CurrentCall, LineTyped, TextTyped
    <3>3. r \in Seq(S)
      BY <3>2, SeqMonotonic
    <3> QED
      BY <1>2, <3>1, <3>3, PrefixConcat
  <2> QED
    BY <2>1, <2>2, <2>3
<1> HIDE DEF S, T
<1>5. Prefix = SubSeq(T, 1, ptr) /\ ptr <= Len(T)
  BY <1>2, <1>4, SubSeqFull DEF IsPrefix
<1>6. Prefix \in Seq(Character)
  <2>1. \A i \in 1 .. ptr : T[i] \in Character
    BY <1>1, <1>3, <1>5, LenProperties, ElementOfSeq
  <2> QED
    BY <1>1, <1>5, <2>1, SubSeqProperties
<1>7. ASSUME NEW n \in 0 .. ptr - 1 PROVE buf[n] = Prefix[n + 1] /\ buf[n] \in Character
  <2>1. n + 1 \in 1 .. ptr /\ (n + 1) - 1 = n
    BY <1>1
  <2>2. Prefix[n + 1] = buf[n]
    BY <2>1 DEF Prefix
  <2>3. Prefix[n + 1] \in Character
    BY <1>2, <1>6, <2>1, ElementOfSeq
  <2> QED
    BY <2>2, <2>3
<1> QED
  BY <1>1, <1>2, <1>4, <1>6, <1>7 DEF T

\* What has been sent is a sequence of characters.
LEMMA SentTyped ==
  ASSUME Typed
  PROVE  Sent \in Seq(Character)
<1>1. out \in Seq(Character) /\ (thr # NUL => thr \in Character)
  BY DEF Typed
<1>2. CASE thr = NUL
  BY <1>1, <1>2, ConcatEmptySeq DEF Sent
<1>3. CASE thr # NUL
  <2>1. <<thr>> \in Seq(Character)
    BY <1>1, <1>3, Singleton
  <2> QED
    BY <1>1, <1>3, <2>1, ConcatProperties DEF Sent
<1> QED
  BY <1>2, <1>3

----------------------------------------------------------------------------
\* The character, or the characters of a conversion, that one iteration of
\* vkformat's loop writes.
Percent == Call.fmt[Top.at] = "%"
Conv == IF Percent THEN Call.fmt[Top.at + 1] ELSE Call.fmt[Top.at]
Takes == Percent /\ TakesArg(Conv)
Chunk == IF Takes THEN Convert(Conv, Call.args[Top.arg]) ELSE <<Conv>>
NextAt == Top.at + (IF Percent THEN 2 ELSE 1)
NextArg == Top.arg + (IF Takes THEN 1 ELSE 0)

\* Three pieces of text are appended in either order of the appends.
LEMMA CharactersAssociate ==
  \A s, t, u \in Seq(Character) : (s \o t) \o u = s \o (t \o u)
BY ConcatAssociative

\* Format, in these terms.
LEMMA FormatStep ==
  Format =>
    /\ stack # <<>> /\ Top.phase = "format" /\ ~Formatted
    /\ buf' = Written(Chunk) /\ ptr' = ptr + Len(Chunk)
    /\ Advance([Top EXCEPT !.at = NextAt, !.arg = NextArg])
    /\ UNCHANGED <<idt, initStep, uart, copied, log, interrupts>>
BY Zenon DEF Format, Percent, Conv, Takes, Chunk, NextAt, NextArg

\* The smaller of two numbers.
LEMMA MinOfTwo ==
  ASSUME NEW a \in Int, NEW b \in Int
  PROVE  Min({a, b}) = IF a <= b THEN a ELSE b
<1> DEFINE P(x) == x \in {a, b} /\ \A y \in {a, b} : x <= y
<1>1. \E x : P(x)
  <2>1. CASE a <= b
    BY <2>1
  <2>2. CASE ~(a <= b)
    BY <2>2
  <2> QED
    BY <2>1, <2>2
<1>2. Min({a, b}) = CHOOSE x : P(x)
  BY DEF Min
<1>3. \A x : P(x) => x = IF a <= b THEN a ELSE b
  OBVIOUS
<1> HIDE DEF P
<1> QED
  BY <1>1, <1>2, <1>3

\* Text and arguments that are still to come.
Follows(text, i, k) ==
  /\ i \in Nat /\ i >= 1 /\ k \in Nat /\ IsCall(Call)[i][k]
  /\ TextFrom(Call)[Top.at][Top.arg] = text \o TextFrom(Call)[i][k]

\* It is what comes next in the text of the call, or so much of it that the
\* buffer is full; and it stays within reach.
LEMMA ChunkFollows ==
  ASSUME Typed, Formatting, stack # <<>>, Top.phase = "format", ~Formatted
  PROVE  /\ Chunk \in Seq(Character) /\ ptr + Len(Chunk) <= SIZE - 1 + Beyond
         /\ \/ Follows(Chunk, NextAt, NextArg)
            \/ /\ ptr + Len(Chunk) >= SIZE - 1
               /\ \E tail \in Seq(Character) : Follows(Chunk \o tail, NextAt, NextArg)
<1> DEFINE i == Top.at
           k == Top.arg
           room == SIZE - 1 - ptr
<1>1. /\ i \in Nat /\ k \in Nat /\ SIZE \in Nat /\ ptr \in Nat /\ ~Idle
      /\ Call \in Calls /\ Call.fmt \in Seq(Character)
  <2>1. ~Idle
    BY DEF Idle
  <2>2. i \in Nat /\ k \in Nat
    BY OnStack DEF Activations
  <2> QED
    BY <2>1, <2>2, BoundsAssumption, CurrentCall, LineTyped DEF Typed, Beyond
<1>2. Len(Call.fmt) \in Nat
  BY <1>1, LenProperties
<1>3. i <= Len(Call.fmt) /\ ptr < SIZE - 1 /\ i >= 1 /\ IsCall(Call)[i][k]
  <2>1. ~(i > Len(Call.fmt)) /\ ~(ptr >= SIZE - 1)
    BY Zenon DEF Formatted
  <2>2. i >= 1 /\ IsCall(Call)[i][k]
    BY <1>1, <2>1, Zenon DEF Formatting
  <2> QED
    BY <1>1, <1>2, <2>1, <2>2
<1>4. \A n \in 1 .. Len(Call.fmt) : Call.fmt[n] \in Character
  BY <1>1, ElementOfSeq
<1>5. \A n \in Nat : n <= 11 \/ n <= room => ptr + n <= SIZE - 1 + Beyond
  BY <1>1, <1>3 DEF Beyond
<1> HIDE DEF i, k, room
<1>6. CASE AtPlain(Call, i, k)
  <2>1. ~Percent
    BY <1>6 DEF Percent, AtPlain, i
  <2>2. Chunk = <<Call.fmt[i]>> /\ NextAt = i + 1 /\ NextArg = k
    BY <1>1, <2>1 DEF Chunk, Takes, Conv, NextAt, NextArg, i, k
  <2>3. Chunk \in Seq(Character) /\ Len(Chunk) = 1
    BY <1>1, <1>2, <1>3, <1>4, <2>2, Singleton
  <2>4. Follows(Chunk, NextAt, NextArg)
    BY <1>1, <1>6, <2>2 DEF Follows, AtPlain, i, k
  <2> QED
    BY <1>5, <2>3, <2>4
<1>7. CASE AtOther(Call, i, k)
  <2>1. Percent /\ ~Takes
    BY <1>7 DEF Percent, Conv, Takes, AtOther, i
  <2>2. Chunk = <<Call.fmt[i + 1]>> /\ NextAt = i + 2 /\ NextArg = k
    BY <1>1, <2>1 DEF Chunk, Conv, NextAt, NextArg, i, k
  <2>3. Chunk \in Seq(Character) /\ Len(Chunk) = 1
    <3>1. i + 1 \in 1 .. Len(Call.fmt)
      BY <1>1, <1>2, <1>7 DEF AtOther
    <3> QED
      BY <1>4, <2>2, <3>1, Singleton
  <2>4. Follows(Chunk, NextAt, NextArg)
    BY <1>1, <1>7, <2>2 DEF Follows, AtOther, i, k
  <2> QED
    BY <1>5, <2>3, <2>4
<1>8. CASE AtArgument(Call, i, k)
  <2> DEFINE conv == Call.fmt[i + 1]
             a == Call.args[k]
  <2>1. Percent /\ Takes /\ Conv = conv
    BY <1>8 DEF Percent, Conv, Takes, AtArgument, i
  <2>2. Chunk = Convert(conv, a) /\ NextAt = i + 2 /\ NextArg = k + 1
    BY <2>1 DEF Chunk, NextAt, NextArg, i, k
  <2>3. TakesArg(conv) /\ Suits(conv, a)
    BY <1>8 DEF AtArgument
  <2>4. Follows(Piece(conv, a), NextAt, NextArg)
    <3>1. NextAt \in Nat /\ NextAt >= 1 /\ NextArg \in Nat
      BY <1>1, <2>2
    <3>2. /\ IsCall(Call)[NextAt][NextArg]
          /\ TextFrom(Call)[Top.at][Top.arg] = Piece(conv, a) \o TextFrom(Call)[NextAt][NextArg]
      BY <1>8, <2>2, Zenon DEF AtArgument, i, k
    <3> QED
      BY <3>1, <3>2 DEF Follows
  <2> HIDE DEF conv, a
  <2>5. CASE conv # "s"
    <3>1. Chunk = Piece(conv, a) /\ Chunk \in Seq(Character) /\ Len(Chunk) <= 11
      BY <2>2, <2>3, <2>5, Conversions
    <3>2. Len(Chunk) \in Nat
      BY <3>1, LenProperties
    <3> QED
      BY <1>5, <2>4, <3>1, <3>2
  <2>6. CASE conv = "s"
    <3>1. a \in Seq(Character) /\ Piece(conv, a) = a
      BY <2>3, <2>6 DEF Suits, Piece
    <3>2. Chunk = SubSeq(a, 1, Min({Len(a), room}))
      BY <2>2, <2>6 DEF Convert, room
    <3>3. Len(a) \in Nat /\ room \in Nat
      BY <1>1, <1>3, <3>1, LenProperties DEF room
    <3>4. CASE Len(a) <= room
      <4>1. Chunk = a
        BY <3>1, <3>2, <3>3, <3>4, MinOfTwo, SubSeqFull
      <4> QED
        BY <1>5, <2>4, <3>1, <3>3, <3>4, <4>1
    <3>5. CASE ~(Len(a) <= room)
      <4>1. Chunk = SubSeq(a, 1, room)
        BY <3>2, <3>3, <3>5, MinOfTwo
      <4>2. \A n \in 1 .. Len(a) : a[n] \in Character
        BY <3>1, ElementOfSeq
      <4>3. Chunk \in Seq(Character) /\ Len(Chunk) = room
        BY <3>3, <3>5, <4>1, <4>2, SubSeqProperties
      <4> DEFINE tail == SubSeq(a, room + 1, Len(a))
      <4>4. tail \in Seq(Character)
        BY <3>3, <4>2, SubSeqProperties
      <4>5. Chunk \o tail = a
        <5>1. SubSeq(a, 1, room) \o SubSeq(a, room + 1, Len(a)) = SubSeq(a, 1, Len(a))
          <6>1. /\ 1 \in 1 .. Len(a) + 1 /\ room \in 1 - 1 .. Len(a)
                /\ Len(a) \in room .. Len(a)
            BY <3>3, <3>5
          <6> HIDE DEF tail
          <6> QED
            BY <3>1, <6>1, ConcatAdjacentSubSeq
        <5> QED
          BY <3>1, <4>1, <5>1, SubSeqFull
      <4>6. ptr + Len(Chunk) >= SIZE - 1 /\ ptr + Len(Chunk) <= SIZE - 1 + Beyond
        BY <1>1, <3>3, <4>3 DEF room, Beyond
      <4> HIDE DEF tail
      <4> QED
        BY <2>4, <3>1, <4>3, <4>4, <4>5, <4>6
    <3> QED
      BY <3>4, <3>5
  <2> QED
    BY <2>5, <2>6
<1>9. AtEnd(Call, i, k) \/ AtPlain(Call, i, k) \/ AtArgument(Call, i, k) \/ AtOther(Call, i, k)
  BY <1>1, <1>3, CallCases
<1>10. ~AtEnd(Call, i, k)
  BY <1>1, <1>2, <1>3 DEF AtEnd
<1> QED
  BY <1>6, <1>7, <1>8, <1>9, <1>10, Zenon
----------------------------------------------------------------------------
\* An iteration of the loop writes its chunk behind what is in buf.
LEMMA FormatTyped ==
  ASSUME Typed, Formatting, Format
  PROVE  /\ Typed' /\ Prefix' = Prefix \o Chunk /\ Len(Prefix') = ptr'
         /\ stack' # <<>> /\ Top' = [Top EXCEPT !.at = NextAt, !.arg = NextArg]
<1>1. /\ stack # <<>> /\ Top.phase = "format" /\ ~Formatted /\ ~Idle
      /\ buf' = Written(Chunk) /\ ptr' = ptr + Len(Chunk)
      /\ Advance([Top EXCEPT !.at = NextAt, !.arg = NextArg])
      /\ UNCHANGED <<out, thr, log>>
  BY FormatStep DEF uart, Idle
<1>2. Chunk \in Seq(Character) /\ ptr + Len(Chunk) <= SIZE - 1 + Beyond /\ Len(Chunk) \in Nat
  BY <1>1, ChunkFollows, LenProperties
<1>3. Prefix \in Seq(Character) /\ Len(Prefix) = ptr /\ ptr \in Nat
  BY <1>1, PrefixTyped
<1>4. SIZE \in Nat /\ Beyond \in Nat /\ DOMAIN buf = 0 .. SIZE - 1 + Beyond
  BY BoundsAssumption DEF Typed, Beyond
<1>5. \A n \in DOMAIN buf :
        buf'[n] = IF n \in ptr .. ptr + Len(Chunk) - 1 THEN Chunk[n - ptr + 1] ELSE buf[n]
  BY <1>1 DEF Written
<1>6. buf' \in [0 .. SIZE - 1 + Beyond -> Character \union {NUL}]
  <2>1. ASSUME NEW n \in DOMAIN buf PROVE buf'[n] \in Character \union {NUL}
    <3>1. CASE n \in ptr .. ptr + Len(Chunk) - 1
      <4>1. n - ptr + 1 \in 1 .. Len(Chunk)
        BY <1>2, <1>3, <3>1
      <4> QED
        BY <1>2, <1>5, <3>1, <4>1, ElementOfSeq
    <3>2. CASE n \notin ptr .. ptr + Len(Chunk) - 1
      BY <1>5, <3>2 DEF Typed
    <3> QED
      BY <3>1, <3>2
  <2>2. buf' = [n \in DOMAIN buf |-> buf'[n]]
    BY <1>1 DEF Written
  <2> QED
    BY <1>4, <2>1, <2>2
<1>7. ptr' \in 0 .. SIZE - 1 + Beyond
  BY <1>1, <1>2, <1>3, <1>4
<1>8. Top \in Activations /\ NextAt \in Nat /\ NextArg \in Nat
  BY <1>1, OnStack DEF NextAt, NextArg, Activations
<1>9. [Top EXCEPT !.at = NextAt, !.arg = NextArg] \in Activations
  BY <1>8 DEF Activations
<1>10. /\ stack' = <<[Top EXCEPT !.at = NextAt, !.arg = NextArg]>>
       /\ Top' = [Top EXCEPT !.at = NextAt, !.arg = NextArg] /\ stack' # <<>>
  BY <1>1, Advanced
<1>11. stack' \in Seq(Activations) /\ Len(stack') <= 1
  BY <1>9, <1>10, OneTyped
<1>12. Typed'
  BY <1>1, <1>6, <1>7, <1>11 DEF Typed
<1>13. Prefix' = Prefix \o Chunk /\ Len(Prefix') = ptr'
  <2> DEFINE p == [n \in 1 .. ptr' |-> buf'[n - 1]]
             q == Prefix \o Chunk
  <2>1. /\ q \in Seq(Character) /\ Len(q) = ptr + Len(Chunk)
        /\ \A n \in 1 .. ptr + Len(Chunk) : q[n] = IF n <= ptr THEN Prefix[n] ELSE Chunk[n - ptr]
    BY <1>2, <1>3, ConcatProperties
  <2>2. \A n \in 1 .. ptr' : p[n] = buf'[n - 1] /\ n - 1 \in DOMAIN buf
    BY <1>1, <1>2, <1>3, <1>4
  <2>3. \A n \in 1 .. ptr' : p[n] = q[n]
    <3>1. ASSUME NEW n \in 1 .. ptr', n <= ptr PROVE p[n] = q[n]
      <4>1. n \in 1 .. ptr /\ ~(n - 1 \in ptr .. ptr + Len(Chunk) - 1) /\ n \in 1 .. ptr + Len(Chunk)
        BY <1>1, <1>2, <1>3, <3>1
      <4>2. p[n] = buf[n - 1]
        BY <1>5, <2>2, <4>1
      <4>3. q[n] = Prefix[n]
        BY <2>1, <3>1, <4>1
      <4> HIDE DEF p, q
      <4> QED
        BY <4>1, <4>2, <4>3 DEF Prefix
    <3>2. ASSUME NEW n \in 1 .. ptr', ~(n <= ptr) PROVE p[n] = q[n]
      <4>1. /\ n - 1 \in ptr .. ptr + Len(Chunk) - 1 /\ n \in 1 .. ptr + Len(Chunk)
            /\ (n - 1) - ptr + 1 = n - ptr
        BY <1>1, <1>2, <1>3, <3>2
      <4>2. p[n] = Chunk[(n - 1) - ptr + 1]
        BY <1>5, <2>2, <4>1
      <4>3. q[n] = Chunk[n - ptr]
        BY <2>1, <3>2, <4>1
      <4> HIDE DEF p, q
      <4> QED
        BY <4>1, <4>2, <4>3
    <3> QED
      BY <3>1, <3>2
  <2>4. q \in [1 .. ptr' -> Character]
    BY <1>1, <2>1, LenProperties
  <2>5. p = q
    BY <2>3, <2>4
  <2>6. Prefix' = p
    BY DEF Prefix
  <2> QED
    BY <1>1, <2>1, <2>5, <2>6
<1> QED
  BY <1>10, <1>12, <1>13

\* After it the text still is what is in buf and the rest, or buf is full.
LEMMA FormatFormatting ==
  ASSUME Typed, Formatting, Format
  PROVE  Formatting' /\ Call' = Call
<1>1. /\ stack # <<>> /\ Top.phase = "format" /\ ~Formatted /\ ~Idle /\ ptr' = ptr + Len(Chunk)
      /\ log' = log
  BY FormatStep DEF Idle
<1>2. /\ Prefix' = Prefix \o Chunk /\ stack' # <<>>
      /\ Top' = [Top EXCEPT !.at = NextAt, !.arg = NextArg]
  BY FormatTyped
<1>3. Top \in Activations
  BY <1>1, OnStack
<1>4. /\ Top'.phase = "format" /\ Top'.calls = Top.calls /\ Top'.at = NextAt /\ Top'.arg = NextArg
      /\ Call' = Call
  <2>1. \A a \in Activations : \A b, d :
          LET t == [a EXCEPT !.at = b, !.arg = d]
          IN  t.phase = a.phase /\ t.calls = a.calls /\ t.at = b /\ t.arg = d
    BY DEF Activations
  <2>2. /\ Top'.phase = "format" /\ Top'.calls = Top.calls
        /\ Top'.at = NextAt /\ Top'.arg = NextArg
    BY <1>1, <1>2, <1>3, <2>1
  <2> QED
    BY <2>2 DEF Call
<1>5. Top.calls # <<>> /\ log # <<>> /\ Last(log) = Call
  BY <1>1 DEF Formatting
<1>6. /\ ptr < SIZE - 1 /\ Text(Call) = Prefix \o TextFrom(Call)[Top.at][Top.arg]
      /\ ptr \in Nat
  <2>1. ptr \in Nat /\ SIZE \in Nat /\ ~(ptr >= SIZE - 1)
    BY <1>1, BoundsAssumption DEF Typed, Formatted, Beyond
  <2> QED
    BY <1>1, <2>1 DEF Formatting
<1>7. Prefix \in Seq(Character) /\ Chunk \in Seq(Character)
  BY <1>1, PrefixTyped, ChunkFollows
<1>8. Call \in Calls /\ Call.fmt \in Seq(Character)
  BY <1>1, CurrentCall, LineTyped
<1>9. CASE Follows(Chunk, NextAt, NextArg)
  <2> DEFINE r == TextFrom(Call)[NextAt][NextArg]
  <2>1. NextAt \in Nat /\ NextAt >= 1 /\ NextArg \in Nat /\ IsCall(Call)[NextAt][NextArg]
    BY <1>9 DEF Follows
  <2>2. r \in Seq(Character)
    BY <1>8, <2>1, TextTyped
  <2>3. Text(Call) = (Prefix \o Chunk) \o r
    <3>1. TextFrom(Call)[Top.at][Top.arg] = Chunk \o r
      BY <1>9 DEF Follows
    <3> HIDE DEF r
    <3>2. (Prefix \o Chunk) \o r = Prefix \o (Chunk \o r)
      BY <1>7, <2>2, CharactersAssociate, Zenon
    <3> QED
      BY <1>6, <3>1, <3>2
  <2>4. IsPrefix(Prefix \o Chunk, Text(Call))
    BY <1>7, <2>2, <2>3, ConcatProperties, PrefixConcat
  <2> QED
    BY <1>1, <1>2, <1>4, <1>5, <2>1, <2>3, <2>4 DEF Formatting
<1>10. CASE /\ ptr + Len(Chunk) >= SIZE - 1
            /\ \E tail \in Seq(Character) : Follows(Chunk \o tail, NextAt, NextArg)
  <2> DEFINE r == TextFrom(Call)[NextAt][NextArg]
  <2>1. PICK tail \in Seq(Character) : Follows(Chunk \o tail, NextAt, NextArg)
    BY <1>10
  <2>2. r \in Seq(Character)
    BY <1>8, <2>1, TextTyped DEF Follows
  <2>3. Text(Call) = Prefix \o ((Chunk \o tail) \o r)
    <3>1. TextFrom(Call)[Top.at][Top.arg] = (Chunk \o tail) \o r
      BY <2>1 DEF Follows
    <3> QED
      BY <1>6, <3>1
  <2> HIDE DEF r
  <2>4. /\ tail \o r \in Seq(Character) /\ Prefix \o Chunk \in Seq(Character)
        /\ (Chunk \o tail) \o r = Chunk \o (tail \o r)
    <3>1. tail \o r \in Seq(Character)
      BY <2>1, <2>2, ConcatProperties
    <3>2. Prefix \o Chunk \in Seq(Character)
      BY <1>7, ConcatProperties
    <3>3. (Chunk \o tail) \o r = Chunk \o (tail \o r)
      BY <1>7, <2>1, <2>2, CharactersAssociate, Zenon
    <3> QED
      BY <3>1, <3>2, <3>3
  <2>5. Text(Call) = (Prefix \o Chunk) \o (tail \o r)
    <3>1. Text(Call) = Prefix \o (Chunk \o (tail \o r))
      BY <2>3, <2>4
    <3>2. (Prefix \o Chunk) \o (tail \o r) = Prefix \o (Chunk \o (tail \o r))
      <4> DEFINE u == tail \o r
      <4>1. u \in Seq(Character)
        BY <2>4
      <4> HIDE DEF u
      <4>2. (Prefix \o Chunk) \o u = Prefix \o (Chunk \o u)
        BY <1>7, <4>1, ConcatAssociative
      <4> QED
        BY <4>2 DEF u
    <3> QED
      BY <3>1, <3>2
  <2>6. IsPrefix(Prefix \o Chunk, Text(Call))
    BY <2>4, <2>5, PrefixConcat
  <2>7. ptr' >= SIZE - 1
    BY <1>1, <1>10
  <2> QED
    BY <1>2, <1>4, <1>5, <1>1, <2>6, <2>7, Zenon DEF Formatting
<1> QED
  BY <1>1, <1>4, <1>9, <1>10, ChunkFollows

----------------------------------------------------------------------------
\* What does not touch buf, the stack and the log.
LEMMA SameFormatting ==
  ASSUME UNCHANGED <<buf, ptr, stack, log>>
  PROVE  /\ Formatting' <=> Formatting
         /\ Idle' <=> Idle
         /\ Rest' = Rest /\ (PrintFormats' <=> PrintFormats)
BY DEF Formatting, Idle, Rest, PrintFormats, Top, Call, Prefix

\* Between messages nothing is left to send.
LEMMA RestIdle == Idle => Rest = <<>> /\ ~PrintFormats
BY DEF Rest, PrintFormats

\* A step after which the same is sent, or still to send.
LEMMA SendingKept ==
  ASSUME Sending, log' = log, (Sent \o Rest)' = Sent \o Rest, PrintFormats' <=> PrintFormats,
         PrintFormats \/ NoPrint => Sent' = Sent
  PROVE  Sending'
<1>1. AllFit' <=> AllFit
  BY DEF AllFit
<1>2. NoPrint' <=> NoPrint
  BY DEF NoPrint
<1>3. DOMAIN log' = DOMAIN log /\ \A n \in DOMAIN log : OnlyPrint(n)' <=> OnlyPrint(n)
  BY DEF OnlyPrint
<1>4. (AllFit => Sent \o Rest = Texts(log))'
  BY <1>1 DEF Sending
<1>5. (NoPrint => Sent = <<>>)'
  BY <1>2 DEF Sending
<1>6. ASSUME NEW n \in DOMAIN log, OnlyPrint(n)
      PROVE  (IF PrintFormats THEN Sent = <<>> ELSE Beginning(Sent \o Rest, Text(log[n])))'
  BY <1>6 DEF Sending
<1> QED
  BY <1>3, <1>4, <1>5, <1>6 DEF Sending

\* A step between messages.
LEMMA BetweenMessages ==
  ASSUME Inv, Idle, Idle', UNCHANGED <<buf, ptr, out, thr, copied, log>>,
         Typed', LineSet', OneActive'
  PROVE  Inv'
<1>1. Rest = <<>> /\ Rest' = <<>> /\ ~PrintFormats /\ ~PrintFormats' /\ Sent' = Sent
  BY RestIdle DEF Rest, PrintFormats, Sent
<1>2. (Sent \o Rest)' = Sent \o Rest
  BY <1>1
<1>3. Sending'
  BY <1>1, <1>2, SendingKept DEF Inv
<1>4. Formatting'
  BY DEF Formatting
<1>5. Copied'
  BY DEF Copied, Inv
<1> QED
  BY <1>3, <1>4, <1>5 DEF Inv

\* serial_init puts nothing into the transmit register.
LEMMA SerialInitInv ==
  ASSUME Inv, serial_init
  PROVE  Inv'
<1>1. /\ initStep \in 1 .. 7 /\ initStep' = initStep + 1
      /\ Outb(InitWrites[initStep][1], InitWrites[initStep][2])
      /\ UNCHANGED <<buf, ptr, stack, idt, out, copied, log>>
  BY DEF serial_init, InitWrites
<1>2. thr = NUL /\ stack = <<>> /\ DOMAIN idt = {}
  <2>1. initStep # 8
    BY <1>1
  <2> QED
    BY <2>1, Zenon DEF Inv, LineSet
<1>3. /\ thr' = thr /\ regs' = [dll |-> regs'.dll, dlm |-> regs'.dlm, ier |-> regs'.ier, lcr |-> regs'.lcr]
      /\ (initStep' \in 3 .. 5 => regs'.lcr = 128)
      /\ (initStep' >= 4 => regs'.dll = 1)
      /\ (initStep' >= 5 => regs'.dlm = 0)
      /\ (initStep' >= 6 => regs'.lcr = 3)
  <2> DEFINE d == regs.dll
             e == regs.dlm
             f == regs.ier
             l == regs.lcr
  <2>1. /\ regs = [dll |-> d, dlm |-> e, ier |-> f, lcr |-> l]
        /\ (initStep \in 3 .. 5 => l = 128) /\ (initStep >= 4 => d = 1)
        /\ (initStep >= 5 => e = 0) /\ (initStep >= 6 => l = 3)
    BY DEF Inv, LineSet
  <2> HIDE DEF d, e, f, l
  <2>2. CASE initStep = 1
    <3>1. Outb(1, 0)
      BY <1>1, <2>2 DEF InitWrites
    <3> QED
      BY <1>1, <2>1, <2>2, <3>1 DEF Outb
  <2>3. CASE initStep = 2
    <3>1. Outb(3, 128)
      BY <1>1, <2>3 DEF InitWrites
    <3> QED
      BY <1>1, <2>1, <2>3, <3>1 DEF Outb
  <2>4. CASE initStep = 3
    <3>1. Outb(0, 1) /\ DLAB
      BY <1>1, <2>1, <2>4 DEF InitWrites, DLAB
    <3> QED
      BY <1>1, <2>1, <2>4, <3>1 DEF Outb
  <2>5. CASE initStep = 4
    <3>1. Outb(1, 0) /\ DLAB
      BY <1>1, <2>1, <2>5 DEF InitWrites, DLAB
    <3> QED
      BY <1>1, <2>1, <2>5, <3>1 DEF Outb
  <2>6. CASE initStep = 5
    <3>1. Outb(3, 3)
      BY <1>1, <2>6 DEF InitWrites
    <3> QED
      BY <1>1, <2>1, <2>6, <3>1 DEF Outb
  <2>7. CASE initStep = 6
    <3>1. Outb(2, 199)
      BY <1>1, <2>7 DEF InitWrites
    <3> QED
      BY <1>1, <2>1, <2>7, <3>1 DEF Outb
  <2>8. CASE initStep = 7
    <3>1. Outb(4, 11)
      BY <1>1, <2>8 DEF InitWrites
    <3> QED
      BY <1>1, <2>1, <2>8, <3>1 DEF Outb
  <2> QED
    BY <1>1, <2>2, <2>3, <2>4, <2>5, <2>6, <2>7, <2>8
<1>4. LineSet'
  BY <1>1, <1>2, <1>3 DEF LineSet
<1>5. Typed'
  BY <1>1, <1>3 DEF Inv, Typed
<1>6. OneActive'
  BY <1>1, <1>2 DEF Inv, OneActive
<1>7. Idle /\ Idle'
  BY <1>1, <1>2 DEF Idle
<1> QED
  BY <1>1, <1>3, <1>4, <1>5, <1>6, <1>7, BetweenMessages

\* init_idt finds nobody printing.
LEMMA InitIdtInv ==
  ASSUME Inv, init_idt
  PROVE  Inv'
<1>1. /\ initStep > 7 /\ stack = <<>> /\ idt' = [v \in {SYSCALL, MOUSE} |-> Gate(v)]
      /\ UNCHANGED <<buf, ptr, stack, initStep, regs, thr, out, copied, log>>
  BY DEF init_idt, InitWrites, uart
<1>2. initStep = 8
  BY <1>1 DEF Inv, LineSet
<1>3. LineSet'
  BY <1>1, <1>2 DEF Inv, LineSet
<1>4. Typed'
  BY <1>1 DEF Inv, Typed
<1>5. OneActive'
  BY <1>1 DEF OneActive
<1>6. Idle /\ Idle'
  BY <1>1 DEF Idle
<1> QED
  BY <1>1, <1>3, <1>4, <1>5, <1>6, BetweenMessages

\* kmain, or a handler, begins to print.
LEMMA ActivationInv ==
  ASSUME Inv, stack = <<>>, NEW vector \in {0, SYSCALL, MOUSE}, NEW calls \in Seq(Calls),
         initStep = 8, vector = 0 <=> DOMAIN idt = {},
         stack' = <<Activation(vector, calls)>>,
         UNCHANGED <<buf, ptr, idt, initStep, regs, thr, out, copied, log>>
  PROVE  Inv'
<1> DEFINE a == Activation(vector, calls)
<1>1. a \in Activations /\ a.vector = vector /\ a.phase = "start"
  BY DEF Activation, Activations
<1> HIDE DEF a
<1>2. stack' = <<a>> /\ Top' = a
  BY DEF a, Top
<1>3. stack' \in Seq(Activations) /\ Len(stack') = 1
  BY <1>1, <1>2, OneTyped
<1>4. Typed'
  BY <1>3 DEF Inv, Typed
<1>5. LineSet'
  BY DEF Inv, LineSet
<1>6. OneActive'
  BY <1>1, <1>2 DEF Inv, OneActive
<1>7. Idle /\ Idle'
  BY <1>1, <1>2 DEF Idle
<1> QED
  BY <1>4, <1>5, <1>6, <1>7, BetweenMessages

\* kmain's calls are activations.
LEMMA KmainPrintsInv ==
  ASSUME Inv, NEW c \in BootCalls, KmainPrints(c)
  PROVE  Inv'
<1>1. /\ initStep > 7 /\ stack = <<>> /\ DOMAIN idt = {} /\ stack' = <<Activation(0, <<c>>)>>
      /\ UNCHANGED <<buf, ptr, idt, initStep, regs, thr, out, copied, log>>
  BY DEF KmainPrints, InitWrites, uart
<1>2. initStep = 8
  BY <1>1 DEF Inv, LineSet
<1>3. <<c>> \in Seq(Calls)
  BY Singleton DEF Calls
<1> QED
  BY <1>1, <1>2, <1>3, ActivationInv

\* The gates are interrupt gates: an interrupt finds the stack empty.
LEMMA InterruptInv ==
  ASSUME Inv, NEW vector \in {SYSCALL, MOUSE}, NEW calls \in Seq(Calls),
         Interrupt(vector, calls)
  PROVE  Inv'
<1>1. /\ vector \in DOMAIN idt
      /\ \A n \in DOMAIN stack : ~InterruptGate(idt[stack[n].vector])
      /\ stack' = <<Activation(vector, calls)>> \o stack
      /\ UNCHANGED <<buf, ptr, idt, initStep, regs, thr, out, copied, log>>
  BY DEF Interrupt, Delivered, uart
<1>2. idt = [v \in {SYSCALL, MOUSE} |-> Gate(v)] /\ DOMAIN idt = {SYSCALL, MOUSE}
  BY <1>1 DEF Inv, OneActive
<1>3. stack = <<>>
  <2>1. SUFFICES ASSUME stack # <<>> PROVE FALSE
    OBVIOUS
  <2>2. stack = <<Top>> /\ Top \in Activations
    BY <2>1, OnStack DEF Inv
  <2>3. Top.vector # 0 /\ Top.vector \in {0, SYSCALL, MOUSE}
    BY <1>2, <2>1, <2>2 DEF Inv, OneActive, Activations
  <2>4. 1 \in DOMAIN stack /\ stack[1] = Top
    BY <2>2
  <2>5. ~InterruptGate(idt[Top.vector])
    BY <1>1, <2>4
  <2> QED
    BY <1>2, <2>3, <2>5 DEF InterruptGate, Gate, SYSCALL, MOUSE
<1>4. stack' = <<Activation(vector, calls)>>
  <2>1. <<Activation(vector, calls)>> \in Seq({Activation(vector, calls)})
    BY Singleton
  <2> QED
    BY <1>1, <1>3, <2>1, ConcatEmptySeq
<1>5. initStep = 8
  BY <1>1 DEF Inv, LineSet
<1>6. vector # 0 /\ DOMAIN idt # {}
  BY <1>2 DEF SYSCALL, MOUSE
<1> QED
  BY <1>1, <1>3, <1>4, <1>5, <1>6, ActivationInv

\* The last activation leaves nothing behind.
LEMMA ReturnInv ==
  ASSUME Inv, Return
  PROVE  Inv'
<1>1. /\ stack # <<>> /\ Top.calls = <<>> /\ stack' = Tail(stack)
      /\ UNCHANGED <<buf, ptr, idt, initStep, regs, thr, out, copied, log>>
  BY DEF Return, uart
<1>2. stack' = <<>> /\ Idle'
  BY <1>1, OnStack DEF Inv, Idle
<1>3. Idle
  BY <1>1 DEF Inv, Formatting
<1>4. Typed'
  BY <1>1, <1>2, EmptySeq DEF Inv, Typed
<1>5. LineSet' /\ OneActive'
  BY <1>1, <1>2 DEF Inv, LineSet, OneActive
<1> QED
  BY <1>1, <1>2, <1>3, <1>4, <1>5, BetweenMessages
----------------------------------------------------------------------------
\* While something is printed the line is set.
LEMMA LineReady ==
  ASSUME Inv, stack # <<>> \/ thr # NUL
  PROVE  LineIsSet /\ ~DLAB
<1>1. initStep = 8
  BY DEF Inv, LineSet
<1>2. /\ regs = [dll |-> regs.dll, dlm |-> regs.dlm, ier |-> regs.ier, lcr |-> regs.lcr]
      /\ regs.dll = 1 /\ regs.dlm = 0 /\ regs.lcr = 3
  BY <1>1 DEF Inv, LineSet
<1>3. LineIsSet
  BY <1>2 DEF LineIsSet
<1> QED
  BY <1>2, <1>3 DEF DLAB

\* The UART moves a character from its register to the line.
LEMMA TransmitInv ==
  ASSUME Inv, Transmit
  PROVE  Inv'
<1>1. /\ thr # NUL /\ thr' = NUL /\ out' = Append(out, thr)
      /\ UNCHANGED <<buf, ptr, stack, idt, initStep, regs, copied, log>>
  <2>1. thr # NUL
    BY DEF Transmit
  <2>2. LineIsSet
    BY <2>1, LineReady
  <2> QED
    BY <2>2 DEF Transmit
<1>2. out \in Seq(Character) /\ thr \in Character
  BY <1>1 DEF Inv, Typed
<1>3. Typed'
  BY <1>1, <1>2, AppendProperties DEF Inv, Typed
<1>4. LineSet' /\ OneActive'
  BY <1>1 DEF Inv, LineSet, OneActive, Top
<1>5. Sent' = Sent
  <2>1. Sent = out \o <<thr>> /\ Sent' = Append(out, thr) \o <<>>
    BY <1>1 DEF Sent
  <2>2. Append(out, thr) \in Seq(Character) /\ Append(out, thr) = out \o <<thr>>
    BY <1>2, AppendProperties, AppendIsConcat
  <2> QED
    BY <2>1, <2>2, ConcatEmptySeq
<1>6. /\ Formatting' /\ (Idle' <=> Idle) /\ Rest' = Rest /\ (PrintFormats' <=> PrintFormats)
  BY <1>1, SameFormatting DEF Inv
<1>7. Sending'
  BY <1>1, <1>5, <1>6, SendingKept DEF Inv
<1>8. Copied'
  BY <1>1, <1>6 DEF Inv, Copied
<1> QED
  BY <1>3, <1>4, <1>6, <1>7, <1>8 DEF Inv

\* The stack after a step of the activation on it.
LEMMA AdvancedTyped ==
  ASSUME Typed, LineSet, OneActive, stack # <<>>, NEW f \in Activations, f.vector = Top.vector,
         Advance(f), idt' = idt, initStep' = initStep, regs' = regs
  PROVE  /\ stack' \in Seq(Activations) /\ Len(stack') <= 1 /\ stack' # <<>> /\ Top' = f
         /\ LineSet' /\ OneActive'
<1>1. stack' = <<f>> /\ Top' = f /\ stack' # <<>>
  BY Advanced
<1>2. stack' \in Seq(Activations) /\ Len(stack') <= 1
  BY <1>1, OneTyped
<1>3. LineSet'
  BY DEF LineSet
<1>4. OneActive'
  BY <1>1 DEF OneActive
<1> QED
  BY <1>1, <1>2, <1>3, <1>4

\* Formatting sends nothing.
LEMMA FormatInv ==
  ASSUME Inv, Format
  PROVE  Inv'
<1>1. /\ stack # <<>> /\ Top.phase = "format" /\ ~Idle
      /\ Advance([Top EXCEPT !.at = NextAt, !.arg = NextArg])
      /\ UNCHANGED <<idt, initStep, regs, thr, out, copied, log>>
  BY FormatStep DEF uart, Idle
<1>2. /\ Typed' /\ stack' # <<>> /\ Top' = [Top EXCEPT !.at = NextAt, !.arg = NextArg]
  BY FormatTyped DEF Inv
<1>3. Formatting' /\ Call' = Call
  BY FormatFormatting DEF Inv
<1>4. Top \in Activations /\ NextAt \in Nat /\ NextArg \in Nat
  BY <1>1, OnStack DEF Inv, NextAt, NextArg, Activations
<1>5. Top'.phase = "format" /\ Top'.vector = Top.vector /\ Top' \in Activations
  BY <1>1, <1>2, <1>4 DEF Activations
<1>6. LineSet' /\ OneActive'
  BY <1>1, <1>2, <1>5, AdvancedTyped DEF Inv
<1>7. ~Idle' /\ Rest' = Rest /\ (PrintFormats' <=> PrintFormats) /\ Sent' = Sent
  BY <1>1, <1>2, <1>3, <1>5 DEF Idle, Rest, PrintFormats, Sent
<1>8. Sending'
  BY <1>1, <1>7, SendingKept DEF Inv
<1>9. Copied'
  BY <1>7 DEF Copied
<1> QED
  BY <1>2, <1>3, <1>6, <1>8, <1>9 DEF Inv

\* What is in buf when the message is formatted.
LEMMA MessageFormed ==
  ASSUME Inv, stack # <<>>, Top.phase \in {"port", "memory"}
  PROVE  /\ ~Idle /\ Top \in Activations /\ Call \in Calls
         /\ Top.phase = Call.to /\ Top.at \in 0 .. ptr /\ ptr \in Nat
         /\ buf[ptr] = NUL /\ Beginning(Prefix, Text(Call)) /\ log # <<>> /\ Last(log) = Call
         /\ Prefix \in Seq(Character) /\ Len(Prefix) = ptr
         /\ \A n \in 0 .. ptr - 1 : buf[n] = Prefix[n + 1] /\ buf[n] \in Character /\ buf[n] # NUL
<1>1. ~Idle /\ Top.phase # "format"
  BY DEF Idle
<1>2. /\ Call \in Calls /\ Prefix \in Seq(Character) /\ Len(Prefix) = ptr /\ ptr \in Nat
      /\ \A n \in 0 .. ptr - 1 : buf[n] = Prefix[n + 1] /\ buf[n] \in Character
  BY <1>1, CurrentCall, PrefixTyped DEF Inv
<1>3. /\ Top.phase = Call.to /\ Top.at <= ptr /\ buf[ptr] = NUL
      /\ Beginning(Prefix, Text(Call)) /\ log # <<>> /\ Last(log) = Call
  BY <1>1, Zenon DEF Inv, Formatting
<1>4. Top \in Activations
  BY OnStack DEF Inv
<1>5. Top.at \in 0 .. ptr
  BY <1>2, <1>3, <1>4 DEF Activations
<1>6. \A x \in Character : x # NUL
  BY CharactersAssumption
<1> QED
  BY <1>1, <1>2, <1>3, <1>4, <1>5, <1>6

\* The next character of buf goes into the register.
LEMMA PutcInv ==
  ASSUME Inv, Putc
  PROVE  Inv'
<1>1. /\ stack # <<>> /\ Top.phase = "port" /\ buf[Top.at] # NUL /\ thr = NUL
      /\ Outb(0, buf[Top.at]) /\ Advance([Top EXCEPT !.at = @ + 1])
      /\ UNCHANGED <<buf, ptr, idt, initStep, out, copied, log>>
  BY DEF Putc, is_transmit_empty
<1>2. /\ ~Idle /\ Top \in Activations /\ Call \in Calls
      /\ Top.phase = Call.to /\ Top.at \in 0 .. ptr /\ ptr \in Nat
      /\ buf[ptr] = NUL /\ Beginning(Prefix, Text(Call)) /\ log # <<>> /\ Last(log) = Call
      /\ Prefix \in Seq(Character) /\ Len(Prefix) = ptr
      /\ \A n \in 0 .. ptr - 1 : buf[n] = Prefix[n + 1] /\ buf[n] \in Character
  BY <1>1, MessageFormed
<1>3. thr' = buf[Top.at] /\ regs' = regs
  BY <1>1, LineReady DEF Outb
<1> DEFINE at == Top.at
           f == [Top EXCEPT !.at = @ + 1]
<1>4. at \in 0 .. ptr - 1 /\ at + 1 \in 1 .. ptr /\ at \in Nat
  BY <1>1, <1>2
<1>5. buf[at] = Prefix[at + 1] /\ buf[at] \in Character
  BY <1>2, <1>4
<1>6. /\ f \in Activations /\ f.vector = Top.vector /\ f.phase = "port" /\ f.calls = Top.calls
      /\ f.at = at + 1
  <2>1. \A a \in Activations :
          LET t == [a EXCEPT !.at = @ + 1]
          IN  /\ t \in Activations /\ t.vector = a.vector /\ t.phase = a.phase
              /\ t.calls = a.calls /\ t.at = a.at + 1
    BY DEF Activations
  <2> QED
    BY <1>1, <1>2, <2>1
<1> HIDE DEF f, at
<1>7. /\ stack' \in Seq(Activations) /\ Len(stack') <= 1 /\ stack' # <<>> /\ Top' = f
      /\ LineSet' /\ OneActive'
  BY <1>1, <1>3, <1>6, AdvancedTyped DEF Inv, f
<1>8. Typed'
  BY <1>1, <1>3, <1>5, <1>7 DEF Inv, Typed, at
<1>9. Call' = Call /\ Prefix' = Prefix /\ ~Idle'
  BY <1>1, <1>6, <1>7 DEF Call, Prefix, Idle
<1>10. Formatting'
  <2>1. Top'.calls # <<>> /\ Top'.phase = Call'.to /\ Top'.at <= ptr'
    BY <1>1, <1>2, <1>4, <1>6, <1>7, <1>9 DEF Inv, Formatting
  <2>2. Top'.phase # "format"
    BY <1>6, <1>7
  <2> QED
    BY <1>1, <1>2, <1>9, <2>1, <2>2 DEF Formatting
<1>11. ~PrintFormats /\ ~PrintFormats'
  BY <1>1, <1>6, <1>7 DEF PrintFormats
<1>12. (Sent \o Rest)' = Sent \o Rest
  <2> DEFINE r == SubSeq(Prefix, at + 2, ptr)
             c == <<buf[at]>>
  <2>1. Rest = SubSeq(Prefix, at + 1, ptr)
    BY <1>1, <1>2 DEF Rest, at
  <2>2. Rest' = r
    <3>1. Rest' = SubSeq(Prefix, (at + 1) + 1, ptr)
      BY <1>1, <1>2, <1>6, <1>7, <1>9 DEF Rest
    <3>2. (at + 1) + 1 = at + 2
      BY <1>4
    <3> QED
      BY <3>1, <3>2
  <2>3. Sent = out
    BY <1>1, ConcatEmptySeq DEF Sent, Inv, Typed
  <2>4. Sent' = out \o c
    <3>1. thr' # NUL
      BY <1>1, <1>3
    <3> QED
      BY <1>1, <1>3, <3>1 DEF Sent, at
  <2>5. SubSeq(Prefix, at + 1, ptr) = c \o r
    <3>1. at + 1 \in 1 .. Len(Prefix) /\ ptr \in at + 1 .. Len(Prefix) /\ (at + 1) + 1 = at + 2
      BY <1>2, <1>4
    <3>2. SubSeq(Prefix, at + 1, ptr) = <<Prefix[at + 1]>> \o SubSeq(Prefix, (at + 1) + 1, ptr)
      BY <1>2, <3>1, SubSeqRecursiveFirst
    <3> QED
      BY <1>5, <3>1, <3>2
  <2>6. r \in Seq(Character)
    <3>1. \A n \in at + 2 .. ptr : n \in 1 .. Len(Prefix)
      BY <1>2, <1>4
    <3>2. \A n \in at + 2 .. ptr : Prefix[n] \in Character
      BY <1>2, <3>1, ElementOfSeq
    <3>3. at + 2 \in Int /\ ptr \in Int
      BY <1>2, <1>4
    <3> QED
      BY <3>2, <3>3, SubSeqProperties
  <2>7. c \in Seq(Character)
    BY <1>5, Singleton
  <2>8. out \in Seq(Character)
    BY DEF Inv, Typed
  <2> HIDE DEF r, c
  <2>9. (out \o c) \o r = out \o (c \o r)
    BY <2>6, <2>7, <2>8, ConcatAssociative
  <2>10. Sent' \o Rest' = Sent \o Rest
    BY <2>1, <2>2, <2>3, <2>4, <2>5, <2>9
  <2> QED
    BY <2>10
<1>13. ~NoPrint
  <2>1. Len(log) \in DOMAIN log /\ log[Len(log)].to = "port"
    BY <1>1, <1>2, EmptySeq, LenProperties DEF Inv, Typed, Last
  <2> QED
    BY <2>1 DEF NoPrint
<1>14. Sending'
  BY <1>1, <1>11, <1>12, <1>13, SendingKept DEF Inv
<1>15. Copied'
  BY <1>9 DEF Copied
<1> QED
  BY <1>7, <1>8, <1>10, <1>14, <1>15 DEF Inv

\* The message is out.
LEMMA CallReturns ==
  ASSUME Inv, stack # <<>>, Top.phase \in {"port", "memory"}, Rest = <<>>,
         Advance(NextCall), UNCHANGED <<buf, ptr, idt, initStep, regs, thr, out, log>>
  PROVE  Typed' /\ LineSet' /\ OneActive' /\ Formatting' /\ Sending' /\ Idle'
<1>1. Top \in Activations /\ Call \in Calls /\ ~Idle
  BY MessageFormed
<1>2. NextCall \in Activations /\ NextCall.vector = Top.vector /\ NextCall.phase = "start"
  <2>1. Tail(Top.calls) \in Seq(Calls)
    BY <1>1, CurrentCall DEF Inv
  <2> QED
    BY <1>1, <2>1 DEF NextCall, Activations
<1>3. /\ stack' \in Seq(Activations) /\ Len(stack') <= 1 /\ Top' = NextCall
      /\ LineSet' /\ OneActive'
  BY <1>2, AdvancedTyped DEF Inv
<1>4. Typed'
  BY <1>3 DEF Inv, Typed
<1>5. Idle'
  BY <1>2, <1>3 DEF Idle
<1>6. Formatting' /\ Rest' = <<>> /\ ~PrintFormats'
  BY <1>5 DEF Formatting, Rest, PrintFormats
<1>7. Sent' = Sent /\ ~PrintFormats
  BY DEF Sent, PrintFormats
<1>8. Sending'
  BY <1>6, <1>7, SendingKept DEF Inv
<1> QED
  BY <1>3, <1>4, <1>5, <1>6, <1>8

\* At the NUL all of the message is sent.
LEMMA PrintedInv ==
  ASSUME Inv, Printed
  PROVE  Inv'
<1>1. /\ stack # <<>> /\ Top.phase = "port" /\ buf[Top.at] = NUL /\ Advance(NextCall)
      /\ UNCHANGED <<buf, ptr, idt, initStep, regs, thr, out, copied, log>>
  BY DEF Printed, uart
<1>2. /\ ~Idle /\ Top.phase = Call.to /\ Top.at \in 0 .. ptr /\ ptr \in Nat
      /\ log # <<>> /\ Last(log) = Call
      /\ \A n \in 0 .. ptr - 1 : buf[n] # NUL
  BY <1>1, MessageFormed
<1>3. Top.at = ptr
  BY <1>1, <1>2
<1>4. Rest = <<>>
  <2>1. Rest = SubSeq(Prefix, ptr + 1, ptr)
    BY <1>1, <1>2, <1>3 DEF Rest
  <2> QED
    BY <1>2, <2>1, SubSeqEmpty
<1>5. Typed' /\ LineSet' /\ OneActive' /\ Formatting' /\ Sending'
  BY <1>1, <1>4, CallReturns
<1>6. Copied'
  BY <1>1, <1>2 DEF Copied
<1> QED
  BY <1>5, <1>6 DEF Inv

\* A text that fits is in buf as a whole.
LEMMA WholeText ==
  ASSUME NEW s \in Seq(Character), NEW c \in Calls, Beginning(s, Text(c)), Fits(c)
  PROVE  s = Text(c)
<1>1. Text(c) \in Seq(Character)
  BY LineTyped
<1>2. Len(s) \in Nat /\ Len(Text(c)) \in Nat /\ SIZE \in Nat
  BY <1>1, LenProperties, BoundsAssumption
<1>3. CASE Len(s) >= SIZE - 1
  <2>1. Len(Text(c)) <= Len(s)
    BY <1>2, <1>3 DEF Fits
  <2> QED
    BY <1>1, <2>1, PrefixElements DEF Beginning
<1>4. CASE s = Text(c)
  BY <1>4
<1> QED
  BY <1>3, <1>4 DEF Beginning

\* What ksprintf copies is what is in buf.
LEMMA CopyInv ==
  ASSUME Inv, Copy
  PROVE  Inv'
<1>1. /\ stack # <<>> /\ Top.phase = "memory" /\ Advance(NextCall)
      /\ UNCHANGED <<buf, ptr, idt, initStep, regs, thr, out, log>>
  BY DEF Copy, uart
<1>2. PICK end \in DOMAIN buf :
        /\ buf[end] = NUL /\ \A n \in 0 .. end - 1 : buf[n] # NUL
        /\ copied' = [n \in 1 .. end |-> buf[n - 1]]
  BY DEF Copy
<1>3. /\ ~Idle /\ Call \in Calls /\ Top.phase = Call.to /\ ptr \in Nat /\ buf[ptr] = NUL
      /\ Beginning(Prefix, Text(Call)) /\ log # <<>> /\ Last(log) = Call
      /\ Prefix \in Seq(Character)
      /\ \A n \in 0 .. ptr - 1 : buf[n] # NUL
  BY <1>1, MessageFormed
<1>4. end = ptr
  <2>1. end \in Nat
    BY <1>2 DEF Inv, Typed
  <2>2. ~(end < ptr)
    BY <1>2, <1>3, <2>1
  <2>3. ~(ptr < end)
    BY <1>2, <1>3, <2>1
  <2> QED
    BY <1>3, <2>1, <2>2, <2>3
<1>5. copied' = Prefix
  BY <1>2, <1>4 DEF Prefix
<1>6. Rest = <<>>
  BY <1>1, <1>3 DEF Rest
<1>7. Typed' /\ LineSet' /\ OneActive' /\ Formatting' /\ Sending'
  BY <1>1, <1>6, CallReturns
<1>8. Copied'
  BY <1>1, <1>3, <1>5, WholeText DEF Copied
<1> QED
  BY <1>7, <1>8 DEF Inv

\* What vkformat has put into buf when its loop ends.
LEMMA LoopEnds ==
  ASSUME Inv, stack # <<>>, Top.phase = "format", Formatted
  PROVE  Beginning(Prefix, Text(Call))
<1>1. ~Idle
  BY DEF Idle
<1>2. /\ Prefix \in Seq(Character) /\ Len(Prefix) = ptr /\ ptr \in Nat /\ SIZE \in Nat
      /\ IsPrefix(Prefix, Text(Call))
  BY <1>1, PrefixTyped, BoundsAssumption DEF Inv
<1>3. Top \in Activations /\ Call \in Calls /\ Call.fmt \in Seq(Character)
  BY <1>1, OnStack, CurrentCall, LineTyped DEF Inv
<1>4. CASE ptr >= SIZE - 1
  BY <1>2, <1>4 DEF Beginning
<1>5. CASE ~(ptr >= SIZE - 1)
  <2> DEFINE i == Top.at
             k == Top.arg
  <2>1. /\ i \in Nat /\ k \in Nat /\ i >= 1 /\ IsCall(Call)[i][k]
        /\ Text(Call) = Prefix \o TextFrom(Call)[i][k]
    BY <1>1, <1>3, <1>5 DEF Inv, Formatting, Activations
  <2>2. Len(Call.fmt) \in Nat /\ i > Len(Call.fmt)
    BY <1>3, <1>5, LenProperties DEF Formatted
  <2> HIDE DEF i, k
  <2>3. AtEnd(Call, i, k) \/ AtPlain(Call, i, k) \/ AtArgument(Call, i, k) \/ AtOther(Call, i, k)
    BY <1>3, <2>1, CallCases
  <2>4. ~(i <= Len(Call.fmt)) /\ ~(i < Len(Call.fmt))
    BY <2>1, <2>2
  <2>5. TextFrom(Call)[i][k] = <<>>
    BY <2>3, <2>4, Zenon DEF AtEnd, AtPlain, AtArgument, AtOther
  <2>6. Text(Call) = Prefix
    BY <1>2, <2>1, <2>5, ConcatEmptySeq
  <2> QED
    BY <1>2, <2>6 DEF Beginning
<1> QED
  BY <1>4, <1>5

\* From here on what is to be sent is what is in buf.
LEMMA TerminateInv ==
  ASSUME Inv, Terminate
  PROVE  Inv'
<1> DEFINE f == [Top EXCEPT !.phase = Call.to, !.at = 0]
<1>1. /\ stack # <<>> /\ Top.phase = "format" /\ Formatted /\ ~Idle
      /\ buf' = [buf EXCEPT ![ptr] = NUL] /\ Advance(f)
      /\ UNCHANGED <<ptr, idt, initStep, regs, thr, out, copied, log>>
  BY DEF Terminate, uart, Idle
<1>2. Top \in Activations /\ Call \in Calls /\ Call.to \in {"port", "memory"}
  BY <1>1, OnStack, CurrentCall, LineTyped DEF Inv
<1>3. /\ f \in Activations /\ f.vector = Top.vector /\ f.phase = Call.to
      /\ f.calls = Top.calls /\ f.at = 0
  BY <1>2 DEF Activations
<1>4. /\ Prefix \in Seq(Character) /\ Len(Prefix) = ptr /\ ptr \in Nat
      /\ Beginning(Prefix, Text(Call))
  BY <1>1, LoopEnds, PrefixTyped DEF Inv
<1> HIDE DEF f
<1>5. /\ stack' \in Seq(Activations) /\ Len(stack') <= 1 /\ stack' # <<>> /\ Top' = f
      /\ LineSet' /\ OneActive'
  BY <1>1, <1>3, AdvancedTyped DEF Inv
<1>6. ptr \in DOMAIN buf /\ DOMAIN buf = 0 .. SIZE - 1 + Beyond
  BY DEF Inv, Typed
<1>7. Typed'
  <2>1. buf' \in [0 .. SIZE - 1 + Beyond -> Character \union {NUL}]
    BY <1>1 DEF Inv, Typed
  <2> QED
    BY <1>1, <1>5, <2>1 DEF Inv, Typed
<1>8. buf'[ptr'] = NUL
  BY <1>1, <1>6
<1>9. Prefix' = Prefix
  <2>1. \A n \in 1 .. ptr : buf'[n - 1] = buf[n - 1]
    BY <1>1, <1>4, <1>6
  <2> QED
    BY <1>1, <2>1 DEF Prefix
<1>10. Call' = Call /\ ~Idle'
  BY <1>2, <1>3, <1>5 DEF Call, Idle
<1>11. /\ Top.calls # <<>> /\ log # <<>> /\ Last(log) = Call
  BY <1>1 DEF Inv, Formatting
<1>12. Top'.phase # "format" /\ Top'.phase = Call.to /\ Top'.at = 0 /\ Top'.calls = Top.calls
  BY <1>2, <1>3, <1>5
<1>13. Formatting'
  BY <1>1, <1>4, <1>8, <1>9, <1>10, <1>11, <1>12 DEF Formatting
<1>14. Copied'
  BY <1>10 DEF Copied
<1>15. ~PrintFormats' /\ Sent' = Sent
  BY <1>1, <1>12 DEF PrintFormats, Sent
<1>16. CASE Call.to = "memory"
  <2>1. Rest = <<>> /\ Rest' = <<>> /\ ~PrintFormats
    BY <1>10, <1>16 DEF Rest, PrintFormats
  <2>2. (Sent \o Rest)' = Sent \o Rest
    BY <1>15, <2>1
  <2>3. Sending'
    BY <1>1, <1>15, <2>1, <2>2, SendingKept DEF Inv
  <2> QED
    BY <1>5, <1>7, <1>13, <1>14, <2>3 DEF Inv
<1>17. CASE Call.to = "port"
  <2>1. Rest' = Prefix
    <3>1. Rest' = SubSeq(Prefix, 0 + 1, ptr)
      BY <1>1, <1>9, <1>10, <1>12, <1>17 DEF Rest
    <3> QED
      BY <1>4, <3>1, SubSeqFull
  <2>2. Rest = Text(Call) /\ PrintFormats
    BY <1>1, <1>17 DEF Rest, PrintFormats
  <2>3. Len(log) \in DOMAIN log /\ log[Len(log)] = Call
    BY <1>11, EmptySeq, LenProperties DEF Inv, Typed, Last
  <2>4. (AllFit => Sent \o Rest = Texts(log))'
    <3>1. SUFFICES ASSUME AllFit PROVE Sent \o Prefix = Texts(log)
      BY <1>1, <1>15, <2>1 DEF AllFit
    <3>2. Fits(Call)
      BY <2>3, <3>1 DEF AllFit
    <3>3. Prefix = Text(Call)
      BY <1>2, <1>4, <3>2, WholeText
    <3> QED
      BY <2>2, <3>1, <3>3 DEF Inv, Sending
  <2>5. (NoPrint => Sent = <<>>)'
    BY <1>1, <1>17, <2>3 DEF NoPrint
  <2>6. ASSUME NEW n \in DOMAIN log, OnlyPrint(n)
        PROVE  Beginning((Sent \o Rest)', Text(log[n]))
    <3>1. n = Len(log)
      BY <1>17, <2>3, <2>6 DEF OnlyPrint
    <3>2. Sent = <<>>
      BY <2>2, <2>6 DEF Inv, Sending
    <3>3. (Sent \o Rest)' = Prefix
      BY <1>4, <1>15, <2>1, <3>2, ConcatEmptySeq
    <3> QED
      BY <1>4, <2>3, <3>1, <3>3
  <2>7. DOMAIN log' = DOMAIN log /\ \A n \in DOMAIN log : OnlyPrint(n)' <=> OnlyPrint(n)
    BY <1>1 DEF OnlyPrint
  <2>8. Sending'
    BY <1>1, <1>15, <2>4, <2>5, <2>6, <2>7 DEF Sending
  <2> QED
    BY <1>5, <1>7, <1>13, <1>14, <2>8 DEF Inv
<1> QED
  BY <1>2, <1>16, <1>17

\* A call is entered in the log, and all of its text is to be sent.
LEMMA StartInv ==
  ASSUME Inv, Start
  PROVE  Inv'
<1> DEFINE f == [Top EXCEPT !.phase = "format", !.at = 1, !.arg = 1]
<1>1. /\ stack # <<>> /\ Top.phase = "start" /\ Top.calls # <<>> /\ Idle
      /\ ptr' = 0 /\ log' = Append(log, Call) /\ Advance(f)
      /\ UNCHANGED <<buf, idt, initStep, regs, thr, out, copied>>
  BY DEF Start, uart, Idle
<1>2. Top \in Activations /\ Call \in Calls
  BY <1>1, OnStack, HeadTailProperties DEF Inv, Activations, Call
<1>3. /\ f \in Activations /\ f.vector = Top.vector /\ f.phase = "format"
      /\ f.calls = Top.calls /\ f.at = 1 /\ f.arg = 1
  BY <1>2 DEF Activations
<1> HIDE DEF f
<1>4. /\ stack' \in Seq(Activations) /\ Len(stack') <= 1 /\ stack' # <<>> /\ Top' = f
      /\ LineSet' /\ OneActive'
  BY <1>1, <1>3, AdvancedTyped DEF Inv
<1>5. /\ log \in Seq(Calls) /\ log' \in Seq(Calls) /\ Len(log) \in Nat
      /\ Len(log') = Len(log) + 1 /\ log'[Len(log) + 1] = Call
      /\ \A n \in 1 .. Len(log) : log'[n] = log[n]
  BY <1>1, <1>2, AppendProperties, LenProperties DEF Inv, Typed
<1>6. Typed'
  <2>1. 0 \in 0 .. SIZE - 1 + Beyond
    BY BoundsAssumption DEF Beyond
  <2> QED
    BY <1>1, <1>4, <1>5, <2>1 DEF Inv, Typed
<1>7. Call' = Call /\ ~Idle' /\ log' # <<>> /\ Last(log') = Call
  <2>1. log' # <<>>
    BY <1>1, <1>2, <1>5, AppendProperties
  <2> QED
    BY <1>3, <1>4, <1>5, <2>1 DEF Call, Idle, Last
<1>8. Text(Call) \in Seq(Character) /\ IsCall(Call)[1][1] /\ Call.to \in {"port", "memory"}
      /\ Line(Call) \in Seq(Character)
  BY <1>2, LineTyped
<1>9. Prefix' = <<>>
  <2>1. Prefix' = [n \in 1 .. 0 |-> buf'[n - 1]]
    BY <1>1 DEF Prefix
  <2> QED
    BY <2>1
<1>10. Formatting'
  <2>1. Text(Call) = Prefix' \o TextFrom(Call)[1][1]
    BY <1>8, <1>9, ConcatEmptySeq DEF Text
  <2>2. IsPrefix(Prefix', Text(Call))
    <3>1. <<>> \in Seq(Character) /\ <<>> \o Text(Call) = Text(Call)
      BY <1>8, EmptySeq, ConcatEmptySeq
    <3>2. IsPrefix(<<>>, <<>> \o Text(Call))
      BY <1>8, <3>1, PrefixConcat
    <3> QED
      BY <1>9, <3>1, <3>2
  <2>3. Top'.calls # <<>> /\ Top'.phase = "format" /\ Top'.at = 1 /\ Top'.arg = 1 /\ 1 >= 1
    BY <1>1, <1>3, <1>4
  <2> QED
    BY <1>7, <1>8, <2>1, <2>2, <2>3, Zenon DEF Formatting
<1>11. Copied'
  BY <1>7 DEF Copied
<1>12. /\ Rest = <<>> /\ ~PrintFormats /\ Sent' = Sent /\ Sent \in Seq(Character)
       /\ Sent \o Rest = Sent
  <2>1. Rest = <<>> /\ ~PrintFormats /\ Sent' = Sent /\ Sent \in Seq(Character)
    BY <1>1, RestIdle, SentTyped DEF Inv, Sent
  <2> QED
    BY <2>1, ConcatEmptySeq
<1>13. Rest' = Line(Call) /\ (PrintFormats' <=> Call.to = "port")
  BY <1>3, <1>4, <1>7, <1>8 DEF Rest, Line, PrintFormats
<1>14. DOMAIN log = 1 .. Len(log) /\ DOMAIN log' = 1 .. Len(log) + 1
  BY <1>5, LenProperties
<1>15. (AllFit => Sent \o Rest = Texts(log))'
  <2>1. AllFit' => AllFit
    BY <1>5, <1>14 DEF AllFit
  <2>2. AllFit' => Sent = Texts(log)
    BY <1>12, <2>1 DEF Inv, Sending
  <2>3. Texts(log') = Texts(log) \o Line(Call)
    BY <1>1, <1>2, <1>5, TextsAppend
  <2> QED
    BY <1>12, <1>13, <2>2, <2>3
<1>16. (NoPrint => Sent = <<>>)'
  <2>1. NoPrint' => NoPrint
    BY <1>5, <1>14 DEF NoPrint
  <2> QED
    BY <1>12, <2>1 DEF Inv, Sending
<1>17. ASSUME NEW n \in DOMAIN log', OnlyPrint(n)'
       PROVE  IF PrintFormats' THEN Sent' = <<>> ELSE Beginning((Sent \o Rest)', Text(log'[n]))
  <2>1. CASE Call.to = "port"
    <3>1. Len(log) + 1 \in DOMAIN log' /\ \A m \in 1 .. Len(log) : m # Len(log) + 1
      BY <1>5, <1>14
    <3>2. n = Len(log) + 1
      BY <1>5, <1>17, <2>1, <3>1 DEF OnlyPrint
    <3>3. NoPrint
      BY <1>5, <1>14, <1>17, <3>1, <3>2 DEF OnlyPrint, NoPrint
    <3> QED
      BY <1>12, <1>13, <2>1, <3>3 DEF Inv, Sending
  <2>2. CASE Call.to = "memory"
    <3>1. log'[n].to = "port" /\ n # Len(log) + 1
      BY <1>5, <1>17, <2>2 DEF OnlyPrint
    <3>2. n \in DOMAIN log /\ log'[n] = log[n]
      BY <1>5, <1>14, <3>1
    <3>3. OnlyPrint(n)
      BY <1>5, <1>14, <1>17, <3>2 DEF OnlyPrint
    <3>4. Beginning(Sent, Text(log[n]))
      BY <1>12, <3>2, <3>3 DEF Inv, Sending
    <3>5. Rest' = <<>> /\ ~PrintFormats'
      BY <1>13, <2>2 DEF Line
    <3>6. (Sent \o Rest)' = Sent
      BY <1>12, <3>5
    <3> QED
      BY <3>2, <3>4, <3>5, <3>6
  <2> QED
    BY <1>8, <2>1, <2>2
<1>18. Sending'
  BY <1>15, <1>16, <1>17 DEF Sending
<1> QED
  BY <1>4, <1>6, <1>10, <1>11, <1>18 DEF Inv

----------------------------------------------------------------------------
(***************************************************************************)
(* The theorems.                                                           *)
(***************************************************************************)
\* The invariant holds when the machine starts.
LEMMA InitInv == Init => Inv
<1> SUFFICES ASSUME Init PROVE Inv
  OBVIOUS
<1>1. /\ buf = [n \in 0 .. SIZE - 1 + Beyond |-> NUL] /\ ptr = 0
      /\ stack = <<>> /\ idt = [v \in {} |-> 0] /\ initStep = 1
      /\ regs \in [dll : {12}, dlm : {0}, ier : {0, 1}, lcr : {0, 131}] /\ thr = NUL
      /\ out = <<>> /\ log = <<>>
  BY DEF Init
<1>2. Typed
  <2>1. 0 \in 0 .. SIZE - 1 + Beyond
    BY BoundsAssumption DEF Beyond
  <2>2. \A S : <<>> \in Seq(S) /\ Len(<<>>) = 0
    BY EmptySeq
  <2>3. /\ stack \in Seq(Activations) /\ Len(stack) <= 1
        /\ out \in Seq(Character) /\ log \in Seq(Calls)
    BY <1>1, <2>2
  <2> QED
    BY <1>1, <2>1, <2>3 DEF Typed
<1>3. LineSet
  <2>1. DOMAIN idt = {}
    BY <1>1
  <2>2. regs = [dll |-> regs.dll, dlm |-> regs.dlm, ier |-> regs.ier, lcr |-> regs.lcr]
    BY <1>1
  <2> QED
    BY <1>1, <2>1, <2>2 DEF LineSet
<1>4. OneActive
  BY <1>1 DEF OneActive
<1>5. Idle
  BY <1>1 DEF Idle
<1>6. Formatting /\ Copied
  BY <1>1, <1>5 DEF Formatting, Copied
<1>7. Sending
  <2>1. DOMAIN log = {} /\ Texts(log) = <<>>
    BY <1>1, TextsNone
  <2>2. <<>> \in Seq(Character)
    BY EmptySeq
  <2>3. Sent = <<>> /\ Rest = <<>> /\ Sent \o Rest = <<>>
    BY <1>1, <1>5, <2>2, RestIdle, ConcatEmptySeq DEF Sent
  <2> QED
    BY <2>1, <2>3 DEF Sending
<1> QED
  BY <1>2, <1>3, <1>4, <1>6, <1>7 DEF Inv

\* Every step keeps it.
LEMMA NextInv == Inv /\ [Next]_vars => Inv'
<1> SUFFICES ASSUME Inv, [Next]_vars PROVE Inv'
  OBVIOUS
<1>1. CASE serial_init
  BY <1>1, SerialInitInv
<1>2. CASE init_idt
  BY <1>2, InitIdtInv
<1>3. CASE Start
  BY <1>3, StartInv
<1>4. CASE Format
  BY <1>4, FormatInv
<1>5. CASE Terminate
  BY <1>5, TerminateInv
<1>6. CASE Putc
  BY <1>6, PutcInv
<1>7. CASE Printed
  BY <1>7, PrintedInv
<1>8. CASE Copy
  BY <1>8, CopyInv
<1>9. CASE Return
  BY <1>9, ReturnInv
<1>10. CASE Transmit
  BY <1>10, TransmitInv
<1>11. ASSUME NEW c \in BootCalls, KmainPrints(c) PROVE Inv'
  BY <1>11, KmainPrintsInv
<1>12. CASE SyscallInterrupt
  BY <1>12, InterruptInv, CallsAssumption DEF SyscallInterrupt
<1>13. ASSUME NEW c \in MouseCalls, MouseInterrupt(c) PROVE Inv'
  BY <1>13, InterruptInv, CallsAssumption DEF MouseInterrupt
<1>14. CASE UNCHANGED vars
  <2>1. UNCHANGED <<buf, ptr, stack, idt, initStep, regs, thr, out, copied, log>>
    BY <1>14 DEF vars, uart
  <2>2. Typed' /\ LineSet' /\ OneActive'
    BY <2>1 DEF Inv, Typed, LineSet, OneActive, Top
  <2>3. /\ Formatting' /\ (Idle' <=> Idle) /\ Rest' = Rest /\ (PrintFormats' <=> PrintFormats)
        /\ Sent' = Sent
    BY <2>1, SameFormatting DEF Inv, Sent
  <2>4. Sending'
    BY <2>1, <2>3, SendingKept DEF Inv
  <2>5. Copied'
    BY <2>1, <2>3 DEF Inv, Copied
  <2> QED
    BY <2>2, <2>3, <2>4, <2>5 DEF Inv
<1> QED
  BY <1>1, <1>2, <1>3, <1>4, <1>5, <1>6, <1>7, <1>8, <1>9, <1>10, <1>11, <1>12, <1>13, <1>14
     DEF Next, Run

\* So it always holds.
THEOREM Inductive == Spec => []Inv
BY InitInv, NextInv, PTL DEF Spec

\* A message never leaves what lies behind buf within reach of one conversion,
\* and one that fits never leaves buf: vkformat tests ptr before every
\* character of its format, but only the copy of a string tests it again.
THEOREM TextsInReach == Spec => []WithinReach
<1>1. Inv => WithinReach
  <2> SUFFICES ASSUME Inv PROVE WithinReach
    OBVIOUS
  <2>1. ptr <= SIZE - 1 + Beyond
    BY BoundsAssumption DEF Inv, Typed, Beyond
  <2>2. ASSUME stack # <<>>, Top.phase # "start", Fits(Call) PROVE ptr < SIZE
    <3>1. ~Idle
      BY <2>2 DEF Idle
    <3>2. /\ Prefix \in Seq(Character) /\ Len(Prefix) = ptr /\ ptr \in Nat
          /\ IsPrefix(Prefix, Text(Call)) /\ Call \in Calls
      BY <3>1, PrefixTyped, CurrentCall DEF Inv
    <3>3. Text(Call) \in Seq(Character) /\ Len(Text(Call)) \in Nat
      BY <3>2, LineTyped, LenProperties
    <3>4. ptr <= Len(Text(Call))
      BY <3>2, <3>3, PrefixElements
    <3> QED
      BY <2>2, <3>2, <3>3, <3>4, BoundsAssumption DEF Fits
  <2> QED
    BY <2>1, <2>2 DEF WithinReach
<1> QED
  BY <1>1, Inductive, PTL

\* When nobody prints and all texts fit, the line has carried exactly the
\* texts of the calls of serial_printf, in order; and ksprintf has given its
\* caller the text of its call, though all use one static buffer.
THEOREM WholeMessages == Spec => []MessagesWhole
<1>1. Inv => MessagesWhole
  <2> SUFFICES ASSUME Inv, \A n \in DOMAIN log : Fits(log[n])
               PROVE  /\ stack = <<>> /\ thr = NUL => out = Texts(log)
                      /\ stack # <<>> /\ Top.phase = "start" /\ log # <<>>
                           /\ Last(log).to = "memory" => copied = Text(Last(log))
    BY Zenon DEF MessagesWhole
  <2>1. ASSUME stack = <<>>, thr = NUL PROVE out = Texts(log)
    <3>1. Rest = <<>> /\ Sent = out \o <<>>
      BY <2>1, RestIdle DEF Idle, Sent
    <3>2. out \in Seq(Character)
      BY DEF Inv, Typed
    <3>3. Sent \o Rest = out
      BY <3>1, <3>2, ConcatEmptySeq
    <3> QED
      BY <3>3 DEF Inv, Sending, AllFit
  <2>2. ASSUME stack # <<>>, Top.phase = "start", log # <<>>, Last(log).to = "memory"
        PROVE  copied = Text(Last(log))
    <3>1. Len(log) \in DOMAIN log
      BY <2>2, EmptySeq, LenProperties DEF Inv, Typed
    <3>2. Fits(Last(log))
      BY <3>1 DEF Last
    <3> QED
      BY <2>2, <3>2 DEF Inv, Copied, Idle
  <2> QED
    BY <2>1, <2>2
<1> QED
  BY <1>1, Inductive, PTL

\* Of a text too long for buf the line has carried the beginning, as much of
\* it as buf can hold.
THEOREM BeginningsSent == Spec => []SendsBeginning
<1>1. Inv => SendsBeginning
  <2> SUFFICES ASSUME Inv, stack = <<>>, thr = NUL, NEW n \in DOMAIN log, OnlyPrint(n)
               PROVE  Beginning(out, Text(log[n]))
    BY Zenon DEF SendsBeginning
  <2>1. Rest = <<>> /\ Sent = out \o <<>> /\ ~PrintFormats
    BY RestIdle DEF Idle, Sent
  <2>2. out \in Seq(Character)
    BY DEF Inv, Typed
  <2>3. Sent \o Rest = out
    BY <2>1, <2>2, ConcatEmptySeq
  <2> QED
    BY <2>1, <2>3 DEF Inv, Sending
<1> QED
  BY <1>1, Inductive, PTL
=============================================================================
