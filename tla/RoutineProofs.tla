------------------------------ MODULE RoutineProofs ------------------------------
(* The routines that are called with values and give values.  Of the runtime: the   *)
(* divide steps divide, the deadlines expire on time and the buffers are filled     *)
(* with what they should hold, for words of every width.  Of the card: what is kept *)
(* of its tuples, the identifier made of them and the window, for cards of any      *)
(* contents.                                                                        *)
EXTENDS RtCalls, CardCalls, SequenceTheorems, FiniteSetTheorems, WellFoundedInduction, TLAPS

------------------------------------------------------------------------------
(* Functions defined by recursion on 0 .. N *)

\* A set of numbers that is not empty has a least element.
LEMMA LeastElement ==
    ASSUME NEW T, T \subseteq Nat, T # {}
    PROVE  \E x \in T : \A y \in T : x <= y
<1>1. PICK x \in T : \A y \in T : ~ (<<y, x>> \in OpToRel(<, Nat))
  BY NatLessThanWellFounded, WFMin
<1>2. ASSUME NEW y \in T PROVE x <= y
  <2>1. x \in Nat /\ y \in Nat
    OBVIOUS
  <2>2. y < x => <<y, x>> \in OpToRel(<, Nat)
    BY <2>1 DEF OpToRel
  <2>3. ~ (<<y, x>> \in OpToRel(<, Nat))
    BY <1>1
  <2>4. ~ (y < x)
    BY <2>2, <2>3
  <2> QED BY <2>1, <2>4
<1> QED BY <1>2

\* Induction, for the numbers of a set.
LEMMA SetInduction ==
    ASSUME NEW S, 0 \in S, \A n \in Nat : n \in S => n + 1 \in S
    PROVE  \A n \in Nat : n \in S
<1> SUFFICES ASSUME Nat \ S # {} PROVE FALSE
  OBVIOUS
<1>1. PICK x \in Nat \ S : \A y \in Nat \ S : x <= y
  BY LeastElement
<1>2. x # 0 /\ x - 1 \in Nat
  BY <1>1
<1>3. x - 1 \in S
  BY <1>1, <1>2
<1>4. (x - 1) + 1 = x
  BY <1>1
<1> QED BY <1>1, <1>2, <1>3, <1>4

\* The function on 0 .. n with a first value in V and a step from each value to the next.
Built(g, n, V, first, step) ==
    /\ g \in [0 .. n -> V]
    /\ g[0] = first
    /\ \A k \in 1 .. n : g[k] = step[<<k, g[k - 1]>>]

\* There is one.
LEMMA Recursion ==
    ASSUME NEW N \in Nat, NEW V, NEW first \in V, NEW step \in [(1 .. N) \X V -> V]
    PROVE  \E g : Built(g, N, V, first, step)
<1> DEFINE S == {n \in Nat : n <= N => \E g : Built(g, n, V, first, step)}
<1>1. 0 \in S
  <2>1. [k \in 0 .. 0 |-> first] \in [0 .. 0 -> V]
    OBVIOUS
  <2>2. Built([k \in 0 .. 0 |-> first], 0, V, first, step)
    BY <2>1 DEF Built
  <2> QED BY <2>1, <2>2
<1>2. ASSUME NEW n \in Nat, n \in S PROVE n + 1 \in S
  <2> SUFFICES ASSUME n + 1 <= N PROVE \E g : Built(g, n + 1, V, first, step)
    OBVIOUS
  <2>1. PICK g : Built(g, n, V, first, step)
    BY <1>2
  <2> DEFINE h == [k \in 0 .. n + 1 |-> IF k <= n THEN g[k] ELSE step[<<n + 1, g[n]>>]]
  <2>2. n + 1 \in 1 .. N /\ g[n] \in V
    BY <2>1 DEF Built
  <2>3. step[<<n + 1, g[n]>>] \in V
    BY <2>2
  <2>4. h \in [0 .. n + 1 -> V]
    BY <2>1, <2>3 DEF Built
  <2>5. h[0] = first
    BY <2>1 DEF Built
  <2>6. ASSUME NEW k \in 1 .. n + 1 PROVE h[k] = step[<<k, h[k - 1]>>]
    <3>1. CASE k <= n
      <4>1. k \in 0 .. n + 1 /\ k - 1 \in 0 .. n + 1 /\ k - 1 <= n /\ k \in 1 .. n
        BY <3>1
      <4>2. h[k] = g[k] /\ h[k - 1] = g[k - 1]
        BY <3>1, <4>1
      <4> QED BY <2>1, <4>1, <4>2 DEF Built
    <3>2. CASE k = n + 1
      <4>1. h[k] = step[<<n + 1, g[n]>>] /\ h[n] = g[n] /\ k - 1 = n
        BY <3>2
      <4> QED BY <3>2, <4>1
    <3> QED BY <3>1, <3>2
  <2>7. Built(h, n + 1, V, first, step)
    <3> HIDE DEF h
    <3> QED BY <2>4, <2>5, <2>6 DEF Built
  <2> QED BY <2>7
<1>3. \A n \in Nat : n \in S
  <2> HIDE DEF S
  <2> QED BY <1>1, <1>2, SetInduction
<1> QED BY <1>3

------------------------------------------------------------------------------
(* Words *)

\* Powers of two double from 1 on.
LEMMA PowersDouble ==
    /\ Power2[0] = 1
    /\ \A k \in 1 .. Width : Power2[k] = 2 * Power2[k - 1]
    /\ \A k \in 0 .. Width : Power2[k] \in Nat \ {0}
<1> DEFINE step == [p \in (1 .. Width) \X (Nat \ {0}) |-> 2 * p[2]]
<1>0. Width \in Nat
  BY WidthAssumption
<1> DEFINE V == Nat \ {0}
<1>1. step \in [(1 .. Width) \X V -> V]
  OBVIOUS
<1>2. PICK g : Built(g, Width, V, 1, step)
  <2>1. 1 \in V
    OBVIOUS
  <2> HIDE DEF step, V
  <2> QED BY <1>0, <1>1, <2>1, Recursion
<1>3. /\ g \in [0 .. Width -> V] /\ g[0] = 1
      /\ \A k \in 1 .. Width : g[k] = step[<<k, g[k - 1]>>]
  BY <1>2 DEF Built
<1>4. g = [k \in 0 .. Width |-> IF k = 0 THEN 1 ELSE 2 * g[k - 1]]
  <2>1. ASSUME NEW k \in 0 .. Width PROVE g[k] = IF k = 0 THEN 1 ELSE 2 * g[k - 1]
    <3>1. CASE k = 0
      <4> HIDE DEF step
      <4> QED BY <1>3, <3>1
    <3>2. CASE k # 0
      <4>1. k \in 1 .. Width /\ k - 1 \in 0 .. Width
        BY <1>0, <3>2
      <4>2. g[k - 1] \in V
        BY <1>3, <4>1
      <4>3. step[<<k, g[k - 1]>>] = 2 * g[k - 1]
        BY <4>1, <4>2
      <4> HIDE DEF step, V
      <4> QED BY <1>3, <3>2, <4>1, <4>3
    <3> QED BY <3>1, <3>2
  <2> HIDE DEF step, V
  <2> QED BY <1>3, <2>1
<1>5. Power2 = [k \in 0 .. Width |-> IF k = 0 THEN 1 ELSE 2 * Power2[k - 1]]
  BY <1>4 DEF Power2
<1>6. Power2[0] = 1
  BY <1>0, <1>5
<1>7. \A k \in 1 .. Width : Power2[k] = 2 * Power2[k - 1]
  BY <1>0, <1>5
<1>8. \A k \in 0 .. Width : Power2[k] \in Nat \ {0}
  <2> DEFINE S == {k \in Nat : k <= Width => Power2[k] \in Nat \ {0}}
  <2>1. 0 \in S
    BY <1>6
  <2>2. ASSUME NEW n \in Nat, n \in S PROVE n + 1 \in S
    <3> SUFFICES ASSUME n + 1 <= Width PROVE Power2[n + 1] \in Nat \ {0}
      OBVIOUS
    <3>1. Power2[n] \in Nat \ {0} /\ n + 1 \in 1 .. Width /\ (n + 1) - 1 = n
      BY <1>0, <2>2
    <3>2. Power2[n + 1] = 2 * Power2[n]
      BY <1>7, <3>1
    <3> QED BY <3>1, <3>2
  <2>3. \A n \in Nat : n \in S
    <3> HIDE DEF S
    <3> QED BY <2>1, <2>2, SetInduction
  <2> QED BY <1>0, <2>3
<1> QED BY <1>6, <1>7, <1>8

\* The product of two powers is their Span when their exponents add up to Width.
LEMMA PowersMultiply == \A k \in 0 .. Width : Power2[Width - k] * Power2[k] = Span
<1>0. Width \in Nat
  BY WidthAssumption
<1> DEFINE S == {k \in Nat : k <= Width => Power2[Width - k] * Power2[k] = Span}
<1>1. 0 \in S
  <2>1. Power2[Width] \in Nat /\ Power2[0] = 1 /\ Width - 0 = Width
    BY <1>0, PowersDouble
  <2> QED BY <2>1 DEF Span
<1>2. ASSUME NEW n \in Nat, n \in S PROVE n + 1 \in S
  <2> SUFFICES ASSUME n + 1 <= Width PROVE Power2[Width - (n + 1)] * Power2[n + 1] = Span
    OBVIOUS
  <2>1. /\ n \in 0 .. Width /\ n + 1 \in 1 .. Width /\ Width - n \in 1 .. Width
        /\ Width - (n + 1) = (Width - n) - 1 /\ (n + 1) - 1 = n /\ (Width - n) - 1 \in 0 .. Width
    BY <1>0, <1>2
  <2>2. Power2[Width - n] * Power2[n] = Span
    BY <1>2, <2>1
  <2>3. Power2[Width - n] = 2 * Power2[(Width - n) - 1] /\ Power2[n + 1] = 2 * Power2[n]
    BY <2>1, PowersDouble
  <2>4. Power2[n] \in Nat /\ Power2[(Width - n) - 1] \in Nat
    BY <2>1, PowersDouble
  <2>5. \A x, y \in Nat : (2 * x) * y = x * (2 * y)
    OBVIOUS
  <2> QED BY <2>1, <2>2, <2>3, <2>4, <2>5
<1>3. \A n \in Nat : n \in S
  <2> HIDE DEF S
  <2> QED BY <1>1, <1>2, SetInduction
<1> QED BY <1>0, <1>3

\* A quotient and a remainder are the quotient and the remainder.
LEMMA Division ==
    ASSUME NEW s \in Nat \ {0}, NEW v \in Int, NEW c \in Int, NEW r \in 0 .. s - 1, v = c * s + r
    PROVE  v \div s = c /\ v % s = r
<1>1. v \div s \in Int /\ v % s \in 0 .. s - 1 /\ v = s * (v \div s) + (v % s)
  OBVIOUS
<1> DEFINE e == v \div s
<1>2. (e - c) * s < s /\ (c - e) * s < s
  BY <1>1
<1>3. \A x \in Int : x * s < s => x <= 0
  OBVIOUS
<1>4. e - c <= 0 /\ c - e <= 0
  BY <1>1, <1>2, <1>3
<1>5. e = c
  BY <1>1, <1>4
<1>6. v % s = v - c * s
  BY <1>1, <1>5
<1> QED BY <1>5, <1>6

\* The first of the words whose top bit is set.
Half == Power2[Width - 1]

\* Half of the words are negative.
LEMMA Halves == Half \in Nat \ {0} /\ Span = 2 * Half /\ Span \div 2 = Half /\ Span \in Nat \ {0}
<1>1. Width \in 1 .. Width /\ Width - 1 \in 0 .. Width
  BY WidthAssumption
<1>2. Span = 2 * Half /\ Half \in Nat \ {0}
  BY <1>1, PowersDouble DEF Span, Half
<1> QED BY <1>2

\* A number a whole count of spans away from a word wraps to it.
LEMMA Wrapped ==
    ASSUME NEW v \in Int, NEW c \in Int, NEW w \in Word, v = c * Span + w
    PROVE  Wrap(v) = w
  BY Halves, Division DEF Wrap, Word

\* A word wraps to itself, and what is less than a span below or above the words to what is
\* one span off.
LEMMA WrappedNear ==
    ASSUME NEW v \in Int
    PROVE  /\ v \in Word => Wrap(v) = v
           /\ v + Span \in Word => Wrap(v) = v + Span
           /\ v - Span \in Word => Wrap(v) = v - Span
           /\ Wrap(v) \in Word
<1>0. Span \in Nat \ {0}
  BY Halves
<1>1. v = 0 * Span + v /\ v = (-1) * Span + (v + Span) /\ v = 1 * Span + (v - Span)
  BY <1>0
<1>2. v \in Word => Wrap(v) = v
  BY <1>1, Wrapped
<1>3. v + Span \in Word => Wrap(v) = v + Span
  <2>1. -1 \in Int
    OBVIOUS
  <2> QED BY <1>1, <2>1, Wrapped
<1>4. v - Span \in Word => Wrap(v) = v - Span
  BY <1>1, Wrapped
<1>5. Wrap(v) \in Word
  BY <1>0 DEF Wrap, Word
<1> QED BY <1>2, <1>3, <1>4, <1>5

\* The top bit of a word.
LEMMA TopBit ==
    ASSUME NEW w \in Word
    PROVE  w \div (Span \div 2) = IF w < Half THEN 0 ELSE 1
<1>1. Half \in Nat \ {0} /\ Span = 2 * Half /\ Span \div 2 = Half
  BY Halves
<1>2. CASE w < Half
  <2>1. w \in 0 .. Half - 1 /\ w = 0 * Half + w
    BY <1>1, <1>2 DEF Word
  <2>2. w \div Half = 0
    BY <1>1, <2>1, Division
  <2> QED BY <1>1, <1>2, <2>2
<1>3. CASE ~ (w < Half)
  <2>1. w - Half \in 0 .. Half - 1 /\ w = 1 * Half + (w - Half) /\ w \in Int
    BY <1>1, <1>3 DEF Word
  <2>2. w \div Half = 1
    BY <1>1, <2>1, Division
  <2> QED BY <1>1, <1>3, <2>2
<1> QED BY <1>2, <1>3

------------------------------------------------------------------------------
(* The divide step *)

Registers == [num : Word, rem : Word, q : {0, 1}, t : {0, 1}]

\* The remainder's register and q stand for a remainder r: r itself, or r less the divisor
\* that a step subtracted in vain, which the next one adds back.
StandsFor(s, r, d) ==
    \/ s.q = 0 /\ s.rem = r
    \/ s.q = 1 /\ s.rem = r - d + Span

\* rotcl moves the top bit of num into T, and T into num.
LEMMA RotclBits ==
    ASSUME NEW s \in Registers, NEW bit, bit = IF s.num < Half THEN 0 ELSE 1
    PROVE  Rotcl(s) = [num |-> (2 * s.num + s.t) - bit * Span, rem |-> s.rem, q |-> s.q, t |-> bit]
<1> DEFINE v == 2 * s.num + s.t
<1>1. Half \in Nat \ {0} /\ Span = 2 * Half
  BY Halves
<1>2. s.num \in 0 .. Span - 1 /\ s.t \in {0, 1} /\ s.num \in Word
  BY DEF Registers, Word
<1>3. v \in Int /\ IF s.num < Half THEN v \in 0 .. Span - 1 ELSE v - Span \in 0 .. Span - 1
  BY <1>1, <1>2
<1>4. Wrap(v) = v - bit * Span
  <2>1. CASE s.num < Half
    <3>1. v \in Word
      BY <1>3, <2>1 DEF Word
    <3>2. Wrap(v) = v
      <4> HIDE DEF v
      <4> QED BY <1>3, <3>1, WrappedNear
    <3> QED BY <1>1, <1>3, <2>1, <3>2
  <2>2. CASE ~ (s.num < Half)
    <3>1. v - Span \in Word
      BY <1>3, <2>2 DEF Word
    <3>2. Wrap(v) = v - Span
      <4> HIDE DEF v
      <4> QED BY <1>3, <3>1, WrappedNear
    <3> QED BY <1>1, <1>3, <2>2, <3>2
  <2> QED BY <2>1, <2>2
<1>5. s.num \div (Span \div 2) = bit
  BY <1>2, TopBit
<1> QED BY <1>4, <1>5 DEF Rotcl

\* div1 takes the next bit into the remainder and subtracts the divisor: q says whether the
\* result is negative, t is the quotient's bit.
LEMMA Div1Step ==
    ASSUME NEW d \in 1 .. Span - 1, NEW r \in 0 .. d - 1, NEW s \in Registers,
           StandsFor(s, r, d)
    PROVE  LET v == 2 * r + s.t - d IN
           Div1(s, d) = IF v < 0 THEN [num |-> s.num, rem |-> v + Span, q |-> 1, t |-> 0]
                        ELSE [num |-> s.num, rem |-> v, q |-> 0, t |-> 1]
<1> DEFINE v == 2 * r + s.t - d
           top == s.rem \div (Span \div 2)
           w == 2 * s.rem + s.t
           shifted == Wrap(w)
           sum == IF s.q = 0 THEN shifted - d ELSE shifted + d
           q == (top + IF sum \in Word THEN 0 ELSE 1) % 2
<1>1. /\ Half \in Nat \ {0} /\ Span = 2 * Half /\ Span \in Nat \ {0}
      /\ s.t \in {0, 1} /\ s.rem \in Word /\ s.rem \in 0 .. Span - 1
  BY Halves DEF Registers, Word
<1>a. \/ s.q = 0 /\ s.rem = r
      \/ s.q = 1 /\ s.rem = r - d + Span
  BY DEF StandsFor
<1>2. top = IF s.rem < Half THEN 0 ELSE 1
  BY <1>1, TopBit
<1>3. shifted = 2 * s.rem + s.t - top * Span
  <2>1. w \in Int
    BY <1>1
  <2>2. CASE s.rem < Half
    <3>1. top = 0 /\ w \in Word
      BY <1>1, <1>2, <2>2 DEF Word
    <3>2. shifted = w
      <4> HIDE DEF w
      <4> QED BY <2>1, <3>1, WrappedNear
    <3> HIDE DEF top, shifted
    <3> QED BY <1>1, <2>1, <3>1, <3>2
  <2>3. CASE ~ (s.rem < Half)
    <3>1. top = 1 /\ w - Span \in Word
      BY <1>1, <1>2, <2>3 DEF Word
    <3>2. shifted = w - Span
      <4> HIDE DEF w
      <4> QED BY <2>1, <3>1, WrappedNear
    <3> HIDE DEF top, shifted
    <3> QED BY <1>1, <2>1, <3>1, <3>2
  <2> QED BY <2>2, <2>3
<1>4. q = (IF v < 0 THEN 1 ELSE 0) /\ Wrap(sum) = (IF v < 0 THEN v + Span ELSE v)
  <2>1. CASE s.q = 0 /\ s.rem = r /\ s.rem < Half
    <3>1. top = 0 /\ sum = v /\ v \in Int /\ (v < 0 => v + Span \in Word) /\ (v >= 0 <=> v \in Word)
      BY <1>1, <1>2, <1>3, <2>1 DEF Word
    <3> HIDE DEF sum, v, top
    <3> QED BY <3>1, WrappedNear
  <2>2. CASE s.q = 0 /\ s.rem = r /\ ~ (s.rem < Half)
    <3>1. top = 1 /\ sum = v - Span /\ v \in Int /\ v >= 0 /\ v \in Word /\ sum \notin Word
      BY <1>1, <1>2, <1>3, <2>2 DEF Word
    <3>2. sum \in Int /\ sum + Span = v
      BY <1>1, <3>1
    <3> HIDE DEF sum, v, top
    <3> QED BY <3>1, <3>2, WrappedNear
  <2>3. CASE s.q = 1 /\ s.rem = r - d + Span /\ ~ (s.rem < Half)
    <3>1. /\ top = 1 /\ sum = v + Span /\ v \in Int
          /\ v < 0 => sum \in Word
          /\ v >= 0 => sum \notin Word /\ sum - Span = v /\ v \in Word
      BY <1>1, <1>2, <1>3, <2>3 DEF Word
    <3>2. sum \in Int
      BY <1>1, <3>1
    <3> HIDE DEF sum, v, top
    <3> QED BY <3>1, <3>2, WrappedNear
  <2>4. CASE s.q = 1 /\ s.rem = r - d + Span /\ s.rem < Half
    <3>1. /\ top = 0 /\ sum = v + 2 * Span /\ v \in Int /\ v < 0
          /\ sum \notin Word /\ sum - Span = v + Span /\ v + Span \in Word
      BY <1>1, <1>2, <1>3, <2>4 DEF Word
    <3>2. sum \in Int
      BY <1>1, <3>1
    <3> HIDE DEF sum, v, top
    <3> QED BY <3>1, <3>2, WrappedNear
  <2> QED BY <1>a, <2>1, <2>2, <2>3, <2>4
<1>5. Div1(s, d) = [num |-> s.num, rem |-> Wrap(sum), q |-> q, t |-> 1 - q]
  BY DEF Div1
<1> HIDE DEF sum, q, v
<1>6. CASE v < 0
  <2>1. q = 1 /\ Wrap(sum) = v + Span /\ 1 - q = 0
    BY <1>4, <1>6
  <2> QED BY <1>5, <1>6, <2>1 DEF v
<1>7. CASE ~ (v < 0)
  <2>1. q = 0 /\ Wrap(sum) = v /\ 1 - q = 1
    BY <1>4, <1>7
  <2> QED BY <1>5, <1>7, <2>1 DEF v
<1> QED BY <1>6, <1>7

\* Registers stay words.
LEMMA StepType ==
    ASSUME NEW s \in Registers, NEW d \in Word
    PROVE  Rotcl(s) \in Registers /\ Div1(s, d) \in Registers
<1>1. \A v \in Int : Wrap(v) \in Word
  BY WrappedNear
<1>2. \A w \in Word : w \in Int /\ w \div (Span \div 2) \in {0, 1}
  <2>1. Span \in Nat
    BY Halves
  <2> QED BY <2>1, TopBit DEF Word
<1>3. s.num \in Word /\ s.rem \in Word /\ s.t \in {0, 1} /\ s.q \in {0, 1} /\ d \in Int
  BY <1>2 DEF Registers
<1>4. Rotcl(s) \in Registers
  <2>1. s.num \in Int
    BY <1>2, <1>3
  <2>2. 2 * s.num + s.t \in Int
    BY <1>3, <2>1
  <2>3. Wrap(2 * s.num + s.t) \in Word /\ s.num \div (Span \div 2) \in {0, 1}
    BY <1>1, <1>2, <1>3, <2>2
  <2> QED BY <1>3, <2>3 DEF Rotcl, Registers
<1>5. Div1(s, d) \in Registers
  <2> DEFINE shifted == Wrap(2 * s.rem + s.t)
             top == s.rem \div (Span \div 2)
             sum == IF s.q = 0 THEN shifted - d ELSE shifted + d
             q == (top + IF sum \in Word THEN 0 ELSE 1) % 2
  <2>1. s.rem \in Int
    BY <1>2, <1>3
  <2>2. 2 * s.rem + s.t \in Int
    BY <1>3, <2>1
  <2>3. shifted \in Word
    BY <1>1, <2>2
  <2>4. shifted \in Int
    BY <1>2, <2>3
  <2>5. sum \in Int
    <3> HIDE DEF shifted
    <3> QED BY <1>3, <2>4
  <2>6. Wrap(sum) \in Word
    <3> HIDE DEF sum
    <3> QED BY <1>1, <2>5
  <2>7. top \in {0, 1}
    BY <1>2, <1>3
  <2>8. q \in {0, 1} /\ 1 - q \in {0, 1}
    <3> HIDE DEF sum, top
    <3> QED BY <2>7
  <2>9. Div1(s, d) = [num |-> s.num, rem |-> Wrap(sum), q |-> q, t |-> 1 - q]
    BY DEF Div1
  <2> HIDE DEF sum, q
  <2> QED BY <1>3, <2>6, <2>8, <2>9 DEF Registers
<1> QED BY <1>4, <1>5

\* The registers when ___udivsi3 begins.
Cleared(n) == [num |-> n, rem |-> 0, q |-> 0, t |-> 0]

\* The registers after each of the divide steps.
LEMMA StepsTaken ==
    ASSUME NEW n \in Word, NEW d \in Word
    PROVE  /\ Steps(n, d)[0] = Cleared(n)
           /\ \A k \in 1 .. Width : Steps(n, d)[k] = Div1(Rotcl(Steps(n, d)[k - 1]), d)
           /\ \A k \in 0 .. Width : Steps(n, d)[k] \in Registers
<1> DEFINE step == [p \in (1 .. Width) \X Registers |-> Div1(Rotcl(p[2]), d)]
           F(g) == [k \in 0 .. Width |-> IF k = 0 THEN Cleared(n) ELSE Div1(Rotcl(g[k - 1]), d)]
           R == Steps(n, d)
<1>0. Width \in Nat
  BY WidthAssumption
<1>1. \A s \in Registers : Div1(Rotcl(s), d) \in Registers
  BY StepType
<1>2. step \in [(1 .. Width) \X Registers -> Registers]
  BY <1>1
<1>3. Cleared(n) \in Registers
  <2>1. 0 \in Word
    BY Halves DEF Word
  <2> QED BY <2>1 DEF Cleared, Registers
<1>4. PICK g : Built(g, Width, Registers, Cleared(n), step)
  <2> HIDE DEF step
  <2> QED BY <1>0, <1>2, <1>3, Recursion
<1>5. /\ g \in [0 .. Width -> Registers] /\ g[0] = Cleared(n)
      /\ \A k \in 1 .. Width : g[k] = step[<<k, g[k - 1]>>]
  BY <1>4 DEF Built
<1>6. g = F(g)
  <2>1. ASSUME NEW k \in 0 .. Width, k # 0 PROVE g[k] = Div1(Rotcl(g[k - 1]), d)
    <3>1. k \in 1 .. Width /\ k - 1 \in 0 .. Width
      BY <1>0, <2>1
    <3>2. g[k - 1] \in Registers
      BY <1>5, <3>1
    <3>3. step[<<k, g[k - 1]>>] = Div1(Rotcl(g[k - 1]), d)
      BY <3>1, <3>2
    <3> HIDE DEF step
    <3> QED BY <1>5, <3>1, <3>3
  <2> HIDE DEF step
  <2> QED BY <1>5, <2>1
<1>7. R = F(R)
  <2>1. Steps(n, d) = CHOOSE h : h = F(h)
    BY DEF Steps, Cleared
  <2> HIDE DEF F
  <2> QED BY <1>6, <2>1
<1>8. R[0] = Cleared(n) /\ \A k \in 1 .. Width : R[k] = Div1(Rotcl(R[k - 1]), d)
  <2> HIDE DEF R
  <2>1. R[0] = Cleared(n)
    <3>1. 0 \in 0 .. Width
      BY <1>0
    <3>2. F(R)[0] = Cleared(n)
      BY <3>1
    <3> HIDE DEF F
    <3> QED BY <1>7, <3>2
  <2>2. ASSUME NEW k \in 1 .. Width PROVE R[k] = Div1(Rotcl(R[k - 1]), d)
    <3>1. k \in 0 .. Width /\ k # 0
      BY <1>0
    <3>2. F(R)[k] = Div1(Rotcl(R[k - 1]), d)
      BY <3>1
    <3> HIDE DEF F
    <3> QED BY <1>7, <3>2
  <2> QED BY <2>1, <2>2
<1>9. \A k \in 0 .. Width : R[k] \in Registers
  <2> DEFINE S == {k \in Nat : k <= Width => R[k] \in Registers}
  <2> HIDE DEF R
  <2>1. 0 \in S
    BY <1>3, <1>8
  <2>2. ASSUME NEW m \in Nat, m \in S PROVE m + 1 \in S
    <3> SUFFICES ASSUME m + 1 <= Width PROVE R[m + 1] \in Registers
      OBVIOUS
    <3>1. R[m] \in Registers /\ m + 1 \in 1 .. Width /\ (m + 1) - 1 = m
      BY <1>0, <2>2
    <3>2. R[m + 1] = Div1(Rotcl(R[m]), d)
      BY <1>8, <3>1
    <3> QED BY <1>1, <3>1, <3>2
  <2>3. \A m \in Nat : m \in S
    <3> HIDE DEF S
    <3> QED BY <2>1, <2>2, SetInduction
  <2> QED BY <1>0, <2>3
<1> QED BY <1>8, <1>9

\* Long division.  Of the dividend n, the high part h has been divided and the low part l has
\* not; num holds l above the quotient's bits so far, b, of which T holds the last one; r is
\* the remainder of h.  p and m are the powers of two of the bits to come and of those done.
Divided(s, n, d, p, m, h, l, b, r) ==
    /\ n = h * p + l /\ l < p
    /\ s.num = l * m + b /\ b < m
    /\ h = (2 * b + s.t) * d + r /\ r < d
    /\ StandsFor(s, r, d)

\* A step of ___udivsi3 is a step of long division.
LEMMA DivideStep ==
    ASSUME NEW d \in 1 .. Span - 1, NEW s \in Registers, NEW p \in Nat \ {0}, NEW m \in Nat \ {0},
           p * m = Half, NEW n \in Nat,
           NEW h \in Nat, NEW l \in Nat, NEW b \in Nat, NEW r \in Nat,
           Divided(s, n, d, 2 * p, m, h, l, b, r)
    PROVE  \E g, k, c, e \in Nat : Divided(Div1(Rotcl(s), d), n, d, p, 2 * m, g, k, c, e)
<1> DEFINE bit == IF s.num < Half THEN 0 ELSE 1
           y == Rotcl(s)
           z == Div1(y, d)
           v == 2 * r + bit - d
           k == l - bit * p
           c == 2 * b + s.t
           g == 2 * h + bit
<1>0. Half \in Nat \ {0} /\ Span = 2 * Half /\ d \in Word /\ d \in Nat \ {0}
  BY Halves DEF Word
<1>1. /\ n = h * (2 * p) + l /\ l < 2 * p /\ s.num = l * m + b /\ b < m
      /\ h = (2 * b + s.t) * d + r /\ r < d /\ StandsFor(s, r, d)
  BY DEF Divided
<1>2. s.t \in {0, 1}
  BY DEF Registers
<1>3. l < p <=> s.num < Half
  <2>1. ASSUME l < p PROVE s.num < Half
    <3>1. PICK x \in Nat : p = l + 1 + x
      <4>1. p - l - 1 \in Nat /\ p = l + 1 + (p - l - 1)
        BY <2>1
      <4> QED BY <4>1
    <3>2. Half = l * m + m + x * m
      BY <3>1
    <3>3. x * m >= 0 /\ l * m \in Nat
      BY <3>1
    <3> QED BY <1>0, <1>1, <3>2, <3>3
  <2>2. ASSUME ~ (l < p) PROVE ~ (s.num < Half)
    <3>1. PICK x \in Nat : l = p + x
      <4>1. l - p \in Nat /\ l = p + (l - p)
        BY <2>2
      <4> QED BY <4>1
    <3>2. s.num = Half + x * m + b
      BY <1>1, <3>1
    <3>3. x * m \in Nat
      BY <3>1
    <3> QED BY <1>0, <3>2, <3>3
  <2> QED BY <2>1, <2>2
<1>4. y = [num |-> (2 * s.num + s.t) - bit * Span, rem |-> s.rem, q |-> s.q, t |-> bit]
  <2> HIDE DEF bit
  <2>1. bit = IF s.num < Half THEN 0 ELSE 1
    BY DEF bit
  <2> QED BY <2>1, RotclBits
<1>5. y \in Registers /\ bit \in {0, 1}
  BY <1>0, StepType
<1>6. k \in Nat /\ k < p /\ l = k + bit * p
  BY <1>1, <1>3
<1>7. y.num = k * (2 * m) + c
  <2>1. bit * Span = bit * (2 * (p * m))
    BY <1>0
  <2>2. y.num = (2 * ((k + bit * p) * m + b) + s.t) - bit * (2 * (p * m))
    <3> HIDE DEF bit, k
    <3> QED BY <1>1, <1>4, <1>6, <2>1
  <2>3. \A i \in {0, 1} : \A j, t \in Nat :
            (2 * ((j + i * p) * m + b) + t) - i * (2 * (p * m)) = j * (2 * m) + (2 * b + t)
    OBVIOUS
  <2>4. s.t \in Nat
    BY <1>2
  <2> HIDE DEF bit, k, y
  <2> QED BY <1>5, <1>6, <2>2, <2>3, <2>4 DEF c
<1>8. c \in Nat /\ c < 2 * m
  BY <1>1, <1>2
<1>9. g \in Nat /\ n = g * p + k
  <2>1. \A i \in {0, 1} : \A j \in Nat : h * (2 * p) + (j + i * p) = (2 * h + i) * p + j
    OBVIOUS
  <2>2. n = h * (2 * p) + (k + bit * p)
    <3> HIDE DEF bit, k
    <3> QED BY <1>1, <1>6
  <2> HIDE DEF bit, k
  <2> QED BY <1>5, <1>6, <2>1, <2>2
<1>10. z = IF v < 0 THEN [num |-> y.num, rem |-> v + Span, q |-> 1, t |-> 0]
           ELSE [num |-> y.num, rem |-> v, q |-> 0, t |-> 1]
  <2>1. y.t = bit /\ y.q = s.q /\ y.rem = s.rem
    BY <1>4
  <2>2. StandsFor(y, r, d)
    <3> HIDE DEF y
    <3> QED BY <1>1, <2>1 DEF StandsFor
  <2>3. r \in 0 .. d - 1
    BY <1>0, <1>1
  <2> HIDE DEF y, bit
  <2> QED BY <1>5, <2>1, <2>2, <2>3, Div1Step
<1>11. g = 2 * (c * d) + 2 * r + bit
  <2>1. h = c * d + r
    BY <1>1
  <2>2. c * d \in Nat
    BY <1>0, <1>8
  <2> HIDE DEF c, bit
  <2> QED BY <1>5, <2>1, <2>2
<1>12. CASE v < 0
  <2> DEFINE e == 2 * r + bit
  <2>1. e \in Nat /\ e < d /\ v + Span = e - d + Span
    <3> HIDE DEF bit
    <3> QED BY <1>0, <1>5, <1>12
  <2>2. z.num = y.num /\ z.rem = e - d + Span /\ z.q = 1 /\ z.t = 0
    <3> HIDE DEF z, y, v, e
    <3> QED BY <1>10, <1>12, <2>1
  <2>3. g = (2 * c + z.t) * d + e
    <3>1. (2 * c + 0) * d = 2 * (c * d)
      BY <1>0, <1>8
    <3> HIDE DEF g, z, c, bit
    <3> QED BY <1>0, <1>5, <1>8, <1>11, <2>2, <3>1
  <2>4. Divided(z, n, d, p, 2 * m, g, k, c, e)
    <3> HIDE DEF z, y, g, k, c, e
    <3> QED BY <1>6, <1>7, <1>8, <1>9, <2>1, <2>2, <2>3 DEF Divided, StandsFor
  <2> HIDE DEF z, g, k, c, e
  <2>5. \E g_1, k_1, c_1, e_1 \in Nat : Divided(z, n, d, p, 2 * m, g_1, k_1, c_1, e_1)
    BY <1>6, <1>8, <1>9, <2>1, <2>4
  <2> QED BY <2>5 DEF z
<1>13. CASE ~ (v < 0)
  <2>1. v \in Nat /\ v < d
    <3> HIDE DEF bit
    <3> QED BY <1>0, <1>1, <1>5, <1>13
  <2>2. z.num = y.num /\ z.rem = v /\ z.q = 0 /\ z.t = 1
    <3> HIDE DEF z, y, v
    <3> QED BY <1>10, <1>13
  <2>3. g = (2 * c + z.t) * d + v
    <3>1. (2 * c + 1) * d = 2 * (c * d) + d /\ c * d \in Nat
      BY <1>0, <1>8
    <3>2. v = 2 * r + bit - d
      OBVIOUS
    <3> HIDE DEF g, z, c, bit, v
    <3> QED BY <1>0, <1>5, <1>8, <1>11, <2>2, <3>1, <3>2
  <2>4. Divided(z, n, d, p, 2 * m, g, k, c, v)
    <3> HIDE DEF z, y, g, k, c, v
    <3> QED BY <1>6, <1>7, <1>8, <1>9, <2>1, <2>2, <2>3 DEF Divided, StandsFor
  <2> HIDE DEF z, g, k, c, v
  <2>5. \E g_1, k_1, c_1, e_1 \in Nat : Divided(z, n, d, p, 2 * m, g_1, k_1, c_1, e_1)
    BY <1>6, <1>8, <1>9, <2>1, <2>4
  <2> QED BY <2>5 DEF z
<1> QED BY <1>12, <1>13

\* After k steps, k bits of the quotient are there.
LEMMA LongDivision ==
    ASSUME NEW n \in Word, NEW d \in 1 .. Span - 1
    PROVE  \A k \in 0 .. Width : \E h, l, b, r \in Nat :
               Divided(Steps(n, d)[k], n, d, Power2[Width - k], Power2[k], h, l, b, r)
<1> DEFINE R == Steps(n, d)
           Inv(k) == \E h, l, b, r \in Nat :
                         Divided(R[k], n, d, Power2[Width - k], Power2[k], h, l, b, r)
           S == {k \in Nat : k <= Width => Inv(k)}
<1>0. Width \in Nat /\ d \in Word /\ d \in Nat \ {0} /\ n \in Nat /\ n < Span
  BY WidthAssumption, Halves DEF Word
<1>1. /\ R[0] = Cleared(n)
      /\ \A k \in 1 .. Width : R[k] = Div1(Rotcl(R[k - 1]), d)
      /\ \A k \in 0 .. Width : R[k] \in Registers
  BY <1>0, StepsTaken
<1> HIDE DEF R
<1>2. 0 \in S
  <2>1. Power2[Width - 0] = Span /\ Power2[0] = 1
    BY <1>0, PowersDouble DEF Span
  <2>2. Divided(Cleared(n), n, d, Span, 1, 0, n, 0, 0)
    <3>1. Span \in Nat /\ n = 0 * Span + n /\ n = n * 1 + 0 /\ 0 = (2 * 0 + 0) * d + 0
      BY <1>0, Halves
    <3> QED BY <1>0, <3>1 DEF Divided, StandsFor, Cleared
  <2>3. Inv(0)
    BY <1>0, <1>1, <2>1, <2>2
  <2> QED BY <2>3
<1>3. ASSUME NEW i \in Nat, i \in S PROVE i + 1 \in S
  <2> SUFFICES ASSUME i + 1 <= Width PROVE Inv(i + 1)
    OBVIOUS
  <2> DEFINE p == Power2[Width - (i + 1)]
             m == Power2[i]
  <2>1. /\ i \in 0 .. Width /\ i + 1 \in 1 .. Width /\ (i + 1) - 1 = i
        /\ Width - i \in 1 .. Width /\ Width - (i + 1) = (Width - i) - 1 /\ Width - (i + 1) \in 0 .. Width
    BY <1>0, <1>3
  <2>2. Power2[Width - i] = 2 * p /\ Power2[i + 1] = 2 * m /\ p \in Nat \ {0} /\ m \in Nat \ {0}
    BY <2>1, PowersDouble
  <2>3. p * m = Half
    <3>1. (2 * p) * m = Span
      BY <2>1, <2>2, PowersMultiply
    <3>2. (2 * p) * m = 2 * (p * m) /\ p * m \in Nat
      BY <2>2
    <3> HIDE DEF p, m
    <3> QED BY <3>1, <3>2, Halves
  <2>4. PICK h, l, b, r \in Nat : Divided(R[i], n, d, 2 * p, m, h, l, b, r)
    BY <1>3, <2>1, <2>2
  <2>5. \E h_1, l_1, b_1, r_1 \in Nat : Divided(Div1(Rotcl(R[i]), d), n, d, p, 2 * m, h_1, l_1, b_1, r_1)
    <3>1. R[i] \in Registers
      BY <1>1, <2>1
    <3> HIDE DEF p, m
    <3> QED BY <1>0, <2>2, <2>3, <2>4, <3>1, DivideStep
  <2>6. R[i + 1] = Div1(Rotcl(R[i]), d)
    BY <1>1, <2>1
  <2> QED BY <2>2, <2>5, <2>6
<1>4. \A k \in Nat : k \in S
  <2> HIDE DEF S
  <2> QED BY <1>2, <1>3, SetInduction
<1> QED BY <1>0, <1>4 DEF R

\* ___udivsi3 divides.
LEMMA QuotientExact ==
    ASSUME NEW n \in Word, NEW d \in 1 .. Span - 1
    PROVE  Quotient(n, d) = n \div d
<1> DEFINE s == Steps(n, d)[Width]
<1>0. Width \in Nat /\ d \in Word /\ d \in Nat \ {0} /\ n \in Nat /\ n < Span /\ Span \in Nat \ {0}
  BY WidthAssumption, Halves DEF Word
<1>1. Power2[Width - Width] = 1 /\ Power2[Width] = Span
  BY <1>0, PowersDouble DEF Span
<1>2. PICK h, l, b, r \in Nat : Divided(s, n, d, 1, Span, h, l, b, r)
  <2>1. Width \in 0 .. Width
    BY <1>0
  <2>2. \E h, l, b, r \in Nat :
            Divided(Steps(n, d)[Width], n, d, Power2[Width - Width], Power2[Width], h, l, b, r)
    BY <2>1, LongDivision
  <2> QED BY <1>1, <2>2
<1>3. s \in Registers
  BY <1>0, StepsTaken
<1> HIDE DEF s
<1>4. s.t \in {0, 1}
  BY <1>3 DEF Registers
<1> DEFINE c == 2 * b + s.t
<1>5. s.num = b /\ n = c * d + r /\ r < d
  BY <1>0, <1>2 DEF Divided
<1>6. c \in Nat /\ c <= c * d
  <2>1. c \in Nat
    BY <1>4
  <2>2. c * d = c + c * (d - 1) /\ d - 1 \in Nat
    BY <1>0, <2>1
  <2>3. c * (d - 1) \in Nat
    BY <2>1, <2>2
  <2> HIDE DEF c
  <2> QED BY <2>1, <2>2, <2>3
<1>7. c \in Word
  <2> HIDE DEF c
  <2> QED BY <1>0, <1>5, <1>6 DEF Word
<1>8. Wrap(c) = c
  <2> HIDE DEF c
  <2> QED BY <1>6, <1>7, WrappedNear
<1>9. Quotient(n, d) = Wrap(2 * s.num + s.t)
  BY DEF Quotient, Rotcl, s
<1>10. Quotient(n, d) = c
  BY <1>5, <1>8, <1>9
<1>11. n \div d = c
  <2>1. r \in 0 .. d - 1
    BY <1>0, <1>5
  <2> HIDE DEF c
  <2> QED BY <1>0, <1>5, <1>6, <2>1, Division, SMTT(20)
<1> QED BY <1>10, <1>11

\* A quotient is no larger than the dividend.
LEMMA QuotientSmall ==
    ASSUME NEW n \in Nat, NEW d \in Nat \ {0}
    PROVE  n \div d \in 0 .. n
<1> DEFINE c == n \div d
<1>1. c \in Int /\ n % d \in 0 .. d - 1 /\ n = d * c + (n % d)
  OBVIOUS
<1>2. c >= 0
  <2>1. ASSUME c < 0 PROVE FALSE
    <3>1. PICK x \in Nat : c = -1 - x
      <4>1. -1 - c \in Nat /\ c = -1 - (-1 - c)
        BY <1>1, <2>1
      <4> QED BY <4>1
    <3>2. d * c = - d - d * x /\ d * x \in Nat
      BY <3>1
    <3> HIDE DEF c
    <3> QED BY <1>1, <3>2
  <2> QED BY <1>1, <2>1
<1>3. d * c = c + (d - 1) * c /\ (d - 1) * c \in Nat
  <2> HIDE DEF c
  <2> QED BY <1>1, <1>2
<1> HIDE DEF c
<1>4. c <= n
  BY <1>1, <1>2, <1>3
<1> QED BY <1>1, <1>2, <1>4 DEF c

\* Numbers a whole count of spans apart wrap to the same word.
LEMMA Congruent ==
    ASSUME NEW a \in Int, NEW b \in Int, NEW k \in Int, a = b + k * Span
    PROVE  Wrap(a) = Wrap(b)
<1>0. Span \in Nat \ {0}
  BY Halves
<1>1. PICK c \in Int : b = c * Span + Wrap(b)
  <2>1. b \div Span \in Int /\ b = (b \div Span) * Span + (b % Span)
    BY <1>0
  <2> QED BY <2>1 DEF Wrap
<1>2. Wrap(b) \in Word
  BY WrappedNear
<1> DEFINE w == Wrap(b)
<1>3. w \in Int
  BY <1>0, <1>2 DEF Word
<1> HIDE DEF w
<1>4. a = (c + k) * Span + w
  BY <1>0, <1>1, <1>3 DEF w
<1>5. c + k \in Int
  OBVIOUS
<1> QED BY <1>2, <1>4, <1>5, Wrapped DEF w

\* A word, read with its sign.
LEMMA SignedWord ==
    ASSUME NEW w \in Word
    PROVE  /\ Signed(w) \in - Half .. Half - 1
           /\ w = Signed(w) \/ w = Signed(w) + Span
           /\ Negative(w) <=> Signed(w) < 0
           /\ Magnitude(w) = Abs(Signed(w))
           /\ Abs(Signed(w)) \in 0 .. Half
           /\ w # 0 => Abs(Signed(w)) > 0
<1>0. /\ Half \in Nat \ {0} /\ Span = 2 * Half /\ Span \div 2 = Half /\ Span \in Nat \ {0}
      /\ w \in 0 .. Span - 1
  BY Halves DEF Word
<1>1. CASE w < Half
  <2>1. Signed(w) = w /\ ~ Negative(w) /\ Magnitude(w) = w
    BY <1>0, <1>1 DEF Signed, Negative, Magnitude
  <2> QED BY <1>0, <1>1, <2>1 DEF Abs
<1>2. CASE ~ (w < Half)
  <2>1. Signed(w) = w - Span /\ Negative(w) /\ Magnitude(w) = Wrap(- w)
    BY <1>0, <1>2 DEF Signed, Negative, Magnitude
  <2>2. - w \in Int /\ - w + Span \in Word
    BY <1>0, <1>2 DEF Word
  <2>3. Wrap(- w) = - w + Span
    BY <2>2, WrappedNear
  <2> QED BY <1>0, <1>2, <2>1, <2>3 DEF Abs
<1> QED BY <1>1, <1>2

\* ___sdivsi3 divides as C does, cutting towards zero.
LEMMA SignedQuotient ==
    ASSUME NEW n \in Word, NEW d \in Word, d # 0
    PROVE  /\ Truncated(Signed(n), Signed(d)) \in Int
           /\ sdivsi3(n, d) = Wrap(Truncated(Signed(n), Signed(d)))
<1> DEFINE u == Abs(Signed(n))
           v == Abs(Signed(d))
           q == u \div v
<1>0. Half \in Nat \ {0} /\ Span = 2 * Half
  BY Halves
<1>1. u \in 0 .. Half /\ v \in 1 .. Half /\ Magnitude(n) = u /\ Magnitude(d) = v
  <2> HIDE DEF u, v
  <2>1. u \in 0 .. Half /\ v \in 0 .. Half /\ v > 0 /\ Magnitude(n) = u /\ Magnitude(d) = v
    BY SignedWord DEF u, v
  <2> QED BY <1>0, <2>1
<1>2. (Negative(n) <=> Signed(n) < 0) /\ (Negative(d) <=> Signed(d) < 0)
  BY SignedWord
<1> HIDE DEF u, v
<1>3. q \in 0 .. Half
  <2>1. u \in Nat /\ v \in Nat \ {0}
    BY <1>0, <1>1
  <2>2. q \in 0 .. u
    BY <2>1, QuotientSmall
  <2> HIDE DEF q
  <2> QED BY <1>0, <1>1, <2>1, <2>2
<1>4. Quotient(Magnitude(n), Magnitude(d)) = q
  <2>1. u \in Word /\ v \in 1 .. Span - 1
    BY <1>0, <1>1 DEF Word
  <2> QED BY <1>1, <2>1, QuotientExact
<1>5. q \in Int /\ Wrap(q) = q
  <2> HIDE DEF q
  <2>1. q \in Word /\ q \in Int
    BY <1>0, <1>3 DEF Word
  <2> QED BY <2>1, WrappedNear
<1>6. CASE Negative(n) # Negative(d)
  <2>1. ~ ((Signed(n) < 0) = (Signed(d) < 0))
    BY <1>2, <1>6 DEF Negative
  <2>2. Truncated(Signed(n), Signed(d)) = - q
    BY <2>1 DEF Truncated, u, v
  <2>3. sdivsi3(n, d) = Wrap(- q)
    <3> HIDE DEF q
    <3> QED BY <1>4, <1>6 DEF sdivsi3
  <2> HIDE DEF q
  <2> QED BY <1>5, <2>2, <2>3
<1>7. CASE ~ (Negative(n) # Negative(d))
  <2>1. (Signed(n) < 0) = (Signed(d) < 0)
    BY <1>2, <1>7 DEF Negative
  <2>2. Truncated(Signed(n), Signed(d)) = q
    BY <2>1 DEF Truncated, u, v
  <2>3. sdivsi3(n, d) = q
    <3> HIDE DEF q
    <3> QED BY <1>4, <1>7 DEF sdivsi3
  <2> HIDE DEF q
  <2> QED BY <1>5, <2>2, <2>3
<1> QED BY <1>6, <1>7

\* __umodsi3 gives the remainder.
LEMMA UnsignedRemainder ==
    ASSUME NEW n \in Word, NEW d \in Word, d # 0
    PROVE  udivsi3(n, d) = n \div d /\ umodsi3(n, d) = n % d
<1>0. n \in Nat /\ d \in Nat \ {0} /\ d \in 1 .. Span - 1 /\ Span \in Nat
  BY Halves DEF Word
<1>1. udivsi3(n, d) = n \div d
  BY <1>0, QuotientExact DEF udivsi3
<1>2. n - (n \div d) * d = n % d /\ n % d \in 0 .. d - 1
  BY <1>0
<1>3. n % d \in Word /\ n % d \in Int
  BY <1>0, <1>2 DEF Word
<1>4. Wrap(n % d) = n % d
  BY <1>3, WrappedNear
<1>5. umodsi3(n, d) = Wrap(n - udivsi3(n, d) * d)
  BY DEF umodsi3
<1> QED BY <1>1, <1>2, <1>4, <1>5

\* __modsi3 gives the remainder that goes with the quotient of C.
LEMMA SignedRemainder ==
    ASSUME NEW n \in Word, NEW d \in Word, d # 0
    PROVE  LET q == Truncated(Signed(n), Signed(d)) IN
           modsi3(n, d) = Wrap(Signed(n) - q * Signed(d))
<1> DEFINE q == Truncated(Signed(n), Signed(d))
           x == Signed(n)
           y == Signed(d)
<1>0. Span \in Nat \ {0} /\ Half \in Nat
  BY Halves
<1>1. q \in Int /\ sdivsi3(n, d) = Wrap(q)
  BY SignedQuotient
<1>2. x \in Int /\ y \in Int
  <2>1. x \in - Half .. Half - 1 /\ y \in - Half .. Half - 1
    BY SignedWord
  <2> HIDE DEF x, y
  <2> QED BY <1>0, <2>1
<1>3. PICK a \in Int : n = x + a * Span
  <2>1. n = x + 0 * Span \/ n = x + 1 * Span
    <3>1. n = x \/ n = x + Span
      BY SignedWord
    <3> HIDE DEF x
    <3> QED BY <1>0, <1>2, <3>1
  <2> HIDE DEF x
  <2> QED BY <2>1
<1>4. PICK b \in Int : d = y + b * Span
  <2>1. d = y + 0 * Span \/ d = y + 1 * Span
    <3>1. d = y \/ d = y + Span
      BY SignedWord
    <3> HIDE DEF y
    <3> QED BY <1>0, <1>2, <3>1
  <2> HIDE DEF y
  <2> QED BY <2>1
<1> HIDE DEF q, x, y
<1>5. PICK c \in Int : Wrap(q) = q + c * Span
  <2>1. q \div Span \in Int /\ q = (q \div Span) * Span + (q % Span) /\ q % Span \in Int
    BY <1>0, <1>1
  <2>2. Wrap(q) = q + (- (q \div Span)) * Span
    BY <1>0, <1>1, <2>1 DEF Wrap
  <2>3. - (q \div Span) \in Int
    BY <2>1
  <2> QED BY <2>2, <2>3
<1>6. n - Wrap(q) * d = (x - q * y) + (a - q * b - c * y - (c * b) * Span) * Span
  <2>1. (x + a * Span) - (q + c * Span) * (y + b * Span)
            = (x - q * y) + (a - q * b - c * y - (c * b) * Span) * Span
    BY <1>0, <1>1, <1>2
  <2> QED BY <1>3, <1>4, <1>5, <2>1
<1>7. /\ n - Wrap(q) * d \in Int /\ x - q * y \in Int
      /\ a - q * b - c * y - (c * b) * Span \in Int
  <2>1. n \in Int /\ d \in Int
    BY <1>0 DEF Word
  <2> QED BY <1>0, <1>1, <1>2, <1>5, <2>1
<1>8. Wrap(n - Wrap(q) * d) = Wrap(x - q * y)
  BY <1>6, <1>7, Congruent
<1>9. modsi3(n, d) = Wrap(n - Wrap(q) * d)
  BY <1>1 DEF modsi3
<1> QED BY <1>8, <1>9 DEF q, x, y

------------------------------------------------------------------------------
(* Buffers *)

\* Bytes have been moved in order, the last k of them or the first.
AfterMoves(mem, m, dst, src, n, k) ==
    m = [j \in DOMAIN mem |->
            IF j \in (IF dst < src THEN dst .. dst + k - 1 ELSE dst + n - k .. dst + n - 1)
            THEN mem[j - dst + src] ELSE mem[j]]

\* Whichever way the blocks overlap, the next byte is read before it is overwritten.
LEMMA MoveStep ==
    ASSUME NEW size \in Nat, NEW S, NEW mem \in [1 .. size -> S], NEW m,
           NEW dst \in Nat \ {0}, NEW src \in Nat \ {0}, NEW n \in Nat, NEW k \in 1 .. n,
           dst + n <= size + 1, src + n <= size + 1, dst # src,
           AfterMoves(mem, m, dst, src, n, k - 1)
    PROVE  LET o == MoveOrder(dst, src, n)[k] IN
           AfterMoves(mem, Moved(m, dst + o, src + o), dst, src, n, k)
<1> DEFINE o == IF dst < src THEN k - 1 ELSE n - k
           to == dst + o
           from == src + o
           z == Moved(m, to, from)
<1>1. MoveOrder(dst, src, n)[k] = o
  BY DEF MoveOrder
<1>2. o \in 0 .. n - 1 /\ to \in 1 .. size /\ from \in 1 .. size
  OBVIOUS
<1>3. /\ DOMAIN m = 1 .. size /\ DOMAIN mem = 1 .. size
      /\ \A j \in 1 .. size : m[j] =
            IF j \in (IF dst < src THEN dst .. dst + (k - 1) - 1 ELSE dst + n - (k - 1) .. dst + n - 1)
            THEN mem[j - dst + src] ELSE mem[j]
  BY DEF AfterMoves
<1>4. m[from] = mem[from]
  BY <1>2, <1>3
<1>5. z = [j \in 1 .. size |-> IF j = to THEN m[from] ELSE m[j]]
  <2> HIDE DEF to, from
  <2> QED BY <1>3 DEF Moved
<1>6. ASSUME NEW j \in 1 .. size
      PROVE  (IF j = to THEN m[from] ELSE m[j]) =
                IF j \in (IF dst < src THEN dst .. dst + k - 1 ELSE dst + n - k .. dst + n - 1)
                THEN mem[j - dst + src] ELSE mem[j]
  <2>1. CASE j = to
    <3>1. j - dst + src = from
      BY <1>2, <2>1
    <3>2. j \in (IF dst < src THEN dst .. dst + k - 1 ELSE dst + n - k .. dst + n - 1)
      BY <1>2, <2>1
    <3> HIDE DEF to, from
    <3> QED BY <1>4, <2>1, <3>1, <3>2
  <2>2. CASE j # to
    <3>1. j \in (IF dst < src THEN dst .. dst + k - 1 ELSE dst + n - k .. dst + n - 1)
            <=> j \in (IF dst < src THEN dst .. dst + (k - 1) - 1 ELSE dst + n - (k - 1) .. dst + n - 1)
      BY <2>2
    <3> HIDE DEF to, from
    <3> QED BY <1>3, <2>2, <3>1
  <2> QED BY <2>1, <2>2
<1>7. AfterMoves(mem, z, dst, src, n, k)
  <2> HIDE DEF z, to, from
  <2> QED BY <1>3, <1>5, <1>6 DEF AfterMoves
<1> QED BY <1>1, <1>7

\* Induction up to a bound.
LEMMA CountTo ==
    ASSUME NEW N \in Nat, NEW S, 0 \in S, \A k \in 1 .. N : k - 1 \in S => k \in S
    PROVE  \A k \in 0 .. N : k \in S
<1> DEFINE T == {k \in Nat : k <= N => k \in S}
<1>1. 0 \in T
  OBVIOUS
<1>2. ASSUME NEW k \in Nat, k \in T PROVE k + 1 \in T
  <2> SUFFICES ASSUME k + 1 <= N PROVE k + 1 \in S
    OBVIOUS
  <2>1. k + 1 \in 1 .. N /\ (k + 1) - 1 = k /\ k \in S
    BY <1>2
  <2> QED BY <2>1
<1>3. \A k \in Nat : k \in T
  <2> HIDE DEF T
  <2> QED BY <1>1, <1>2, SetInduction
<1> QED BY <1>3

\* Memory in which the n bytes from dst on are what those from src on were.
Replaced(mem, size, dst, src, n) ==
    [j \in 1 .. size |-> IF j \in dst .. dst + n - 1 THEN mem[j - dst + src] ELSE mem[j]]

\* memmove moves a block onto any other block, overlapping or not.
LEMMA MemmoveMoves ==
    ASSUME NEW size \in Nat, NEW S, NEW mem \in [1 .. size -> S],
           NEW dst \in Nat \ {0}, NEW src \in Nat \ {0}, NEW n \in Nat,
           dst + n <= size + 1, src + n <= size + 1
    PROVE  memmove(mem, dst, src, n) = Replaced(mem, size, dst, src, n)
<1> DEFINE order == MoveOrder(dst, src, n)
           V == [1 .. size -> S]
           step == [p \in (1 .. n) \X V |-> Moved(p[2], dst + order[p[1]], src + order[p[1]])]
           F(g) == [k \in 0 .. n |-> IF k = 0 THEN mem
                                     ELSE Moved(g[k - 1], dst + order[k], src + order[k])]
           M == CHOOSE g : g = F(g)
<1>1. CASE dst = src
  <2>1. memmove(mem, dst, src, n) = mem
    BY <1>1 DEF memmove
  <2>2. \A j \in 1 .. size : j - dst + src = j
    BY <1>1
  <2>3. Replaced(mem, size, dst, src, n) = [j \in 1 .. size |-> mem[j]]
    BY <2>2 DEF Replaced
  <2> QED BY <2>1, <2>3
<1>2. CASE dst # src
  <2>1. \A k \in 1 .. n : dst + order[k] \in 1 .. size /\ src + order[k] \in 1 .. size
    BY DEF MoveOrder
  <2> HIDE DEF order
  <2>2. step \in [(1 .. n) \X V -> V]
    <3> SUFFICES ASSUME NEW k \in 1 .. n, NEW m \in V
                 PROVE  Moved(m, dst + order[k], src + order[k]) \in V
      OBVIOUS
    <3>1. m[src + order[k]] \in S
      BY <2>1
    <3> QED BY <3>1 DEF Moved
  <2>3. PICK g : Built(g, n, V, mem, step)
    <3> HIDE DEF step, V
    <3>1. mem \in V
      BY DEF V
    <3> QED BY <2>2, <3>1, Recursion
  <2>4. /\ g \in [0 .. n -> V] /\ g[0] = mem
        /\ \A k \in 1 .. n : g[k] = step[<<k, g[k - 1]>>]
    BY <2>3 DEF Built
  <2>5. g = F(g)
    <3>1. ASSUME NEW k \in 0 .. n, k # 0
          PROVE  g[k] = Moved(g[k - 1], dst + order[k], src + order[k])
      <4>1. k \in 1 .. n /\ k - 1 \in 0 .. n
        BY <3>1
      <4>2. g[k - 1] \in V
        <5> HIDE DEF V, step
        <5> QED BY <2>4, <4>1
      <4>3. step[<<k, g[k - 1]>>] = Moved(g[k - 1], dst + order[k], src + order[k])
        <5> HIDE DEF V
        <5> QED BY <4>1, <4>2
      <4> HIDE DEF step, V
      <4> QED BY <2>4, <4>1, <4>3
    <3> HIDE DEF step, V
    <3> QED BY <2>4, <3>1
  <2>6. M = F(M)
    <3> HIDE DEF F
    <3> QED BY <2>5
  <2> HIDE DEF M
  <2>7. M[0] = mem /\ \A k \in 1 .. n : M[k] = Moved(M[k - 1], dst + order[k], src + order[k])
    BY <2>6
  <2> DEFINE T == {k \in 0 .. n : AfterMoves(mem, M[k], dst, src, n, k)}
  <2>8. 0 \in T
    <3>1. mem = [j \in 1 .. size |-> mem[j]] /\ DOMAIN mem = 1 .. size
      OBVIOUS
    <3>2. \A j : j \notin (IF dst < src THEN dst .. dst + 0 - 1 ELSE dst + n - 0 .. dst + n - 1)
      OBVIOUS
    <3>3. mem = [j \in DOMAIN mem |->
                   IF j \in (IF dst < src THEN dst .. dst + 0 - 1 ELSE dst + n - 0 .. dst + n - 1)
                   THEN mem[j - dst + src] ELSE mem[j]]
      BY <3>1, <3>2
    <3>4. AfterMoves(mem, mem, dst, src, n, 0)
      BY <3>3 DEF AfterMoves
    <3> QED BY <2>7, <3>4
  <2>9. ASSUME NEW k \in 1 .. n, k - 1 \in T PROVE k \in T
    <3>1. AfterMoves(mem, M[k - 1], dst, src, n, k - 1)
      BY <2>9
    <3>2. AfterMoves(mem, Moved(M[k - 1], dst + order[k], src + order[k]), dst, src, n, k)
      <4> HIDE DEF F
      <4> QED BY <1>2, <3>1, MoveStep DEF order
    <3> QED BY <2>7, <3>2
  <2>10. \A k \in 0 .. n : k \in T
    <3> HIDE DEF T
    <3> QED BY <2>8, <2>9, CountTo
  <2>11. AfterMoves(mem, M[n], dst, src, n, n)
    BY <2>10
  <2>12. memmove(mem, dst, src, n) = M[n]
    BY <1>2 DEF memmove, M, order
  <2>13. M[n] = [j \in 1 .. size |-> IF j \in (IF dst < src THEN dst .. dst + n - 1
                                               ELSE dst + n - n .. dst + n - 1)
                                     THEN mem[j - dst + src] ELSE mem[j]]
    BY <2>11 DEF AfterMoves
  <2>14. dst + n - n = dst
    OBVIOUS
  <2>15. DOMAIN mem = 1 .. size
    OBVIOUS
  <2>16. M[n] = [j \in 1 .. size |-> IF j \in dst .. dst + n - 1 THEN mem[j - dst + src] ELSE mem[j]]
    BY <2>13, <2>14, <2>15
  <2> QED BY <2>12, <2>16 DEF Replaced
<1> QED BY <1>1, <1>2

\* rt_wcscpy_n cuts the text to its buffer.
LEMMA CopyCuts ==
    ASSUME NEW cap \in Nat, NEW text \in Seq(Char)
    PROVE  wcscpy_n(Fresh(cap), text) = Terminated(text, cap)
<1> DEFINE n == Smaller(Len(text), cap - 1)
           m == IF Len(text) + 1 < cap THEN Len(text) ELSE cap - 1
           to == Fresh(cap)
<1>1. to = [k \in 1 .. cap |-> "old"] /\ to \in Seq(Char) /\ Len(to) = cap
  <2>1. to = [k \in 1 .. cap |-> "old"]
    BY DEF Fresh
  <2>2. to \in [1 .. cap -> Char]
    <3>1. "old" \in Char
      BY DEF Char
    <3>2. \A S : \A x \in S : [k \in 1 .. cap |-> x] \in [1 .. cap -> S]
      OBVIOUS
    <3> HIDE DEF to
    <3> QED BY <2>1, <3>1, <3>2
  <2>3. to \in Seq(Char) /\ Len(to) = cap
    <3> HIDE DEF to
    <3> QED BY <2>2
  <2> QED BY <2>1, <2>3
<1>2. Len(text) \in Nat /\ n = m
  BY DEF Smaller
<1>3. CASE cap = 0
  <2>1. to = <<>>
    BY <1>1, <1>3
  <2>2. wcscpy_n(to, text) = to
    BY <2>1 DEF wcscpy_n
  <2>3. Terminated(text, cap) = [k \in 1 .. 0 |-> "old"]
    BY <1>3 DEF Terminated
  <2> QED BY <1>1, <1>3, <2>2, <2>3
<1>4. CASE cap # 0
  <2>1. to # <<>>
    BY <1>1, <1>4
  <2>2. wcscpy_n(to, text) =
            [k \in 1 .. cap |-> IF k <= m THEN text[k] ELSE IF k = m + 1 THEN "nul" ELSE to[k]]
    <3> HIDE DEF to
    <3> QED BY <1>1, <2>1 DEF wcscpy_n
  <2>3. \A k \in 1 .. cap : to[k] = "old"
    BY <1>1
  <2>4. wcscpy_n(to, text) =
            [k \in 1 .. cap |-> IF k <= n THEN text[k] ELSE IF k = n + 1 THEN "nul" ELSE "old"]
    <3> HIDE DEF to, m, n
    <3> QED BY <1>2, <2>2, <2>3
  <2>5. Terminated(text, cap) =
            [k \in 1 .. cap |-> IF k <= n THEN text[k] ELSE IF k = n + 1 THEN "nul" ELSE "old"]
    BY DEF Terminated
  <2> QED BY <2>4, <2>5
<1> QED BY <1>3, <1>4

\* The character a sink writes.
Shown(narrow, ch) == IF narrow /\ ch = "wide" THEN "?" ELSE ch

\* The sink after k characters: those that leave room for the NUL are in the buffer.
Sunk(cap, narrow, text, k) ==
    [buf |-> [j \in 1 .. cap |-> IF j <= Smaller(k, cap - 1) THEN Shown(narrow, text[j]) ELSE "old"],
     len |-> k, narrow |-> narrow]

\* It has the buffer of the caller's size.
LEMMA SunkType ==
    ASSUME NEW cap \in Nat, NEW narrow \in BOOLEAN, NEW text \in Seq(Char), NEW k \in 0 .. Len(text)
    PROVE  /\ Sunk(cap, narrow, text, k).buf \in Seq(Char)
           /\ Len(Sunk(cap, narrow, text, k).buf) = cap
<1> DEFINE buf == [j \in 1 .. cap |-> IF j <= Smaller(k, cap - 1) THEN Shown(narrow, text[j])
                                      ELSE "old"]
<1>1. ASSUME NEW j \in 1 .. cap, j <= Smaller(k, cap - 1) PROVE Shown(narrow, text[j]) \in Char
  <2>1. j \in 1 .. Len(text)
    BY <1>1 DEF Smaller
  <2>2. text[j] \in Char
    BY <2>1
  <2>3. "?" \in Char
    BY DEF Char
  <2> QED BY <2>2, <2>3 DEF Shown
<1>2. "old" \in Char
  BY DEF Char
<1>3. buf \in [1 .. cap -> Char]
  BY <1>1, <1>2
<1>4. buf \in Seq(Char) /\ Len(buf) = cap
  <2> HIDE DEF buf
  <2> QED BY <1>3
<1>5. Sunk(cap, narrow, text, k).buf = buf
  BY DEF Sunk
<1> HIDE DEF buf
<1> QED BY <1>4, <1>5

\* put adds the next.
LEMMA PutNext ==
    ASSUME NEW cap \in Nat, NEW narrow \in BOOLEAN, NEW text \in Seq(Char), NEW k \in 1 .. Len(text)
    PROVE  put(Sunk(cap, narrow, text, k - 1), text[k]) = Sunk(cap, narrow, text, k)
<1> DEFINE s == Sunk(cap, narrow, text, k - 1)
           old == [j \in 1 .. cap |-> IF j <= Smaller(k - 1, cap - 1) THEN Shown(narrow, text[j])
                                      ELSE "old"]
           new == [j \in 1 .. cap |-> IF j <= Smaller(k, cap - 1) THEN Shown(narrow, text[j])
                                      ELSE "old"]
           ch == Shown(narrow, text[k])
<1>1. s.buf = old /\ s.len = k - 1 /\ s.narrow = narrow
  BY DEF Sunk
<1>2. Len(s.buf) = cap
  <2>1. k - 1 \in 0 .. Len(text)
    OBVIOUS
  <2> QED BY <2>1, SunkType
<1>3. put(s, text[k]) =
          [buf |-> IF k < cap THEN [old EXCEPT ![k] = ch] ELSE old, len |-> k, narrow |-> narrow]
  <2>1. (k - 1) + 1 = k
    OBVIOUS
  <2> HIDE DEF s, old
  <2> QED BY <1>1, <1>2, <2>1 DEF put, Shown
<1>4. (IF k < cap THEN [old EXCEPT ![k] = ch] ELSE old) = new
  <2>1. CASE k < cap
    <3>1. k \in 1 .. cap
      BY <2>1
    <3>2. \A j \in 1 .. cap : j <= Smaller(k, cap - 1) <=> j = k \/ j <= Smaller(k - 1, cap - 1)
      BY <2>1 DEF Smaller
    <3>3. [old EXCEPT ![k] = ch] = [j \in 1 .. cap |-> IF j = k THEN ch ELSE old[j]]
      <4> HIDE DEF ch
      <4> QED OBVIOUS
    <3>4. \A j \in 1 .. cap : (IF j = k THEN ch ELSE old[j]) = new[j]
      <4> HIDE DEF Shown
      <4> QED BY <3>2
    <3>5. [j \in 1 .. cap |-> IF j = k THEN ch ELSE old[j]] = [j \in 1 .. cap |-> new[j]]
      <4> HIDE DEF ch, old, new
      <4> QED BY <3>4
    <3>6. new = [j \in 1 .. cap |-> new[j]]
      OBVIOUS
    <3> HIDE DEF ch, old, new
    <3> QED BY <2>1, <3>3, <3>5, <3>6
  <2>2. CASE ~ (k < cap)
    <3>1. Smaller(k, cap - 1) = Smaller(k - 1, cap - 1)
      BY <2>2 DEF Smaller
    <3> QED BY <2>2, <3>1
  <2> QED BY <2>1, <2>2
<1>5. Sunk(cap, narrow, text, k) = [buf |-> new, len |-> k, narrow |-> narrow]
  BY DEF Sunk
<1> HIDE DEF s, old, new, ch
<1> QED BY <1>3, <1>4, <1>5 DEF s

\* The characters are put one after the other.
LEMMA PutAllPuts ==
    ASSUME NEW cap \in Nat, NEW narrow \in BOOLEAN, NEW text \in Seq(Char)
    PROVE  PutAll([buf |-> Fresh(cap), len |-> 0, narrow |-> narrow], text)
               = Sunk(cap, narrow, text, Len(text))
<1> DEFINE sink == [buf |-> Fresh(cap), len |-> 0, narrow |-> narrow]
           n == Len(text)
           F(h) == [k \in 0 .. n |-> IF k = 0 THEN sink ELSE put(h[k - 1], text[k])]
           g == [k \in 0 .. n |-> Sunk(cap, narrow, text, k)]
           P == CHOOSE h : h = F(h)
<1>0. n \in Nat
  OBVIOUS
<1>1. sink = Sunk(cap, narrow, text, 0)
  <2>1. \A j \in 1 .. cap : ~ (j <= Smaller(0, cap - 1))
    BY DEF Smaller
  <2>2. [j \in 1 .. cap |-> IF j <= Smaller(0, cap - 1) THEN Shown(narrow, text[j]) ELSE "old"]
            = [j \in 1 .. cap |-> "old"]
    BY <2>1
  <2> QED BY <2>2 DEF Sunk, Fresh
<1>2. \A k \in 1 .. n : put(Sunk(cap, narrow, text, k - 1), text[k]) = Sunk(cap, narrow, text, k)
  BY PutNext
<1> HIDE DEF sink, n
<1>3. g = F(g)
  <2>1. ASSUME NEW k \in 0 .. n
        PROVE  g[k] = IF k = 0 THEN sink ELSE put(g[k - 1], text[k])
    <3>1. CASE k = 0
      BY <1>1, <3>1
    <3>2. CASE k # 0
      <4>1. k \in 1 .. n /\ k - 1 \in 0 .. n
        BY <1>0, <3>2
      <4>2. g[k - 1] = Sunk(cap, narrow, text, k - 1) /\ g[k] = Sunk(cap, narrow, text, k)
        BY <4>1
      <4> HIDE DEF g
      <4> QED BY <1>2, <3>2, <4>1, <4>2
    <3> QED BY <3>1, <3>2
  <2>2. g = [k \in 0 .. n |-> g[k]]
    OBVIOUS
  <2> HIDE DEF g
  <2> QED BY <2>1, <2>2
<1>4. P = F(P)
  <2> HIDE DEF F, g
  <2> QED BY <1>3
<1> HIDE DEF P
<1>5. P[0] = sink /\ \A k \in 1 .. n : P[k] = put(P[k - 1], text[k])
  BY <1>0, <1>4
<1> DEFINE T == {k \in 0 .. n : P[k] = Sunk(cap, narrow, text, k)}
<1>6. 0 \in T
  BY <1>0, <1>1, <1>5
<1>7. ASSUME NEW k \in 1 .. n, k - 1 \in T PROVE k \in T
  <2>1. P[k - 1] = Sunk(cap, narrow, text, k - 1) /\ k \in 0 .. n
    BY <1>0, <1>7
  <2> QED BY <1>2, <1>5, <2>1
<1>8. \A k \in 0 .. n : k \in T
  <2> HIDE DEF T
  <2> QED BY <1>0, <1>6, <1>7, CountTo
<1>9. P[n] = Sunk(cap, narrow, text, n)
  BY <1>0, <1>8
<1>10. PutAll(sink, text) = P[n]
  BY DEF PutAll, P, n
<1> QED BY <1>9, <1>10 DEF sink, n

\* finish ends the text with a NUL.
LEMMA FinishEnds ==
    ASSUME NEW cap \in Nat, NEW narrow \in BOOLEAN, NEW text \in Seq(Char)
    PROVE  LET z == finish(Sunk(cap, narrow, text, Len(text))) IN
           /\ z.len = Len(text)
           /\ z.buf = Terminated([k \in 1 .. Len(text) |-> Shown(narrow, text[k])], cap)
<1> DEFINE n == Len(text)
           s == Sunk(cap, narrow, text, n)
           end == IF n < cap THEN n ELSE cap - 1
           shown == [k \in 1 .. n |-> Shown(narrow, text[k])]
           old == [j \in 1 .. cap |-> IF j <= Smaller(n, cap - 1) THEN Shown(narrow, text[j])
                                      ELSE "old"]
           new == [j \in 1 .. cap |-> IF j <= Smaller(n, cap - 1) THEN shown[j]
                                      ELSE IF j = Smaller(n, cap - 1) + 1 THEN "nul" ELSE "old"]
<1>0. n \in Nat /\ n \in 0 .. n
  OBVIOUS
<1>1. s.buf = old /\ s.len = n /\ s.narrow = narrow
  BY DEF Sunk
<1>2. s.buf \in Seq(Char) /\ Len(s.buf) = cap
  BY <1>0, SunkType
<1>3. shown \in [1 .. n -> Char]
  <2>1. ASSUME NEW k \in 1 .. n PROVE Shown(narrow, text[k]) \in Char
    <3>1. text[k] \in Char
      OBVIOUS
    <3>2. "?" \in Char
      BY DEF Char
    <3> QED BY <3>1, <3>2 DEF Shown
  <2> QED BY <2>1
<1>4. Len(shown) = n
  <2> HIDE DEF shown, n
  <2> QED BY <1>0, <1>3
<1>5. Terminated(shown, cap) = new
  <2> HIDE DEF shown, n
  <2> QED BY <1>4 DEF Terminated
<1>6. CASE cap = 0
  <2>1. s.buf = <<>>
    <3> HIDE DEF s
    <3> QED BY <1>2, <1>6
  <2>2. finish(s) = s
    BY <2>1 DEF finish
  <2>3. new = old
    BY <1>6
  <2> HIDE DEF s, old, new, shown
  <2> QED BY <1>1, <1>5, <2>2, <2>3 DEF s, shown
<1>7. CASE cap # 0
  <2>1. s.buf # <<>>
    <3> HIDE DEF s
    <3> QED BY <1>2, <1>7
  <2>2. finish(s) = [buf |-> [old EXCEPT ![end + 1] = "nul"], len |-> n, narrow |-> narrow]
    <3> HIDE DEF s, old, n
    <3> QED BY <1>1, <1>2, <2>1 DEF finish
  <2>3. end = Smaller(n, cap - 1) /\ end + 1 \in 1 .. cap /\ end \in 0 .. n
    <3> HIDE DEF n
    <3> QED BY <1>0, <1>7 DEF Smaller
  <2>4. [old EXCEPT ![end + 1] = "nul"] = new
    <3>1. ASSUME NEW j \in 1 .. cap, j <= end PROVE shown[j] = Shown(narrow, text[j])
      <4>1. j \in 1 .. n
        <5> HIDE DEF end, n
        <5> QED BY <1>0, <2>3, <3>1
      <4> HIDE DEF end, n
      <4> QED BY <4>1
    <3> HIDE DEF end, shown, n
    <3>2. old = [j \in 1 .. cap |-> IF j <= end THEN Shown(narrow, text[j]) ELSE "old"]
      BY <2>3
    <3>3. new = [j \in 1 .. cap |-> IF j <= end THEN shown[j] ELSE IF j = end + 1 THEN "nul" ELSE "old"]
      BY <2>3
    <3> HIDE DEF old, new
    <3>4. [old EXCEPT ![end + 1] = "nul"] = [j \in 1 .. cap |-> IF j = end + 1 THEN "nul" ELSE old[j]]
      BY <3>2
    <3>5. \A j \in 1 .. cap : (IF j = end + 1 THEN "nul" ELSE old[j])
                                  = IF j <= end THEN shown[j] ELSE IF j = end + 1 THEN "nul" ELSE "old"
      <4>1. end \in Int
        BY <1>0, <2>3
      <4>2. \A j \in 1 .. cap : j <= end => j # end + 1
        BY <4>1
      <4> QED BY <3>1, <3>2, <4>2
    <3> QED BY <3>3, <3>4, <3>5
  <2> HIDE DEF s, old, new, shown, end
  <2>5. finish(s).len = n /\ finish(s).buf = Terminated(shown, cap)
    BY <1>5, <2>2, <2>4
  <2> QED BY <2>5 DEF s, shown
<1> QED BY <1>6, <1>7

------------------------------------------------------------------------------
(* Figures *)

Figure == {Digit[k] : k \in DOMAIN Digit}

\* The sixteen figures are told apart, and are neither a blank nor a sign.
LEMMA FigureFacts ==
    /\ \A k \in 0 .. 15 : /\ Digit[k + 1] \in Figure
                          /\ DigitOf(Digit[k + 1]) = k
    /\ \A ch \in Figure : DigitOf(ch) \in 0 .. 15 /\ ch \notin {"space", "-"}
    /\ Figure \subseteq Char
    /\ "0" \in Figure /\ DigitOf("0") = 0
<1>1. DOMAIN Digit = 1 .. 16
  BY DEF Digit
<1>2. \A i, j \in 1 .. 16 : Digit[i] = Digit[j] => i = j
  BY DEF Digit
<1>3. \A i \in 1 .. 16 : Digit[i] # "space" /\ Digit[i] # "-"
  <2>1. \A i \in 1 .. 16 : Digit[i] # "space"
    BY DEF Digit
  <2>2. \A i \in 1 .. 16 : Digit[i] # "-"
    BY DEF Digit
  <2> QED BY <2>1, <2>2
<1>4. ASSUME NEW k \in 0 .. 15 PROVE Digit[k + 1] \in Figure /\ DigitOf(Digit[k + 1]) = k
  <2>1. k + 1 \in 1 .. 16
    OBVIOUS
  <2>2. \A j \in 0 .. 15 : Digit[j + 1] = Digit[k + 1] => j = k
    <3>1. ASSUME NEW j \in 0 .. 15, Digit[j + 1] = Digit[k + 1] PROVE j = k
      <4>1. j + 1 \in 1 .. 16
        OBVIOUS
      <4>2. j + 1 = k + 1
        BY <1>2, <2>1, <3>1, <4>1
      <4> QED BY <4>2
    <3> QED BY <3>1
  <2>3. DigitOf(Digit[k + 1]) \in 0 .. 15 /\ Digit[DigitOf(Digit[k + 1]) + 1] = Digit[k + 1]
    BY DEF DigitOf
  <2> QED BY <1>1, <2>1, <2>2, <2>3 DEF Figure
<1>5. \A ch \in Figure : \E k \in 0 .. 15 : ch = Digit[k + 1]
  <2>1. \A i \in 1 .. 16 : i - 1 \in 0 .. 15 /\ (i - 1) + 1 = i
    OBVIOUS
  <2> QED BY <1>1, <2>1 DEF Figure
<1>6. \A ch \in Figure : DigitOf(ch) \in 0 .. 15 /\ ch \notin {"space", "-"}
  <2>1. \A k \in 0 .. 15 : k + 1 \in 1 .. 16
    OBVIOUS
  <2> QED BY <1>3, <1>4, <1>5, <2>1
<1>7. Figure \subseteq Char
  BY DEF Figure, Char
<1>8. Digit[0 + 1] = "0"
  BY DEF Digit
<1>9. 0 \in 0 .. 15
  OBVIOUS
<1>10. "0" \in Figure /\ DigitOf("0") = 0
  BY <1>4, <1>8, <1>9
<1> QED BY <1>4, <1>6, <1>7, <1>10

\* The powers of a base.
LEMMA PowersGrow ==
    ASSUME NEW base \in Nat \ {0}
    PROVE  /\ Powers(base)[0] = 1
           /\ \A k \in 1 .. Width : Powers(base)[k] = base * Powers(base)[k - 1]
           /\ \A k \in 0 .. Width : Powers(base)[k] \in Nat \ {0}
<1> DEFINE V == Nat \ {0}
           step == [p \in (1 .. Width) \X V |-> base * p[2]]
           F(g) == [k \in 0 .. Width |-> IF k = 0 THEN 1 ELSE base * g[k - 1]]
           P == CHOOSE g : g = F(g)
<1>0. Width \in Nat /\ 1 \in V
  BY WidthAssumption
<1>1. \A x \in V : base * x \in V
  OBVIOUS
<1>2. step \in [(1 .. Width) \X V -> V]
  <2> HIDE DEF V
  <2> QED BY <1>1
<1>3. PICK g : Built(g, Width, V, 1, step)
  <2> HIDE DEF step, V
  <2> QED BY <1>0, <1>2, Recursion
<1>4. /\ g \in [0 .. Width -> V] /\ g[0] = 1
      /\ \A k \in 1 .. Width : g[k] = step[<<k, g[k - 1]>>]
  BY <1>3 DEF Built
<1>5. g = F(g)
  <2>1. ASSUME NEW k \in 0 .. Width, k # 0 PROVE g[k] = base * g[k - 1]
    <3>1. k \in 1 .. Width /\ k - 1 \in 0 .. Width
      BY <1>0, <2>1
    <3>2. g[k - 1] \in V
      <4> HIDE DEF V, step
      <4> QED BY <1>4, <3>1
    <3>3. step[<<k, g[k - 1]>>] = base * g[k - 1]
      <4> HIDE DEF V
      <4> QED BY <3>1, <3>2
    <3> HIDE DEF step, V
    <3> QED BY <1>4, <3>1, <3>3
  <2> HIDE DEF step, V
  <2> QED BY <1>4, <2>1
<1>6. P = F(P)
  <2> HIDE DEF F
  <2> QED BY <1>5
<1>7. Powers(base) = P
  BY DEF Powers, P
<1> HIDE DEF P
<1>8. P[0] = 1 /\ \A k \in 1 .. Width : P[k] = base * P[k - 1]
  <2>1. P[0] = 1
    BY <1>0, <1>6
  <2>2. ASSUME NEW k \in 1 .. Width PROVE P[k] = base * P[k - 1]
    <3>1. k \in 0 .. Width /\ k # 0
      BY <1>0
    <3> QED BY <1>6, <3>1
  <2> QED BY <2>1, <2>2
<1> DEFINE T == {k \in 0 .. Width : P[k] \in V}
<1>9. 0 \in T
  <2> HIDE DEF V
  <2> QED BY <1>0, <1>8
<1>10. ASSUME NEW k \in 1 .. Width, k - 1 \in T PROVE k \in T
  <2>1. P[k - 1] \in V /\ k \in 0 .. Width
    BY <1>0, <1>10
  <2> HIDE DEF V
  <2> QED BY <1>1, <1>8, <2>1
<1>11. \A k \in 0 .. Width : k \in T
  <2> HIDE DEF T
  <2> QED BY <1>0, <1>9, <1>10, CountTo
<1> QED BY <1>7, <1>8, <1>11

\* The values of a text's beginnings.
Partial(text, base) ==
    CHOOSE V : V = [k \in 0 .. Len(text) |-> IF k = 0 THEN 0 ELSE base * V[k - 1] + DigitOf(text[k])]

\* Figure by figure, a text's value is its beginning's times the base and the figure.
LEMMA ValueSteps ==
    ASSUME NEW base \in Nat \ {0}, NEW text \in Seq(Figure)
    PROVE  LET V == Partial(text, base) IN
           /\ V[0] = 0
           /\ \A k \in 1 .. Len(text) : V[k] = base * V[k - 1] + DigitOf(text[k])
           /\ \A k \in 0 .. Len(text) : V[k] \in Nat
           /\ ValueOf(text, base) = V[Len(text)]
<1> DEFINE n == Len(text)
           step == [p \in (1 .. n) \X Nat |-> base * p[2] + DigitOf(text[p[1]])]
           F(g) == [k \in 0 .. n |-> IF k = 0 THEN 0 ELSE base * g[k - 1] + DigitOf(text[k])]
           P == CHOOSE g : g = F(g)
<1>0. n \in Nat /\ 0 \in Nat
  OBVIOUS
<1>1. \A k \in 1 .. n : DigitOf(text[k]) \in Nat
  <2>1. \A k \in 1 .. n : text[k] \in Figure
    OBVIOUS
  <2>2. \A ch \in Figure : DigitOf(ch) \in 0 .. 15
    BY FigureFacts
  <2> QED BY <2>1, <2>2
<1> HIDE DEF n
<1>2. \A k \in 1 .. n : \A x \in Nat : base * x + DigitOf(text[k]) \in Nat
  BY <1>1
<1>3. step \in [(1 .. n) \X Nat -> Nat]
  BY <1>2
<1>4. PICK g : Built(g, n, Nat, 0, step)
  <2> HIDE DEF step
  <2> QED BY <1>0, <1>3, Recursion
<1>5. /\ g \in [0 .. n -> Nat] /\ g[0] = 0
      /\ \A k \in 1 .. n : g[k] = step[<<k, g[k - 1]>>]
  BY <1>4 DEF Built
<1>6. g = F(g)
  <2>1. ASSUME NEW k \in 0 .. n, k # 0 PROVE g[k] = base * g[k - 1] + DigitOf(text[k])
    <3>1. k \in 1 .. n /\ k - 1 \in 0 .. n
      BY <1>0, <2>1
    <3>2. g[k - 1] \in Nat
      <4> HIDE DEF step
      <4> QED BY <1>5, <3>1
    <3>3. step[<<k, g[k - 1]>>] = base * g[k - 1] + DigitOf(text[k])
      BY <3>1, <3>2
    <3> HIDE DEF step
    <3> QED BY <1>5, <3>1, <3>3
  <2> HIDE DEF step
  <2> QED BY <1>5, <2>1
<1>7. P = F(P)
  <2> HIDE DEF F
  <2> QED BY <1>6
<1>8. Partial(text, base) = P /\ ValueOf(text, base) = P[n]
  BY DEF Partial, ValueOf, P, n
<1> HIDE DEF P
<1>9. P[0] = 0 /\ \A k \in 1 .. n : P[k] = base * P[k - 1] + DigitOf(text[k])
  BY <1>0, <1>7
<1> DEFINE T == {k \in 0 .. n : P[k] \in Nat}
<1>10. 0 \in T
  BY <1>0, <1>9
<1>11. ASSUME NEW k \in 1 .. n, k - 1 \in T PROVE k \in T
  <2>1. P[k - 1] \in Nat /\ k \in 0 .. n
    BY <1>0, <1>11
  <2> QED BY <1>2, <1>9, <2>1
<1>12. \A k \in 0 .. n : k \in T
  <2> HIDE DEF T
  <2> QED BY <1>0, <1>10, <1>11, CountTo
<1> QED BY <1>8, <1>9, <1>12 DEF n

\* One more figure in front.
LEMMA Prepended ==
    ASSUME NEW S, NEW x \in S, NEW s \in Seq(S)
    PROVE  /\ <<x>> \o s \in Seq(S) /\ Len(<<x>> \o s) = Len(s) + 1 /\ <<x>> \o s # <<>>
           /\ (<<x>> \o s)[1] = x
           /\ \A k \in 1 .. Len(s) : (<<x>> \o s)[k + 1] = s[k]
<1>1. <<x>> \in Seq(S) /\ Len(<<x>>) = 1 /\ <<x>>[1] = x
  OBVIOUS
<1>2. /\ <<x>> \o s \in Seq(S) /\ Len(<<x>> \o s) = 1 + Len(s)
      /\ \A k \in 1 .. 1 + Len(s) : (<<x>> \o s)[k] = IF k <= 1 THEN <<x>>[k] ELSE s[k - 1]
  BY <1>1, ConcatProperties
<1> DEFINE q == <<x>> \o s
<1>3. q[1] = x
  BY <1>1, <1>2
<1>4. ASSUME NEW k \in 1 .. Len(s) PROVE q[k + 1] = s[k]
  <2>1. k + 1 \in 1 .. 1 + Len(s) /\ ~ (k + 1 <= 1) /\ (k + 1) - 1 = k
    OBVIOUS
  <2> HIDE DEF q
  <2> QED BY <1>2, <2>1 DEF q
<1>5. q # <<>>
  <2> HIDE DEF q
  <2> QED BY <1>2 DEF q
<1> QED BY <1>2, <1>3, <1>4, <1>5

\* A figure in front is worth its value times the power of the figures behind it.
LEMMA ValuePrepended ==
    ASSUME NEW base \in Nat \ {0}, NEW text \in Seq(Figure), NEW ch \in Figure, Len(text) <= Width
    PROVE  ValueOf(<<ch>> \o text, base)
               = DigitOf(ch) * Powers(base)[Len(text)] + ValueOf(text, base)
<1> DEFINE n == Len(text)
           q == <<ch>> \o text
           A == Partial(text, base)
           B == Partial(q, base)
           P == Powers(base)
           d == DigitOf(ch)
           T == {k \in 0 .. n : B[k + 1] = d * P[k] + A[k]}
<1>0. n \in Nat /\ Width \in Nat /\ n <= Width
  BY WidthAssumption
<1>1. /\ q \in Seq(Figure) /\ Len(q) = n + 1 /\ q[1] = ch
      /\ \A k \in 1 .. n : q[k + 1] = text[k]
  BY Prepended
<1> HIDE DEF q
<1>2. /\ A[0] = 0 /\ ValueOf(text, base) = A[n]
      /\ \A k \in 1 .. n : A[k] = base * A[k - 1] + DigitOf(text[k])
      /\ \A k \in 0 .. n : A[k] \in Nat
  BY ValueSteps
<1>3. /\ B[0] = 0 /\ ValueOf(q, base) = B[n + 1]
      /\ \A k \in 1 .. n + 1 : B[k] = base * B[k - 1] + DigitOf(q[k])
  BY <1>1, ValueSteps
<1>4. /\ P[0] = 1
      /\ \A k \in 1 .. n : P[k] = base * P[k - 1]
      /\ \A k \in 0 .. n : P[k] \in Nat
  <2>1. \A k \in 1 .. n : k \in 1 .. Width
    BY <1>0
  <2>2. \A k \in 0 .. n : k \in 0 .. Width
    BY <1>0
  <2> QED BY <2>1, <2>2, PowersGrow
<1>5. d \in Nat /\ \A k \in 1 .. n : DigitOf(text[k]) \in Nat
  <2>1. \A k \in 1 .. n : text[k] \in Figure
    OBVIOUS
  <2>2. \A x \in Figure : DigitOf(x) \in 0 .. 15
    BY FigureFacts
  <2> QED BY <2>1, <2>2, SMTT(20)
<1> HIDE DEF n, A, B, P
<1>6. 0 \in T
  <2>1. B[1] = base * B[0] + d
    <3>1. 1 \in 1 .. n + 1 /\ 1 - 1 = 0
      BY <1>0
    <3> QED BY <1>1, <1>3, <3>1
  <2>2. B[0 + 1] = d * P[0] + A[0]
    <3> HIDE DEF d
    <3> QED BY <1>2, <1>3, <1>4, <1>5, <2>1
  <2> QED BY <1>0, <2>2
<1>7. ASSUME NEW k \in 1 .. n, k - 1 \in T PROVE k \in T
  <2>1. B[k] = d * P[k - 1] + A[k - 1]
    <3>1. (k - 1) + 1 = k
      BY <1>0
    <3> QED BY <1>7, <3>1
  <2>2. B[k + 1] = base * B[k] + DigitOf(text[k])
    <3>1. k + 1 \in 1 .. n + 1 /\ (k + 1) - 1 = k
      BY <1>0
    <3> QED BY <1>1, <1>3, <3>1
  <2>3. P[k] = base * P[k - 1] /\ A[k] = base * A[k - 1] + DigitOf(text[k])
    BY <1>2, <1>4
  <2>4. P[k - 1] \in Nat /\ A[k - 1] \in Nat /\ DigitOf(text[k]) \in Nat
    <3>1. k - 1 \in 0 .. n
      BY <1>0
    <3> QED BY <1>2, <1>4, <1>5, <3>1
  <2>5. \A x, p, a, e \in Nat : base * (x * p + a) + e = x * (base * p) + (base * a + e)
    OBVIOUS
  <2>6. B[k + 1] = d * P[k] + A[k]
    <3> DEFINE p == P[k - 1]
               a == A[k - 1]
               e == DigitOf(text[k])
    <3>1. /\ d \in Nat /\ p \in Nat /\ a \in Nat /\ e \in Nat
          /\ B[k + 1] = base * (d * p + a) + e
          /\ P[k] = base * p /\ A[k] = base * a + e
      <4> HIDE DEF d
      <4> QED BY <1>5, <2>1, <2>2, <2>3, <2>4
    <3> HIDE DEF d, p, a, e
    <3>2. base * (d * p + a) + e = d * (base * p) + (base * a + e)
      BY <2>5, <3>1
    <3> QED BY <3>1, <3>2
  <2>7. k \in 0 .. n
    BY <1>0
  <2> QED BY <2>6, <2>7
<1>8. \A k \in 0 .. n : k \in T
  <2> HIDE DEF T
  <2> QED BY <1>0, <1>6, <1>7, CountTo
<1>9. B[n + 1] = d * P[n] + A[n]
  BY <1>0, <1>8
<1> QED BY <1>2, <1>3, <1>9 DEF n, P, q

\* The loop in digits: what is left of the value, and the figures of the rest of it; no more
\* figures than needed; and what is left shrinks by at least a bit at a time.
Rendered(s, v, base, k) ==
    /\ s.v \in Nat /\ s.text \in Seq(Figure) /\ Len(s.text) <= k
    /\ k > 0 => s.text # <<>>
    /\ v = s.v * Powers(base)[Len(s.text)] + ValueOf(s.text, base)
    /\ ValueOf(s.text, base) < Powers(base)[Len(s.text)]
    /\ Len(s.text) > 1 => Powers(base)[Len(s.text) - 1] <= v
    /\ s.v < Power2[Width - k]

\* A number is its quotient times the divisor and its remainder.
LEMMA QuotientParts ==
    ASSUME NEW v \in Nat, NEW d \in Nat \ {0}
    PROVE  v \div d \in Int /\ v % d \in 0 .. d - 1 /\ v = d * (v \div d) + (v % d)
  OBVIOUS

\* Each turn keeps that.
LEMMA RenderedNext ==
    ASSUME NEW base \in 2 .. 16, 16 \in Word, NEW v \in Word, NEW k \in 1 .. Width, NEW s,
           Rendered(s, v, base, k - 1)
    PROVE  Rendered(NextDigit(s, base), v, base, k)
<1> DEFINE n == Len(s.text)
           P == Powers(base)
           a == ValueOf(s.text, base)
<1>0. /\ Width \in Nat /\ base \in Nat \ {0} /\ base \in Word /\ v \in Nat
      /\ k \in Nat /\ k - 1 \in 0 .. Width /\ Width - k \in 0 .. Width /\ Width - (k - 1) \in 1 .. Width
      /\ (Width - (k - 1)) - 1 = Width - k
  <2>1. Span \in Nat /\ base \in 0 .. Span - 1 /\ v \in 0 .. Span - 1
    BY Halves DEF Word
  <2>2. Width \in Nat /\ base \in Nat \ {0} /\ base \in Word /\ v \in Nat
    BY <2>1, WidthAssumption DEF Word
  <2>3. /\ k \in Nat /\ k - 1 \in 0 .. Width /\ Width - k \in 0 .. Width
        /\ Width - (k - 1) \in 1 .. Width /\ (Width - (k - 1)) - 1 = Width - k
    BY WidthAssumption
  <2> QED BY <2>2, <2>3
<1>1. /\ s.v \in Nat /\ s.text \in Seq(Figure) /\ n <= k - 1
      /\ k - 1 > 0 => s.text # <<>>
      /\ v = s.v * P[n] + a /\ a < P[n]
      /\ n > 1 => P[n - 1] <= v
      /\ s.v < Power2[Width - (k - 1)]
  BY DEF Rendered
<1>2. /\ Power2[Width - (k - 1)] = 2 * Power2[Width - k] /\ Power2[Width - k] \in Nat \ {0}
      /\ Power2[Width - (k - 1)] \in Nat
  BY <1>0, PowersDouble
<1>3. n \in Nat /\ n \in 0 .. Width /\ n + 1 \in 1 .. Width
  BY <1>0, <1>1
<1>4. P[n] \in Nat \ {0} /\ P[n + 1] = base * P[n]
  <2>1. (n + 1) - 1 = n
    BY <1>3
  <2> QED BY <1>0, <1>3, <2>1, PowersGrow
<1>5. a \in Nat
  <2>1. n \in 0 .. n
    BY <1>3
  <2> QED BY <1>0, <1>1, <2>1, ValueSteps
<1>6. CASE s.v = 0 /\ s.text # <<>>
  <2>1. NextDigit(s, base) = s
    BY <1>6 DEF NextDigit
  <2>2. n <= k
    BY <1>0, <1>1, <1>3, SMTT(20)
  <2> QED BY <1>1, <1>2, <1>6, <2>1, <2>2, SMTT(20) DEF Rendered
<1>7. CASE ~ (s.v = 0 /\ s.text # <<>>)
  <2> DEFINE e == s.v \div base
             r == s.v % base
             ch == Digit[r + 1]
             q == <<ch>> \o s.text
             z == [v |-> e, text |-> q]
  <2>1. s.v \in Word
    <3>1. \A x \in Nat \ {0} : s.v <= s.v * x
      <4> SUFFICES ASSUME NEW x \in Nat \ {0} PROVE s.v <= s.v * x
        OBVIOUS
      <4> DEFINE w == s.v
      <4>1. PICK y \in Nat : x = 1 + y
        <5>1. x - 1 \in Nat /\ x = 1 + (x - 1)
          OBVIOUS
        <5> QED BY <5>1
      <4>2. w \in Nat
        BY <1>1
      <4> HIDE DEF w
      <4>3. w * x = w + w * y /\ w * y \in Nat
        BY <4>1, <4>2
      <4>4. w <= w * x
        BY <4>2, <4>3
      <4> QED BY <4>4 DEF w
    <3>2. s.v <= s.v * P[n] /\ s.v * P[n] \in Nat
      BY <1>1, <1>4, <3>1, SMTT(20)
    <3>3. s.v <= v
      <4> DEFINE m == s.v * P[n]
                 w == s.v
      <4>1. v = m + a /\ a \in Nat /\ m \in Nat /\ w \in Nat /\ w <= m
        BY <1>1, <1>5, <3>2
      <4> HIDE DEF m, w, a
      <4>2. w <= v
        BY <4>1
      <4> QED BY <4>2 DEF w
    <3> QED BY <1>0, <1>1, <3>3, Halves DEF Word
  <2>2. e \in Int /\ r \in 0 .. base - 1 /\ s.v = base * e + r
    BY <1>0, <1>1, QuotientParts
  <2>3. e \in Nat
    <3>1. e \in 0 .. s.v
      BY <1>0, <1>1, QuotientSmall
    <3> HIDE DEF e
    <3> QED BY <1>1, <3>1
  <2>4. NextDigit(s, base) = z
    <3>1. udivsi3(s.v, base) = e /\ umodsi3(s.v, base) = r
      BY <1>0, <2>1, UnsignedRemainder
    <3> HIDE DEF e, r
    <3> QED BY <1>7, <3>1 DEF NextDigit
  <2>5. ch \in Figure /\ DigitOf(ch) = r
    <3>1. r \in 0 .. 15
      <4> HIDE DEF r
      <4> QED BY <2>2
    <3> HIDE DEF r
    <3> QED BY <3>1, FigureFacts
  <2> HIDE DEF e, r, ch
  <2>6. q \in Seq(Figure) /\ Len(q) = n + 1 /\ q # <<>>
    BY <1>1, <2>5, Prepended
  <2>7. ValueOf(q, base) = r * P[n] + a
    BY <1>0, <1>1, <1>3, <2>5, ValuePrepended
  <2>8. r * P[n] + a < P[n + 1]
    <3>1. PICK x \in Nat : base = r + 1 + x
      <4>1. base - (r + 1) \in Nat /\ base = r + 1 + (base - (r + 1))
        BY <2>2
      <4> QED BY <4>1
    <3>2. base * P[n] = (r * P[n] + P[n]) + x * P[n] /\ x * P[n] \in Nat /\ r * P[n] \in Nat
      <4>1. r \in Nat
        BY <2>2
      <4>2. \A p \in Nat : ((r + 1) + x) * p = (r * p + p) + x * p /\ x * p \in Nat /\ r * p \in Nat
        BY <4>1
      <4> HIDE DEF P, n
      <4> QED BY <1>4, <3>1, <4>2
    <3> HIDE DEF P, n, a
    <3> QED BY <1>1, <1>4, <1>5, <3>2, SMTT(20)
  <2>9. v = e * P[n + 1] + (r * P[n] + a)
    <3>1. \A x \in Nat : (base * e + r) * x = e * (base * x) + r * x
      BY <2>2, <2>3
    <3>2. s.v * P[n] = e * P[n + 1] + r * P[n] /\ e * P[n + 1] \in Nat /\ r * P[n] \in Nat
      <4>1. r \in Nat /\ base \in Nat
        BY <2>2
      <4>2. \A x \in Nat : e * x \in Nat /\ r * x \in Nat /\ base * x \in Nat
        BY <2>3, <4>1
      <4> HIDE DEF P, n
      <4> QED BY <1>4, <2>2, <3>1, <4>2
    <3> HIDE DEF P, n, a
    <3> QED BY <1>1, <1>5, <3>2
  <2>10. n + 1 > 1 => P[n] <= v
    <3> SUFFICES ASSUME n >= 1 PROVE P[n] <= v
      BY <1>3
    <3>1. s.v # 0
      BY <1>1, <1>7
    <3>2. PICK x \in Nat : s.v = 1 + x
      <4>1. s.v - 1 \in Nat /\ s.v = 1 + (s.v - 1)
        BY <1>1, <3>1
      <4> QED BY <4>1
    <3>3. s.v * P[n] = P[n] + x * P[n] /\ x * P[n] \in Nat
      <4>1. \A p \in Nat : (1 + x) * p = p + x * p /\ x * p \in Nat
        OBVIOUS
      <4> HIDE DEF P, n
      <4> QED BY <1>4, <3>2, <4>1
    <3> HIDE DEF P, n, a
    <3> QED BY <1>1, <1>4, <1>5, <3>3, SMTT(20)
  <2>11. e < Power2[Width - k]
    <3>1. PICK x \in Nat : base = 2 + x
      <4>1. base - 2 \in Nat /\ base = 2 + (base - 2)
        OBVIOUS
      <4> QED BY <4>1
    <3>2. base * e = 2 * e + x * e /\ x * e \in Nat
      BY <2>3, <3>1
    <3> DEFINE w == s.v
               y == x * e
               u == base * e
    <3>3. w \in Nat /\ w = u + r /\ r \in Nat /\ u = 2 * e + y /\ y \in Nat /\ e \in Nat
      BY <1>0, <1>1, <2>2, <2>3, <3>2
    <3>4. w < 2 * Power2[Width - k] /\ Power2[Width - k] \in Nat
      BY <1>1, <1>2
    <3> HIDE DEF w, y, u, e, r
    <3> QED BY <3>3, <3>4
  <2>12. z.v = e /\ z.text = q
    OBVIOUS
  <2>13. Rendered(z, v, base, k)
    <3>1. n + 1 <= k /\ (n + 1) - 1 = n
      BY <1>0, <1>1, <1>3
    <3> HIDE DEF z, q, n, P, a
    <3> QED BY <2>3, <2>6, <2>7, <2>8, <2>9, <2>10, <2>11, <2>12, <3>1 DEF Rendered, P
  <2> QED BY <2>4, <2>13
<1> QED BY <1>6, <1>7

\* A turn of the loop leaves a word and figures.
LEMMA DigitType ==
    ASSUME NEW base \in 2 .. 16, 16 \in Word, NEW s \in [v : Word, text : Seq(Figure)]
    PROVE  NextDigit(s, base) \in [v : Word, text : Seq(Figure)]
<1>0. /\ s.v \in Word /\ s.v \in 0 .. Span - 1 /\ base \in Word /\ base # 0 /\ base \in Nat \ {0}
      /\ s.text \in Seq(Figure)
  <2>1. Span \in Nat /\ base \in 0 .. Span - 1
    BY Halves DEF Word
  <2> QED BY <2>1 DEF Word
<1> DEFINE e == s.v \div base
           r == s.v % base
           ch == Digit[r + 1]
           q == <<ch>> \o s.text
<1>1. udivsi3(s.v, base) = e /\ umodsi3(s.v, base) = r
  BY <1>0, UnsignedRemainder
<1>2. e \in Word
  <2>1. e \in 0 .. s.v
    BY <1>0, QuotientSmall
  <2> HIDE DEF e
  <2> QED BY <1>0, <2>1, Halves DEF Word
<1>3. ch \in Figure
  <2>1. r \in 0 .. base - 1
    <3>1. s.v \in Nat
      BY <1>0
    <3> QED BY <1>0, <3>1, QuotientParts
  <2>2. r \in 0 .. 15
    <3> HIDE DEF r
    <3> QED BY <2>1
  <2> HIDE DEF r
  <2> QED BY <2>2, FigureFacts
<1> HIDE DEF e, r
<1>4. q \in Seq(Figure)
  <2> HIDE DEF ch
  <2> QED BY <1>0, <1>3, Prepended
<1>5. NextDigit(s, base) = IF s.v = 0 /\ s.text # <<>> THEN s ELSE [v |-> e, text |-> q]
  BY <1>1 DEF NextDigit
<1> HIDE DEF q
<1>6. [v |-> e, text |-> q] \in [v : Word, text : Seq(Figure)]
  BY <1>2, <1>4
<1> QED BY <1>5, <1>6

\* digits gives the figures of a word, no more than needed, and no more than it has bits.
LEMMA DigitsRead ==
    ASSUME NEW base \in 2 .. 16, 16 \in Word, NEW v \in Word
    PROVE  LET text == digits(v, base)
               n == Len(text)
           IN  /\ text \in Seq(Figure) /\ n \in 1 .. Width
               /\ ValueOf(text, base) = v
               /\ v < Powers(base)[n]
               /\ n > 1 => Powers(base)[n - 1] <= v
<1> DEFINE V == [v : Word, text : Seq(Figure)]
           first == [v |-> v, text |-> <<>>]
           step == [p \in (1 .. Width) \X V |-> NextDigit(p[2], base)]
           F(g) == [k \in 0 .. Width |-> IF k = 0 THEN first ELSE NextDigit(g[k - 1], base)]
           D == CHOOSE g : g = F(g)
<1>0. Width \in Nat /\ base \in Nat \ {0} /\ v \in Nat /\ v < Span
  BY WidthAssumption, Halves DEF Word
<1>1. first \in V
  <2>1. <<>> \in Seq(Figure)
    OBVIOUS
  <2> QED BY <2>1
<1>2. step \in [(1 .. Width) \X V -> V]
  <2>1. \A x \in V : NextDigit(x, base) \in V
    BY DigitType
  <2> HIDE DEF V
  <2> QED BY <2>1
<1> HIDE DEF V, first
<1>3. PICK g : Built(g, Width, V, first, step)
  <2> HIDE DEF step
  <2> QED BY <1>0, <1>1, <1>2, Recursion
<1>4. /\ g \in [0 .. Width -> V] /\ g[0] = first
      /\ \A k \in 1 .. Width : g[k] = step[<<k, g[k - 1]>>]
  BY <1>3 DEF Built
<1>5. g = F(g)
  <2>1. ASSUME NEW k \in 0 .. Width, k # 0 PROVE g[k] = NextDigit(g[k - 1], base)
    <3>1. k \in 1 .. Width /\ k - 1 \in 0 .. Width
      BY <1>0, <2>1
    <3>2. g[k - 1] \in V
      <4> HIDE DEF step
      <4> QED BY <1>4, <3>1
    <3>3. step[<<k, g[k - 1]>>] = NextDigit(g[k - 1], base)
      BY <3>1, <3>2
    <3> HIDE DEF step
    <3> QED BY <1>4, <3>1, <3>3
  <2> HIDE DEF step
  <2> QED BY <1>4, <2>1
<1>6. D = F(D)
  <2> HIDE DEF F
  <2> QED BY <1>5
<1>7. digits(v, base) = D[Width].text
  BY DEF digits, D, first
<1> HIDE DEF D
<1>8. D[0] = first /\ \A k \in 1 .. Width : D[k] = NextDigit(D[k - 1], base)
  <2>1. D[0] = first
    BY <1>0, <1>6
  <2>2. ASSUME NEW k \in 1 .. Width PROVE D[k] = NextDigit(D[k - 1], base)
    <3>1. k \in 0 .. Width /\ k # 0
      BY <1>0
    <3> QED BY <1>6, <3>1
  <2> QED BY <2>1, <2>2
<1> DEFINE T == {k \in 0 .. Width : Rendered(D[k], v, base, k)}
<1>9. 0 \in T
  <2>1. first.v = v /\ first.text = <<>>
    BY DEF first
  <2>2. <<>> \in Seq(Figure) /\ Len(<<>>) = 0
    OBVIOUS
  <2>3. ValueOf(<<>>, base) = 0
    BY <1>0, <2>2, ValueSteps
  <2>4. Powers(base)[0] = 1
    BY <1>0, PowersGrow
  <2>5. Power2[Width - 0] = Span
    BY <1>0 DEF Span
  <2>6. Rendered(first, v, base, 0)
    BY <1>0, <2>1, <2>2, <2>3, <2>4, <2>5 DEF Rendered
  <2> QED BY <1>0, <1>8, <2>6
<1>10. ASSUME NEW k \in 1 .. Width, k - 1 \in T PROVE k \in T
  <2>1. Rendered(D[k - 1], v, base, k - 1)
    BY <1>10
  <2>2. Rendered(NextDigit(D[k - 1], base), v, base, k)
    BY <2>1, RenderedNext
  <2>3. k \in 0 .. Width
    BY <1>0
  <2> QED BY <1>8, <2>2, <2>3
<1>11. \A k \in 0 .. Width : k \in T
  <2> HIDE DEF T
  <2> QED BY <1>0, <1>9, <1>10, CountTo
<1> DEFINE s == D[Width]
           n == Len(s.text)
<1>12. Rendered(s, v, base, Width)
  BY <1>0, <1>11
<1> HIDE DEF s
<1>13. /\ s.v \in Nat /\ s.text \in Seq(Figure) /\ n <= Width /\ s.text # <<>>
       /\ v = s.v * Powers(base)[n] + ValueOf(s.text, base)
       /\ ValueOf(s.text, base) < Powers(base)[n]
       /\ n > 1 => Powers(base)[n - 1] <= v
       /\ s.v < Power2[Width - Width]
  BY <1>0, <1>12, WidthAssumption DEF Rendered
<1>14. n \in 1 .. Width
  <2>1. n \in Nat /\ n # 0
    BY <1>13
  <2> QED BY <1>0, <1>13, <2>1
<1>15. s.v = 0
  <2>1. Width - Width = 0
    BY <1>0
  <2> QED BY <1>13, <2>1, PowersDouble
<1>16. Powers(base)[n] \in Nat /\ ValueOf(s.text, base) \in Nat
  <2>1. n \in 0 .. n /\ n \in 0 .. Width
    BY <1>0, <1>14
  <2> QED BY <1>0, <1>13, <2>1, PowersGrow, ValueSteps, ZenonT(40)
<1>17. v = ValueOf(s.text, base)
  <2> HIDE DEF n
  <2> QED BY <1>13, <1>15, <1>16
<1> QED BY <1>7, <1>13, <1>14, <1>17 DEF s

\* The noughts in front of a number are worth nothing.
LEMMA LeadingZeros ==
    ASSUME NEW base \in Nat \ {0}, NEW text \in Seq(Figure), NEW m \in Nat
    PROVE  LET z == [k \in 1 .. m |-> "0"] IN
           z \in Seq(Figure) /\ Len(z) = m /\ ValueOf(z \o text, base) = ValueOf(text, base)
<1> DEFINE z == [k \in 1 .. m |-> "0"]
           n == Len(text)
           q == z \o text
           A == Partial(text, base)
           B == Partial(q, base)
           S == {k \in 0 .. m : B[k] = 0}
           T == {k \in 0 .. n : B[m + k] = A[k]}
<1>0. n \in Nat
  OBVIOUS
<1>1. z \in Seq(Figure) /\ Len(z) = m /\ \A k \in 1 .. m : z[k] = "0"
  <2>1. "0" \in Figure
    BY FigureFacts
  <2>2. z \in [1 .. m -> Figure]
    BY <2>1
  <2>3. \A k \in 1 .. m : z[k] = "0"
    OBVIOUS
  <2> HIDE DEF z
  <2> QED BY <2>2, <2>3
<1> HIDE DEF z
<1>2. /\ q \in Seq(Figure) /\ Len(q) = m + n
      /\ \A k \in 1 .. m + n : q[k] = IF k <= m THEN z[k] ELSE text[k - m]
  BY <1>1, ConcatProperties
<1> HIDE DEF q
<1>3. /\ A[0] = 0 /\ ValueOf(text, base) = A[n]
      /\ \A k \in 1 .. n : A[k] = base * A[k - 1] + DigitOf(text[k])
  BY ValueSteps
<1>4. /\ B[0] = 0 /\ ValueOf(q, base) = B[m + n]
      /\ \A k \in 1 .. m + n : B[k] = base * B[k - 1] + DigitOf(q[k])
  BY <1>2, ValueSteps
<1> HIDE DEF n, A, B
<1>5. \A k \in 0 .. m : k \in S
  <2>1. 0 \in S
    BY <1>4
  <2>2. ASSUME NEW k \in 1 .. m, k - 1 \in S PROVE k \in S
    <3>1. k \in 1 .. m + n /\ B[k - 1] = 0 /\ k \in 0 .. m
      BY <1>0, <2>2
    <3>2. DigitOf(q[k]) = 0
      BY <1>1, <1>2, <3>1, FigureFacts
    <3> QED BY <1>4, <3>1, <3>2
  <2> HIDE DEF S
  <2> QED BY <2>1, <2>2, CountTo
<1>6. \A k \in 0 .. n : k \in T
  <2>1. 0 \in T
    <3>1. B[m] = 0 /\ m + 0 = m
      BY <1>5
    <3> QED BY <1>0, <1>3, <3>1
  <2>2. ASSUME NEW k \in 1 .. n, k - 1 \in T PROVE k \in T
    <3>1. B[m + (k - 1)] = A[k - 1] /\ k \in 0 .. n
      BY <1>0, <2>2
    <3>2. m + k \in 1 .. m + n /\ (m + k) - 1 = m + (k - 1) /\ ~ (m + k <= m) /\ (m + k) - m = k
      BY <1>0
    <3>3. q[m + k] = text[k]
      BY <1>2, <3>2
    <3>4. B[m + k] = base * B[m + (k - 1)] + DigitOf(q[m + k])
      BY <1>4, <3>2
    <3> QED BY <1>3, <3>1, <3>3, <3>4
  <2> HIDE DEF T
  <2> QED BY <1>0, <2>1, <2>2, CountTo
<1>7. B[m + n] = A[n]
  BY <1>0, <1>6
<1> QED BY <1>1, <1>3, <1>4, <1>7 DEF q, z

------------------------------------------------------------------------------
(* Numbers in their width *)

\* Three texts in a row.
LEMMA Joined ==
    ASSUME NEW a \in Seq(Char), NEW b \in Seq(Char), NEW c \in Seq(Char)
    PROVE  LET q == a \o b \o c IN
           /\ q \in Seq(Char) /\ Len(q) = Len(a) + Len(b) + Len(c)
           /\ \A k \in 1 .. Len(q) :
                 q[k] = IF k <= Len(a) THEN a[k]
                        ELSE IF k <= Len(a) + Len(b) THEN b[k - Len(a)]
                        ELSE c[k - (Len(a) + Len(b))]
<1> DEFINE p == a \o b
           q == p \o c
<1>0. Len(a) \in Nat /\ Len(b) \in Nat /\ Len(c) \in Nat
  OBVIOUS
<1>1. /\ p \in Seq(Char) /\ Len(p) = Len(a) + Len(b)
      /\ \A k \in 1 .. Len(a) + Len(b) : p[k] = IF k <= Len(a) THEN a[k] ELSE b[k - Len(a)]
  BY ConcatProperties
<1> HIDE DEF p
<1>2. /\ q \in Seq(Char) /\ Len(q) = Len(p) + Len(c)
      /\ \A k \in 1 .. Len(p) + Len(c) : q[k] = IF k <= Len(p) THEN p[k] ELSE c[k - Len(p)]
  <2>1. p \in Seq(Char)
    BY <1>1
  <2> QED BY <2>1, ConcatProperties
<1> HIDE DEF q
<1>3. ASSUME NEW k \in 1 .. Len(q)
      PROVE  q[k] = IF k <= Len(a) THEN a[k]
                    ELSE IF k <= Len(a) + Len(b) THEN b[k - Len(a)]
                    ELSE c[k - (Len(a) + Len(b))]
  <2>1. CASE k <= Len(a) + Len(b)
    <3>1. k \in 1 .. Len(a) + Len(b) /\ k \in 1 .. Len(p) + Len(c) /\ k <= Len(p)
      BY <1>0, <1>1, <1>2, <2>1
    <3>2. q[k] = p[k]
      BY <1>2, <3>1
    <3>3. p[k] = IF k <= Len(a) THEN a[k] ELSE b[k - Len(a)]
      BY <1>1, <3>1
    <3> QED BY <2>1, <3>2, <3>3
  <2>2. CASE ~ (k <= Len(a) + Len(b))
    <3>1. k \in 1 .. Len(p) + Len(c) /\ ~ (k <= Len(p)) /\ ~ (k <= Len(a))
      BY <1>0, <1>1, <1>2, <2>2
    <3>2. q[k] = c[k - Len(p)]
      BY <1>2, <3>1
    <3> QED BY <1>1, <2>2, <3>1, <3>2
  <2> QED BY <2>1, <2>2
<1>4. Len(q) = Len(a) + Len(b) + Len(c)
  BY <1>1, <1>2
<1> QED BY <1>2, <1>3, <1>4 DEF q, p

\* A text of front blanks, a sign or none, figures, and back blanks.
Laid(text, front, sign, figures, back) ==
    /\ text \in Seq(Char)
    /\ Len(text) = front + sign + Len(figures) + back
    /\ \A k \in 1 .. Len(text) :
          text[k] = IF k <= front THEN "space"
                    ELSE IF k <= front + sign THEN "-"
                    ELSE IF k <= front + sign + Len(figures) THEN figures[k - (front + sign)]
                    ELSE "space"

\* The blanks are outside, the sign and the figures can be found.
LEMMA LaidOut ==
    ASSUME NEW front \in Nat, NEW back \in Nat, NEW sign \in {0, 1},
           NEW figures \in Seq(Figure), figures # <<>>, NEW text, Laid(text, front, sign, figures, back)
    PROVE  LET first == front + 1
               last == front + sign + Len(figures)
           IN  /\ first \in 1 .. Len(text) /\ last \in 1 .. Len(text)
               /\ \A k \in 1 .. Len(text) : text[k] = "space" <=> k \notin first .. last
               /\ sign = 1 => text[first] = "-"
               /\ SubSeq(text, first + sign, last) = figures
<1> DEFINE n == Len(figures)
           first == front + 1
           last == front + sign + n
           size == Len(text)
<1>1. n \in Nat /\ n # 0 /\ \A k \in 1 .. n : figures[k] \in Figure
  OBVIOUS
<1>2. /\ text \in Seq(Char)
      /\ size = front + sign + n + back
      /\ \A k \in 1 .. size :
            text[k] = IF k <= front THEN "space" ELSE IF k <= front + sign THEN "-"
                      ELSE IF k <= front + sign + n THEN figures[k - (front + sign)] ELSE "space"
  BY DEF Laid
<1> HIDE DEF n, size
<1>3. first \in 1 .. size /\ last \in 1 .. size
  BY <1>1, <1>2
<1>4. ASSUME NEW k \in 1 .. size PROVE text[k] = "space" <=> k \notin first .. last
  <2>1. CASE k <= front
    BY <1>2, <2>1
  <2>2. CASE ~ (k <= front) /\ k <= front + sign
    <3>1. text[k] = "-" /\ k \in first .. last
      BY <1>1, <1>2, <2>2
    <3> QED BY <3>1
  <2>3. CASE ~ (k <= front + sign) /\ k <= last
    <3>1. ~ (k <= front) /\ k - (front + sign) \in 1 .. n /\ k \in first .. last
      BY <1>1, <2>3
    <3>2. text[k] = figures[k - (front + sign)]
      BY <1>2, <2>3, <3>1
    <3>3. text[k] \in Figure
      BY <1>1, <3>1, <3>2
    <3>4. text[k] # "space"
      BY <3>3, FigureFacts
    <3> QED BY <3>1, <3>4
  <2>4. CASE ~ (k <= last)
    <3>1. ~ (k <= front) /\ ~ (k <= front + sign) /\ k \notin first .. last
      BY <1>1, <2>4
    <3>2. text[k] = "space"
      BY <1>2, <2>4, <3>1
    <3> QED BY <3>1, <3>2
  <2> QED BY <2>1, <2>2, <2>3, <2>4
<1>5. sign = 1 => text[first] = "-"
  <2> SUFFICES ASSUME sign = 1 PROVE text[first] = "-"
    OBVIOUS
  <2>1. ~ (first <= front) /\ first <= front + sign
    OBVIOUS
  <2> HIDE DEF first
  <2> QED BY <1>2, <1>3, <2>1
<1>6. SubSeq(text, first + sign, last) = figures
  <2> DEFINE m == first + sign
             z == SubSeq(text, m, last)
  <2>1. m \in Int /\ last \in Int /\ m <= last + 1 /\ last - m + 1 = n
    BY <1>1
  <2>2. \A i \in m .. last : i \in 1 .. size /\ text[i] \in Char
    <3> SUFFICES ASSUME NEW i \in m .. last PROVE i \in 1 .. size /\ text[i] \in Char
      OBVIOUS
    <3>1. i \in 1 .. size
      BY <1>1, <1>2
    <3>2. text[i] \in Char
      BY <1>2, <3>1 DEF size
    <3> QED BY <3>1, <3>2
  <2>3. /\ z \in Seq(Char)
        /\ Len(z) = IF m <= last THEN last - m + 1 ELSE 0
        /\ \A i \in 1 .. last - m + 1 : z[i] = text[m + i - 1]
    <3> HIDE DEF m, last
    <3> QED BY <2>1, <2>2, SubSeqProperties
  <2> HIDE DEF z
  <2>4. Len(z) = n
    BY <1>1, <2>1, <2>3
  <2>5. ASSUME NEW i \in 1 .. n PROVE z[i] = figures[i]
    <3>1. m + i - 1 \in 1 .. size /\ ~ (m + i - 1 <= front) /\ ~ (m + i - 1 <= front + sign)
          /\ m + i - 1 <= front + sign + n /\ (m + i - 1) - (front + sign) = i
      BY <1>1, <1>2
    <3>2. z[i] = text[m + i - 1]
      BY <2>1, <2>3
    <3> HIDE DEF m
    <3> QED BY <1>2, <3>1, <3>2
  <2>6. z = [i \in 1 .. n |-> z[i]] /\ figures = [i \in 1 .. n |-> figures[i]]
    BY <2>3, <2>4 DEF n
  <2>7. z = figures
    BY <2>5, <2>6
  <2> QED BY <2>7 DEF z
<1> QED BY <1>3, <1>4, <1>5, <1>6 DEF size, n

\* count blanks or noughts.
LEMMA Padding ==
    ASSUME NEW count \in Int, NEW ch \in Char
    PROVE  LET m == IF count > 0 THEN count ELSE 0 IN
           /\ m \in Nat /\ pad(count, ch) = [k \in 1 .. m |-> ch]
           /\ pad(count, ch) \in Seq(Char) /\ Len(pad(count, ch)) = m
           /\ \A k \in 1 .. m : pad(count, ch)[k] = ch
<1> DEFINE m == IF count > 0 THEN count ELSE 0
           z == [k \in 1 .. m |-> ch]
<1>1. m \in Nat
  OBVIOUS
<1>2. pad(count, ch) = z
  BY DEF pad
<1> HIDE DEF m
<1>3. z \in [1 .. m -> Char]
  OBVIOUS
<1>4. \A k \in 1 .. m : z[k] = ch
  OBVIOUS
<1> HIDE DEF z
<1>5. z \in Seq(Char) /\ Len(z) = m
  BY <1>1, <1>3
<1>6. z = [k \in 1 .. m |-> ch]
  BY DEF z
<1> QED BY <1>1, <1>2, <1>4, <1>5, <1>6 DEF m

\* What emit_number puts: the figures of the number, framed by blanks or led by noughts.
LEMMA NumberLaid ==
    ASSUME NEW base \in {10, 16}, 16 \in Word, NEW v \in Word, NEW negative \in BOOLEAN,
           NEW f, f.width \in Nat, f.left \in BOOLEAN, f.zero \in BOOLEAN
    PROVE  LET t == digits(v, base)
               sign == IF negative THEN 1 ELSE 0
               count == f.width - (sign + Len(t))
               m == IF count > 0 THEN count ELSE 0
               z == [k \in 1 .. m |-> "0"]
               text == emit_number(v, base, negative, f)
           IN  IF f.left THEN Laid(text, 0, sign, t, m)
               ELSE IF f.zero THEN Laid(text, 0, sign, z \o t, 0)
               ELSE Laid(text, m, sign, t, 0)
<1> DEFINE t == digits(v, base)
           s == IF negative THEN <<"-">> ELSE <<>>
           sign == IF negative THEN 1 ELSE 0
           count == f.width - (sign + Len(t))
           m == IF count > 0 THEN count ELSE 0
           z == [k \in 1 .. m |-> "0"]
           text == emit_number(v, base, negative, f)
<1>1. t \in Seq(Figure)
  <2>1. base \in 2 .. 16
    OBVIOUS
  <2> HIDE DEF t
  <2> QED BY <2>1, DigitsRead DEF t
<1> HIDE DEF t
<1>2. Len(t) \in Nat /\ t \in Seq(Char)
  BY <1>1, FigureFacts
<1>3. s \in Seq(Char) /\ Len(s) = sign /\ sign \in {0, 1} /\ (sign = 1 => s[1] = "-")
  <2>1. "-" \in Char
    BY DEF Char
  <2>2. <<"-">> \in Seq(Char) /\ Len(<<"-">>) = 1 /\ <<"-">>[1] = "-"
    BY <2>1
  <2>3. <<>> \in Seq(Char) /\ Len(<<>>) = 0
    OBVIOUS
  <2> QED BY <2>2, <2>3
<1>4. Len(s \o t) = sign + Len(t)
  <2> HIDE DEF s, sign
  <2> QED BY <1>2, <1>3, ConcatProperties
<1>5. count \in Int /\ m \in Nat
  <2> HIDE DEF sign
  <2> QED BY <1>2, <1>3
<1>6. /\ "space" \in Char /\ "0" \in Char
      /\ pad(count, "space") \in Seq(Char) /\ Len(pad(count, "space")) = m
      /\ \A k \in 1 .. m : pad(count, "space")[k] = "space"
      /\ pad(count, "0") = z
  <2>1. "space" \in Char
    BY DEF Char
  <2>2. "0" \in Char
    BY FigureFacts
  <2> HIDE DEF count
  <2> QED BY <1>5, <2>1, <2>2, Padding
<1>7. z \in Seq(Figure) /\ Len(z) = m /\ \A k \in 1 .. m : z[k] = "0"
  <2>1. \A k \in 1 .. m : z[k] = "0"
    OBVIOUS
  <2>2. z \in Seq(Figure) /\ Len(z) = m
    <3>1. base \in Nat \ {0}
      OBVIOUS
    <3> HIDE DEF m
    <3> QED BY <1>1, <1>5, <3>1, LeadingZeros
  <2> QED BY <2>1, <2>2
<1>8. z \o t \in Seq(Figure) /\ Len(z \o t) = m + Len(t)
  <2> HIDE DEF z, m
  <2> QED BY <1>1, <1>7, ConcatProperties
<1>9. z \in Seq(Char)
  <2> HIDE DEF z
  <2> QED BY <1>7, FigureFacts
<1> DEFINE p == pad(count, "space")
<1>10. text = IF f.left THEN s \o t \o p
              ELSE IF f.zero THEN s \o z \o t
              ELSE p \o s \o t
  <2>1. f.width - Len(s \o t) = count
    BY <1>4
  <2> HIDE DEF z, count
  <2> QED BY <1>6, <2>1 DEF emit_number, t
<1> HIDE DEF s, sign, count, m, z, p, text
<1>11. CASE f.left
  <2> DEFINE q == s \o t \o p
  <2>1. /\ q \in Seq(Char) /\ Len(q) = Len(s) + Len(t) + Len(p)
        /\ \A k \in 1 .. Len(q) :
              q[k] = IF k <= Len(s) THEN s[k]
                     ELSE IF k <= Len(s) + Len(t) THEN t[k - Len(s)] ELSE p[k - (Len(s) + Len(t))]
    BY <1>2, <1>3, <1>6, Joined DEF p
  <2>2. text = q
    BY <1>10, <1>11
  <2> HIDE DEF q
  <2>3. Len(q) = 0 + sign + Len(t) + m
    BY <1>2, <1>3, <1>5, <1>6, <2>1 DEF p
  <2>4. ASSUME NEW k \in 1 .. Len(q)
        PROVE  q[k] = IF k <= 0 THEN "space" ELSE IF k <= 0 + sign THEN "-"
                      ELSE IF k <= 0 + sign + Len(t) THEN t[k - (0 + sign)] ELSE "space"
    <3>1. CASE k <= sign
      <4>1. k = 1 /\ sign = 1
        BY <1>3, <3>1
      <4> QED BY <1>3, <2>1, <3>1, <4>1
    <3>2. CASE ~ (k <= sign) /\ k <= sign + Len(t)
      <4>1. q[k] = t[k - sign]
        BY <1>3, <2>1, <3>2
      <4> QED BY <1>3, <3>2, <4>1
    <3>3. CASE ~ (k <= sign + Len(t))
      <4>1. ~ (k <= sign) /\ k - (sign + Len(t)) \in 1 .. m
        BY <1>2, <1>3, <1>5, <2>3, <3>3
      <4>2. q[k] = p[k - (sign + Len(t))]
        BY <1>3, <2>1, <3>3, <4>1
      <4>3. q[k] = "space"
        BY <1>6, <4>1, <4>2 DEF p
      <4> QED BY <1>3, <3>3, <4>1, <4>3
    <3> QED BY <3>1, <3>2, <3>3
  <2>5. Laid(text, 0, sign, t, m)
    BY <2>1, <2>2, <2>3, <2>4 DEF Laid
  <2> QED BY <1>11, <2>5 DEF t, sign, m, count, text
<1>12. CASE ~ f.left /\ f.zero
  <2> DEFINE q == s \o z \o t
             w == z \o t
  <2>1. /\ q \in Seq(Char) /\ Len(q) = Len(s) + Len(z) + Len(t)
        /\ \A k \in 1 .. Len(q) :
              q[k] = IF k <= Len(s) THEN s[k]
                     ELSE IF k <= Len(s) + Len(z) THEN z[k - Len(s)] ELSE t[k - (Len(s) + Len(z))]
    BY <1>2, <1>3, <1>9, Joined, ZenonT(40)
  <2>2. text = q
    BY <1>10, <1>12
  <2>3. /\ Len(w) = m + Len(t)
        /\ \A k \in 1 .. m + Len(t) : w[k] = IF k <= m THEN z[k] ELSE t[k - m]
    BY <1>1, <1>7, ConcatProperties
  <2> HIDE DEF q, w
  <2>4. Len(q) = 0 + sign + Len(w) + 0
    BY <1>2, <1>3, <1>5, <1>7, <2>1, <2>3
  <2>5. ASSUME NEW k \in 1 .. Len(q)
        PROVE  q[k] = IF k <= 0 THEN "space" ELSE IF k <= 0 + sign THEN "-"
                      ELSE IF k <= 0 + sign + Len(w) THEN w[k - (0 + sign)] ELSE "space"
    <3>1. CASE k <= sign
      <4>1. k = 1 /\ sign = 1
        BY <1>3, <3>1
      <4> QED BY <1>3, <2>1, <3>1, <4>1
    <3>2. CASE ~ (k <= sign)
      <4>1. k <= sign + Len(w) /\ k - sign \in 1 .. m + Len(t) /\ k - sign \in Nat
        BY <1>2, <1>3, <1>5, <2>3, <2>4, <3>2
      <4>2. q[k] = IF k <= sign + m THEN z[k - sign] ELSE t[k - (sign + m)]
        BY <1>3, <1>7, <2>1, <3>2
      <4>3. w[k - sign] = IF k - sign <= m THEN z[k - sign] ELSE t[(k - sign) - m]
        BY <2>3, <4>1
      <4>4. (k - sign <= m <=> k <= sign + m) /\ (k - sign) - m = k - (sign + m)
        BY <1>3, <1>5
      <4>5. q[k] = w[k - sign]
        BY <4>2, <4>3, <4>4
      <4> QED BY <1>3, <3>2, <4>1, <4>5
    <3> QED BY <3>1, <3>2
  <2>6. Laid(text, 0, sign, w, 0)
    BY <2>1, <2>2, <2>4, <2>5 DEF Laid
  <2> QED BY <1>12, <2>6 DEF t, sign, m, count, z, w, text
<1>13. CASE ~ f.left /\ ~ f.zero
  <2> DEFINE q == p \o s \o t
  <2>1. /\ q \in Seq(Char) /\ Len(q) = Len(p) + Len(s) + Len(t)
        /\ \A k \in 1 .. Len(q) :
              q[k] = IF k <= Len(p) THEN p[k]
                     ELSE IF k <= Len(p) + Len(s) THEN s[k - Len(p)] ELSE t[k - (Len(p) + Len(s))]
    BY <1>2, <1>3, <1>6, Joined DEF p
  <2>2. text = q
    BY <1>10, <1>13
  <2> HIDE DEF q
  <2>3. Len(q) = m + sign + Len(t) + 0
    BY <1>2, <1>3, <1>5, <1>6, <2>1 DEF p
  <2>4. ASSUME NEW k \in 1 .. Len(q)
        PROVE  q[k] = IF k <= m THEN "space" ELSE IF k <= m + sign THEN "-"
                      ELSE IF k <= m + sign + Len(t) THEN t[k - (m + sign)] ELSE "space"
    <3>1. CASE k <= m
      <4>1. q[k] = p[k] /\ k \in 1 .. m
        BY <1>5, <1>6, <2>1, <3>1 DEF p
      <4> QED BY <1>6, <3>1, <4>1 DEF p
    <3>2. CASE ~ (k <= m) /\ k <= m + sign
      <4>1. k - m = 1 /\ sign = 1
        BY <1>3, <1>5, <3>2
      <4>2. q[k] = s[k - m]
        BY <1>3, <1>6, <2>1, <3>2 DEF p
      <4> QED BY <1>3, <3>2, <4>1, <4>2
    <3>3. CASE ~ (k <= m + sign)
      <4>1. ~ (k <= m) /\ k <= m + sign + Len(t)
        BY <1>2, <1>3, <1>5, <2>3, <3>3
      <4>2. q[k] = t[k - (m + sign)]
        BY <1>3, <1>6, <2>1, <3>3, <4>1 DEF p
      <4> QED BY <3>3, <4>1, <4>2
    <3> QED BY <3>1, <3>2, <3>3
  <2>5. Laid(text, m, sign, t, 0)
    BY <2>1, <2>2, <2>3, <2>4 DEF Laid
  <2> QED BY <1>13, <2>5 DEF t, sign, m, count, text
<1> QED BY <1>11, <1>12, <1>13

\* A number is shown so that it reads back.
LEMMA NumberReadsBack ==
    ASSUME NEW base \in {10, 16}, 16 \in Word, NEW value \in Int, Abs(value) \in Word,
           NEW f, f.width \in Nat, f.left \in BOOLEAN, f.zero \in BOOLEAN
    PROVE  LET text == emit_number(Abs(value), base, value < 0, f) IN
           text \in Seq(Char) /\ ReadsBack(text, f, base, value)
<1> DEFINE v == Abs(value)
           negative == value < 0
           text == emit_number(v, base, negative, f)
           t == digits(v, base)
           n == Len(t)
           sign == IF negative THEN 1 ELSE 0
           count == f.width - (sign + n)
           m == IF count > 0 THEN count ELSE 0
           z == [k \in 1 .. m |-> "0"]
           w == z \o t
           P == Powers(base)
<1>1. /\ t \in Seq(Figure) /\ n \in 1 .. Width
      /\ ValueOf(t, base) = v
      /\ v < P[n]
      /\ n > 1 => P[n - 1] <= v
  <2>1. base \in 2 .. 16 /\ v \in Word
    OBVIOUS
  <2> HIDE DEF v
  <2> QED BY <2>1, DigitsRead
<1>2. IF f.left THEN Laid(text, 0, sign, t, m)
      ELSE IF f.zero THEN Laid(text, 0, sign, w, 0)
      ELSE Laid(text, m, sign, t, 0)
  <2>1. negative \in BOOLEAN /\ v \in Word
    OBVIOUS
  <2> HIDE DEF v, negative
  <2> QED BY <2>1, NumberLaid
<1> HIDE DEF v, negative, text, t, P
<1>3. n \in Nat /\ n # 0 /\ t # <<>> /\ base \in Nat \ {0}
  <2>1. n \in Nat /\ n # 0
    BY <1>1, WidthAssumption
  <2> QED BY <1>1, <2>1
<1> HIDE DEF n
<1>4. sign \in {0, 1} /\ (value < 0 <=> sign = 1) /\ sign = IF value < 0 THEN 1 ELSE 0
  BY DEF negative
<1>5. count \in Int /\ m \in Nat /\ m + (sign + n) = Larger(f.width, n + sign)
  <2> HIDE DEF sign
  <2> QED BY <1>3, <1>4 DEF Larger
<1> HIDE DEF sign, count, m
<1>6. /\ w \in Seq(Figure) /\ Len(w) = m + n /\ w # <<>>
      /\ ValueOf(w, base) = v
  <2>1. z \in Seq(Figure) /\ Len(z) = m /\ ValueOf(w, base) = ValueOf(t, base)
    BY <1>1, <1>3, <1>5, LeadingZeros
  <2> HIDE DEF z
  <2>2. w \in Seq(Figure) /\ Len(w) = m + n
    BY <1>1, <2>1, ConcatProperties DEF n
  <2>3. w # <<>>
    <3> HIDE DEF w
    <3> QED BY <1>3, <1>5, <2>2
  <2> QED BY <1>1, <2>1, <2>2, <2>3
<1> HIDE DEF z, w
<1> DEFINE Found(first, last) ==
               /\ v < P[n]
               /\ n > 1 => P[n - 1] <= v
               /\ Len(text) = Larger(f.width, n + sign)
               /\ \A k \in 1 .. Len(text) : text[k] = "space" <=> k \notin first .. last
               /\ value < 0 => text[first] = "-"
               /\ ValueOf(SubSeq(text, first + sign, last), base) = v
               /\ IF f.left THEN first = 1 /\ last = n + sign
                  ELSE last = Len(text) /\ first = IF f.zero THEN 1 ELSE Len(text) + 1 - (n + sign)
<1>7. ASSUME NEW first \in 1 .. Len(text), NEW last \in 1 .. Len(text), Found(first, last)
      PROVE  ReadsBack(text, f, base, value)
  BY <1>1, <1>4, <1>7 DEF ReadsBack, v, P
<1>8. ASSUME f.left PROVE text \in Seq(Char) /\ ReadsBack(text, f, base, value)
  <2>1. Laid(text, 0, sign, t, m)
    BY <1>2, <1>8
  <2>2. text \in Seq(Char) /\ Len(text) = 0 + sign + n + m
    BY <2>1 DEF Laid, n
  <2>3. /\ 0 + 1 \in 1 .. Len(text) /\ 0 + sign + n \in 1 .. Len(text)
        /\ \A k \in 1 .. Len(text) : text[k] = "space" <=> k \notin 0 + 1 .. 0 + sign + n
        /\ sign = 1 => text[0 + 1] = "-"
        /\ SubSeq(text, 0 + 1 + sign, 0 + sign + n) = t
    BY <1>1, <1>3, <1>4, <1>5, <2>1, LaidOut, SMTT(20) DEF n
  <2>4. 0 + 1 = 1 /\ 0 + sign + n = n + sign /\ Len(text) = m + (sign + n)
    BY <1>3, <1>4, <1>5, <2>2
  <2>5. Found(1, n + sign)
    BY <1>1, <1>4, <1>5, <1>8, <2>3, <2>4
  <2> HIDE DEF Found
  <2> QED BY <1>7, <2>2, <2>3, <2>4, <2>5
<1>9. ASSUME ~ f.left, f.zero PROVE text \in Seq(Char) /\ ReadsBack(text, f, base, value)
  <2>1. Laid(text, 0, sign, w, 0)
    BY <1>2, <1>9
  <2>2. text \in Seq(Char) /\ Len(text) = 0 + sign + Len(w) + 0
    BY <2>1 DEF Laid
  <2>3. /\ 0 + 1 \in 1 .. Len(text) /\ 0 + sign + Len(w) \in 1 .. Len(text)
        /\ \A k \in 1 .. Len(text) : text[k] = "space" <=> k \notin 0 + 1 .. 0 + sign + Len(w)
        /\ sign = 1 => text[0 + 1] = "-"
        /\ SubSeq(text, 0 + 1 + sign, 0 + sign + Len(w)) = w
    BY <1>4, <1>6, <2>1, LaidOut, SMTT(20)
  <2>4. 0 + 1 = 1 /\ 0 + sign + Len(w) = Len(text) /\ Len(text) = m + (sign + n)
    BY <1>3, <1>4, <1>5, <1>6, <2>2
  <2>5. Found(1, Len(text))
    BY <1>1, <1>4, <1>5, <1>6, <1>9, <2>3, <2>4
  <2> HIDE DEF Found
  <2> QED BY <1>7, <2>2, <2>3, <2>4, <2>5
<1>10. ASSUME ~ f.left, ~ f.zero PROVE text \in Seq(Char) /\ ReadsBack(text, f, base, value)
  <2>1. Laid(text, m, sign, t, 0)
    BY <1>2, <1>10
  <2>2. text \in Seq(Char) /\ Len(text) = m + sign + n + 0
    BY <2>1 DEF Laid, n
  <2>3. /\ m + 1 \in 1 .. Len(text) /\ m + sign + n \in 1 .. Len(text)
        /\ \A k \in 1 .. Len(text) : text[k] = "space" <=> k \notin m + 1 .. m + sign + n
        /\ sign = 1 => text[m + 1] = "-"
        /\ SubSeq(text, m + 1 + sign, m + sign + n) = t
    BY <1>1, <1>3, <1>4, <1>5, <2>1, LaidOut, SMTT(20) DEF n
  <2>4. /\ m + sign + n = Len(text) /\ Len(text) = m + (sign + n)
        /\ m + 1 = Len(text) + 1 - (n + sign)
    BY <1>3, <1>4, <1>5, <2>2
  <2>5. Found(m + 1, Len(text))
    BY <1>1, <1>4, <1>5, <1>10, <2>3, <2>4
  <2> HIDE DEF Found
  <2> QED BY <1>7, <2>2, <2>3, <2>4, <2>5
<1> QED BY <1>8, <1>9, <1>10 DEF text, negative, v

\* What %d passes to emit_number is the size of its argument, the most negative included.
LEMMA SizeOf ==
    ASSUME NEW arg \in Word
    PROVE  /\ Signed(arg) \in Int /\ (Negative(arg) <=> Signed(arg) < 0)
           /\ Abs(Signed(arg)) \in Word
           /\ (IF Negative(arg) THEN Wrap(-(Signed(arg) + 1)) + 1 ELSE arg) = Abs(Signed(arg))
<1>0. /\ Half \in Nat \ {0} /\ Span = 2 * Half /\ Span \div 2 = Half /\ Span \in Nat \ {0}
      /\ arg \in 0 .. Span - 1 /\ Word = 0 .. Span - 1
  BY Halves DEF Word
<1>1. Signed(arg) = IF arg < Half THEN arg ELSE arg - Span
  BY <1>0 DEF Signed
<1>2. Negative(arg) <=> ~ (arg < Half)
  BY <1>0 DEF Negative
<1>3. CASE arg < Half
  BY <1>0, <1>1, <1>2, <1>3 DEF Abs
<1>4. CASE ~ (arg < Half)
  <2> DEFINE x == -((arg - Span) + 1)
  <2>1. x \in Word /\ x \in Int /\ x + 1 = Span - arg /\ Span - arg \in Word /\ arg - Span < 0
    BY <1>0, <1>4
  <2>2. Wrap(x) = x
    <3> HIDE DEF x
    <3> QED BY <2>1, WrappedNear
  <2>3. Signed(arg) = arg - Span
    BY <1>1, <1>4
  <2>4. Abs(Signed(arg)) = Span - arg
    BY <1>0, <2>1, <2>3 DEF Abs
  <2>5. Wrap(-(Signed(arg) + 1)) + 1 = Span - arg
    BY <2>1, <2>2, <2>3
  <2> QED BY <1>0, <1>2, <1>4, <2>1, <2>3, <2>4, <2>5
<1> QED BY <1>3, <1>4

\* A word of more than four bits holds both bases.
LEMMA SixteenFits == ASSUME Width > 4 PROVE 16 \in Word
<1>0. Width \in Nat /\ Width >= 5
  BY WidthAssumption
<1> DEFINE T == {k \in 0 .. Width : k >= 5 => Power2[k] >= 32}
<1>1. \A k \in 1 .. Width : Power2[k] = 2 * Power2[k - 1] /\ Power2[k] \in Nat /\ Power2[k - 1] \in Nat
  <2>1. \A k \in 1 .. Width : k \in 0 .. Width /\ k - 1 \in 0 .. Width
    BY <1>0
  <2> QED BY <2>1, PowersDouble
<1>2. Power2[5] = 32
  <2>1. 1 \in 1 .. Width /\ 2 \in 1 .. Width /\ 3 \in 1 .. Width /\ 4 \in 1 .. Width /\ 5 \in 1 .. Width
    BY <1>0
  <2>2. Power2[1 - 1] = 1
    BY PowersDouble
  <2>3. /\ Power2[1] = 2 * Power2[1 - 1] /\ Power2[2] = 2 * Power2[2 - 1]
        /\ Power2[3] = 2 * Power2[3 - 1] /\ Power2[4] = 2 * Power2[4 - 1] /\ Power2[5] = 2 * Power2[5 - 1]
    BY <1>1, <2>1
  <2> QED BY <2>2, <2>3
<1>3. 0 \in T
  BY <1>0
<1>4. ASSUME NEW k \in 1 .. Width, k - 1 \in T PROVE k \in T
  <2>1. CASE k <= 5
    BY <1>0, <1>2, <2>1
  <2>2. CASE k > 5
    <3>1. Power2[k - 1] >= 32
      BY <1>4, <2>2
    <3>2. k \in 0 .. Width
      BY <1>0
    <3> QED BY <1>1, <3>1, <3>2
  <2> QED BY <2>1, <2>2
<1>5. \A k \in 0 .. Width : k \in T
  <2> HIDE DEF T
  <2> QED BY <1>0, <1>3, <1>4, CountTo
<1>6. Span >= 32
  BY <1>0, <1>5 DEF Span
<1> QED BY <1>6, Halves DEF Word

\* A number shown without a sign.
LEMMA UnsignedReadsBack ==
    ASSUME NEW base \in {10, 16}, 16 \in Word, NEW arg \in Word,
           NEW f, f.width \in Nat, f.left \in BOOLEAN, f.zero \in BOOLEAN
    PROVE  /\ emit_number(arg, base, FALSE, f) \in Seq(Char)
           /\ ReadsBack(emit_number(arg, base, FALSE, f), f, base, arg)
<1>1. arg \in Int /\ Abs(arg) = arg /\ ~ (arg < 0)
  BY Halves DEF Word, Abs
<1>2. (arg < 0) = FALSE
  BY <1>1
<1>3. Abs(arg) \in Word
  BY <1>1
<1>4. LET text == emit_number(Abs(arg), base, arg < 0, f) IN
      text \in Seq(Char) /\ ReadsBack(text, f, base, arg)
  BY <1>1, <1>3, NumberReadsBack
<1> QED BY <1>1, <1>2, <1>4

\* The marks before the letter of a conversion, parsed one by one, give what they ask for.
LEMMA MarksParsed ==
    ASSUME NEW marks \in Marks
    PROVE  LET p == Parsed(marks)  a == Asked(marks) IN
           /\ p.width \in Nat /\ p.left \in BOOLEAN /\ p.zero \in BOOLEAN
           /\ a.width = p.width /\ a.left = p.left /\ a.zero = p.zero
<1> DEFINE n == Len(marks)
           V == [left : BOOLEAN, zero : BOOLEAN, width : Nat, flags : BOOLEAN]
           Ten == {Digit[k] : k \in 1 .. 10}
           step == [p \in (1 .. n) \X V |-> Mark(p[2], marks[p[1]])]
           F(g) == [k \in 0 .. n |-> IF k = 0 THEN NoMarks ELSE Mark(g[k - 1], marks[k])]
           M == CHOOSE g : g = F(g)
           c == IF marks # <<>> /\ marks[n] = "l" THEN n - 1 ELSE n
           text == [k \in 1 .. c |-> IF marks[k] = "-" THEN "0" ELSE marks[k]]
<1>1. /\ marks \in Seq(Ten \cup {"-", "l"}) /\ n \in Nat /\ DOMAIN marks = 1 .. n
      /\ \A j \in 1 .. n : \A i \in 1 .. j - 1 :
            marks[i] # "l" /\ (marks[j] = "-" => marks[i] \in {"-", "0"})
  BY DEF Marks
<1>2. NoMarks \in V
  BY DEF NoMarks
<1>3. ASSUME NEW ch \in Ten PROVE ch \in Figure /\ DigitOf(ch) \in Nat
  <2>1. ch \in Figure
    BY DEF Figure, Digit
  <2> QED BY <2>1, FigureFacts
<1> HIDE DEF Ten
<1>4. ASSUME NEW p \in V, NEW ch \in Ten \cup {"-", "l"} PROVE Mark(p, ch) \in V
  <2>1. CASE ch \in {"-", "l"}
    BY <2>1 DEF Mark
  <2>2. CASE ch \in Ten
    <3>1. p.width \in Nat /\ DigitOf(ch) \in Nat
      BY <1>3, <2>2
    <3>2. 10 * p.width + DigitOf(ch) \in Nat
      BY <3>1
    <3> DEFINE w == 10 * p.width + DigitOf(ch)
    <3>3. [p EXCEPT !.width = w, !.flags = FALSE] \in V
      <4> HIDE DEF w
      <4> QED BY <3>2 DEF w
    <3> QED BY <3>3 DEF Mark
  <2> QED BY <2>1, <2>2
<1>5. \A k \in 1 .. n : marks[k] \in Ten \cup {"-", "l"}
  BY <1>1
<1> HIDE DEF n
<1>6. step \in [(1 .. n) \X V -> V]
  <2> HIDE DEF V
  <2> QED BY <1>4, <1>5
<1> HIDE DEF V
<1>7. PICK g : Built(g, n, V, NoMarks, step)
  <2> HIDE DEF step
  <2> QED BY <1>1, <1>2, <1>6, Recursion
<1>8. /\ g \in [0 .. n -> V] /\ g[0] = NoMarks
      /\ \A k \in 1 .. n : g[k] = step[<<k, g[k - 1]>>]
  BY <1>7 DEF Built
<1>9. g = F(g)
  <2>1. ASSUME NEW k \in 0 .. n, k # 0 PROVE g[k] = Mark(g[k - 1], marks[k])
    <3>1. k \in 1 .. n /\ k - 1 \in 0 .. n
      BY <1>1, <2>1
    <3>2. g[k - 1] \in V
      <4> HIDE DEF step
      <4> QED BY <1>8, <3>1
    <3>3. step[<<k, g[k - 1]>>] = Mark(g[k - 1], marks[k])
      BY <3>1, <3>2
    <3> HIDE DEF step
    <3> QED BY <1>8, <3>1, <3>3
  <2> HIDE DEF step
  <2> QED BY <1>8, <2>1
<1>10. M = F(M)
  <2> HIDE DEF F
  <2> QED BY <1>9
<1>11. Parsed(marks) = M[n]
  BY DEF Parsed, n
<1> HIDE DEF M
<1>12. M[0] = NoMarks /\ \A k \in 1 .. n : M[k] = Mark(M[k - 1], marks[k])
  <2>1. M[0] = NoMarks
    BY <1>1, <1>10
  <2>2. ASSUME NEW k \in 1 .. n PROVE M[k] = Mark(M[k - 1], marks[k])
    <3>1. k \in 0 .. n /\ k # 0
      BY <1>1
    <3> QED BY <1>10, <3>1
  <2> QED BY <2>1, <2>2
<1>13. c \in Nat /\ c <= n /\ \A k \in 1 .. c : marks[k] \in Ten \cup {"-"}
  <2>1. marks # <<>> => n \in 1 .. n
    BY <1>1, EmptySeq DEF n
  <2>2. c \in Nat /\ c <= n
    BY <1>1, <2>1
  <2>3. ASSUME NEW k \in 1 .. c PROVE marks[k] # "l"
    <3>1. CASE k = n
      BY <1>1, <2>1, <2>3, <3>1 DEF n
    <3>2. CASE k < n
      <4>1. n \in 1 .. n /\ k \in 1 .. n - 1
        BY <1>1, <2>2, <3>2
      <4> QED BY <1>1, <4>1
    <3> QED BY <1>1, <2>2, <3>1, <3>2
  <2>4. \A k \in 1 .. c : k \in 1 .. n
    BY <1>1, <2>2
  <2> HIDE DEF c
  <2> QED BY <1>5, <2>2, <2>3, <2>4
<1>14. M[n] = M[c]
  <2>1. CASE c = n
    BY <2>1
  <2>2. CASE c # n
    <3>1. marks[n] = "l" /\ c = n - 1 /\ marks # <<>>
      BY <2>2
    <3>2. n \in 1 .. n
      BY <1>1, <1>13, <3>1
    <3>3. M[n] = Mark(M[n - 1], "l")
      BY <1>12, <3>1, <3>2
    <3> QED BY <3>1, <3>3 DEF Mark
  <2> QED BY <2>1, <2>2
<1>15. /\ Asked(marks).left = \E k \in 1 .. c : marks[k] = "-"
       /\ Asked(marks).zero = \E k \in 1 .. c : marks[k] = "0" /\ \A j \in 1 .. k : marks[j] \in {"-", "0"}
       /\ Asked(marks).width = ValueOf(text, 10)
  BY DEF Asked, c, n
<1> HIDE DEF c
<1>16. text \in Seq(Figure) /\ Len(text) = c
  <2>1. \A k \in 1 .. c : (IF marks[k] = "-" THEN "0" ELSE marks[k]) \in Figure
    BY <1>3, <1>13, FigureFacts
  <2> QED BY <1>13, <2>1
<1> DEFINE W == Partial(text, 10)
<1>17. /\ W[0] = 0 /\ ValueOf(text, 10) = W[c]
       /\ \A k \in 1 .. c : W[k] = 10 * W[k - 1] + DigitOf(text[k])
       /\ \A k \in 0 .. c : W[k] \in Nat
  <2> HIDE DEF text
  <2>1. 10 \in Nat \ {0}
    OBVIOUS
  <2> QED BY <1>16, <2>1, ValueSteps
<1>18. \A k \in 1 .. c : text[k] = IF marks[k] = "-" THEN "0" ELSE marks[k]
  OBVIOUS
<1> HIDE DEF text, W
<1> DEFINE Flag(k) == \A i \in 1 .. k : marks[i] \in {"-", "0"}
           S == {k \in 0 .. c :
                    /\ M[k] \in V
                    /\ M[k].left <=> \E i \in 1 .. k : marks[i] = "-"
                    /\ M[k].zero <=> \E i \in 1 .. k : marks[i] = "0" /\ Flag(i)
                    /\ M[k].flags <=> Flag(k)
                    /\ M[k].width = W[k]
                    /\ M[k].flags => M[k].width = 0}
<1>19. 0 \in S
  <2>1. M[0].left = FALSE /\ M[0].zero = FALSE /\ M[0].flags = TRUE /\ M[0].width = 0
    BY <1>12 DEF NoMarks
  <2>2. Flag(0) /\ 0 \in 0 .. c /\ \A i : i \notin 1 .. 0
    BY <1>13
  <2> HIDE DEF Flag
  <2> QED BY <1>2, <1>12, <1>17, <2>1, <2>2
<1>20. ASSUME NEW k \in 1 .. c, k - 1 \in S PROVE k \in S
  <2> DEFINE p == M[k - 1]
             ch == marks[k]
  <2>1. /\ k \in 1 .. n /\ k \in 0 .. c /\ ch \in Ten \cup {"-"}
        /\ \A i : i \in 1 .. k <=> i \in 1 .. k - 1 \/ i = k
    BY <1>1, <1>13
  <2>2. /\ p \in V /\ (p.left <=> \E i \in 1 .. k - 1 : marks[i] = "-")
        /\ (p.zero <=> \E i \in 1 .. k - 1 : marks[i] = "0" /\ Flag(i))
        /\ (p.flags <=> Flag(k - 1)) /\ p.width = W[k - 1] /\ (p.flags => p.width = 0)
    BY <1>20
  <2>3. M[k] = Mark(p, ch) /\ M[k] \in V
    <3>1. Mark(p, ch) \in V
      BY <1>4, <2>1, <2>2
    <3> QED BY <1>12, <2>1, <3>1
  <2>4. W[k] = 10 * p.width + DigitOf(text[k]) /\ text[k] = (IF ch = "-" THEN "0" ELSE ch)
    BY <1>17, <1>18, <2>2
  <2>5. Flag(k) <=> (Flag(k - 1) /\ ch \in {"-", "0"})
    BY <2>1
  <2>6. (\E i \in 1 .. k : marks[i] = "-") <=> (p.left \/ ch = "-")
    BY <2>1, <2>2
  <2>7. (\E i \in 1 .. k : marks[i] = "0" /\ Flag(i)) <=> (p.zero \/ (ch = "0" /\ Flag(k)))
    <3> HIDE DEF Flag
    <3> QED BY <2>1, <2>2
  <2>8. p.left \in BOOLEAN /\ p.zero \in BOOLEAN /\ p.flags \in BOOLEAN /\ p.width \in Nat
    BY <2>2 DEF V
  <2>9. DigitOf("0") = 0
    BY FigureFacts
  <2>10. CASE ch = "-"
    <3>1. Flag(k - 1)
      BY <1>1, <2>1, <2>10
    <3>2. M[k] = [p EXCEPT !.left = TRUE]
      BY <2>3, <2>10 DEF Mark
    <3>3. M[k].left = TRUE /\ M[k].zero = p.zero /\ M[k].flags = p.flags /\ M[k].width = p.width
      BY <2>2, <3>2 DEF V
    <3>4. W[k] = 0 /\ p.width = 0
      BY <2>2, <2>4, <2>9, <2>10, <3>1
    <3>5. Flag(k) /\ (p.flags <=> Flag(k))
      BY <2>2, <2>5, <2>10, <3>1
    <3> HIDE DEF p, ch, Flag
    <3>6. M[k].left <=> \E i \in 1 .. k : marks[i] = "-"
      BY <2>6, <2>10, <3>3
    <3>7. M[k].zero <=> \E i \in 1 .. k : marks[i] = "0" /\ Flag(i)
      BY <2>7, <2>10, <3>3, <3>5
    <3>8. /\ M[k].flags <=> Flag(k)
          /\ M[k].width = W[k]
          /\ M[k].flags => M[k].width = 0
      BY <3>3, <3>4, <3>5
    <3> QED BY <2>1, <2>3, <3>6, <3>7, <3>8
  <2>11. CASE ch = "0" /\ p.flags
    <3>1. Flag(k - 1)
      BY <2>2, <2>11
    <3>2. M[k] = [p EXCEPT !.zero = TRUE]
      BY <2>3, <2>11 DEF Mark
    <3>3. M[k].left = p.left /\ M[k].zero = TRUE /\ M[k].flags = p.flags /\ M[k].width = p.width
      BY <2>2, <3>2 DEF V
    <3>4. W[k] = 0 /\ p.width = 0
      BY <2>2, <2>4, <2>9, <2>11
    <3>5. Flag(k) /\ (p.flags <=> Flag(k))
      BY <2>2, <2>5, <2>11, <3>1
    <3> HIDE DEF p, ch, Flag
    <3>6. M[k].left <=> \E i \in 1 .. k : marks[i] = "-"
      BY <2>6, <2>11, <3>3
    <3>7. M[k].zero <=> \E i \in 1 .. k : marks[i] = "0" /\ Flag(i)
      BY <2>7, <2>11, <3>3, <3>5
    <3>8. /\ M[k].flags <=> Flag(k)
          /\ M[k].width = W[k]
          /\ M[k].flags => M[k].width = 0
      BY <3>3, <3>4, <3>5
    <3> QED BY <2>1, <2>3, <3>6, <3>7, <3>8
  <2>12. CASE ch # "-" /\ ~ (ch = "0" /\ p.flags)
    <3>1. ch # "l"
      BY <1>3, <2>1, <2>12 DEF Ten, Digit
    <3>2. M[k] = [p EXCEPT !.width = 10 * p.width + DigitOf(ch), !.flags = FALSE]
      BY <2>3, <2>12, <3>1 DEF Mark
    <3>3. M[k].left = p.left /\ M[k].zero = p.zero /\ M[k].flags = FALSE
            /\ M[k].width = 10 * p.width + DigitOf(ch)
      BY <2>2, <3>2 DEF V
    <3>4. W[k] = M[k].width
      BY <2>4, <2>12, <3>3
    <3>5. ~ Flag(k)
      BY <2>2, <2>5, <2>12
    <3> HIDE DEF p, ch, Flag
    <3>6. M[k].left <=> \E i \in 1 .. k : marks[i] = "-"
      BY <2>6, <2>12, <3>3
    <3>7. M[k].zero <=> \E i \in 1 .. k : marks[i] = "0" /\ Flag(i)
      BY <2>7, <2>12, <3>3, <3>5
    <3>8. /\ M[k].flags <=> Flag(k)
          /\ M[k].width = W[k]
          /\ M[k].flags => M[k].width = 0
      BY <3>3, <3>4, <3>5
    <3> QED BY <2>1, <2>3, <3>6, <3>7, <3>8
  <2> QED BY <2>10, <2>11, <2>12
<1>21. c \in S
  <2>1. \A k \in 0 .. c : k \in S
    <3> HIDE DEF S
    <3> QED BY <1>13, <1>19, <1>20, CountTo
  <2> HIDE DEF S
  <2> QED BY <1>13, <2>1
<1>22. M[c].left \in BOOLEAN /\ M[c].zero \in BOOLEAN /\ M[c].width \in Nat
  BY <1>21 DEF V
<1> QED BY <1>11, <1>14, <1>15, <1>17, <1>21, <1>22

\* What an element puts is a text, and its numbers read back.
LEMMA EmitReads ==
    ASSUME 16 \in Word, NEW f \in Element
    PROVE  /\ emit(f) \in Seq(Char)
           /\ f.conv \in {"d", "u", "x"} =>
                 ReadsBack(emit(f), Asked(f.marks), IF f.conv = "x" THEN 16 ELSE 10,
                           IF f.conv = "d" THEN Signed(f.arg) ELSE f.arg)
<1> DEFINE p == Parsed(f.marks)
           a == Asked(f.marks)
<1>0. /\ f.conv \in Kinds /\ f.arg \in Word /\ f.text \in Seq(Char) /\ f.marks \in Marks
      /\ f.conv = "c" => f.text # <<>>
  BY DEF Element
<1>1. /\ f.conv \in Kinds /\ f.arg \in Word /\ f.text \in Seq(Char) /\ p.width \in Nat
      /\ p.left \in BOOLEAN /\ p.zero \in BOOLEAN /\ (f.conv = "c" => f.text # <<>>)
      /\ a.width = p.width /\ a.left = p.left /\ a.zero = p.zero
  BY <1>0, MarksParsed
<1>same. ASSUME NEW text, NEW base, NEW value
       PROVE  ReadsBack(text, p, base, value) <=> ReadsBack(text, a, base, value)
  <2> HIDE DEF p, a
  <2> QED BY <1>1 DEF ReadsBack
<1>2. CASE f.conv = "literal"
  BY <1>1, <1>2 DEF emit
<1>3. CASE f.conv = "d"
  <2> DEFINE value == Signed(f.arg)
  <2>1. emit(f) = emit_number(IF Negative(f.arg) THEN Wrap(-(Signed(f.arg) + 1)) + 1 ELSE f.arg,
                              10, Negative(f.arg), p)
    BY <1>3 DEF emit
  <2>2. /\ value \in Int /\ (Negative(f.arg) <=> value < 0) /\ Abs(value) \in Word
        /\ (IF Negative(f.arg) THEN Wrap(-(Signed(f.arg) + 1)) + 1 ELSE f.arg) = Abs(value)
    BY <1>1, SizeOf
  <2>3. Negative(f.arg) = (value < 0)
    BY <2>2 DEF Negative
  <2> HIDE DEF value
  <2>4. emit(f) = emit_number(Abs(value), 10, value < 0, p)
    BY <2>1, <2>2, <2>3
  <2>5. LET text == emit_number(Abs(value), 10, value < 0, p) IN
        text \in Seq(Char) /\ ReadsBack(text, p, 10, value)
    BY <1>1, <2>2, NumberReadsBack
  <2>6. emit(f) \in Seq(Char) /\ ReadsBack(emit(f), a, 10, value)
    BY <1>same, <2>4, <2>5
  <2> QED BY <1>3, <2>6 DEF value
<1>4. CASE f.conv = "u"
  <2>1. emit(f) = emit_number(f.arg, 10, FALSE, p)
    BY <1>4 DEF emit
  <2>2. /\ emit_number(f.arg, 10, FALSE, p) \in Seq(Char)
        /\ ReadsBack(emit_number(f.arg, 10, FALSE, p), p, 10, f.arg)
    BY <1>1, UnsignedReadsBack
  <2>3. ReadsBack(emit(f), a, 10, f.arg)
    BY <1>same, <2>1, <2>2
  <2> QED BY <1>4, <2>1, <2>2, <2>3
<1>5. CASE f.conv = "x"
  <2>1. emit(f) = emit_number(f.arg, 16, FALSE, p)
    BY <1>5 DEF emit
  <2>2. /\ emit_number(f.arg, 16, FALSE, p) \in Seq(Char)
        /\ ReadsBack(emit_number(f.arg, 16, FALSE, p), p, 16, f.arg)
    BY <1>1, UnsignedReadsBack
  <2>3. ReadsBack(emit(f), a, 16, f.arg)
    BY <1>same, <2>1, <2>2
  <2> QED BY <1>5, <2>1, <2>2, <2>3
<1>6. CASE f.conv = "p"
  <2> DEFINE r == [width |-> 8, left |-> FALSE, zero |-> TRUE]
             text == emit_number(f.arg, 16, FALSE, r)
  <2>1. emit(f) = <<"0", "x">> \o text
    BY <1>6 DEF emit
  <2>2. r.width \in Nat /\ r.left \in BOOLEAN /\ r.zero \in BOOLEAN
    OBVIOUS
  <2>3. text \in Seq(Char)
    <3> HIDE DEF r
    <3> QED BY <1>1, <2>2, UnsignedReadsBack
  <2>4. <<"0", "x">> \in Seq(Char)
    <3>1. "0" \in Char
      BY FigureFacts
    <3>2. "x" \in Char
      BY DEF Char
    <3> QED BY <3>1, <3>2
  <2> HIDE DEF text
  <2>5. emit(f) \in Seq(Char)
    <3>1. <<"0", "x">> \o text \in Seq(Char)
      BY <2>3, <2>4, ConcatProperties
    <3> QED BY <2>1, <3>1
  <2> QED BY <1>6, <2>5
<1>7. CASE f.conv = "c"
  <2>1. f.text[1] \in Char
    BY <1>1, <1>7
  <2>2. emit(f) = <<f.text[1]>>
    BY <1>7 DEF emit
  <2> QED BY <1>7, <2>1, <2>2
<1>8. CASE f.conv = "s"
  <2> DEFINE fill == pad(p.width - Len(f.text), "space")
  <2>1. emit(f) = IF p.left THEN f.text \o fill ELSE fill \o f.text
    BY <1>8 DEF emit, emit_str
  <2>2. fill \in Seq(Char)
    <3>1. "space" \in Char
      BY DEF Char
    <3>2. p.width - Len(f.text) \in Int
      BY <1>1
    <3> QED BY <3>1, <3>2, Padding
  <2> HIDE DEF fill
  <2>3. f.text \o fill \in Seq(Char) /\ fill \o f.text \in Seq(Char)
    BY <1>1, <2>2, ConcatProperties
  <2> QED BY <1>8, <2>1, <2>3
<1>9. CASE f.conv = "%"
  <2>1. "%" \in Char
    BY DEF Char
  <2>2. emit(f) = <<"%">>
    BY <1>9 DEF emit
  <2> QED BY <1>9, <2>1, <2>2
<1>10. CASE f.conv = "end"
  <2>1. emit(f) = <<>>
    BY <1>10 DEF emit
  <2> QED BY <1>10, <2>1
<1>11. CASE f.conv \notin {"literal", "d", "u", "x", "p", "c", "s", "%", "end"}
  <2>1. "%" \in Char /\ f.conv \in Char
    BY <1>1, <1>11 DEF Char, Kinds
  <2>2. emit(f) = <<"%", f.conv>>
    BY <1>11 DEF emit
  <2>3. <<"%", f.conv>> \in Seq(Char)
    BY <2>1
  <2> QED BY <1>11, <2>2, <2>3
<1> QED BY <1>2, <1>3, <1>4, <1>5, <1>6, <1>7, <1>8, <1>9, <1>10, <1>11

\* What a format puts is a text.
LEMMA ProducedType ==
    ASSUME 16 \in Word, NEW fmt \in Seq(Element)
    PROVE  Produced(fmt) \in Seq(Char)
<1> DEFINE n == Len(fmt)
           V == Seq(Char)
           step == [p \in (1 .. n) \X V |-> p[2] \o emit(fmt[p[1]])]
           F(g) == [k \in 0 .. n |-> IF k = 0 THEN <<>> ELSE g[k - 1] \o emit(fmt[k])]
           P == CHOOSE g : g = F(g)
<1>0. n \in Nat /\ <<>> \in V
  OBVIOUS
<1>1. \A k \in 1 .. n : emit(fmt[k]) \in V
  <2>1. \A k \in 1 .. n : fmt[k] \in Element
    OBVIOUS
  <2> QED BY <2>1, EmitReads
<1> HIDE DEF n
<1>2. \A k \in 1 .. n : \A x \in V : x \o emit(fmt[k]) \in V
  BY <1>1, ConcatProperties
<1> HIDE DEF V
<1>3. step \in [(1 .. n) \X V -> V]
  BY <1>2
<1>4. PICK g : Built(g, n, V, <<>>, step)
  <2> HIDE DEF step
  <2> QED BY <1>0, <1>3, Recursion
<1>5. /\ g \in [0 .. n -> V] /\ g[0] = <<>>
      /\ \A k \in 1 .. n : g[k] = step[<<k, g[k - 1]>>]
  BY <1>4 DEF Built
<1>6. g = F(g)
  <2>1. ASSUME NEW k \in 0 .. n, k # 0 PROVE g[k] = g[k - 1] \o emit(fmt[k])
    <3>1. k \in 1 .. n /\ k - 1 \in 0 .. n
      BY <1>0, <2>1
    <3>2. g[k - 1] \in V
      <4> HIDE DEF step
      <4> QED BY <1>5, <3>1
    <3>3. step[<<k, g[k - 1]>>] = g[k - 1] \o emit(fmt[k])
      BY <3>1, <3>2
    <3> HIDE DEF step
    <3> QED BY <1>5, <3>1, <3>3
  <2> HIDE DEF step
  <2> QED BY <1>5, <2>1
<1>7. P = F(P)
  <2> HIDE DEF F
  <2> QED BY <1>6
<1>8. Produced(fmt) = P[n]
  BY DEF Produced, P, n
<1> HIDE DEF P
<1>9. P[0] = <<>> /\ \A k \in 1 .. n : P[k] = P[k - 1] \o emit(fmt[k])
  <2>1. P[0] = <<>>
    BY <1>0, <1>7
  <2>2. ASSUME NEW k \in 1 .. n PROVE P[k] = P[k - 1] \o emit(fmt[k])
    <3>1. k \in 0 .. n /\ k # 0
      BY <1>0
    <3> QED BY <1>7, <3>1
  <2> QED BY <2>1, <2>2
<1> DEFINE T == {k \in 0 .. n : P[k] \in V}
<1>10. 0 \in T
  BY <1>0, <1>9
<1>11. ASSUME NEW k \in 1 .. n, k - 1 \in T PROVE k \in T
  <2>1. P[k - 1] \in V /\ k \in 0 .. n
    BY <1>0, <1>11
  <2> QED BY <1>2, <1>9, <2>1
<1>12. \A k \in 0 .. n : k \in T
  <2> HIDE DEF T
  <2> QED BY <1>0, <1>10, <1>11, CountTo
<1> QED BY <1>0, <1>8, <1>12 DEF V

\* Every figure of base 8 or more takes at least three bits.
LEMMA PowersOutgrow ==
    ASSUME NEW base \in 8 .. 16
    PROVE  \A k \in 0 .. Width :
               (IF 3 * k <= Width THEN Power2[3 * k] ELSE Span) <= Powers(base)[k]
<1> DEFINE P == Powers(base)
           E(k) == IF 3 * k <= Width THEN Power2[3 * k] ELSE Span
           T == {k \in 0 .. Width : E(k) <= P[k]}
<1>0. Width \in Nat /\ Span = Power2[Width] /\ base \in Nat \ {0}
  BY WidthAssumption DEF Span
<1>1. P[0] = 1 /\ (\A k \in 1 .. Width : P[k] = base * P[k - 1]) /\ \A k \in 0 .. Width : P[k] \in Nat \ {0}
  BY <1>0, PowersGrow
<1>2. /\ Power2[0] = 1
      /\ \A k \in 1 .. Width : Power2[k] = 2 * Power2[k - 1]
      /\ \A k \in 0 .. Width : Power2[k] \in Nat \ {0}
  BY PowersDouble
<1> HIDE DEF P
<1>3. 0 \in T
  BY <1>0, <1>1, <1>2
<1>4. ASSUME NEW k \in 1 .. Width, k - 1 \in T PROVE k \in T
  <2>1. E(k - 1) <= P[k - 1] /\ k - 1 \in 0 .. Width /\ k \in 0 .. Width
    BY <1>0, <1>4
  <2>2. 8 * P[k - 1] <= P[k] /\ P[k] \in Nat /\ P[k - 1] \in Nat
    <3>1. PICK x \in Nat : base = 8 + x
      <4>1. base - 8 \in Nat /\ base = 8 + (base - 8)
        OBVIOUS
      <4> QED BY <4>1
    <3>2. \A p \in Nat : (8 + x) * p = 8 * p + x * p /\ x * p \in Nat
      OBVIOUS
    <3> QED BY <1>1, <2>1, <3>1, <3>2
  <2>3. CASE 3 * (k - 1) <= Width
    <3> DEFINE j == 3 * (k - 1)
    <3>1. j \in Nat /\ j \in 0 .. Width /\ 3 * k = j + 3
      BY <1>0, <2>3
    <3> HIDE DEF j
    <3>2. Power2[j] <= P[k - 1] /\ Power2[j] \in Nat
      BY <1>2, <2>1, <2>3, <3>1 DEF j
    <3>3. \A i \in Nat : i + 1 <= Width => Power2[i + 1] = 2 * Power2[i] /\ Power2[i] \in Nat
      <4> SUFFICES ASSUME NEW i \in Nat, i + 1 <= Width
                   PROVE  Power2[i + 1] = 2 * Power2[i] /\ Power2[i] \in Nat
        OBVIOUS
      <4>1. i + 1 \in 1 .. Width /\ (i + 1) - 1 = i /\ i \in 0 .. Width
        BY <1>0
      <4> QED BY <1>2, <4>1
    <3>4. j + 1 <= Width => Power2[j + 1] = 2 * Power2[j]
      BY <3>1, <3>3
    <3>5. j + 2 <= Width => Power2[j + 2] = 4 * Power2[j]
      <4>1. j + 1 \in Nat /\ (j + 1) + 1 = j + 2 /\ (j + 2 <= Width => j + 1 <= Width)
        BY <1>0, <3>1
      <4> QED BY <3>2, <3>3, <3>4, <4>1
    <3>6. j + 3 <= Width => Power2[j + 3] = 8 * Power2[j]
      <4>1. j + 2 \in Nat /\ (j + 2) + 1 = j + 3 /\ (j + 3 <= Width => j + 2 <= Width)
        BY <1>0, <3>1
      <4> QED BY <3>2, <3>3, <3>5, <4>1
    <3>7. E(k) <= 8 * Power2[j]
      <4>1. CASE j + 3 <= Width
        BY <3>1, <3>2, <3>6, <4>1
      <4>2. CASE ~ (j + 3 <= Width)
        <5>1. Width = j \/ Width = j + 1 \/ Width = j + 2
          BY <1>0, <3>1, <4>2
        <5>2. Span <= 4 * Power2[j]
          BY <1>0, <3>2, <3>4, <3>5, <5>1
        <5>3. E(k) = Span
          BY <3>1, <4>2
        <5> HIDE DEF E
        <5> QED BY <1>0, <3>2, <5>2, <5>3, Halves
      <4> QED BY <4>1, <4>2
    <3>8. E(k) \in Nat
      <4>1. Span \in Nat
        BY Halves
      <4>2. 3 * k <= Width => Power2[3 * k] \in Nat
        <5>1. 3 * k <= Width => 3 * k \in 0 .. Width
          BY <1>0
        <5> QED BY <1>2, <5>1
      <4> QED BY <4>1, <4>2
    <3> HIDE DEF E
    <3>9. E(k) <= P[k]
      BY <2>2, <3>2, <3>7, <3>8
    <3> QED BY <2>1, <3>9
  <2>4. CASE ~ (3 * (k - 1) <= Width)
    <3>1. ~ (3 * k <= Width)
      BY <1>0, <2>4
    <3>2. E(k) = Span /\ E(k - 1) = Span
      BY <2>4, <3>1
    <3> HIDE DEF E
    <3> QED BY <2>1, <2>2, <3>2, Halves
  <2> QED BY <2>3, <2>4
<1>5. \A k \in 0 .. Width : k \in T
  <2> HIDE DEF T
  <2> QED BY <1>0, <1>3, <1>4, CountTo
<1> QED BY <1>5 DEF P

------------------------------------------------------------------------------
(* The calls *)

\* A call on one of the inputs there are, not answered yet or answered with its result.
CallOK ==
    \/ \E n, d \in Word : call = <<"divide", n, d>>
    \/ \E dst, src, n \in 0 .. MemSize :
          dst + n <= MemSize /\ src + n <= MemSize /\ call = <<"move", dst + 1, src + 1, n>>
    \/ \E cap \in Caps, text \in Texts : call = <<"copy", cap, text>>
    \/ \E cap \in Caps, narrow \in BOOLEAN, fmt \in Formats : call = <<"format", cap, narrow, fmt>>
    \/ \E now, timeout, elapsed \in Word : call = <<"deadline", now, timeout, elapsed>>

RtInv == CallOK /\ (answer = <<>> \/ answer = Result)

\* A routine is called once and answers with its result.
LEMMA RtInvariant == RtSpec => []RtInv
<1>1. RtInit => RtInv
  BY DEF RtInit, RtInv, CallOK
<1>2. RtInv /\ [Return]_rtVars => RtInv'
  <2> SUFFICES ASSUME RtInv, [Return]_rtVars PROVE RtInv'
    OBVIOUS
  <2>1. call' = call
    BY DEF Return, rtVars
  <2>2. Result' = Result
    BY <2>1 DEF Result
  <2>3. CallOK'
    BY <2>1 DEF RtInv, CallOK
  <2>4. answer' = answer \/ answer' = Result
    BY DEF Return, rtVars
  <2> QED BY <2>2, <2>3, <2>4 DEF RtInv
<1> QED BY <1>1, <1>2, PTL DEF RtSpec

\* What the four entries of the divider give is the quotient and the remainder.
LEMMA DivisionMeans == RtInv => DivisionExact
<1> SUFFICES ASSUME RtInv, Answered("divide") PROVE DivisionExact
  BY DEF DivisionExact
<1>1. call[1] = "divide" /\ answer = Result
  BY DEF RtInv, Answered
<1>2. PICK n \in Word, d \in Word : call = <<"divide", n, d>>
  BY <1>1 DEF RtInv, CallOK
<1>3. call[2] = n /\ call[3] = d
  BY <1>2
<1>4. answer = <<udivsi3(n, d), sdivsi3(n, d), umodsi3(n, d), modsi3(n, d)>>
  BY <1>1, <1>3 DEF Result
<1> DEFINE q == Truncated(Signed(n), Signed(d))
<1>5. CASE d = 0
  <2>1. udivsi3(n, d) = 0 /\ sdivsi3(n, d) = 0 /\ umodsi3(n, d) = 0 /\ modsi3(n, d) = 0
    BY <1>5 DEF udivsi3, sdivsi3, umodsi3, modsi3
  <2> QED BY <1>3, <1>4, <1>5, <2>1 DEF DivisionExact
<1>6. CASE d # 0
  <2>1. udivsi3(n, d) = n \div d /\ umodsi3(n, d) = n % d
    BY <1>6, UnsignedRemainder
  <2>2. sdivsi3(n, d) = Wrap(q)
    BY <1>6, SignedQuotient
  <2>3. modsi3(n, d) = Wrap(Signed(n) - q * Signed(d))
    BY <1>6, SignedRemainder
  <2>4. answer = <<n \div d, Wrap(q), n % d, Wrap(Signed(n) - q * Signed(d))>>
    <3> HIDE DEF q
    <3> QED BY <1>4, <2>1, <2>2, <2>3
  <2> QED BY <1>3, <1>6, <2>4 DEF DivisionExact
<1> QED BY <1>5, <1>6

\* The time since a deadline's start, compared on a clock that wraps.
LEMMA Expiry ==
    ASSUME NEW now \in Word, NEW timeout \in Word, NEW elapsed \in Word,
           timeout < Span \div 2, elapsed < timeout + Span \div 2
    PROVE  Signed(Wrap(Wrap(now + elapsed) - Wrap(now + timeout))) >= 0 <=> elapsed >= timeout
<1>0. /\ Half \in Nat \ {0} /\ Span = 2 * Half /\ Span \div 2 = Half /\ Span \in Nat \ {0}
      /\ now \in Nat /\ timeout \in 0 .. Half - 1 /\ elapsed \in 0 .. Span - 1
      /\ elapsed < timeout + Half
  BY Halves DEF Word
<1> DEFINE a == Wrap(now + elapsed)
           b == Wrap(now + timeout)
           x == elapsed - timeout
<1>1. \A v \in Nat : \E c \in Int : Wrap(v) = v + c * Span
  <2> SUFFICES ASSUME NEW v \in Nat PROVE \E c \in Int : Wrap(v) = v + c * Span
    OBVIOUS
  <2>1. v \div Span \in Int /\ v = (v \div Span) * Span + (v % Span) /\ v % Span \in Int
    BY <1>0
  <2>2. Wrap(v) = v + (- (v \div Span)) * Span /\ - (v \div Span) \in Int
    BY <1>0, <2>1 DEF Wrap
  <2> QED BY <2>2
<1>2. now + elapsed \in Nat /\ now + timeout \in Nat
  BY <1>0
<1>3. PICK c \in Int : a = now + elapsed + c * Span
  BY <1>1, <1>2
<1>4. PICK e \in Int : b = now + timeout + e * Span
  BY <1>1, <1>2
<1>5. a - b = x + (c - e) * Span
  <2> HIDE DEF a, b
  <2> QED BY <1>0, <1>3, <1>4
<1>6. a - b \in Int /\ x \in Int /\ c - e \in Int
  <2> HIDE DEF a, b
  <2> QED BY <1>0, <1>3, <1>4
<1>7. Wrap(a - b) = Wrap(x)
  <2> HIDE DEF a, b, x
  <2> QED BY <1>5, <1>6, Congruent
<1>8. CASE elapsed >= timeout
  <2>1. x \in Word /\ x < Half /\ x >= 0
    BY <1>0, <1>8 DEF Word
  <2>2. Wrap(x) = x
    <3> HIDE DEF x
    <3> QED BY <1>6, <2>1, WrappedNear
  <2>3. Signed(x) = x
    <3> HIDE DEF x
    <3> QED BY <1>0, <2>1 DEF Signed
  <2> HIDE DEF x
  <2> QED BY <1>7, <1>8, <2>1, <2>2, <2>3
<1>9. CASE ~ (elapsed >= timeout)
  <2>1. x + Span \in Word /\ ~ (x + Span < Half) /\ x < 0
    BY <1>0, <1>9 DEF Word
  <2>2. Wrap(x) = x + Span
    <3> HIDE DEF x
    <3> QED BY <1>6, <2>1, WrappedNear
  <2>3. Signed(x + Span) = x
    <3> HIDE DEF x
    <3> QED BY <1>0, <1>6, <2>1 DEF Signed
  <2>4. Signed(Wrap(a - b)) = x
    BY <1>7, <2>2, <2>3
  <2> HIDE DEF x
  <2> QED BY <1>6, <1>9, <2>1, <2>4
<1> QED BY <1>8, <1>9

\* What the deadline's check gives is whether the timeout has passed.
LEMMA DeadlineMeans == RtInv => DeadlineExact
<1> SUFFICES ASSUME RtInv, Answered("deadline") PROVE DeadlineExact
  BY DEF DeadlineExact
<1>1. call[1] = "deadline" /\ answer = Result
  BY DEF RtInv, Answered
<1>2. PICK now \in Word, timeout \in Word, elapsed \in Word :
          call = <<"deadline", now, timeout, elapsed>>
  BY <1>1 DEF RtInv, CallOK
<1>3. call[2] = now /\ call[3] = timeout /\ call[4] = elapsed
  BY <1>2
<1> DEFINE gone == deadline_expired(deadline_start(now, timeout), Wrap(now + elapsed))
<1>4. answer = <<gone>>
  BY <1>1, <1>3 DEF Result
<1> SUFFICES ASSUME timeout < Span \div 2, elapsed < timeout + Span \div 2
             PROVE  answer = <<timeout # 0 /\ elapsed >= timeout>>
  BY <1>3 DEF DeadlineExact
<1>5. Signed(Wrap(Wrap(now + elapsed) - Wrap(now + timeout))) >= 0 <=> elapsed >= timeout
  BY Expiry
<1>6. gone = (timeout # 0 /\ elapsed >= timeout)
  BY <1>5 DEF deadline_expired, deadline_start
<1> QED BY <1>4, <1>6

\* The three routines that fill a buffer fill it as they should.
LEMMA BuffersMean == ASSUME Width > 4 PROVE RtInv => BuffersExact
<1> SUFFICES ASSUME RtInv PROVE BuffersExact
  OBVIOUS
<1>0. CallOK /\ (answer # <<>> => answer = Result)
  BY DEF RtInv
<1>1. ASSUME Answered("move")
      PROVE  LET dst == call[2]  src == call[3]  n == call[4] IN
             answer = <<[k \in 1 .. MemSize |-> IF k \in dst .. dst + n - 1 THEN k - dst + src ELSE k]>>
  <2>1. call[1] = "move" /\ answer = Result
    BY <1>0, <1>1 DEF Answered
  <2>2. PICK i, j, n \in 0 .. MemSize :
            i + n <= MemSize /\ j + n <= MemSize /\ call = <<"move", i + 1, j + 1, n>>
    BY <1>0, <2>1 DEF CallOK
  <2> DEFINE dst == i + 1
             src == j + 1
  <2>3. call[2] = dst /\ call[3] = src /\ call[4] = n
    BY <2>2
  <2>4. /\ MemSize \in Nat /\ dst \in Nat \ {0} /\ src \in Nat \ {0} /\ n \in Nat
        /\ dst + n <= MemSize + 1 /\ src + n <= MemSize + 1
    BY <2>2, RtCallsAssumption
  <2> HIDE DEF dst, src
  <2>5. Memory \in [1 .. MemSize -> 1 .. MemSize] /\ \A k \in 1 .. MemSize : Memory[k] = k
    BY DEF Memory
  <2>6. memmove(Memory, dst, src, n) = Replaced(Memory, MemSize, dst, src, n)
    <3> DEFINE S == 1 .. MemSize
    <3>1. Memory \in [1 .. MemSize -> S]
      BY <2>5
    <3> HIDE DEF S
    <3> QED BY <2>4, <3>1, MemmoveMoves
  <2>7. \A k \in 1 .. MemSize : k \in dst .. dst + n - 1 => k - dst + src \in 1 .. MemSize
    BY <2>4
  <2>8. \A k \in 1 .. MemSize :
            (IF k \in dst .. dst + n - 1 THEN Memory[k - dst + src] ELSE Memory[k])
                = IF k \in dst .. dst + n - 1 THEN k - dst + src ELSE k
    BY <2>5, <2>7
  <2>9. answer = <<memmove(Memory, dst, src, n)>>
    BY <2>1, <2>3 DEF Result
  <2>10. Replaced(Memory, MemSize, dst, src, n) =
             [k \in 1 .. MemSize |-> IF k \in dst .. dst + n - 1 THEN k - dst + src ELSE k]
    BY <2>8 DEF Replaced
  <2> QED BY <2>3, <2>6, <2>9, <2>10
<1>2. ASSUME Answered("copy") PROVE answer = <<Terminated(call[3], call[2])>>
  <2>1. call[1] = "copy" /\ answer = Result
    BY <1>0, <1>2 DEF Answered
  <2>2. PICK cap \in Caps, text \in Texts : call = <<"copy", cap, text>>
    BY <1>0, <2>1 DEF CallOK
  <2>3. call[2] = cap /\ call[3] = text
    BY <2>2
  <2>4. answer = <<wcscpy_n(Fresh(cap), text)>>
    BY <2>1, <2>3 DEF Result
  <2>5. cap \in Nat /\ text \in Seq(Char)
    BY RtCallsAssumption
  <2> QED BY <2>3, <2>4, <2>5, CopyCuts
<1>3. ASSUME Answered("format")
      PROVE  LET cap == call[2]  narrow == call[3]  fmt == call[4]
                 text == Produced(fmt)
                 shown == [k \in 1 .. Len(text) |-> IF narrow /\ text[k] = "wide" THEN "?" ELSE text[k]]
             IN  /\ answer[1].buf = Terminated(shown, cap)
                 /\ answer[1].len = Len(text)
                 /\ \A k \in 1 .. Len(fmt) :
                       LET f == fmt[k] IN
                       f.conv \in {"d", "u", "x"} =>
                           ReadsBack(emit(f), Asked(f.marks), IF f.conv = "x" THEN 16 ELSE 10,
                                     IF f.conv = "d" THEN Signed(f.arg) ELSE f.arg)
  <2>1. call[1] = "format" /\ answer = Result
    BY <1>0, <1>3 DEF Answered
  <2>2. PICK cap \in Caps, narrow \in BOOLEAN, fmt \in Formats : call = <<"format", cap, narrow, fmt>>
    BY <1>0, <2>1 DEF CallOK
  <2>3. call[2] = cap /\ call[3] = narrow /\ call[4] = fmt
    BY <2>2
  <2>4. cap \in Nat /\ fmt \in Seq(Element) /\ 16 \in Word
    BY RtCallsAssumption, SixteenFits
  <2> DEFINE text == Produced(fmt)
             shown == [k \in 1 .. Len(text) |-> IF narrow /\ text[k] = "wide" THEN "?" ELSE text[k]]
             z == format(Fresh(cap), narrow, fmt)
  <2>5. text \in Seq(Char)
    BY <2>4, ProducedType
  <2>6. answer = <<z>>
    BY <2>1, <2>3 DEF Result
  <2>7. z = finish(PutAll([buf |-> Fresh(cap), len |-> 0, narrow |-> narrow], text))
    BY DEF format
  <2> HIDE DEF text, z
  <2>8. PutAll([buf |-> Fresh(cap), len |-> 0, narrow |-> narrow], text)
            = Sunk(cap, narrow, text, Len(text))
    BY <2>4, <2>5, PutAllPuts
  <2>9. /\ finish(Sunk(cap, narrow, text, Len(text))).len = Len(text)
        /\ finish(Sunk(cap, narrow, text, Len(text))).buf
               = Terminated([k \in 1 .. Len(text) |-> Shown(narrow, text[k])], cap)
    BY <2>4, <2>5, FinishEnds
  <2>10. shown = [k \in 1 .. Len(text) |-> Shown(narrow, text[k])]
    BY DEF Shown
  <2> HIDE DEF shown
  <2>11. z.len = Len(text) /\ z.buf = Terminated(shown, cap)
    BY <2>7, <2>8, <2>9, <2>10
  <2>12. answer[1].buf = Terminated(shown, cap) /\ answer[1].len = Len(text)
    BY <2>6, <2>11
  <2>13. ASSUME NEW k \in 1 .. Len(fmt), fmt[k].conv \in {"d", "u", "x"}
         PROVE  ReadsBack(emit(fmt[k]), Asked(fmt[k].marks), IF fmt[k].conv = "x" THEN 16 ELSE 10,
                          IF fmt[k].conv = "d" THEN Signed(fmt[k].arg) ELSE fmt[k].arg)
    <3>1. fmt[k] \in Element
      BY <2>4
    <3> QED BY <2>4, <2>13, <3>1, EmitReads
  <2> QED BY <2>3, <2>12, <2>13 DEF text, shown
<1> QED BY <1>1, <1>2, <1>3 DEF BuffersExact

\* The divide steps of divide.s divide: for words of every width, the signed and the unsigned
\* entry and the two remainders give what C promises, for every dividend and divisor.
THEOREM DividesExactly == RtSpec => []DivisionExact
<1>1. RtInv => DivisionExact
  BY DivisionMeans
<1> QED BY <1>1, RtInvariant, PTL

\* A deadline of the chip driver expires when its time has passed and no sooner, wherever the
\* clock stands and whether or not it wraps.
THEOREM ExpiresOnTime == RtSpec => []DeadlineExact
<1>1. RtInv => DeadlineExact
  BY DeadlineMeans
<1> QED BY <1>1, RtInvariant, PTL

\* The routines of crt.c and fmt.c fill their callers' buffers as they should, whatever is
\* moved, copied or formatted and however small the buffer, for words that hold the bases.
THEOREM FillsBuffersExactly == ASSUME Width > 4 PROVE RtSpec => []BuffersExact
<1>1. RtInv => BuffersExact
  BY BuffersMean
<1> QED BY <1>1, RtInvariant, PTL

\* The figures of a word fit the twelve bytes emit_number has for them, in both bases, for
\* words of up to 36 bits.
THEOREM FiguresFit ==
    ASSUME Width \in 5 .. 36
    PROVE  \A v \in Word : \A base \in {10, 16} : Len(digits(v, base)) \in 1 .. 12
<1> SUFFICES ASSUME NEW v \in Word, NEW base \in {10, 16} PROVE Len(digits(v, base)) \in 1 .. 12
  OBVIOUS
<1> DEFINE n == Len(digits(v, base))
           P == Powers(base)
<1>1. 16 \in Word /\ base \in 2 .. 16 /\ base \in 8 .. 16
  BY SixteenFits
<1>2. n \in 1 .. Width /\ (n > 1 => P[n - 1] <= v)
  BY <1>1, DigitsRead
<1> HIDE DEF n, P
<1>3. v \in Nat /\ v < Span /\ Span \in Nat
  BY Halves DEF Word
<1>4. ASSUME n > 12 PROVE FALSE
  <2>1. n - 1 \in 0 .. Width /\ 3 * (n - 1) >= 36
    BY <1>2, <1>4
  <2>2. (IF 3 * (n - 1) <= Width THEN Power2[3 * (n - 1)] ELSE Span) <= P[n - 1]
    BY <1>1, <2>1, PowersOutgrow DEF P
  <2>3. 3 * (n - 1) <= Width => 3 * (n - 1) = Width
    BY <2>1
  <2>4. Span <= P[n - 1]
    BY <2>2, <2>3 DEF Span
  <2>5. P[n - 1] \in Nat
    BY <1>1, <2>1, PowersGrow DEF P
  <2> QED BY <1>2, <1>3, <1>4, <2>4, <2>5
<1>5. n \in 1 .. 12
  BY <1>2, <1>4, WidthAssumption
<1> QED BY <1>5 DEF n
------------------------------------------------------------------------------
(* The CRC *)

Crc == SUBSET Register

\* The bits of a byte are in the register's low half.
LEMMA BitsType == ASSUME NEW byte PROVE Bits(byte) \subseteq 0 .. 7 /\ Bits(byte) \in Crc
BY DEF Bits, Crc, Register

\* The register's operations stay in the register.
LEMMA CrcTypes ==
    /\ \A a, b \in Crc : Xor(a, b) \in Crc
    /\ \A c \in Crc : \A n \in Nat : Shifted(c, n) \in Crc
    /\ \A c \in Crc : Turn(c) \in Crc
    /\ \A c \in Crc : \A bit \in BOOLEAN : Fed(c, bit) \in Crc
    /\ CRC_POLY_REFLECTED \in Crc /\ CRC_HIGH_NIBBLE_TYPO_VALUE \in Crc
<1>1. /\ \A a, b \in Crc : Xor(a, b) \in Crc
      /\ \A c \in Crc : \A n \in Nat : Shifted(c, n) \in Crc
      /\ CRC_POLY_REFLECTED \in Crc /\ CRC_HIGH_NIBBLE_TYPO_VALUE \in Crc
  BY DEF Crc, Xor, Shifted, Register, CRC_POLY_REFLECTED, CRC_HIGH_NIBBLE_TYPO_VALUE
<1> QED BY <1>1 DEF Turn, Fed

\* Exclusive or is associative and commutative, and shifting distributes over it.
LEMMA XorFacts ==
    /\ \A a, b, c : Xor(Xor(a, b), c) = Xor(a, Xor(b, c))
    /\ \A a, b : Xor(a, b) = Xor(b, a)
    /\ \A a : Xor(a, {}) = a /\ Xor({}, a) = a
    /\ \A a, b, n : Shifted(Xor(a, b), n) = Xor(Shifted(a, n), Shifted(b, n))
BY DEF Xor, Shifted

\* A turn is linear.
LEMMA TurnLinear ==
    ASSUME NEW a \in Crc, NEW b \in Crc
    PROVE  Turn(Xor(a, b)) = Xor(Turn(a), Turn(b))
<1> DEFINE p == CRC_POLY_REFLECTED
           x == Shifted(a, 1)
           y == Shifted(b, 1)
<1>1. Shifted(Xor(a, b), 1) = Xor(x, y)
  BY XorFacts
<1>2. 0 \in Xor(a, b) <=> (0 \in a) # (0 \in b)
  BY DEF Xor
<1>3. /\ Xor(Xor(x, y), p) = Xor(Xor(x, p), y) /\ Xor(Xor(x, y), p) = Xor(x, Xor(y, p))
      /\ Xor(x, y) = Xor(Xor(x, p), Xor(y, p))
  BY DEF Xor
<1> HIDE DEF p, x, y
<1> QED BY <1>1, <1>2, <1>3 DEF Turn, p, x, y

\* A turn of what is off by a set of bits still to come in.
LEMMA TurnFed ==
    ASSUME NEW c \in Crc, NEW s \in Crc
    PROVE  Turn(Xor(c, s)) = Xor(Fed(c, 0 \in s), Shifted(s, 1))
<1> DEFINE p == CRC_POLY_REFLECTED
           x == Shifted(c, 1)
           y == Shifted(s, 1)
<1>1. Shifted(Xor(c, s), 1) = Xor(x, y)
  BY XorFacts
<1>2. 0 \in Xor(c, s) <=> (0 \in c) # (0 \in s)
  BY DEF Xor
<1>3. Xor(Xor(x, y), p) = Xor(Xor(x, p), y)
  BY DEF Xor
<1> HIDE DEF p, x, y
<1> QED BY <1>1, <1>2, <1>3 DEF Turn, Fed, p, x, y

\* Eight turns, as crc_table_entry makes them.
LEMMA TableTurns ==
    ASSUME NEW c \in Crc
    PROVE  \E C : /\ C \in [0 .. 8 -> Crc] /\ C[0] = c /\ C[8] = crc_table_entry(c)
                  /\ \A k \in 1 .. 8 : C[k] = Turn(C[k - 1])
<1> DEFINE F(h) == [bit \in 0 .. 8 |-> IF bit = 0 THEN c ELSE Turn(h[bit - 1])]
           step == [p \in (1 .. 8) \X Crc |-> Turn(p[2])]
           P == CHOOSE h : h = F(h)
<1>1. step \in [(1 .. 8) \X Crc -> Crc]
  BY CrcTypes
<1>2. PICK g : Built(g, 8, Crc, c, step)
  <2> HIDE DEF step
  <2> QED BY <1>1, Recursion
<1>3. g = F(g)
  <2>1. g \in [0 .. 8 -> Crc] /\ g[0] = c /\ \A k \in 1 .. 8 : g[k] = Turn(g[k - 1])
    <3>1. \A k \in 1 .. 8 : k - 1 \in 0 .. 8
      OBVIOUS
    <3> QED BY <1>2, <3>1 DEF Built
  <2> QED BY <2>1
<1>4. P = F(P)
  <2> HIDE DEF F
  <2> QED BY <1>3
<1>5. crc_table_entry(c) = P[8]
  BY DEF crc_table_entry
<1> HIDE DEF P
<1>6. P[0] = c /\ \A k \in 1 .. 8 : P[k] = Turn(P[k - 1])
  BY <1>4
<1> DEFINE T == {k \in 0 .. 8 : P[k] \in Crc}
<1>7. 0 \in T /\ \A k \in 1 .. 8 : k - 1 \in T => k \in T
  <2>1. 0 \in 0 .. 8 /\ \A k \in 1 .. 8 : k \in 0 .. 8
    OBVIOUS
  <2> QED BY <1>6, <2>1, CrcTypes
<1>8. \A k \in 0 .. 8 : k \in T
  <2> HIDE DEF T
  <2> QED BY <1>7, CountTo
<1>9. P \in [0 .. 8 -> Crc]
  <2>1. P = [bit \in 0 .. 8 |-> P[bit]]
    BY <1>4
  <2> QED BY <2>1, <1>8
<1> QED BY <1>5, <1>6, <1>9

\* Eight bits fed, as the serial register takes them.
LEMMA BitsFed ==
    ASSUME NEW c \in Crc, NEW byte
    PROVE  \E C : /\ C \in [0 .. 8 -> Crc] /\ C[0] = c
                  /\ \A k \in 1 .. 8 : C[k] = Fed(C[k - 1], k - 1 \in Bits(byte))
                  /\ SerialCrc(c, byte) =
                        Xor(C[8], IF 4 .. 7 \subseteq Xor(Bits(byte), c) THEN {9} ELSE {})
<1> DEFINE F(h) == [bit \in 0 .. 8 |-> IF bit = 0 THEN c ELSE Fed(h[bit - 1], bit - 1 \in Bits(byte))]
           step == [p \in (1 .. 8) \X Crc |-> Fed(p[2], p[1] - 1 \in Bits(byte))]
           P == CHOOSE h : h = F(h)
<1>1. step \in [(1 .. 8) \X Crc -> Crc]
  <2>1. \A k \in 1 .. 8 : (k - 1 \in Bits(byte)) \in BOOLEAN
    OBVIOUS
  <2> QED BY <2>1, CrcTypes
<1>2. PICK g : Built(g, 8, Crc, c, step)
  <2> HIDE DEF step
  <2> QED BY <1>1, Recursion
<1>3. g = F(g)
  <2>1. g \in [0 .. 8 -> Crc] /\ g[0] = c /\ \A k \in 1 .. 8 : g[k] = Fed(g[k - 1], k - 1 \in Bits(byte))
    <3>1. \A k \in 1 .. 8 : k - 1 \in 0 .. 8
      OBVIOUS
    <3> QED BY <1>2, <3>1 DEF Built
  <2> QED BY <2>1
<1>4. P = F(P)
  <2> HIDE DEF F
  <2> QED BY <1>3
<1>5. SerialCrc(c, byte) = Xor(P[8], IF 4 .. 7 \subseteq Xor(Bits(byte), c) THEN {9} ELSE {})
  <2>1. SerialCrc(c, byte) = Xor(IF 4 .. 7 \subseteq Xor(Bits(byte), c) THEN {9} ELSE {}, P[8])
    BY DEF SerialCrc
  <2> HIDE DEF P
  <2> QED BY <2>1, XorFacts
<1> HIDE DEF P
<1>6. P[0] = c /\ \A k \in 1 .. 8 : P[k] = Fed(P[k - 1], k - 1 \in Bits(byte))
  BY <1>4
<1> DEFINE T == {k \in 0 .. 8 : P[k] \in Crc}
<1>7. 0 \in T /\ \A k \in 1 .. 8 : k - 1 \in T => k \in T
  <2>1. 0 \in 0 .. 8 /\ \A k \in 1 .. 8 : k \in 0 .. 8 /\ (k - 1 \in Bits(byte)) \in BOOLEAN
    OBVIOUS
  <2> QED BY <1>6, <2>1, CrcTypes
<1>8. \A k \in 0 .. 8 : k \in T
  <2> HIDE DEF T
  <2> QED BY <1>7, CountTo
<1>9. P \in [0 .. 8 -> Crc]
  <2>1. P = [bit \in 0 .. 8 |-> P[bit]]
    BY <1>4
  <2> QED BY <2>1, <1>8
<1> QED BY <1>5, <1>6, <1>9

\* Turning is linear over eight turns too.
LEMMA TableLinear ==
    ASSUME NEW a \in Crc, NEW b \in Crc
    PROVE  crc_table_entry(Xor(a, b)) = Xor(crc_table_entry(a), crc_table_entry(b))
<1>0. Xor(a, b) \in Crc
  BY CrcTypes
<1>1. PICK A : /\ A \in [0 .. 8 -> Crc] /\ A[0] = a /\ A[8] = crc_table_entry(a)
               /\ \A k \in 1 .. 8 : A[k] = Turn(A[k - 1])
  BY TableTurns
<1>2. PICK B : /\ B \in [0 .. 8 -> Crc] /\ B[0] = b /\ B[8] = crc_table_entry(b)
               /\ \A k \in 1 .. 8 : B[k] = Turn(B[k - 1])
  BY TableTurns
<1>3. PICK C : /\ C \in [0 .. 8 -> Crc] /\ C[0] = Xor(a, b) /\ C[8] = crc_table_entry(Xor(a, b))
               /\ \A k \in 1 .. 8 : C[k] = Turn(C[k - 1])
  BY <1>0, TableTurns
<1> DEFINE T == {k \in 0 .. 8 : C[k] = Xor(A[k], B[k])}
<1>4. 0 \in T
  BY <1>1, <1>2, <1>3
<1>5. ASSUME NEW k \in 1 .. 8, k - 1 \in T PROVE k \in T
  <2>1. k - 1 \in 0 .. 8 /\ k \in 0 .. 8 /\ C[k - 1] = Xor(A[k - 1], B[k - 1])
    BY <1>5
  <2>2. A[k - 1] \in Crc /\ B[k - 1] \in Crc
    BY <1>1, <1>2, <2>1
  <2>3. Turn(C[k - 1]) = Xor(Turn(A[k - 1]), Turn(B[k - 1]))
    BY <2>1, <2>2, TurnLinear
  <2> QED BY <1>1, <1>2, <1>3, <2>1, <2>3
<1>6. \A k \in 0 .. 8 : k \in T
  <2> HIDE DEF T
  <2> QED BY <1>4, <1>5, CountTo
<1> QED BY <1>1, <1>2, <1>3, <1>6

\* The register's high byte only moves down.
LEMMA TableHigh ==
    ASSUME NEW c \in Crc
    PROVE  crc_table_entry(c \cap 8 .. 15) = Shifted(c, 8)
<1> DEFINE h == c \cap 8 .. 15
<1>0. h \in Crc /\ \A j \in h : j >= 8
  BY DEF Crc
<1>1. PICK C : /\ C \in [0 .. 8 -> Crc] /\ C[0] = h /\ C[8] = crc_table_entry(h)
               /\ \A k \in 1 .. 8 : C[k] = Turn(C[k - 1])
  BY <1>0, TableTurns
<1> DEFINE T == {k \in 0 .. 8 : C[k] = Shifted(h, k)}
<1>2. 0 \in T
  <2>1. Shifted(h, 0) = h
    BY <1>0 DEF Shifted, Crc, Register
  <2> QED BY <1>1, <2>1
<1>3. ASSUME NEW k \in 1 .. 8, k - 1 \in T PROVE k \in T
  <2>1. k - 1 \in 0 .. 7 /\ k \in 0 .. 8 /\ C[k - 1] = Shifted(h, k - 1)
    BY <1>3
  <2>2. 0 \notin C[k - 1]
    BY <1>0, <2>1 DEF Shifted
  <2>3. Shifted(C[k - 1], 1) = Shifted(h, k)
    <3>1. \A i \in Register : i + 1 \in Shifted(h, k - 1) <=> i + k \in h
      <4>1. ASSUME NEW i \in Register PROVE (i + 1) + (k - 1) = i + k
        BY DEF Register
      <4>2. ASSUME NEW i \in Register, i + k \in h PROVE i + 1 \in Register
        BY <1>0, <4>2 DEF Register, Crc
      <4> QED BY <4>1, <4>2 DEF Shifted
    <3> QED BY <2>1, <3>1 DEF Shifted
  <2> QED BY <1>1, <2>1, <2>2, <2>3 DEF Turn
<1>4. \A k \in 0 .. 8 : k \in T
  <2> HIDE DEF T
  <2> QED BY <1>2, <1>3, CountTo
<1>5. Shifted(h, 8) = Shifted(c, 8)
  BY DEF Shifted, Crc, Register
<1> QED BY <1>1, <1>4, <1>5

\* The entry the polynomial has for a high nibble of ones, which Windows has not.
LEMMA TableTypo == crc_table_entry(4 .. 7) = {10, 14}
<1>0. 4 .. 7 \in Crc
  BY DEF Crc, Register
<1>1. PICK C : /\ C \in [0 .. 8 -> Crc] /\ C[0] = 4 .. 7 /\ C[8] = crc_table_entry(4 .. 7)
               /\ \A k \in 1 .. 8 : C[k] = Turn(C[k - 1])
  BY <1>0, TableTurns
<1>2. /\ C[1] = Turn(C[0]) /\ C[2] = Turn(C[1]) /\ C[3] = Turn(C[2]) /\ C[4] = Turn(C[3])
      /\ C[5] = Turn(C[4]) /\ C[6] = Turn(C[5]) /\ C[7] = Turn(C[6]) /\ C[8] = Turn(C[7])
  <2>1. \A k \in 1 .. 8 : C[k] = Turn(C[k - 1])
    BY <1>1
  <2> QED BY <2>1
<1>3. C[1] = {3, 4, 5, 6}
  <2>1. Shifted((4 .. 7), 1) = {3, 4, 5, 6}
    BY DEF Shifted, Register
  <2>2. 0 \notin (4 .. 7)
    OBVIOUS
  <2> QED BY <1>2, <1>1, <2>1, <2>2 DEF Turn
<1>4. C[2] = {2, 3, 4, 5}
  <2>1. Shifted({3, 4, 5, 6}, 1) = {2, 3, 4, 5}
    BY DEF Shifted, Register
  <2>2. 0 \notin {3, 4, 5, 6}
    OBVIOUS
  <2> QED BY <1>2, <1>3, <2>1, <2>2 DEF Turn
<1>5. C[3] = {1, 2, 3, 4}
  <2>1. Shifted({2, 3, 4, 5}, 1) = {1, 2, 3, 4}
    BY DEF Shifted, Register
  <2>2. 0 \notin {2, 3, 4, 5}
    OBVIOUS
  <2> QED BY <1>2, <1>4, <2>1, <2>2 DEF Turn
<1>6. C[4] = {0, 1, 2, 3}
  <2>1. Shifted({1, 2, 3, 4}, 1) = {0, 1, 2, 3}
    BY DEF Shifted, Register
  <2>2. 0 \notin {1, 2, 3, 4}
    OBVIOUS
  <2> QED BY <1>2, <1>5, <2>1, <2>2 DEF Turn
<1>7. C[5] = {1, 2, 13, 15}
  <2>1. Shifted({0, 1, 2, 3}, 1) = {0, 1, 2}
    BY DEF Shifted, Register
  <2>2. 0 \in {0, 1, 2, 3} /\ Xor({0, 1, 2}, CRC_POLY_REFLECTED) = {1, 2, 13, 15}
    BY DEF Xor, CRC_POLY_REFLECTED
  <2> QED BY <1>2, <1>6, <2>1, <2>2 DEF Turn
<1>8. C[6] = {0, 1, 12, 14}
  <2>1. Shifted({1, 2, 13, 15}, 1) = {0, 1, 12, 14}
    BY DEF Shifted, Register
  <2>2. 0 \notin {1, 2, 13, 15}
    OBVIOUS
  <2> QED BY <1>2, <1>7, <2>1, <2>2 DEF Turn
<1>9. C[7] = {11, 15}
  <2>1. Shifted({0, 1, 12, 14}, 1) = {0, 11, 13}
    BY DEF Shifted, Register
  <2>2. 0 \in {0, 1, 12, 14} /\ Xor({0, 11, 13}, CRC_POLY_REFLECTED) = {11, 15}
    BY DEF Xor, CRC_POLY_REFLECTED
  <2> QED BY <1>2, <1>8, <2>1, <2>2 DEF Turn
<1>10. C[8] = {10, 14}
  <2>1. Shifted({11, 15}, 1) = {10, 14}
    BY DEF Shifted, Register
  <2>2. 0 \notin {11, 15}
    OBVIOUS
  <2> QED BY <1>2, <1>9, <2>1, <2>2 DEF Turn
<1> QED BY <1>1, <1>10

\* Eight bits fed come to the same as eight turns of the register with the byte in it.
LEMMA SerialTurns ==
    ASSUME NEW c \in Crc, NEW byte
    PROVE  SerialCrc(c, byte) = Xor(crc_table_entry(Xor(c, Bits(byte))),
                                    IF 4 .. 7 \subseteq Xor(Bits(byte), c) THEN {9} ELSE {})
<1> DEFINE b == Bits(byte)
<1>0. b \in Crc /\ b \subseteq 0 .. 7 /\ Xor(c, b) \in Crc
  BY BitsType, CrcTypes
<1>1. PICK C : /\ C \in [0 .. 8 -> Crc] /\ C[0] = c
               /\ \A k \in 1 .. 8 : C[k] = Fed(C[k - 1], k - 1 \in b)
               /\ SerialCrc(c, byte) = Xor(C[8], IF 4 .. 7 \subseteq Xor(b, c) THEN {9} ELSE {})
  BY BitsFed
<1> HIDE DEF b
<1>2. PICK D : /\ D \in [0 .. 8 -> Crc] /\ D[0] = Xor(c, b) /\ D[8] = crc_table_entry(Xor(c, b))
               /\ \A k \in 1 .. 8 : D[k] = Turn(D[k - 1])
  BY <1>0, TableTurns
<1> DEFINE T == {k \in 0 .. 8 : D[k] = Xor(C[k], Shifted(b, k))}
<1>3. 0 \in T
  <2>1. (\A i \in Register : i + 0 = i) /\ b \subseteq Register
    BY <1>0 DEF Crc, Register
  <2>2. Shifted(b, 0) = b
    BY <2>1 DEF Shifted
  <2> QED BY <1>1, <1>2, <2>2
<1>4. ASSUME NEW k \in 1 .. 8, k - 1 \in T PROVE k \in T
  <2>1. k - 1 \in 0 .. 8 /\ k - 1 \in Nat /\ k \in 0 .. 8 /\ D[k - 1] = Xor(C[k - 1], Shifted(b, k - 1))
    BY <1>4
  <2>2. C[k - 1] \in Crc /\ Shifted(b, k - 1) \in Crc
    BY <1>0, <1>1, <2>1, CrcTypes
  <2>3. Turn(D[k - 1]) = Xor(Fed(C[k - 1], 0 \in Shifted(b, k - 1)), Shifted(Shifted(b, k - 1), 1))
    BY <2>1, <2>2, TurnFed
  <2>4. 0 \in Shifted(b, k - 1) <=> k - 1 \in b
    BY <2>1 DEF Shifted, Register
  <2>5. Shifted(Shifted(b, k - 1), 1) = Shifted(b, k)
    <3>1. ASSUME NEW i \in Register PROVE i + 1 \in Shifted(b, k - 1) <=> i + k \in b
      <4>1. (i + 1) + (k - 1) = i + k /\ (i + k \in b => i + 1 \in Register)
        BY <1>0 DEF Register
      <4> QED BY <4>1 DEF Shifted
    <3> QED BY <3>1 DEF Shifted
  <2>6. (0 \in Shifted(b, k - 1)) = (k - 1 \in b)
    BY <2>4
  <2> QED BY <1>1, <1>2, <2>1, <2>3, <2>5, <2>6
<1>5. \A k \in 0 .. 8 : k \in T
  <2> HIDE DEF T
  <2> QED BY <1>3, <1>4, CountTo
<1>6. D[8] = C[8]
  <2>1. Shifted(b, 8) = {}
    BY <1>0 DEF Shifted, Register
  <2>2. D[8] = Xor(C[8], Shifted(b, 8))
    BY <1>5
  <2> QED BY <2>1, <2>2, XorFacts
<1> QED BY <1>1, <1>2, <1>6 DEF b

\* The nibble tables give what the serial register gives, Windows' slip included.
LEMMA ByteExact ==
    ASSUME NEW crc \in Crc, NEW byte
    PROVE  crc_byte(crc, byte) = SerialCrc(crc, byte) /\ crc_byte(crc, byte) \in Crc
<1> DEFINE b == Bits(byte)
           tmp == Xor(b, crc \cap 0 .. 7)
           lo == tmp \cap 0 .. 3
           hi == tmp \cap 4 .. 7
           up == crc \cap 8 .. 15
           E(x) == crc_table_entry(x)
           slip == IF 4 .. 7 \subseteq tmp THEN {9} ELSE {}
           high == IF 4 .. 7 \subseteq tmp THEN CRC_HIGH_NIBBLE_TYPO_VALUE ELSE E(hi)
<1>0. b \in Crc /\ b \subseteq 0 .. 7
  BY BitsType
<1> HIDE DEF b
<1>1. tmp \in Crc /\ lo \in Crc /\ hi \in Crc /\ up \in Crc /\ Xor(up, lo) \in Crc
  BY <1>0 DEF Crc, Register, Xor
<1>2. Xor(crc, b) = Xor(Xor(up, lo), hi)
  <2>1. \A i \in crc \cup b : (i \in 0 .. 7) # (i \in 8 .. 15)
    BY <1>0 DEF Crc, Register
  <2>2. \A i \in b : i \in 0 .. 7
    BY <1>0
  <2>3. \A i \in 0 .. 7 : (i \in 0 .. 3) # (i \in 4 .. 7)
    OBVIOUS
  <2>4. \A i : i \in 0 .. 3 \/ i \in 4 .. 7 => i \in 0 .. 7
    OBVIOUS
  <2>5. ASSUME NEW i PROVE i \in Xor(crc, b) <=> i \in Xor(Xor(up, lo), hi)
    <3>1. i \in Xor(crc, b) <=> (i \in crc) # (i \in b)
      BY DEF Xor
    <3>2. i \in tmp <=> (i \in b) # (i \in crc /\ i \in 0 .. 7)
      BY DEF Xor
    <3>3. /\ i \in up <=> i \in crc /\ i \in 8 .. 15
          /\ i \in lo <=> i \in tmp /\ i \in 0 .. 3
          /\ i \in hi <=> i \in tmp /\ i \in 4 .. 7
      OBVIOUS
    <3> HIDE DEF tmp, lo, hi, up
    <3>4. i \in Xor(Xor(up, lo), hi) <=> ((i \in up) # (i \in lo)) # (i \in hi)
      BY DEF Xor
    <3>5. /\ i \in crc => (i \in 0 .. 7) # (i \in 8 .. 15)
          /\ i \in b => (i \in 0 .. 7) /\ ~ (i \in 8 .. 15)
          /\ i \in 0 .. 7 => (i \in 0 .. 3) # (i \in 4 .. 7)
          /\ i \in 0 .. 3 => i \in 0 .. 7
          /\ i \in 4 .. 7 => i \in 0 .. 7
      BY <2>1, <2>2, <2>3, <2>4
    <3> QED BY <3>1, <3>2, <3>3, <3>4, <3>5
  <2> HIDE DEF tmp, lo, hi, up
  <2>6. \A i : i \in Xor(crc, b) <=> i \in Xor(Xor(up, lo), hi)
    BY <2>5
  <2> QED BY <2>6
<1>3. (4 .. 7 \subseteq Xor(b, crc)) = (4 .. 7 \subseteq tmp)
  BY DEF Xor
<1>4. E(Xor(Xor(up, lo), hi)) = Xor(Xor(Shifted(crc, 8), E(lo)), E(hi))
  <2>1. E(Xor(Xor(up, lo), hi)) = Xor(E(Xor(up, lo)), E(hi))
    BY <1>1, TableLinear
  <2>2. E(Xor(up, lo)) = Xor(E(up), E(lo))
    BY <1>1, TableLinear
  <2>3. E(up) = Shifted(crc, 8)
    BY TableHigh
  <2> HIDE DEF lo, hi, up
  <2> QED BY <2>1, <2>2, <2>3
<1>5. Xor(E(hi), slip) = high
  <2>1. CASE 4 .. 7 \subseteq tmp
    <3>1. hi = 4 .. 7
      BY <2>1
    <3>2. E(hi) = {10, 14}
      BY <3>1, TableTypo
    <3>3. Xor({10, 14}, {9}) = CRC_HIGH_NIBBLE_TYPO_VALUE
      BY DEF Xor, CRC_HIGH_NIBBLE_TYPO_VALUE
    <3> HIDE DEF hi, tmp
    <3> QED BY <2>1, <3>2, <3>3
  <2>2. CASE ~ (4 .. 7 \subseteq tmp)
    BY <2>2, XorFacts
  <2> QED BY <2>1, <2>2
<1>6. SerialCrc(crc, byte) = Xor(E(Xor(crc, b)), IF 4 .. 7 \subseteq Xor(b, crc) THEN {9} ELSE {})
  BY SerialTurns DEF b
<1>7. crc_byte(crc, byte) = Xor(Xor(Shifted(crc, 8), E(lo)), high)
  BY DEF crc_byte, b
<1>8. \A x \in Crc : E(x) \in Crc
  <2>1. ASSUME NEW x \in Crc PROVE crc_table_entry(x) \in Crc
    BY TableTurns
  <2> QED BY <2>1
<1>9. Shifted(crc, 8) \in Crc /\ high \in Crc
  BY <1>1, <1>8, CrcTypes
<1> HIDE DEF tmp, lo, hi, up, high, slip, E
<1>10. SerialCrc(crc, byte) = Xor(Xor(Xor(Shifted(crc, 8), E(lo)), E(hi)), slip)
  BY <1>2, <1>3, <1>4, <1>6 DEF slip
<1>11. SerialCrc(crc, byte) = Xor(Xor(Shifted(crc, 8), E(lo)), high)
  BY <1>5, <1>10, XorFacts
<1> QED BY <1>1, <1>7, <1>8, <1>9, <1>11, CrcTypes

\* Byte after byte, the table-driven CRC is the serial one.
LEMMA CrcExact ==
    ASSUME NEW crc \in Crc, NEW data \in Seq(Octet)
    PROVE  pnpid_crc16(crc, data) = SerialCrcs(crc, data) /\ pnpid_crc16(crc, data) \in Crc
<1> DEFINE n == Len(data)
           F(h) == [k \in 0 .. n |-> IF k = 0 THEN crc ELSE crc_byte(h[k - 1], data[k])]
           G(h) == [k \in 0 .. n |-> IF k = 0 THEN crc ELSE SerialCrc(h[k - 1], data[k])]
           step == [p \in (1 .. n) \X Crc |-> crc_byte(p[2], data[p[1]])]
           P == CHOOSE h : h = F(h)
           Q == CHOOSE h : h = G(h)
<1>0. n \in Nat
  OBVIOUS
<1>1. pnpid_crc16(crc, data) = P[n] /\ SerialCrcs(crc, data) = Q[n]
  BY DEF pnpid_crc16, SerialCrcs
<1> HIDE DEF n
<1>2. step \in [(1 .. n) \X Crc -> Crc]
  BY ByteExact
<1>3. PICK g : Built(g, n, Crc, crc, step)
  <2> HIDE DEF step
  <2> QED BY <1>0, <1>2, Recursion
<1>4. /\ g \in [0 .. n -> Crc] /\ g[0] = crc
      /\ \A k \in 1 .. n : g[k] = crc_byte(g[k - 1], data[k]) /\ g[k] = SerialCrc(g[k - 1], data[k])
  <2>1. ASSUME NEW k \in 1 .. n PROVE k - 1 \in 0 .. n
    BY <1>0
  <2>2. g \in [0 .. n -> Crc] /\ g[0] = crc /\ \A k \in 1 .. n : g[k] = step[<<k, g[k - 1]>>]
    BY <1>3 DEF Built
  <2>3. ASSUME NEW k \in 1 .. n PROVE g[k] = crc_byte(g[k - 1], data[k])
    <3>1. g[k - 1] \in Crc
      BY <2>1, <2>2
    <3>2. step[<<k, g[k - 1]>>] = crc_byte(g[k - 1], data[k])
      BY <3>1
    <3> QED BY <2>2, <3>2
  <2>4. ASSUME NEW k \in 1 .. n PROVE crc_byte(g[k - 1], data[k]) = SerialCrc(g[k - 1], data[k])
    BY <2>1, <2>2, ByteExact
  <2> QED BY <2>2, <2>3, <2>4
<1> HIDE DEF step
<1>5. P = F(P) /\ Q = G(Q)
  <2>1. g = F(g) /\ g = G(g)
    BY <1>0, <1>4
  <2> HIDE DEF F, G
  <2> QED BY <2>1
<1> HIDE DEF P, Q
<1> DEFINE T == {k \in 0 .. n : P[k] = g[k] /\ Q[k] = g[k]}
<1>6. 0 \in T
  BY <1>0, <1>4, <1>5
<1>7. ASSUME NEW k \in 1 .. n, k - 1 \in T PROVE k \in T
  <2>1. P[k - 1] = g[k - 1] /\ Q[k - 1] = g[k - 1] /\ k \in 0 .. n /\ k # 0
    BY <1>0, <1>7
  <2>2. P[k] = crc_byte(P[k - 1], data[k]) /\ Q[k] = SerialCrc(Q[k - 1], data[k])
    BY <1>5, <2>1
  <2> QED BY <1>4, <2>1, <2>2
<1>8. \A k \in 0 .. n : k \in T
  <2> HIDE DEF T
  <2> QED BY <1>0, <1>6, <1>7, CountTo
<1>9. n \in 0 .. n
  BY <1>0
<1> QED BY <1>1, <1>4, <1>8, <1>9

\* The CRC of one byte, and of none.
LEMMA CrcShort ==
    /\ \A crc \in Crc : \A byte \in Octet : pnpid_crc16(crc, <<byte>>) = SerialCrc(crc, byte)
    /\ \A crc \in Crc : SerialCrcs(crc, <<>>) = crc
<1>1. ASSUME NEW crc \in Crc, NEW byte \in Octet
      PROVE  pnpid_crc16(crc, <<byte>>) = SerialCrc(crc, byte)
  <2> DEFINE F(h) == [k \in 0 .. 1 |-> IF k = 0 THEN crc ELSE crc_byte(h[k - 1], <<byte>>[k])]
             P == CHOOSE h : h = F(h)
             g == [k \in 0 .. 1 |-> IF k = 0 THEN crc ELSE crc_byte(crc, byte)]
  <2>1. g = F(g)
    <3>1. \A k \in 0 .. 1 : k # 0 => k = 1 /\ k - 1 = 0
      OBVIOUS
    <3>2. <<byte>>[1] = byte
      OBVIOUS
    <3> QED BY <3>1, <3>2
  <2>2. P = F(P)
    <3> HIDE DEF F, g
    <3> QED BY <2>1
  <2>3. pnpid_crc16(crc, <<byte>>) = P[1]
    <3>1. Len(<<byte>>) = 1
      OBVIOUS
    <3> QED BY <3>1 DEF pnpid_crc16
  <2> HIDE DEF P
  <2>4. P[0] = crc /\ P[1] = crc_byte(P[0], <<byte>>[1])
    BY <2>2
  <2> QED BY <2>3, <2>4, ByteExact
<1>2. ASSUME NEW crc \in Crc PROVE SerialCrcs(crc, <<>>) = crc
  <2> DEFINE F(h) == [k \in 0 .. 0 |-> IF k = 0 THEN crc ELSE SerialCrc(h[k - 1], <<>>[k])]
             P == CHOOSE h : h = F(h)
             g == [k \in 0 .. 0 |-> crc]
  <2>1. g = F(g)
    OBVIOUS
  <2>2. P = F(P)
    <3> HIDE DEF F, g
    <3> QED BY <2>1
  <2>3. SerialCrcs(crc, <<>>) = P[0]
    <3>1. Len(<<>>) = 0
      OBVIOUS
    <3> QED BY <3>1 DEF SerialCrcs
  <2> HIDE DEF P
  <2> QED BY <2>2, <2>3
<1> QED BY <1>1, <1>2

------------------------------------------------------------------------------
(* The I/O window *)

\* The least element of a set of positions.
LEMMA EarliestFacts ==
    ASSUME NEW S \in SUBSET (Nat \ {0})
    PROVE  /\ Earliest(S) \in Nat
           /\ Earliest(S) = 0 <=> S = {}
           /\ S # {} => Earliest(S) \in S /\ \A j \in S : Earliest(S) <= j
           /\ \A x \in S : (\A j \in S : x <= j) => Earliest(S) = x
<1>1. CASE S = {}
  BY <1>1 DEF Earliest
<1>2. CASE S # {}
  <2>1. \E k \in S : \A j \in S : k <= j
    BY <1>2, LeastElement
  <2>2. Earliest(S) \in S /\ \A j \in S : Earliest(S) <= j
    BY <1>2, <2>1 DEF Earliest
  <2>3. ASSUME NEW x \in S, \A j \in S : x <= j PROVE Earliest(S) = x
    <3>1. x <= Earliest(S) /\ Earliest(S) <= x /\ x \in Nat /\ Earliest(S) \in Nat
      BY <2>2, <2>3
    <3> QED BY <3>1
  <2> QED BY <1>2, <2>2, <2>3
<1> QED BY <1>1, <1>2

\* The window picked is that of the first entry with room.
LEMMA FirstWindow ==
    ASSUME NEW cft \in Seq(Entry)
    PROVE  pick_io_window(cft) = Earliest({k \in 1 .. Len(cft) : Offers(cft[k]) >= WindowBytes})
<1> DEFINE n == Len(cft)
           room(j) == Offers(cft[j]) >= WindowBytes
           S(k) == {j \in 1 .. k : room(j)}
           F(h) == [k \in 0 .. n |-> IF k = 0 THEN 0 ELSE Best(h[k - 1], k, cft[k])]
           g == [k \in 0 .. n |-> Earliest(S(k))]
           P == CHOOSE h : h = F(h)
<1>0. n \in Nat
  OBVIOUS
<1>1. pick_io_window(cft) = P[n]
  BY DEF pick_io_window
<1>2. \A j : room(j) = (Offers(cft[j]) >= WindowBytes)
  OBVIOUS
<1>3. \A best, k : Best(best, k, cft[k]) = IF best = 0 /\ room(k) THEN k ELSE best
  BY DEF Best
<1> HIDE DEF n, room
<1>4. Earliest(S(0)) = 0
  BY DEF Earliest
<1>5. ASSUME NEW k \in 1 .. n PROVE Best(Earliest(S(k - 1)), k, cft[k]) = Earliest(S(k))
  <2> DEFINE A == S(k - 1)
             B == S(k)
  <2>1. A \in SUBSET (Nat \ {0}) /\ B \in SUBSET (Nat \ {0}) /\ k \in Nat /\ \A j \in A : j < k
    BY <1>0
  <2>2. B = IF room(k) THEN A \cup {k} ELSE A
    BY <1>0
  <2> HIDE DEF A, B
  <2>3. CASE A = {}
    <3>1. Earliest(A) = 0
      BY <2>1, <2>3, EarliestFacts
    <3>2. room(k) => k \in B /\ \A j \in B : k <= j
      BY <2>1, <2>2, <2>3
    <3>3. Earliest(B) = IF room(k) THEN k ELSE 0
      BY <2>1, <2>2, <2>3, <3>2, EarliestFacts
    <3> QED BY <1>3, <3>1, <3>3 DEF A, B
  <2>4. CASE A # {}
    <3>1. Earliest(A) # 0 /\ Earliest(A) \in A /\ \A j \in A : Earliest(A) <= j
      BY <2>1, <2>4, EarliestFacts
    <3>2. Earliest(A) \in B /\ \A j \in B : Earliest(A) <= j
      <4>1. Earliest(A) < k /\ Earliest(A) \in Nat
        BY <2>1, <3>1
      <4> QED BY <2>1, <2>2, <3>1, <4>1
    <3>3. Earliest(B) = Earliest(A)
      BY <2>1, <3>2, EarliestFacts
    <3> QED BY <1>3, <3>1, <3>3 DEF A, B
  <2> QED BY <2>3, <2>4
<1>6. g = F(g)
  <2>1. ASSUME NEW k \in 0 .. n PROVE g[k] = IF k = 0 THEN 0 ELSE Best(g[k - 1], k, cft[k])
    <3>1. CASE k = 0
      BY <1>4, <3>1
    <3>2. CASE k # 0
      <4>1. k \in 1 .. n /\ k - 1 \in 0 .. n
        BY <1>0, <3>2
      <4>2. g[k] = Earliest(S(k)) /\ g[k - 1] = Earliest(S(k - 1))
        BY <4>1
      <4> HIDE DEF g, S
      <4> QED BY <1>5, <3>2, <4>1, <4>2
    <3> QED BY <3>1, <3>2
  <2>2. g = [k \in 0 .. n |-> g[k]]
    OBVIOUS
  <2> HIDE DEF g
  <2> QED BY <2>1, <2>2
<1>7. P = F(P)
  <2> HIDE DEF F, g
  <2> QED BY <1>6
<1> HIDE DEF P
<1> DEFINE T == {k \in 0 .. n : P[k] = Earliest(S(k))}
<1>8. 0 \in T
  BY <1>0, <1>4, <1>7
<1>9. ASSUME NEW k \in 1 .. n, k - 1 \in T PROVE k \in T
  <2>1. P[k - 1] = Earliest(S(k - 1)) /\ k \in 0 .. n /\ k # 0
    BY <1>0, <1>9
  <2>2. P[k] = Best(P[k - 1], k, cft[k])
    BY <1>7, <2>1
  <2> HIDE DEF S
  <2> QED BY <1>5, <2>1, <2>2
<1>10. \A k \in 0 .. n : k \in T
  <2> HIDE DEF T
  <2> QED BY <1>0, <1>8, <1>9, CountTo
<1>11. P[n] = Earliest(S(n))
  <2>1. n \in 0 .. n
    BY <1>0
  <2> HIDE DEF S
  <2> QED BY <1>10, <2>1
<1>12. {j \in 1 .. n : Offers(cft[j]) >= WindowBytes} = S(n)
  BY DEF room
<1> HIDE DEF S
<1> QED BY <1>1, <1>11, <1>12 DEF n

------------------------------------------------------------------------------
(* The tuples kept *)

\* The walk sees tuples of the card, at most so many.
LEMMA WalkedType ==
    ASSUME NEW cis \in Seq(Tuple)
    PROVE  Walked(cis) \in Seq(Tuple) /\ Len(Walked(cis)) <= MaxTuples
<1> DEFINE n == Len(cis)
           S == {k \in 1 .. n : \/ cis[k].fails
                                \/ k > MaxTuples
                                \/ k > 1 /\ cis[k - 1].code = CISTPL_END}
           m == IF Earliest(S) = 0 THEN n ELSE Earliest(S) - 1
<1>1. n \in Nat /\ MaxTuples \in Nat \ {0} /\ S \in SUBSET (Nat \ {0}) /\ \A k \in S : k <= n
  BY CardAssumption
<1>2. n > MaxTuples => MaxTuples + 1 \in S
  BY <1>1
<1>3. Walked(cis) = SubSeq(cis, 1, m)
  BY DEF Walked
<1> HIDE DEF S
<1>4. /\ Earliest(S) \in Nat /\ (Earliest(S) = 0 <=> S = {})
      /\ S # {} => Earliest(S) \in S /\ \A j \in S : Earliest(S) <= j
  BY <1>1, EarliestFacts
<1>5. m \in 0 .. n /\ m <= MaxTuples
  <2>1. CASE S = {}
    BY <1>1, <1>2, <1>4, <2>1
  <2>2. CASE S # {}
    <3>1. Earliest(S) \in 1 .. n /\ m = Earliest(S) - 1
      BY <1>1, <1>4, <2>2
    <3>2. n > MaxTuples => Earliest(S) <= MaxTuples + 1
      BY <1>2, <1>4, <2>2
    <3> QED BY <1>1, <3>1, <3>2
  <2> QED BY <2>1, <2>2
<1> HIDE DEF m, n
<1>6. SubSeq(cis, 1, m) \in Seq(Tuple) /\ Len(SubSeq(cis, 1, m)) = m
  <2>1. m \in Nat /\ \A k \in 1 .. m : k \in 1 .. Len(cis)
    BY <1>1, <1>5 DEF n
  <2> QED BY <2>1, SubSeqProperties
<1> QED BY <1>3, <1>5, <1>6

Capture == [tuples : Nat, raw : Seq(Octet), manufacturer : Int, card : Int, function : Int]

\* A tuple of the walk kept and decoded.
Taking(cap, t) == [decode(capture_raw(cap, t), t) EXCEPT !.tuples = @ + 1]

\* A tuple as it is packed.
Pack(t) == <<t.code, Len(t.data)>> \o t.data

\* A tuple packs into two bytes more than it has.
LEMMA PackType ==
    ASSUME NEW t \in Tuple
    PROVE  Pack(t) \in Seq(Octet) /\ Len(Pack(t)) = 2 + Len(t.data) /\ Len(t.data) \in Nat
<1>1. t.code \in Octet /\ Len(t.data) \in Octet /\ t.data \in Seq(Octet)
  BY DEF Tuple
<1>2. <<t.code, Len(t.data)>> \in Seq(Octet) /\ Len(<<t.code, Len(t.data)>>) = 2
  BY <1>1
<1> HIDE DEF Octet
<1>3. Len(t.data) \in Nat
  BY <1>1
<1> QED BY <1>1, <1>2, <1>3, ConcatProperties DEF Pack

Numbered(t) == t.code = CISTPL_MANFID /\ Len(t.data) >= 4
Functional(t) == t.code = CISTPL_FUNCID /\ Len(t.data) >= 1

\* What one tuple does to what is kept.
LEMMA TakingMeans ==
    ASSUME NEW cap \in Capture, NEW t \in Tuple
    PROVE  LET c == Taking(cap, t) IN
           /\ c \in Capture
           /\ c.tuples = cap.tuples + 1
           /\ c.raw = IF Fits(cap.raw, t.data) THEN cap.raw \o Pack(t) ELSE cap.raw
           /\ c.manufacturer = IF Numbered(t) THEN t.data[1] + 256 * t.data[2] ELSE cap.manufacturer
           /\ c.card = IF Numbered(t) THEN t.data[3] + 256 * t.data[4] ELSE cap.card
           /\ c.function = IF Functional(t) THEN t.data[1] ELSE cap.function
<1> DEFINE d == t.data
           r == capture_raw(cap, t)
           x == decode(r, t)
           raw == IF Fits(cap.raw, t.data) THEN cap.raw \o Pack(t) ELSE cap.raw
<1>1. d \in Seq(Octet) /\ Len(d) \in Nat
  BY DEF Tuple
<1>2. \A k \in 1 .. Len(d) : d[k] \in Int
  <2>1. \A v \in Octet : v \in Int
    BY DEF Octet
  <2> HIDE DEF d
  <2>2. \A k \in 1 .. Len(d) : d[k] \in Octet
    BY <1>1
  <2> QED BY <2>1, <2>2
<1>3. /\ Numbered(t) => d[1] \in Int /\ d[2] \in Int /\ d[3] \in Int /\ d[4] \in Int
      /\ Functional(t) => d[1] \in Int
  BY <1>1, <1>2 DEF Numbered, Functional
<1>4. raw \in Seq(Octet)
  <2>1. cap.raw \in Seq(Octet) /\ Pack(t) \in Seq(Octet)
    BY PackType DEF Capture
  <2>2. cap.raw \o Pack(t) \in Seq(Octet)
    BY <2>1, ConcatProperties
  <2> QED BY <2>1, <2>2
<1>5. r = [cap EXCEPT !.raw = raw]
  <2>1. cap = [cap EXCEPT !.raw = cap.raw]
    BY DEF Capture
  <2> QED BY <2>1 DEF capture_raw, Pack
<1> HIDE DEF raw, r
<1>6. /\ r \in Capture /\ r.raw = raw /\ r.tuples = cap.tuples /\ r.manufacturer = cap.manufacturer
      /\ r.card = cap.card /\ r.function = cap.function
  BY <1>4, <1>5 DEF Capture
<1>7. ~ (Numbered(t) /\ Functional(t))
  BY DEF Numbered, Functional, CISTPL_MANFID, CISTPL_FUNCID
<1>8. /\ Numbered(t) => x = [r EXCEPT !.manufacturer = d[1] + 256 * d[2], !.card = d[3] + 256 * d[4]]
      /\ Functional(t) => x = [r EXCEPT !.function = d[1]]
      /\ ~Numbered(t) /\ ~Functional(t) => x = r
  BY <1>7 DEF decode, Numbered, Functional
<1>9. Taking(cap, t) = [x EXCEPT !.tuples = @ + 1]
  BY DEF Taking, r
<1> HIDE DEF x
<1>10. /\ x \in Capture /\ x.raw = raw /\ x.tuples = cap.tuples
       /\ x.manufacturer = IF Numbered(t) THEN d[1] + 256 * d[2] ELSE cap.manufacturer
       /\ x.card = IF Numbered(t) THEN d[3] + 256 * d[4] ELSE cap.card
       /\ x.function = IF Functional(t) THEN d[1] ELSE cap.function
  <2>1. CASE Numbered(t)
    <3> DEFINE m == d[1] + 256 * d[2]
               c == d[3] + 256 * d[4]
    <3>1. m \in Int /\ c \in Int
      BY <1>3, <2>1
    <3>2. x = [r EXCEPT !.manufacturer = m, !.card = c]
      BY <1>8, <2>1
    <3> HIDE DEF m, c
    <3>3. /\ x \in Capture /\ x.raw = r.raw /\ x.tuples = r.tuples /\ x.manufacturer = m
          /\ x.card = c /\ x.function = r.function
      BY <1>6, <3>1, <3>2 DEF Capture
    <3> QED BY <1>6, <1>7, <2>1, <3>3 DEF m, c
  <2>2. CASE Functional(t)
    <3>1. d[1] \in Int /\ x = [r EXCEPT !.function = d[1]]
      BY <1>3, <1>8, <2>2
    <3>2. /\ x \in Capture /\ x.raw = r.raw /\ x.tuples = r.tuples /\ x.manufacturer = r.manufacturer
          /\ x.card = r.card /\ x.function = d[1]
      BY <1>6, <3>1 DEF Capture
    <3> QED BY <1>6, <1>7, <2>2, <3>2
  <2>3. CASE ~Numbered(t) /\ ~Functional(t)
    BY <1>6, <1>8, <2>3
  <2> QED BY <2>1, <2>2, <2>3
<1> HIDE DEF d
<1>11. LET c == Taking(cap, t) IN
       /\ c \in Capture /\ c.tuples = cap.tuples + 1 /\ c.raw = x.raw
       /\ c.manufacturer = x.manufacturer /\ c.card = x.card /\ c.function = x.function
  <2> DEFINE m == x.tuples + 1
             c == Taking(cap, t)
  <2>1. m \in Nat /\ m = cap.tuples + 1
    BY <1>10 DEF Capture
  <2>2. c = [x EXCEPT !.tuples = m]
    BY <1>9
  <2> HIDE DEF m, c
  <2>3. /\ c \in Capture /\ c.tuples = m /\ c.raw = x.raw
        /\ c.manufacturer = x.manufacturer /\ c.card = x.card /\ c.function = x.function
    BY <1>10, <2>1, <2>2 DEF Capture
  <2> QED BY <2>1, <2>3 DEF c
<1> QED BY <1>10, <1>11 DEF raw, d

\* The states of a capture along the walk.
LEMMA CaptureRuns ==
    ASSUME NEW cis \in Seq(Tuple)
    PROVE  LET seen == Walked(cis) IN
           \E C : /\ C \in [0 .. Len(seen) -> Capture] /\ C[0] = Nothing
                  /\ C[Len(seen)] = cis_capture_socket(cis)
                  /\ \A k \in 1 .. Len(seen) : C[k] = Taking(C[k - 1], seen[k])
<1> DEFINE seen == Walked(cis)
           n == Len(seen)
           F(h) == [k \in 0 .. n |-> IF k = 0 THEN Nothing
                                     ELSE [decode(capture_raw(h[k - 1], seen[k]), seen[k]) EXCEPT !.tuples = @ + 1]]
           step == [p \in (1 .. n) \X Capture |-> Taking(p[2], seen[p[1]])]
           P == CHOOSE h : h = F(h)
<1>0. seen \in Seq(Tuple) /\ n \in Nat /\ \A k \in 1 .. n : seen[k] \in Tuple
  <2>1. seen \in Seq(Tuple)
    BY WalkedType
  <2> HIDE DEF seen
  <2> QED BY <2>1
<1>1. cis_capture_socket(cis) = P[n]
  BY DEF cis_capture_socket
<1> HIDE DEF n, seen
<1>2. Nothing \in Capture
  <2>1. <<>> \in Seq(Octet)
    OBVIOUS
  <2> QED BY <2>1 DEF Nothing, Capture
<1>3. step \in [(1 .. n) \X Capture -> Capture]
  BY <1>0, TakingMeans
<1>4. PICK g : Built(g, n, Capture, Nothing, step)
  <2> HIDE DEF step
  <2> QED BY <1>0, <1>2, <1>3, Recursion
<1>5. /\ g \in [0 .. n -> Capture] /\ g[0] = Nothing
      /\ \A k \in 1 .. n : g[k] = Taking(g[k - 1], seen[k])
  <2>1. g \in [0 .. n -> Capture] /\ g[0] = Nothing /\ \A k \in 1 .. n : g[k] = step[<<k, g[k - 1]>>]
    BY <1>4 DEF Built
  <2>2. ASSUME NEW k \in 1 .. n PROVE g[k] = Taking(g[k - 1], seen[k])
    <3>1. k - 1 \in 0 .. n
      BY <1>0
    <3>2. g[k - 1] \in Capture
      BY <2>1, <3>1
    <3>3. step[<<k, g[k - 1]>>] = Taking(g[k - 1], seen[k])
      BY <3>2
    <3> QED BY <2>1, <3>3
  <2> QED BY <2>1, <2>2
<1> HIDE DEF step
<1>6. P = F(P)
  <2>1. ASSUME NEW k \in 0 .. n
        PROVE  g[k] = IF k = 0 THEN Nothing ELSE Taking(g[k - 1], seen[k])
    BY <1>0, <1>5
  <2>2. g = [k \in 0 .. n |-> IF k = 0 THEN Nothing ELSE Taking(g[k - 1], seen[k])]
    BY <1>5, <2>1
  <2>3. g = F(g)
    BY <2>2 DEF Taking
  <2> HIDE DEF F
  <2> QED BY <2>3
<1> HIDE DEF P
<1>7. P[0] = Nothing /\ \A k \in 1 .. n : P[k] = Taking(P[k - 1], seen[k])
  <2>1. P[0] = Nothing
    BY <1>0, <1>6
  <2>2. ASSUME NEW k \in 1 .. n PROVE P[k] = Taking(P[k - 1], seen[k])
    <3>1. k \in 0 .. n /\ k # 0
      BY <1>0
    <3> QED BY <1>6, <3>1 DEF Taking
  <2> QED BY <2>1, <2>2
<1> DEFINE T == {k \in 0 .. n : P[k] = g[k]}
<1>8. 0 \in T
  BY <1>0, <1>5, <1>7
<1>9. ASSUME NEW k \in 1 .. n, k - 1 \in T PROVE k \in T
  <2>1. P[k - 1] = g[k - 1] /\ k \in 0 .. n
    BY <1>0, <1>9
  <2> QED BY <1>5, <1>7, <2>1
<1>10. \A k \in 0 .. n : k \in T
  <2> HIDE DEF T
  <2> QED BY <1>0, <1>8, <1>9, CountTo
<1>11. g[n] = cis_capture_socket(cis)
  <2>1. n \in 0 .. n
    BY <1>0
  <2> QED BY <1>1, <1>10, <2>1
<1> QED BY <1>5, <1>11 DEF n, seen

\* The latest of a set that grows upwards is what was added last.
LEMMA LatestFacts ==
    /\ Latest({}) = 0
    /\ \A S \in SUBSET Nat : \A k \in Nat : (\A j \in S : j < k) => Latest(S \cup {k}) = k
<1>1. Latest({}) = 0
  BY DEF Latest
<1>2. ASSUME NEW S \in SUBSET Nat, NEW k \in Nat, \A j \in S : j < k PROVE Latest(S \cup {k}) = k
  <2> DEFINE B == S \cup {k}
  <2>1. k \in B /\ \A j \in B : j <= k
    BY <1>2
  <2>2. \A x \in B : (\A j \in B : j <= x) => x = k
    BY <1>2
  <2> HIDE DEF B
  <2>3. Latest(B) = CHOOSE x \in B : \A j \in B : j <= x
    BY <2>1 DEF Latest
  <2> QED BY <2>1, <2>2, <2>3 DEF B
<1> QED BY <1>1, <1>2

\* What is kept of the first k tuples.
KeptOf(C, seen, n) ==
    /\ n \in Nat /\ seen \in Seq(Tuple) /\ n = Len(seen)
    /\ C \in [0 .. n -> Capture] /\ C[0] = Nothing
    /\ \A k \in 1 .. n : C[k] = Taking(C[k - 1], seen[k])

\* The raw tuples are the tuples packed, but for those that did not fit.
LEMMA CapturePacks ==
    ASSUME NEW C, NEW seen, NEW n, KeptOf(C, seen, n)
    PROVE  LET gaps == {k \in 1 .. n : ~ Fits(C[k - 1].raw, seen[k].data)} IN
           \A k \in 0 .. n : Packed(seen, gaps)[k] = C[k].raw /\ Len(C[k].raw) <= CaptureMax
<1> DEFINE gaps == {k \in 1 .. n : ~ Fits(C[k - 1].raw, seen[k].data)}
           F(h) == [k \in 0 .. n |->
                       IF k = 0 THEN <<>> ELSE IF k \in gaps THEN h[k - 1]
                       ELSE h[k - 1] \o (<<seen[k].code, Len(seen[k].data)>> \o seen[k].data)]
           g == [k \in 0 .. n |-> C[k].raw]
           P == CHOOSE h : h = F(h)
<1>0. n \in Nat /\ n = Len(seen) /\ \A k \in 1 .. n : seen[k] \in Tuple
  BY DEF KeptOf
<1>1. Packed(seen, gaps) = P
  BY <1>0 DEF Packed
<1>2. C[0].raw = <<>>
  BY DEF KeptOf, Nothing
<1>3. ASSUME NEW k \in 1 .. n
      PROVE  /\ C[k - 1] \in Capture /\ k - 1 \in 0 .. n
             /\ C[k].raw = IF k \in gaps THEN C[k - 1].raw ELSE C[k - 1].raw \o Pack(seen[k])
  <2>1. k - 1 \in 0 .. n /\ C[k - 1] \in Capture /\ C[k] = Taking(C[k - 1], seen[k])
    BY DEF KeptOf
  <2>2. C[k].raw = IF Fits(C[k - 1].raw, seen[k].data) THEN C[k - 1].raw \o Pack(seen[k])
                   ELSE C[k - 1].raw
    BY <1>0, <2>1, TakingMeans
  <2> QED BY <2>1, <2>2
<1>4. ASSUME NEW k \in 1 .. n, k \notin gaps
      PROVE  Len(C[k - 1].raw \o Pack(seen[k])) <= CaptureMax
  <2>1. C[k - 1].raw \in Seq(Octet)
    BY <1>3 DEF Capture
  <2>2. /\ Pack(seen[k]) \in Seq(Octet) /\ Len(Pack(seen[k])) = 2 + Len(seen[k].data)
        /\ Len(seen[k].data) \in Nat
    BY <1>0, PackType
  <2>3. Len(C[k - 1].raw) + 2 + Len(seen[k].data) <= CaptureMax
    BY <1>4 DEF Fits
  <2>4. Len(C[k - 1].raw \o Pack(seen[k])) = Len(C[k - 1].raw) + Len(Pack(seen[k]))
    BY <2>1, <2>2, ConcatProperties
  <2>5. Len(C[k - 1].raw) \in Nat /\ CaptureMax \in Nat
    BY <2>1, LenProperties, CardAssumption
  <2> DEFINE a == Len(C[k - 1].raw)
             b == Len(seen[k].data)
             l == Len(C[k - 1].raw \o Pack(seen[k]))
  <2>6. a \in Nat /\ b \in Nat /\ a + 2 + b <= CaptureMax /\ l = a + (2 + b)
    BY <2>2, <2>3, <2>4, <2>5
  <2> HIDE DEF a, b, l
  <2>7. l <= CaptureMax
    BY <2>5, <2>6
  <2> QED BY <2>7 DEF l
<1> HIDE DEF gaps
<1>5. P = F(P)
  <2>1. ASSUME NEW k \in 0 .. n
        PROVE  g[k] = IF k = 0 THEN <<>> ELSE IF k \in gaps THEN g[k - 1]
                      ELSE g[k - 1] \o (<<seen[k].code, Len(seen[k].data)>> \o seen[k].data)
    <3>1. CASE k = 0
      BY <1>2, <3>1
    <3>2. CASE k # 0
      <4>1. k \in 1 .. n
        BY <1>0, <3>2
      <4>2. g[k] = C[k].raw /\ g[k - 1] = C[k - 1].raw
        BY <1>3, <4>1
      <4> HIDE DEF g
      <4> QED BY <1>3, <3>2, <4>1, <4>2 DEF Pack
    <3> QED BY <3>1, <3>2
  <2>2. g = [k \in 0 .. n |-> g[k]]
    OBVIOUS
  <2>3. g = F(g)
    <3> HIDE DEF g
    <3> QED BY <2>1, <2>2
  <2> HIDE DEF F, g
  <2> QED BY <2>3
<1> HIDE DEF P
<1> DEFINE T == {k \in 0 .. n : P[k] = C[k].raw /\ Len(C[k].raw) <= CaptureMax}
<1>6. 0 \in T
  <2>1. P[0] = <<>>
    BY <1>0, <1>5
  <2>2. Len(<<>>) <= CaptureMax /\ 0 \in 0 .. n
    BY <1>0, CardAssumption
  <2> QED BY <1>2, <2>1, <2>2
<1>7. ASSUME NEW k \in 1 .. n, k - 1 \in T PROVE k \in T
  <2>1. P[k - 1] = C[k - 1].raw /\ Len(C[k - 1].raw) <= CaptureMax /\ k \in 0 .. n /\ k # 0
    BY <1>0, <1>7
  <2>2. P[k] = IF k \in gaps THEN P[k - 1] ELSE P[k - 1] \o Pack(seen[k])
    BY <1>5, <2>1 DEF Pack
  <2>3. CASE k \in gaps
    BY <1>3, <2>1, <2>2, <2>3
  <2>4. CASE k \notin gaps
    BY <1>3, <1>4, <2>1, <2>2, <2>4
  <2> QED BY <2>3, <2>4
<1>8. \A k \in 0 .. n : k \in T
  <2> HIDE DEF T
  <2> QED BY <1>0, <1>6, <1>7, CountTo
<1> QED BY <1>1, <1>8 DEF gaps

\* The numbers of the last tuple that has them.
NumbersOf(cap, seen, n) ==
    LET manf == Latest({k \in 1 .. n : Numbered(seen[k])})
        func == Latest({k \in 1 .. n : Functional(seen[k])})
        d == seen[manf].data
    IN  /\ cap.tuples = n
        /\ cap.manufacturer = IF manf = 0 THEN 0 ELSE d[1] + 256 * d[2]
        /\ cap.card = IF manf = 0 THEN 0 ELSE d[3] + 256 * d[4]
        /\ cap.function = IF func = 0 THEN 0 ELSE seen[func].data[1]

\* The numbers kept are those of the last tuple that has them.
LEMMA CaptureNumbers ==
    ASSUME NEW C, NEW seen, NEW n, KeptOf(C, seen, n)
    PROVE  NumbersOf(C[n], seen, n)
<1> DEFINE M(k) == {j \in 1 .. k : Numbered(seen[j])}
           U(k) == {j \in 1 .. k : Functional(seen[j])}
           d(j) == seen[j].data
           m(j) == IF j = 0 THEN 0 ELSE d(j)[1] + 256 * d(j)[2]
           c(j) == IF j = 0 THEN 0 ELSE d(j)[3] + 256 * d(j)[4]
           f(j) == IF j = 0 THEN 0 ELSE d(j)[1]
           T == {k \in 0 .. n : /\ C[k].tuples = k
                                /\ C[k].manufacturer = m(Latest(M(k))) /\ C[k].card = c(Latest(M(k)))
                                /\ C[k].function = f(Latest(U(k)))}
<1>0. n \in Nat /\ \A k \in 1 .. n : seen[k] \in Tuple
  BY DEF KeptOf
<1>1. 0 \in T
  <2>1. M(0) = {} /\ U(0) = {}
    OBVIOUS
  <2>2. Latest(M(0)) = 0 /\ Latest(U(0)) = 0
    BY <2>1, LatestFacts
  <2>3. m(0) = 0 /\ c(0) = 0 /\ f(0) = 0
    OBVIOUS
  <2>4. C[0].tuples = 0 /\ C[0].manufacturer = 0 /\ C[0].card = 0 /\ C[0].function = 0
    BY DEF KeptOf, Nothing
  <2> HIDE DEF M, U, m, c, f
  <2> QED BY <1>0, <2>2, <2>3, <2>4
<1>2. ASSUME NEW k \in 1 .. n, k - 1 \in T PROVE k \in T
  <2>1. /\ k - 1 \in 0 .. n /\ k \in 0 .. n /\ C[k - 1] \in Capture
        /\ C[k] = Taking(C[k - 1], seen[k]) /\ seen[k] \in Tuple
    BY <1>0 DEF KeptOf
  <2>2. /\ C[k].tuples = C[k - 1].tuples + 1
        /\ C[k].manufacturer = IF Numbered(seen[k]) THEN d(k)[1] + 256 * d(k)[2] ELSE C[k - 1].manufacturer
        /\ C[k].card = IF Numbered(seen[k]) THEN d(k)[3] + 256 * d(k)[4] ELSE C[k - 1].card
        /\ C[k].function = IF Functional(seen[k]) THEN d(k)[1] ELSE C[k - 1].function
    BY <2>1, TakingMeans
  <2>3. /\ C[k - 1].tuples = k - 1
        /\ C[k - 1].manufacturer = m(Latest(M(k - 1))) /\ C[k - 1].card = c(Latest(M(k - 1)))
        /\ C[k - 1].function = f(Latest(U(k - 1)))
    BY <1>2
  <2>4. /\ M(k) = IF Numbered(seen[k]) THEN M(k - 1) \cup {k} ELSE M(k - 1)
        /\ U(k) = IF Functional(seen[k]) THEN U(k - 1) \cup {k} ELSE U(k - 1)
    <3>1. \A j : j \in 1 .. k <=> j \in 1 .. k - 1 \/ j = k
      BY <1>0
    <3> QED BY <3>1
  <2>5. /\ M(k - 1) \in SUBSET Nat /\ U(k - 1) \in SUBSET Nat /\ k \in Nat /\ k # 0
        /\ (\A j \in M(k - 1) : j < k) /\ \A j \in U(k - 1) : j < k
    BY <1>0
  <2>6. /\ m(k) = d(k)[1] + 256 * d(k)[2] /\ c(k) = d(k)[3] + 256 * d(k)[4] /\ f(k) = d(k)[1]
    <3>1. k # 0
      BY <2>5
    <3> HIDE DEF d
    <3> QED BY <3>1
  <2> HIDE DEF M, U, m, c, f, d
  <2>7. C[k].tuples = k
    <3>1. C[k].tuples = (k - 1) + 1 /\ k \in Nat
      BY <2>2, <2>3, <2>5
    <3> QED BY <3>1
  <2>8. Latest(M(k)) = IF Numbered(seen[k]) THEN k ELSE Latest(M(k - 1))
    BY <2>4, <2>5, LatestFacts
  <2>9. Latest(U(k)) = IF Functional(seen[k]) THEN k ELSE Latest(U(k - 1))
    BY <2>4, <2>5, LatestFacts
  <2>10. C[k].manufacturer = m(Latest(M(k))) /\ C[k].card = c(Latest(M(k)))
    BY <2>2, <2>3, <2>6, <2>8
  <2>11. C[k].function = f(Latest(U(k)))
    BY <2>2, <2>3, <2>6, <2>9
  <2> QED BY <2>1, <2>7, <2>10, <2>11
<1>3. \A k \in 0 .. n : k \in T
  <2> HIDE DEF T
  <2> QED BY <1>0, <1>1, <1>2, CountTo
<1>4. n \in T
  <2> HIDE DEF T
  <2> QED BY <1>0, <1>3
<1> QED BY <1>4 DEF NumbersOf

\* What the driver keeps of the tuples is what it should keep, and fits.
LEMMA CaptureExact ==
    ASSUME NEW cis \in Seq(Tuple)
    PROVE  /\ CaptureOf(cis_capture_socket(cis), Walked(cis))
           /\ Len(cis_capture_socket(cis).raw) <= CaptureMax
<1> DEFINE seen == Walked(cis)
           n == Len(seen)
           cap == cis_capture_socket(cis)
           S == {k \in 1 .. n : Numbered(seen[k])}
           U == {k \in 1 .. n : Functional(seen[k])}
           manf == Latest(S)
           func == Latest(U)
           d(j) == seen[j].data
<1>1. seen \in Seq(Tuple) /\ n \in Nat
  <2>1. seen \in Seq(Tuple)
    BY WalkedType
  <2> HIDE DEF seen
  <2> QED BY <2>1
<1>2. PICK C : /\ C \in [0 .. n -> Capture] /\ C[0] = Nothing /\ C[n] = cap
               /\ \A k \in 1 .. n : C[k] = Taking(C[k - 1], seen[k])
  BY CaptureRuns
<1> HIDE DEF cap, seen
<1>3. KeptOf(C, seen, n)
  BY <1>1, <1>2 DEF KeptOf
<1> DEFINE gaps == {k \in 1 .. n : ~ Fits(C[k - 1].raw, seen[k].data)}
<1>4. \A k \in 0 .. n : Packed(seen, gaps)[k] = C[k].raw /\ Len(C[k].raw) <= CaptureMax
  <2> HIDE DEF n
  <2> QED BY <1>3, CapturePacks
<1>5. ASSUME NEW k \in 1 .. n
      PROVE  k \in gaps <=> Len(Packed(seen, gaps)[k - 1]) + 2 + Len(seen[k].data) > CaptureMax
  <2>1. k - 1 \in 0 .. n
    BY <1>1
  <2>2. /\ Packed(seen, gaps)[k - 1] = C[k - 1].raw /\ C[k - 1].raw \in Seq(Octet)
        /\ Len(C[k - 1].raw) \in Nat /\ Len(seen[k].data) \in Nat
    <3>1. C[k - 1] \in Capture /\ seen[k] \in Tuple
      BY <1>1, <1>2, <2>1
    <3>2. C[k - 1].raw \in Seq(Octet) /\ seen[k].data \in Seq(Octet)
      BY <3>1 DEF Capture, Tuple
    <3>3. Len(C[k - 1].raw) \in Nat /\ Len(seen[k].data) \in Nat
      BY <3>2, LenProperties
    <3> QED BY <1>4, <2>1, <3>2, <3>3
  <2>3. k \in gaps <=> ~ (Len(C[k - 1].raw) + 2 + Len(seen[k].data) <= CaptureMax)
    BY DEF Fits
  <2> DEFINE a == Len(C[k - 1].raw)
             b == Len(seen[k].data)
  <2>4. a \in Nat /\ b \in Nat /\ CaptureMax \in Nat /\ (k \in gaps <=> ~ (a + 2 + b <= CaptureMax))
    BY <2>2, <2>3, CardAssumption
  <2> HIDE DEF gaps, a, b
  <2>5. k \in gaps <=> a + 2 + b > CaptureMax
    BY <2>4
  <2> QED BY <2>2, <2>5 DEF a, b
<1>6. gaps \in SUBSET (1 .. n) /\ cap.raw = Packed(seen, gaps)[n] /\ Len(cap.raw) <= CaptureMax
  <2>1. n \in 0 .. n /\ gaps \in SUBSET (1 .. n)
    BY <1>1
  <2> HIDE DEF gaps
  <2> QED BY <1>2, <1>4, <2>1
<1>7. /\ cap.tuples = n
      /\ cap.manufacturer = IF manf = 0 THEN 0 ELSE d(manf)[1] + 256 * d(manf)[2]
      /\ cap.card = IF manf = 0 THEN 0 ELSE d(manf)[3] + 256 * d(manf)[4]
      /\ cap.function = IF func = 0 THEN 0 ELSE d(func)[1]
  <2>1. NumbersOf(C[n], seen, n)
    <3> HIDE DEF n
    <3> QED BY <1>3, CaptureNumbers
  <2>2. NumbersOf(cap, seen, n)
    BY <1>2, <2>1
  <2> QED BY <2>2 DEF NumbersOf
<1>8. \E G \in SUBSET (1 .. n) :
          /\ cap.raw = Packed(seen, G)[n]
          /\ \A k \in 1 .. n : k \in G <=> Len(Packed(seen, G)[k - 1]) + 2 + Len(seen[k].data) > CaptureMax
  <2> HIDE DEF gaps
  <2> QED BY <1>5, <1>6
<1>9. <<cap.manufacturer, cap.card>> =
         IF manf = 0 THEN <<0, 0>>
         ELSE <<d(manf)[1] + 256 * d(manf)[2], d(manf)[3] + 256 * d(manf)[4]>>
  <2> HIDE DEF manf, d
  <2> QED BY <1>7
<1>10. /\ S = {k \in 1 .. n : seen[k].code = CISTPL_MANFID /\ Len(seen[k].data) >= 4}
       /\ U = {k \in 1 .. n : seen[k].code = CISTPL_FUNCID /\ Len(seen[k].data) >= 1}
  BY DEF Numbered, Functional
<1> HIDE DEF S, U
<1>11. CaptureOf(cap, seen)
  BY <1>7, <1>8, <1>9, <1>10, ZenonT(40) DEF CaptureOf
<1> QED BY <1>6, <1>11 DEF cap, seen

------------------------------------------------------------------------------
(* The names *)

Rank(S, k) == Cardinality({y \in S : y <= k})

\* A position behind all the others is the last; the others keep their places.
LEMMA RankAdded ==
    ASSUME NEW S \in SUBSET Nat, IsFiniteSet(S), NEW n \in Nat, \A y \in S : y < n
    PROVE  /\ IsFiniteSet(S \cup {n}) /\ Cardinality(S) \in Nat
           /\ Cardinality(S \cup {n}) = Cardinality(S) + 1
           /\ \A m \in S : Rank(S \cup {n}, m) = Rank(S, m)
           /\ Rank(S \cup {n}, n) = Cardinality(S) + 1
<1> DEFINE T == S \cup {n}
<1>1. n \notin S /\ Cardinality(S) \in Nat
  BY FS_CardinalityType
<1>2. IsFiniteSet(T) /\ Cardinality(T) = Cardinality(S) + 1
  BY <1>1, FS_AddElement
<1>3. ASSUME NEW m \in S PROVE Rank(T, m) = Rank(S, m)
  <2>1. {y \in T : y <= m} = {y \in S : y <= m}
    OBVIOUS
  <2> QED BY <2>1 DEF Rank
<1>4. Rank(T, n) = Cardinality(T)
  <2>1. \A y \in T : y <= n
    OBVIOUS
  <2>2. {y \in T : y <= n} = T
    BY <2>1
  <2> QED BY <2>2 DEF Rank
<1> QED BY <1>1, <1>2, <1>3, <1>4

\* text is what data has at the positions S, presented, as far as max goes.
Lists(text, data, S, max) ==
    /\ S \in SUBSET Nat /\ IsFiniteSet(S)
    /\ text \in Seq(Octet)
    /\ Len(text) = IF Cardinality(S) < max THEN Cardinality(S) ELSE max
    /\ \A m \in S : Rank(S, m) \in 1 .. Len(text) => text[Rank(S, m)] = Presented(data[m])
    /\ \A j \in 1 .. Len(text) : \E m \in S : Rank(S, m) = j

\* The text is said by its positions alone.
LEMMA ListsMeans ==
    ASSUME NEW text, NEW data, NEW S, NEW max, Lists(text, data, S, max)
    PROVE  text = [j \in 1 .. IF Cardinality(S) < max THEN Cardinality(S) ELSE max |->
                      Presented(data[CHOOSE k \in S : Cardinality({m \in S : m <= k}) = j])]
<1> DEFINE l == IF Cardinality(S) < max THEN Cardinality(S) ELSE max
           Nth(j) == CHOOSE k \in S : Cardinality({m \in S : m <= k}) = j
<1>1. text \in Seq(Octet) /\ Len(text) = l
  BY DEF Lists
<1>2. ASSUME NEW j \in 1 .. l PROVE text[j] = Presented(data[Nth(j)])
  <2>1. \E k \in S : Cardinality({m \in S : m <= k}) = j
    BY <1>1, <1>2 DEF Lists, Rank
  <2>2. Nth(j) \in S /\ Cardinality({m \in S : m <= Nth(j)}) = j
    BY <2>1
  <2> HIDE DEF Nth
  <2>3. Rank(S, Nth(j)) = j /\ j \in 1 .. Len(text)
    BY <1>1, <1>2, <2>2 DEF Rank
  <2> QED BY <2>2, <2>3 DEF Lists
<1> HIDE DEF Nth, l
<1>3. text = [j \in 1 .. Len(text) |-> text[j]]
  BY <1>1
<1>4. text = [j \in 1 .. l |-> Presented(data[Nth(j)])]
  BY <1>1, <1>2, <1>3
<1> QED BY <1>4 DEF Nth, l

\* The next byte of a name.
LEMMA KeptByteLists ==
    ASSUME NEW text, NEW data \in Seq(Octet), NEW S, NEW max \in Nat, Lists(text, data, S, max),
           NEW n \in 1 .. Len(data), \A y \in S : y < n
    PROVE  Lists(KeptByte(text, data[n], max), data,
                 IF data[n] \in 32 .. 126 THEN S \cup {n} ELSE S, max)
<1> DEFINE b == data[n]
           x == KeptByte(text, b, max)
           T == S \cup {n}
<1>0. n \in Nat /\ b \in Octet /\ (b \in {32} \cup Printable <=> b \in 32 .. 126)
  <2>1. n \in Nat /\ b \in Octet
    <3> HIDE DEF Octet
    <3> QED OBVIOUS
  <2>2. \A v \in Octet : v \in {32} \cup Printable <=> v \in 32 .. 126
    BY DEF Printable, Octet
  <2> QED BY <2>1, <2>2
<1>1. CASE b \notin 32 .. 126
  BY <1>0, <1>1 DEF KeptByte
<1>2. CASE b \in 32 .. 126
  <2>1. /\ S \in SUBSET Nat /\ IsFiniteSet(S) /\ text \in Seq(Octet) /\ Len(text) \in Nat
        /\ Len(text) = IF Cardinality(S) < max THEN Cardinality(S) ELSE max
        /\ \A m \in S : Rank(S, m) \in 1 .. Len(text) => text[Rank(S, m)] = Presented(data[m])
        /\ \A j \in 1 .. Len(text) : \E m \in S : Rank(S, m) = j
    BY DEF Lists
  <2>2. /\ IsFiniteSet(T) /\ T \in SUBSET Nat /\ Cardinality(S) \in Nat
        /\ Cardinality(T) = Cardinality(S) + 1
        /\ \A m \in S : Rank(T, m) = Rank(S, m)
        /\ Rank(T, n) = Cardinality(S) + 1
    BY <1>0, <2>1, RankAdded
  <2>3. x = IF Len(text) < max THEN Append(text, Presented(b)) ELSE text
    BY <1>0, <1>2 DEF KeptByte
  <2>4. Presented(b) \in Octet
    BY <1>0 DEF Presented, Octet
  <2> HIDE DEF b, x, T
  <2>5. CASE Len(text) < max
    <3>1. Len(text) = Cardinality(S) /\ x = Append(text, Presented(b))
      BY <2>1, <2>2, <2>3, <2>5
    <3>2. /\ x \in Seq(Octet) /\ Len(x) = Len(text) + 1 /\ x[Len(text) + 1] = Presented(b)
          /\ \A j \in 1 .. Len(text) : x[j] = text[j]
      <4> HIDE DEF Octet
      <4> QED BY <2>1, <2>4, <3>1, AppendProperties
    <3>3. Len(x) = IF Cardinality(T) < max THEN Cardinality(T) ELSE max
      BY <2>1, <2>2, <2>5, <3>1, <3>2
    <3>4. ASSUME NEW m \in T, Rank(T, m) \in 1 .. Len(x) PROVE x[Rank(T, m)] = Presented(data[m])
      <4>1. CASE m = n
        BY <2>2, <3>1, <3>2, <4>1 DEF b
      <4>2. CASE m # n
        <5>1. m \in S
          BY <4>2 DEF T
        <5>2. {y \in S : y <= m} \subseteq S
          OBVIOUS
        <5>3. Rank(S, m) <= Cardinality(S) /\ Rank(S, m) \in Nat
          BY <2>1, <5>2, FS_Subset, FS_CardinalityType DEF Rank
        <5>4. Rank(S, m) \in 1 .. Len(text) /\ Rank(T, m) = Rank(S, m)
          BY <2>2, <3>1, <3>4, <5>1, <5>3
        <5> QED BY <2>1, <3>2, <5>1, <5>4
      <4> QED BY <4>1, <4>2
    <3>5. ASSUME NEW j \in 1 .. Len(x) PROVE \E m \in T : Rank(T, m) = j
      <4>1. CASE j = Len(text) + 1
        BY <2>2, <3>1, <4>1 DEF T
      <4>2. CASE j # Len(text) + 1
        <5>1. j \in 1 .. Len(text)
          BY <2>1, <3>2, <4>2
        <5>2. PICK m \in S : Rank(S, m) = j
          BY <2>1, <5>1
        <5> QED BY <2>2, <5>2 DEF T
      <4> QED BY <4>1, <4>2
    <3>6. Lists(x, data, T, max)
      BY <2>2, <3>2, <3>3, <3>4, <3>5 DEF Lists
    <3> QED BY <1>2, <3>6 DEF b, x, T
  <2>6. CASE ~ (Len(text) < max)
    <3>1. x = text /\ Len(text) = max /\ Cardinality(S) >= max
      BY <2>1, <2>2, <2>3, <2>6
    <3>2. Len(x) = IF Cardinality(T) < max THEN Cardinality(T) ELSE max
      BY <2>2, <3>1
    <3>3. ASSUME NEW m \in T, Rank(T, m) \in 1 .. Len(x) PROVE x[Rank(T, m)] = Presented(data[m])
      <4>1. m # n
        BY <2>2, <3>1, <3>3
      <4>2. m \in S
        BY <4>1 DEF T
      <4> QED BY <2>1, <2>2, <3>1, <3>3, <4>2
    <3>4. ASSUME NEW j \in 1 .. Len(x) PROVE \E m \in T : Rank(T, m) = j
      <4>1. PICK m \in S : Rank(S, m) = j
        BY <2>1, <3>1
      <4> QED BY <2>2, <4>1 DEF T
    <3>5. Lists(x, data, T, max)
      BY <2>1, <2>2, <3>1, <3>2, <3>3, <3>4 DEF Lists
    <3> QED BY <1>2, <3>5 DEF b, x, T
  <2> QED BY <2>5, <2>6
<1> QED BY <1>1, <1>2

\* copy_filtered lists the bytes that print, up to the first NUL.
LEMMA CopyLists ==
    ASSUME NEW data \in Seq(Octet), NEW at \in 0 .. Len(data), NEW max \in Nat
    PROVE  LET len  == Len(data) - at
               nul  == Earliest({k \in 1 .. len : data[at + k] = 0})
               stop == IF nul = 0 THEN len ELSE nul - 1
               copy == copy_filtered(data, at, max)
           IN  /\ nul \in 0 .. len /\ copy.used = (IF nul = 0 THEN len ELSE nul)
               /\ \A k \in 1 .. stop : data[at + k] # 0
               /\ nul # 0 => data[at + nul] = 0
               /\ Lists(copy.text, data, {j \in at + 1 .. at + stop : data[j] \in 32 .. 126}, max)
<1> DEFINE len  == Len(data) - at
           S    == {k \in 1 .. len : data[at + k] = 0}
           nul  == Earliest(S)
           stop == IF nul = 0 THEN len ELSE nul - 1
           own(k) == {j \in at + 1 .. at + k : data[j] \in 32 .. 126}
           V    == Seq(Octet)
           F(h) == [k \in 0 .. stop |-> IF k = 0 THEN <<>> ELSE KeptByte(h[k - 1], data[at + k], max)]
           step == [p \in (1 .. stop) \X V |-> KeptByte(p[2], data[at + p[1]], max)]
           P    == CHOOSE h : h = F(h)
<1>0. at \in Nat /\ len \in Nat /\ Len(data) \in Nat /\ at + len = Len(data)
  BY LenProperties
<1>1. copy_filtered(data, at, max).text = P[stop]
  BY DEF copy_filtered
<1>2. copy_filtered(data, at, max).used = IF nul = 0 THEN len ELSE nul
  BY DEF copy_filtered
<1> HIDE DEF len
<1>3. /\ nul \in 0 .. len /\ (nul = 0 <=> S = {})
      /\ nul # 0 => nul \in S /\ \A k \in S : nul <= k
  <2>1. S \in SUBSET (Nat \ {0}) /\ \A k \in S : k <= len
    BY <1>0
  <2> HIDE DEF S
  <2> QED BY <1>0, <2>1, EarliestFacts
<1>4. stop \in 0 .. len /\ \A k \in 1 .. stop : data[at + k] # 0
  <2>1. CASE nul = 0
    <3>1. stop = len /\ S = {}
      BY <1>3, <2>1
    <3>2. \A k \in 1 .. len : data[at + k] # 0
      BY <3>1
    <3> HIDE DEF S, nul, stop
    <3> QED BY <1>0, <3>1, <3>2
  <2>2. CASE nul # 0
    <3>1. stop = nul - 1 /\ nul \in 1 .. len
      BY <1>0, <1>3, <2>2
    <3>2. ASSUME NEW k \in 1 .. stop PROVE data[at + k] # 0
      <4>1. k \in 1 .. len /\ ~ (nul <= k)
        BY <1>0, <3>1
      <4>2. k \notin S
        BY <1>3, <2>2, <4>1
      <4> QED BY <4>1, <4>2
    <3> QED BY <1>0, <3>1, <3>2
  <2> QED BY <2>1, <2>2
<1>5. nul # 0 => data[at + nul] = 0
  BY <1>3
<1> HIDE DEF S, nul, stop
<1>18. stop \in Nat
  BY <1>0, <1>4
<1>6. ASSUME NEW k \in 1 .. stop
      PROVE  at + k \in 1 .. Len(data) /\ data[at + k] \in Octet /\ k - 1 \in 0 .. stop /\ k \in 0 .. stop
  <2>1. at + k \in 1 .. Len(data) /\ k - 1 \in 0 .. stop /\ k \in 0 .. stop
    BY <1>0, <1>4
  <2> HIDE DEF Octet
  <2> QED BY <2>1
<1>7. \A k \in 1 .. stop : \A x \in V : KeptByte(x, data[at + k], max) \in V
  <2>1. \A v \in Octet : Presented(v) \in Octet
    BY DEF Presented, Octet
  <2> SUFFICES ASSUME NEW k \in 1 .. stop, NEW x \in V PROVE KeptByte(x, data[at + k], max) \in V
    OBVIOUS
  <2>2. Presented(data[at + k]) \in Octet
    BY <1>6, <2>1
  <2>3. Append(x, Presented(data[at + k])) \in V
    <3> HIDE DEF Octet
    <3> QED BY <2>2, AppendProperties
  <2> QED BY <2>3 DEF KeptByte
<1>8. <<>> \in V
  OBVIOUS
<1> HIDE DEF V
<1>9. step \in [(1 .. stop) \X V -> V]
  BY <1>7
<1>10. PICK g : Built(g, stop, V, <<>>, step)
  <2> HIDE DEF step
  <2> QED BY <1>8, <1>9, <1>18, Recursion
<1>11. /\ g \in [0 .. stop -> V] /\ g[0] = <<>>
       /\ \A k \in 1 .. stop : g[k] = KeptByte(g[k - 1], data[at + k], max)
  <2>1. g \in [0 .. stop -> V] /\ g[0] = <<>> /\ \A k \in 1 .. stop : g[k] = step[<<k, g[k - 1]>>]
    BY <1>10 DEF Built
  <2>2. ASSUME NEW k \in 1 .. stop PROVE g[k] = KeptByte(g[k - 1], data[at + k], max)
    <3>1. g[k - 1] \in V
      BY <1>6, <2>1
    <3>2. step[<<k, g[k - 1]>>] = KeptByte(g[k - 1], data[at + k], max)
      BY <3>1
    <3> QED BY <2>1, <3>2
  <2> QED BY <2>1, <2>2
<1> HIDE DEF step
<1>12. P = F(P)
  <2>1. ASSUME NEW k \in 0 .. stop
        PROVE  g[k] = IF k = 0 THEN <<>> ELSE KeptByte(g[k - 1], data[at + k], max)
    BY <1>0, <1>4, <1>11
  <2>2. g = F(g)
    BY <1>11, <2>1
  <2> HIDE DEF F
  <2> QED BY <2>2
<1> HIDE DEF P
<1>13. P[0] = <<>> /\ \A k \in 1 .. stop : P[k] = KeptByte(P[k - 1], data[at + k], max)
  <2>1. 0 \in 0 .. stop
    BY <1>0, <1>4
  <2>2. ASSUME NEW k \in 1 .. stop PROVE P[k] = KeptByte(P[k - 1], data[at + k], max)
    <3>1. k \in 0 .. stop /\ k # 0
      BY <1>6
    <3> QED BY <1>12, <3>1
  <2> QED BY <1>12, <2>1, <2>2
<1> DEFINE T == {k \in 0 .. stop : Lists(P[k], data, own(k), max)}
<1>14. 0 \in T
  <2>1. own(0) = {}
    BY <1>0
  <2>2. IsFiniteSet({}) /\ Cardinality({}) = 0
    BY FS_EmptySet
  <2>3. Lists(<<>>, data, {}, max)
    BY <2>2 DEF Lists
  <2>4. 0 \in 0 .. stop
    BY <1>0, <1>4
  <2> HIDE DEF own
  <2> QED BY <1>13, <2>1, <2>3, <2>4
<1>15. ASSUME NEW k \in 1 .. stop, k - 1 \in T PROVE k \in T
  <2>1. Lists(P[k - 1], data, own(k - 1), max)
    BY <1>15
  <2>2. at + k \in 1 .. Len(data) /\ \A y \in own(k - 1) : y < at + k
    BY <1>0, <1>4, <1>6
  <2>3. own(k) = IF data[at + k] \in 32 .. 126 THEN own(k - 1) \cup {at + k} ELSE own(k - 1)
    <3>1. \A j : j \in at + 1 .. at + k <=> j \in at + 1 .. at + (k - 1) \/ j = at + k
      BY <1>0, <1>4
    <3> QED BY <3>1
  <2> DEFINE x == at + k
  <2> HIDE DEF own, x
  <2>4. Lists(KeptByte(P[k - 1], data[x], max), data, IF data[x] \in 32 .. 126 THEN own(k - 1) \cup {x} ELSE own(k - 1), max)
    BY <2>1, <2>2, KeptByteLists DEF x
  <2>5. Lists(KeptByte(P[k - 1], data[at + k], max), data, own(k), max)
    BY <2>3, <2>4 DEF x
  <2> QED BY <1>6, <1>13, <2>5
<1>16. \A k \in 0 .. stop : k \in T
  <2> HIDE DEF T
  <2> QED BY <1>0, <1>4, <1>14, <1>15, CountTo
<1>17. Lists(P[stop], data, own(stop), max)
  <2>1. stop \in 0 .. stop
    BY <1>0, <1>4
  <2> QED BY <1>16, <2>1
<1> HIDE DEF own
<1> QED BY <1>1, <1>2, <1>3, <1>4, <1>5, <1>17 DEF own, stop, nul, S, len

\* How many NULs come before a place: none, one, or more.
LEMMA NulsCount ==
    ASSUME NEW data \in Seq(Octet), NEW k \in Nat
    PROVE  /\ NulsBefore(data, k) \in Nat
           /\ (\A j \in 3 .. k - 1 : data[j] # 0) => NulsBefore(data, k) = 0
           /\ \A p \in 3 .. k - 1 :
                 data[p] = 0 /\ (\A j \in 3 .. k - 1 : j # p => data[j] # 0) => NulsBefore(data, k) = 1
           /\ \A p, q \in 3 .. k - 1 :
                 p # q /\ data[p] = 0 /\ data[q] = 0 => NulsBefore(data, k) >= 2
<1> DEFINE S == {j \in 3 .. k - 1 : data[j] = 0}
<1>1. IsFiniteSet(S) /\ Cardinality(S) \in Nat /\ NulsBefore(data, k) = Cardinality(S)
  <2>1. IsFiniteSet(3 .. k - 1)
    BY FS_Interval
  <2>2. S \subseteq 3 .. k - 1
    OBVIOUS
  <2>3. IsFiniteSet(S)
    BY <2>1, <2>2, FS_Subset
  <2> QED BY <2>3, FS_CardinalityType DEF NulsBefore
<1>2. ASSUME \A j \in 3 .. k - 1 : data[j] # 0 PROVE Cardinality(S) = 0
  <2>1. S = {}
    BY <1>2
  <2> QED BY <2>1, FS_EmptySet
<1>3. ASSUME NEW p \in 3 .. k - 1, data[p] = 0, \A j \in 3 .. k - 1 : j # p => data[j] # 0
      PROVE  Cardinality(S) = 1
  <2>1. S = {p}
    BY <1>3
  <2> QED BY <2>1, FS_Singleton
<1>4. ASSUME NEW p \in 3 .. k - 1, NEW q \in 3 .. k - 1, p # q, data[p] = 0, data[q] = 0
      PROVE  Cardinality(S) >= 2
  <2>1. {p} \cup {q} \subseteq S
    BY <1>4
  <2>2. IsFiniteSet({p}) /\ Cardinality({p}) = 1 /\ q \notin {p}
    BY <1>4, FS_Singleton
  <2> DEFINE A == {p}
             B == A \cup {q}
  <2> HIDE DEF A
  <2>3. Cardinality(B) = 2
    <3>1. IsFiniteSet(A) /\ Cardinality(A) = 1 /\ q \notin A
      BY <2>2 DEF A
    <3>2. Cardinality(A \cup {q}) = Cardinality(A) + 1
      BY <3>1, FS_AddElement
    <3> QED BY <3>1, <3>2
  <2> HIDE DEF S
  <2>4. Cardinality(B) <= Cardinality(S)
    BY <1>1, <2>1, FS_Subset DEF A
  <2> QED BY <1>1, <2>3, <2>4
<1> HIDE DEF S
<1> QED BY <1>1, <1>2, <1>3, <1>4

\* The strings of a tuple: the first ends at p, the second at q.
Strings(data, p, q) ==
    /\ data \in Seq(Octet) /\ Len(data) > 4
    /\ p \in 3 .. Len(data) /\ q \in p .. Len(data)
    /\ \A j \in 3 .. p - 1 : data[j] # 0
    /\ p < Len(data) => data[p] = 0 /\ p < q
    /\ \A j \in p + 1 .. q - 1 : data[j] # 0
    /\ q < Len(data) => data[q] = 0

\* A place is in the string its NULs say.
LEMMA StringsSplit ==
    ASSUME NEW data, NEW p, NEW q, Strings(data, p, q), NEW k \in 1 .. Len(data)
    PROVE  /\ k <= p => NulsBefore(data, k) = 0
           /\ p < k /\ k <= q => NulsBefore(data, k) = 1
           /\ q < k => NulsBefore(data, k) >= 2
           /\ NulsBefore(data, k) \in Nat
<1> DEFINE L == Len(data)
<1>0. /\ data \in Seq(Octet) /\ L \in Nat /\ p \in Nat /\ q \in Nat /\ k \in Nat
      /\ 3 <= p /\ p <= q /\ q <= L /\ 1 <= k /\ k <= L
  <2>1. data \in Seq(Octet) /\ p \in 3 .. L /\ q \in p .. L
    BY DEF Strings
  <2>2. L \in Nat
    BY <2>1, LenProperties
  <2> HIDE DEF L
  <2>3. k \in 1 .. L
    BY DEF L
  <2> QED BY <2>1, <2>2, <2>3
<1> HIDE DEF L
<1>1. NulsBefore(data, k) \in Nat
  BY <1>0, NulsCount
<1>2. ASSUME k <= p PROVE NulsBefore(data, k) = 0
  <2>1. \A j \in 3 .. p - 1 : data[j] # 0
    BY DEF Strings
  <2>2. \A j \in 3 .. k - 1 : data[j] # 0
    BY <1>0, <1>2, <2>1
  <2> QED BY <1>0, <2>2, NulsCount
<1>3. ASSUME p < k, k <= q PROVE NulsBefore(data, k) = 1
  <2>1. /\ \A j \in 3 .. p - 1 : data[j] # 0
        /\ \A j \in p + 1 .. q - 1 : data[j] # 0
        /\ p < L => data[p] = 0
    BY DEF Strings, L
  <2>2. p \in 3 .. k - 1 /\ p < L
    BY <1>0, <1>3
  <2>3. \A j \in 3 .. k - 1 : j # p => j \in 3 .. p - 1 \/ j \in p + 1 .. q - 1
    BY <1>0, <1>3
  <2>4. \A j \in 3 .. k - 1 : j # p => data[j] # 0
    BY <2>1, <2>3
  <2> QED BY <1>0, <2>1, <2>2, <2>4, NulsCount
<1>4. ASSUME q < k PROVE NulsBefore(data, k) >= 2
  <2>1. /\ p < L => data[p] = 0 /\ p < q
        /\ q < L => data[q] = 0
    BY DEF Strings, L
  <2>2. p \in 3 .. k - 1 /\ q \in 3 .. k - 1 /\ p < L /\ q < L
    BY <1>0, <1>4
  <2>3. p # q /\ data[p] = 0 /\ data[q] = 0
    BY <1>0, <2>1, <2>2
  <2> QED BY <1>0, <2>2, <2>3, NulsCount
<1> QED BY <1>1, <1>2, <1>3, <1>4

\* What a tuple's two names are, by their places.
LEMMA StringsNamed ==
    ASSUME NEW data, NEW p, NEW q, Strings(data, p, q)
    PROVE  /\ {k \in Place(data, 1) : data[k] \in 32 .. 126} = {k \in 3 .. p : data[k] \in 32 .. 126}
           /\ {k \in Place(data, 2) : data[k] \in 32 .. 126} = {k \in p + 1 .. q : data[k] \in 32 .. 126}
           /\ Named(data) = q
<1> DEFINE L == Len(data)
<1>0. L \in Nat /\ p \in Nat /\ q \in Nat /\ 3 <= p /\ p <= q /\ q <= L
  <2>1. data \in Seq(Octet) /\ p \in 3 .. L /\ q \in p .. L
    BY DEF Strings
  <2>2. L \in Nat
    BY <2>1, LenProperties
  <2> HIDE DEF L
  <2> QED BY <2>1, <2>2
<1>1. \A k \in 1 .. L : /\ k <= p => NulsBefore(data, k) = 0
                        /\ p < k /\ k <= q => NulsBefore(data, k) = 1
                        /\ q < k => NulsBefore(data, k) >= 2
                        /\ NulsBefore(data, k) \in Nat
  BY StringsSplit
<1>2. /\ Place(data, 1) = {k \in 3 .. L : data[k] # 0 /\ NulsBefore(data, k) = 0}
      /\ Place(data, 2) = {k \in 3 .. L : data[k] # 0 /\ NulsBefore(data, k) = 1}
      /\ Named(data) = Cardinality({k \in 1 .. L : NulsBefore(data, k) < 2})
  BY DEF Place, Named
<1> HIDE DEF L
<1>3. /\ \A k \in 3 .. L : NulsBefore(data, k) = 0 <=> k \in 3 .. p
      /\ \A k \in 3 .. L : NulsBefore(data, k) = 1 <=> k \in p + 1 .. q
      /\ \A k \in 1 .. L : NulsBefore(data, k) < 2 <=> k \in 1 .. q
  BY <1>0, <1>1
<1>4. 3 .. p \subseteq 3 .. L /\ p + 1 .. q \subseteq 3 .. L /\ 1 .. q \subseteq 1 .. L
  BY <1>0
<1>5. \A k \in Nat : data[k] \in 32 .. 126 => data[k] # 0
  OBVIOUS
<1>6. {k \in Place(data, 1) : data[k] \in 32 .. 126} = {k \in 3 .. p : data[k] \in 32 .. 126}
  BY <1>2, <1>3, <1>4, <1>5
<1>7. {k \in Place(data, 2) : data[k] \in 32 .. 126} = {k \in p + 1 .. q : data[k] \in 32 .. 126}
  BY <1>2, <1>3, <1>4, <1>5
<1>8. {k \in 1 .. L : NulsBefore(data, k) < 2} = 1 .. q
  BY <1>3, <1>4
<1>9. Cardinality(1 .. q) = q
  <2>1. 1 \in Int /\ q \in Int /\ Cardinality(1 .. q) = IF 1 > q THEN 0 ELSE q - 1 + 1
    BY <1>0, FS_Interval
  <2> QED BY <1>0, <2>1
<1> QED BY <1>2, <1>6, <1>7, <1>8, <1>9

\* A text that lists a name's places is the name.
LEMMA ListsName ==
    ASSUME NEW text, NEW data, NEW n, NEW max,
           Lists(text, data, {k \in Place(data, n) : data[k] \in 32 .. 126}, max)
    PROVE  text = Name(data, n, max)
<1> DEFINE own == {k \in Place(data, n) : data[k] \in 32 .. 126}
<1>1. Name(data, n, max) =
         [j \in 1 .. IF Cardinality(own) < max THEN Cardinality(own) ELSE max |->
             Presented(data[CHOOSE k \in own : Cardinality({m \in own : m <= k}) = j])]
  BY Zenon DEF Name
<1> HIDE DEF own
<1>2. Lists(text, data, own, max)
  BY DEF own
<1> QED BY <1>1, <1>2, ListsMeans

NamesMade(data) ==
    LET manf == copy_filtered(data, 2, ManfMax)
        prod == IF 2 + manf.used < Len(data) THEN copy_filtered(data, 2 + manf.used, ProdMax)
                ELSE [text |-> <<>>, used |-> 0]
    IN  /\ manf.text = Name(data, 1, ManfMax)
        /\ prod.text = Name(data, 2, ProdMax)
        /\ 2 + manf.used + prod.used = Named(data)
        /\ Named(data) \in 1 .. Len(data)
        /\ manf.text \in Seq(Octet) /\ prod.text \in Seq(Octet)

\* The two names taken off a tuple are its first two strings.
LEMMA NamesAre ==
    ASSUME NEW data \in Seq(Octet), Len(data) > 4
    PROVE  NamesMade(data)
<1> DEFINE L     == Len(data)
           manf  == copy_filtered(data, 2, ManfMax)
           len1  == L - 2
           nul1  == Earliest({k \in 1 .. len1 : data[2 + k] = 0})
           stop1 == IF nul1 = 0 THEN len1 ELSE nul1 - 1
           p     == 2 + manf.used
<1>0. L \in Nat /\ 4 < L /\ ManfMax \in Nat /\ ManfMax > 0 /\ ProdMax \in Nat /\ ProdMax > 0 /\ 2 \in 0 .. L
  <2>1. L \in Nat
    BY LenProperties
  <2>2. ManfMax \in Nat \ {0} /\ ProdMax \in Nat \ {0}
    BY CardAssumption
  <2> QED BY <2>1, <2>2
<1>1. /\ nul1 \in 0 .. len1 /\ manf.used = (IF nul1 = 0 THEN len1 ELSE nul1)
      /\ \A k \in 1 .. stop1 : data[2 + k] # 0
      /\ nul1 # 0 => data[2 + nul1] = 0
      /\ Lists(manf.text, data, {j \in 2 + 1 .. 2 + stop1 : data[j] \in 32 .. 126}, ManfMax)
  BY <1>0, CopyLists
<1> HIDE DEF manf, nul1
<1>2. /\ p \in 3 .. L /\ stop1 \in Nat
      /\ p = IF nul1 = 0 THEN 2 + stop1 ELSE 2 + (stop1 + 1)
      /\ nul1 = 0 => p = L
      /\ nul1 # 0 => p = 2 + nul1
  BY <1>0, <1>1
<1>3. (\A j \in 3 .. p - 1 : data[j] # 0) /\ (p < L => data[p] = 0)
  <2>1. ASSUME NEW j \in 3 .. p - 1 PROVE data[j] # 0
    <3> DEFINE k == j - 2
    <3>1. k \in 1 .. stop1 /\ 2 + k = j
      BY <1>0, <1>2
    <3> HIDE DEF k
    <3> QED BY <1>1, <3>1
  <2>2. p < L => data[p] = 0
    BY <1>0, <1>1, <1>2
  <2> QED BY <2>1, <2>2
<1>4. {j \in 3 .. p : data[j] \in 32 .. 126} = {j \in 2 + 1 .. 2 + stop1 : data[j] \in 32 .. 126}
  <2>1. CASE nul1 = 0
    BY <1>2, <2>1
  <2>2. CASE nul1 # 0
    <3>1. data[p] = 0 /\ p = 2 + (stop1 + 1)
      BY <1>1, <1>2, <2>2
    <3>2. 2 + 1 .. 2 + stop1 = (3 .. p) \ {p}
      BY <1>2, <3>1
    <3>3. data[p] \notin 32 .. 126
      BY <3>1
    <3> QED BY <3>2, <3>3
  <2> QED BY <2>1, <2>2
<1> HIDE DEF p
<1>5. ASSUME NEW q, NEW text, Strings(data, p, q),
             Lists(text, data, {j \in p + 1 .. q : data[j] \in 32 .. 126}, ProdMax)
      PROVE  /\ manf.text = Name(data, 1, ManfMax) /\ text = Name(data, 2, ProdMax)
             /\ manf.text \in Seq(Octet) /\ text \in Seq(Octet)
             /\ Named(data) = q /\ q \in 1 .. L
  <2>1. /\ {k \in Place(data, 1) : data[k] \in 32 .. 126} = {k \in 3 .. p : data[k] \in 32 .. 126}
        /\ {k \in Place(data, 2) : data[k] \in 32 .. 126} = {k \in p + 1 .. q : data[k] \in 32 .. 126}
        /\ Named(data) = q
    BY <1>5, StringsNamed
  <2>2. Lists(manf.text, data, {k \in Place(data, 1) : data[k] \in 32 .. 126}, ManfMax)
    BY <1>1, <1>4, <2>1
  <2>3. Lists(text, data, {k \in Place(data, 2) : data[k] \in 32 .. 126}, ProdMax)
    BY <1>5, <2>1
  <2>4. manf.text = Name(data, 1, ManfMax) /\ text = Name(data, 2, ProdMax)
    BY <2>2, <2>3, ListsName
  <2>5. manf.text \in Seq(Octet) /\ text \in Seq(Octet)
    BY <1>1, <1>5 DEF Lists
  <2>6. q \in p .. L
    BY <1>5 DEF Strings
  <2>7. q \in 1 .. L
    BY <1>0, <1>2, <2>6
  <2> QED BY <2>1, <2>4, <2>5, <2>7
<1>6. CASE p < L
  <2> DEFINE prod  == copy_filtered(data, p, ProdMax)
             len2  == L - p
             nul2  == Earliest({k \in 1 .. len2 : data[p + k] = 0})
             stop2 == IF nul2 = 0 THEN len2 ELSE nul2 - 1
             q     == p + prod.used
  <2>1. /\ nul2 \in 0 .. len2 /\ prod.used = (IF nul2 = 0 THEN len2 ELSE nul2)
        /\ \A k \in 1 .. stop2 : data[p + k] # 0
        /\ nul2 # 0 => data[p + nul2] = 0
        /\ Lists(prod.text, data, {j \in p + 1 .. p + stop2 : data[j] \in 32 .. 126}, ProdMax)
    <3>1. p \in 0 .. L
      BY <1>0, <1>2
    <3> QED BY <1>0, <3>1, CopyLists
  <2> HIDE DEF prod, nul2
  <2>2. /\ q \in p .. L /\ p < q /\ stop2 \in Nat
        /\ q = IF nul2 = 0 THEN p + stop2 ELSE p + (stop2 + 1)
        /\ nul2 = 0 => q = L
        /\ nul2 # 0 => q = p + nul2
    <3>1. p \in Nat /\ len2 \in Nat /\ len2 > 0 /\ p + len2 = L
      BY <1>0, <1>2, <1>6
    <3> HIDE DEF len2
    <3>2. CASE nul2 = 0
      <4>1. q = p + len2 /\ stop2 = len2
        BY <2>1, <3>2
      <4> QED BY <1>0, <3>1, <3>2, <4>1
    <3>3. CASE nul2 # 0
      <4>1. q = p + nul2 /\ stop2 = nul2 - 1 /\ nul2 \in 1 .. len2
        BY <2>1, <3>1, <3>3
      <4> HIDE DEF q, stop2
      <4> QED BY <1>0, <3>1, <3>3, <4>1
    <3> QED BY <3>2, <3>3
  <2>3. ASSUME NEW j \in p + 1 .. q - 1 PROVE data[j] # 0
    <3> DEFINE k == j - p
    <3>1. k \in 1 .. stop2 /\ p + k = j
      <4>1. j \in Int /\ p + 1 <= j /\ j <= q - 1 /\ p \in Nat /\ q <= p + (stop2 + 1) /\ q \in Int
        <5>1. p \in Nat /\ L \in Nat
          BY <1>0, <1>2
        <5> HIDE DEF q, stop2, L
        <5> QED BY <2>2, <5>1
      <4>2. nul2 = 0 => q - 1 <= p + stop2
        BY <2>2, <4>1
      <4> HIDE DEF q, stop2
      <4> QED BY <2>2, <4>1
    <3> HIDE DEF k
    <3> QED BY <2>1, <3>1
  <2>4. q < L => data[q] = 0
    BY <1>0, <2>1, <2>2
  <2>5. {j \in p + 1 .. q : data[j] \in 32 .. 126} = {j \in p + 1 .. p + stop2 : data[j] \in 32 .. 126}
    <3>1. CASE nul2 = 0
      BY <2>2, <3>1
    <3>2. CASE nul2 # 0
      <4>1. data[q] = 0 /\ q = p + (stop2 + 1)
        BY <2>1, <2>2, <3>2
      <4>2. p + 1 .. p + stop2 = (p + 1 .. q) \ {q}
        <5>1. p \in Nat /\ q \in Nat
          BY <1>0, <1>2, <2>2
        <5> HIDE DEF q, stop2
        <5> QED BY <2>2, <4>1, <5>1
      <4>3. data[q] \notin 32 .. 126
        BY <4>1
      <4> QED BY <4>2, <4>3
    <3> QED BY <3>1, <3>2
  <2> HIDE DEF q
  <2>6. Strings(data, p, q)
    BY <1>0, <1>2, <1>3, <2>2, <2>3, <2>4 DEF Strings
  <2>7. Lists(prod.text, data, {j \in p + 1 .. q : data[j] \in 32 .. 126}, ProdMax)
    BY <2>1, <2>5
  <2>8. /\ manf.text = Name(data, 1, ManfMax) /\ prod.text = Name(data, 2, ProdMax)
        /\ manf.text \in Seq(Octet) /\ prod.text \in Seq(Octet)
        /\ Named(data) = q /\ q \in 1 .. L
    BY <1>5, <2>6, <2>7
  <2> QED BY <1>6, <2>8 DEF NamesMade, manf, p, prod, q
<1>7. CASE ~ (p < L)
  <2>1. p = L
    BY <1>0, <1>2, <1>7
  <2>2. Strings(data, p, L)
    BY <1>0, <1>2, <1>3, <2>1 DEF Strings
  <2>3. Lists(<<>>, data, {j \in p + 1 .. L : data[j] \in 32 .. 126}, ProdMax)
    <3>1. {j \in p + 1 .. L : data[j] \in 32 .. 126} = {}
      BY <1>0, <2>1
    <3>2. IsFiniteSet({}) /\ Cardinality({}) = 0
      BY FS_EmptySet
    <3>3. Lists(<<>>, data, {}, ProdMax)
      BY <1>0, <3>2 DEF Lists
    <3> QED BY <3>1, <3>3
  <2>4. /\ manf.text = Name(data, 1, ManfMax) /\ <<>> = Name(data, 2, ProdMax)
        /\ manf.text \in Seq(Octet) /\ <<>> \in Seq(Octet)
        /\ Named(data) = L /\ L \in 1 .. L
    BY <1>5, <2>2, <2>3
  <2> DEFINE prod == IF p < L THEN copy_filtered(data, p, ProdMax) ELSE [text |-> <<>>, used |-> 0]
  <2>5. prod.text = <<>> /\ prod.used = 0
    BY <1>7
  <2> HIDE DEF prod
  <2>6. p + prod.used = L
    BY <1>0, <2>1, <2>5
  <2>7. NamesMade(data) <=>
           /\ manf.text = Name(data, 1, ManfMax) /\ prod.text = Name(data, 2, ProdMax)
           /\ p + prod.used = Named(data) /\ Named(data) \in 1 .. L
           /\ manf.text \in Seq(Octet) /\ prod.text \in Seq(Octet)
    BY DEF NamesMade, manf, p, prod
  <2> QED BY <2>4, <2>5, <2>6, <2>7
<1> QED BY <1>6, <1>7

\* An empty tuple has no names.
LEMMA NoNames ==
    ASSUME NEW n, NEW max \in Nat \ {0}
    PROVE  Name(<<>>, n, max) = <<>>
<1>1. {k \in Place(<<>>, n) : <<>>[k] \in 32 .. 126} = {}
  BY DEF Place
<1>2. IsFiniteSet({}) /\ Cardinality({}) = 0
  BY FS_EmptySet
<1>3. Lists(<<>>, <<>>, {}, max)
  BY <1>2 DEF Lists
<1>4. Lists(<<>>, <<>>, {k \in Place(<<>>, n) : <<>>[k] \in 32 .. 126}, max)
  BY <1>1, <1>3
<1> QED BY <1>4, ListsName

------------------------------------------------------------------------------
(* The identifier *)

\* A text cut and continued is the text continued and cut.
LEMMA CutAppend ==
    ASSUME NEW S, NEW a \in Seq(S), NEW b \in Seq(S), NEW n \in Nat
    PROVE  /\ Cut(Cut(a, n) \o b, n) = Cut(a \o b, n)
           /\ a \o b \in Seq(S) /\ Cut(a, n) \in Seq(S)
<1> DEFINE x == Cut(a, n)
<1>1. /\ a \o b \in Seq(S) /\ Len(a \o b) = Len(a) + Len(b) /\ Len(a) \in Nat /\ Len(b) \in Nat
      /\ \A j \in 1 .. Len(a) : (a \o b)[j] = a[j]
  BY ConcatProperties, LenProperties
<1>2. CASE Len(a) <= n
  <2>1. x = SubSeq(a, 1, Len(a))
    BY <1>1, <1>2 DEF Cut
  <2>2. x = a
    <3>1. SubSeq(a, 1, Len(a)) = a
      BY <1>1
    <3> QED BY <2>1, <3>1
  <2> QED BY <1>1, <2>2
<1>3. CASE n < Len(a)
  <2>1. x = SubSeq(a, 1, n)
    BY <1>1, <1>3 DEF Cut
  <2>2. \A j \in 1 .. n : j \in 1 .. Len(a)
    BY <1>1, <1>3
  <2>3. x \in Seq(S) /\ Len(x) = n /\ \A j \in 1 .. n : x[j] = a[j]
    BY <1>1, <1>3, <2>1, <2>2, SubSeqProperties
  <2> HIDE DEF x
  <2>4. /\ x \o b \in Seq(S) /\ Len(x \o b) = n + Len(b)
        /\ \A j \in 1 .. n : (x \o b)[j] = x[j]
    <3>1. /\ x \o b \in Seq(S) /\ Len(x \o b) = Len(x) + Len(b)
          /\ \A j \in 1 .. Len(x) : (x \o b)[j] = x[j]
      <4>1. /\ x \o b \in Seq(S) /\ Len(x \o b) = Len(x) + Len(b)
            /\ \A j \in 1 .. Len(x) + Len(b) : (x \o b)[j] = IF j <= Len(x) THEN x[j] ELSE b[j - Len(x)]
        BY <2>3, ConcatProperties
      <4>2. \A j \in 1 .. Len(x) : j \in 1 .. Len(x) + Len(b) /\ j <= Len(x)
        BY <1>1, <2>3
      <4> QED BY <4>1, <4>2
    <3> QED BY <2>3, <3>1
  <2> DEFINE u == x \o b
             v == a \o b
  <2>5. Cut(u, n) = SubSeq(u, 1, n) /\ Cut(v, n) = SubSeq(v, 1, n)
    <3>1. ~ (Len(u) < n) /\ ~ (Len(v) < n)
      BY <1>1, <1>3, <2>4
    <3> QED BY <3>1 DEF Cut
  <2>6. /\ u \in Seq(S) /\ v \in Seq(S) /\ n <= Len(u) /\ n <= Len(v)
        /\ \A j \in 1 .. n : u[j] = v[j]
    BY <1>1, <1>3, <2>2, <2>3, <2>4
  <2> HIDE DEF u, v
  <2>7. SubSeq(u, 1, n) = SubSeq(v, 1, n)
    <3>1. SubSeq(u, 1, n) = [j \in 1 .. n |-> u[j]] /\ SubSeq(v, 1, n) = [j \in 1 .. n |-> v[j]]
      <4>1. /\ SubSeq(u, 1, n) \in Seq(S) /\ Len(SubSeq(u, 1, n)) = n
            /\ \A j \in 1 .. n : SubSeq(u, 1, n)[j] = u[j]
        BY <2>6, SubSeqProperties
      <4>2. /\ SubSeq(v, 1, n) \in Seq(S) /\ Len(SubSeq(v, 1, n)) = n
            /\ \A j \in 1 .. n : SubSeq(v, 1, n)[j] = v[j]
        BY <2>6, SubSeqProperties
      <4> DEFINE y == SubSeq(u, 1, n)
                 z == SubSeq(v, 1, n)
      <4> HIDE DEF y, z
      <4>3. y = [j \in 1 .. n |-> u[j]]
        BY <4>1 DEF y
      <4>4. z = [j \in 1 .. n |-> v[j]]
        BY <4>2 DEF z
      <4> QED BY <4>3, <4>4 DEF y, z
    <3> QED BY <2>6, <3>1
  <2>8. Cut(u, n) = Cut(v, n)
    BY <2>5, <2>7
  <2> QED BY <1>1, <2>3, <2>8 DEF u, v, x
<1>4. Len(a) <= n \/ n < Len(a)
  BY <1>1
<1> QED BY <1>1, <1>2, <1>3, <1>4

\* A sequence that has room is not cut.
LEMMA FullCut ==
    ASSUME NEW S, NEW s \in Seq(S), NEW n \in Nat, Len(s) <= n
    PROVE  Cut(s, n) = s
<1>1. Len(s) \in Nat /\ Cut(s, n) = SubSeq(s, 1, Len(s))
  BY DEF Cut
<1>2. SubSeq(s, 1, Len(s)) = s
  OBVIOUS
<1> QED BY <1>1, <1>2

\* A sequence that has none is as long as the room.
LEMMA ShortCut ==
    ASSUME NEW S, NEW s \in Seq(S), NEW n \in Nat, n <= Len(s)
    PROVE  Cut(s, n) \in Seq(S) /\ Len(Cut(s, n)) = n
<1>1. Len(s) \in Nat /\ Cut(s, n) = SubSeq(s, 1, n)
  <2>1. Len(s) \in Nat
    OBVIOUS
  <2>2. CASE Len(s) = n
    BY <2>1, <2>2 DEF Cut
  <2>3. CASE n < Len(s)
    BY <2>1, <2>3 DEF Cut
  <2> QED BY <2>1, <2>2, <2>3
<1>2. SubSeq(s, 1, n) \in Seq(S) /\ Len(SubSeq(s, 1, n)) = n
  BY <1>1
<1> QED BY <1>1, <1>2

\* A NUL more.
LEMMA EndedLength ==
    ASSUME NEW S, NEW s \in Seq(S)
    PROVE  Len(s \o <<0>>) = Len(s) + 1
OBVIOUS

\* An identifier from its names and its figures.
Composed(manf, prod, figures) ==
    (IF manf = <<>> THEN Unknown ELSE IF prod = <<>> THEN manf ELSE manf \o Hyphen \o prod)
       \o Hyphen \o figures

\* The identifier is written cut to its buffer.
LEMMA FinishComposes ==
    ASSUME NEW b, b.manufacturer \in Seq(Octet), b.product \in Seq(Octet), NEW cap \in Nat
    PROVE  LET full == Composed(b.manufacturer, b.product, HexDigits(b.crc)) IN
           /\ pnpid_finish(b, cap) = IF cap < 8 THEN <<>> ELSE Cut(full, cap - 1) \o <<0>>
           /\ cap >= 8 => \E S : full \in Seq(S)
<1>0. cap < 8 => pnpid_finish(b, cap) = <<>>
  BY DEF pnpid_finish
<1> SUFFICES ASSUME ~ (cap < 8)
             PROVE  LET full == Composed(b.manufacturer, b.product, HexDigits(b.crc)) IN
                    /\ pnpid_finish(b, cap) = Cut(full, cap - 1) \o <<0>>
                    /\ \E S : full \in Seq(S)
  BY <1>0
<1> DEFINE n == cap - 1
           m == b.manufacturer
           p == b.product
           d == HexDigits(b.crc)
           S == Octet \cup {d[k] : k \in 1 .. 4}
           name == IF m = <<>> THEN append(<<>>, cap, Unknown)
                   ELSE IF p = <<>> THEN append(<<>>, cap, m)
                   ELSE append(append(append(<<>>, cap, m), cap, Hyphen), cap, p)
           whole == IF m = <<>> THEN Unknown ELSE IF p = <<>> THEN m ELSE m \o Hyphen \o p
<1>1. n \in Nat
  OBVIOUS
<1>2. m \in Seq(S) /\ p \in Seq(S) /\ d \in Seq(S) /\ Hyphen \in Seq(S) /\ Unknown \in Seq(S) /\ <<>> \in Seq(S)
  <2>1. Hyphen \in Seq(Octet) /\ Unknown \in Seq(Octet)
    BY DEF Hyphen, Unknown, Octet
  <2>2. d = [k \in 1 .. 4 |-> d[k]]
    BY DEF HexDigits
  <2> HIDE DEF d
  <2>3. d \in [1 .. 4 -> S]
    <3>1. \A k \in 1 .. 4 : d[k] \in S
      OBVIOUS
    <3> HIDE DEF S
    <3> QED BY <2>2, <3>1
  <2>4. Octet \subseteq S
    OBVIOUS
  <2> HIDE DEF S
  <2>5. d \in Seq(S)
    <3>1. Seq(S) = UNION {[1 .. k -> S] : k \in Nat}
      BY SeqDef
    <3>2. [1 .. 4 -> S] \in {[1 .. k -> S] : k \in Nat}
      <4>1. 4 \in Nat
        OBVIOUS
      <4> QED BY <4>1
    <3> QED BY <2>3, <3>1, <3>2
  <2> HIDE DEF m, p
  <2>6. m \in Seq(Octet) /\ p \in Seq(Octet)
    BY DEF m, p
  <2>7. \A s \in Seq(Octet) : s \in Seq(S)
    <3> HIDE DEF Octet
    <3> QED BY <2>4
  <2> QED BY <2>1, <2>5, <2>6, <2>7
<1>3. pnpid_finish(b, cap) = append(append(name, cap, Hyphen), cap, d) \o <<0>>
  BY DEF pnpid_finish
<1> HIDE DEF S, d, m, p
<1>4. \A x \in Seq(S) : append(<<>>, cap, x) = Cut(x, n)
  <2> SUFFICES ASSUME NEW x \in Seq(S) PROVE <<>> \o x = x
    BY DEF append
  <2> QED OBVIOUS
<1>5. ASSUME NEW x \in Seq(S), NEW y \in Seq(S)
      PROVE  append(Cut(x, n), cap, y) = Cut(x \o y, n) /\ x \o y \in Seq(S)
  BY <1>1, CutAppend DEF append
<1> HIDE DEF n
<1>6. name = Cut(whole, n) /\ whole \in Seq(S)
  <2>1. CASE m = <<>>
    BY <1>2, <1>4, <2>1
  <2>2. CASE m # <<>> /\ p = <<>>
    BY <1>2, <1>4, <2>2
  <2>3. CASE m # <<>> /\ p # <<>>
    <3>1. append(<<>>, cap, m) = Cut(m, n)
      BY <1>2, <1>4
    <3>2. append(Cut(m, n), cap, Hyphen) = Cut(m \o Hyphen, n) /\ m \o Hyphen \in Seq(S)
      BY <1>2, <1>5
    <3>3. /\ append(Cut(m \o Hyphen, n), cap, p) = Cut((m \o Hyphen) \o p, n)
          /\ (m \o Hyphen) \o p \in Seq(S)
      BY <1>2, <1>5, <3>2
    <3> QED BY <2>3, <3>1, <3>2, <3>3
  <2> QED BY <2>1, <2>2, <2>3
<1> HIDE DEF name, whole
<1>7. append(name, cap, Hyphen) = Cut(whole \o Hyphen, n) /\ whole \o Hyphen \in Seq(S)
  BY <1>2, <1>5, <1>6
<1>8. /\ append(Cut(whole \o Hyphen, n), cap, d) = Cut((whole \o Hyphen) \o d, n)
      /\ (whole \o Hyphen) \o d \in Seq(S)
  BY <1>2, <1>5, <1>7
<1>9. Composed(m, p, d) = (whole \o Hyphen) \o d
  BY DEF Composed, whole
<1>10. append(append(name, cap, Hyphen), cap, d) = Cut(Composed(m, p, d), n)
  BY <1>7, <1>8, <1>9
<1>11. \E T : Composed(m, p, d) \in Seq(T)
  BY <1>8, <1>9
<1> QED BY <1>3, <1>10, <1>11 DEF n, m, p, d

Builder == [crc : Crc, manufacturer : Seq(Octet), product : Seq(Octet), have_vers1 : BOOLEAN]

\* A tuple that may name the card.
Naming(t) == t.code = CISTPL_VERS_1 /\ Len(t.data) > 4

\* What of a tuple goes into the CRC.
Taken(b, t) ==
    IF Naming(t) /\ ~b.have_vers1 THEN SubSeq(t.data, 1, Named(t.data))
    ELSE IF t.code \in WholeInCrc \/ (t.code = CISTPL_VERS_1 /\ b.have_vers1) THEN t.data ELSE <<>>

\* What one tuple does to the identifier.
Added(b, t, c) ==
    /\ c \in Builder
    /\ c.crc = SerialCrcs(b.crc, Taken(b, t))
    /\ c.have_vers1 = (b.have_vers1 \/ Naming(t))
    /\ c.manufacturer = IF Naming(t) /\ ~b.have_vers1 THEN Name(t.data, 1, ManfMax) ELSE b.manufacturer
    /\ c.product = IF Naming(t) /\ ~b.have_vers1 THEN Name(t.data, 2, ProdMax) ELSE b.product

\* pnpid_add_tuple does what a tuple should.
LEMMA AddTuple ==
    ASSUME NEW b \in Builder, NEW t \in Tuple
    PROVE  Added(b, t, pnpid_add_tuple(b, t))
<1> DEFINE d == t.data
           c == pnpid_add_tuple(b, t)
<1>0. /\ d \in Seq(Octet) /\ b.crc \in Crc /\ b.have_vers1 \in BOOLEAN
      /\ b.manufacturer \in Seq(Octet) /\ b.product \in Seq(Octet)
  BY DEF Tuple, Builder
<1>1. CASE Naming(t) /\ ~b.have_vers1
  <2> DEFINE manf == copy_filtered(d, 2, ManfMax)
             prod == IF 2 + manf.used < Len(d) THEN copy_filtered(d, 2 + manf.used, ProdMax)
                     ELSE [text |-> <<>>, used |-> 0]
             part == SubSeq(d, 1, 2 + manf.used + prod.used)
  <2>1. NamesMade(d)
    BY <1>0, <1>1, NamesAre DEF Naming
  <2>2. /\ manf.text = Name(d, 1, ManfMax) /\ prod.text = Name(d, 2, ProdMax)
        /\ 2 + manf.used + prod.used = Named(d) /\ Named(d) \in 1 .. Len(d)
        /\ manf.text \in Seq(Octet) /\ prod.text \in Seq(Octet)
    BY <2>1 DEF NamesMade
  <2>3. c = add_vers1(b, d)
    BY <1>1 DEF pnpid_add_tuple, Naming
  <2>4. add_vers1(b, d) = [crc |-> pnpid_crc16(b.crc, part), manufacturer |-> manf.text,
                           product |-> prod.text, have_vers1 |-> TRUE]
    <3>1. ~ (Len(d) <= 4)
      <4>1. Len(d) \in Nat /\ Len(d) > 4
        BY <1>0, <1>1, LenProperties DEF Naming
      <4> QED BY <4>1
    <3> QED BY <3>1 DEF add_vers1
  <2>5. part = SubSeq(d, 1, Named(d))
    BY <2>2
  <2>6. part \in Seq(Octet)
    <3>1. Named(d) \in Nat /\ Len(d) \in Nat /\ \A k \in 1 .. Named(d) : k \in 1 .. Len(d)
      BY <1>0, <2>2, LenProperties
    <3> HIDE DEF d, part, Octet
    <3> QED BY <1>0, <2>5, <3>1, SubSeqProperties
  <2>7. pnpid_crc16(b.crc, part) = SerialCrcs(b.crc, part) /\ pnpid_crc16(b.crc, part) \in Crc
    BY <1>0, <2>6, CrcExact
  <2> HIDE DEF c, manf, prod, part
  <2>8. c = [crc |-> pnpid_crc16(b.crc, part), manufacturer |-> manf.text,
             product |-> prod.text, have_vers1 |-> TRUE]
    BY <2>3, <2>4
  <2>9. /\ c \in Builder /\ c.crc = SerialCrcs(b.crc, part) /\ c.have_vers1 = TRUE
        /\ c.manufacturer = manf.text /\ c.product = prod.text
    BY <2>2, <2>7, <2>8 DEF Builder
  <2>10. Taken(b, t) = part
    BY <1>1, <2>5 DEF Taken
  <2> QED BY <1>1, <2>2, <2>9, <2>10 DEF Added, c
<1>2. CASE ~ (Naming(t) /\ ~b.have_vers1)
  <2> DEFINE whole == t.code \in WholeInCrc \/ (t.code = CISTPL_VERS_1 /\ b.have_vers1)
  <2>1. CASE whole
    <3>1. ~ (t.code = CISTPL_VERS_1 /\ ~b.have_vers1)
      BY <2>1 DEF WholeInCrc, CISTPL_VERS_1, CISTPL_DEVICE, CISTPL_CONFIG, CISTPL_CFTABLE_ENTRY, CISTPL_MANFID
    <3>2. c = [b EXCEPT !.crc = pnpid_crc16(@, d)]
      BY <2>1, <3>1 DEF pnpid_add_tuple
    <3>3. Taken(b, t) = d
      BY <1>2, <2>1 DEF Taken
    <3>4. pnpid_crc16(b.crc, d) = SerialCrcs(b.crc, d) /\ pnpid_crc16(b.crc, d) \in Crc
      BY <1>0, CrcExact
    <3> HIDE DEF c, d
    <3>5. /\ c \in Builder /\ c.crc = SerialCrcs(b.crc, d) /\ c.have_vers1 = b.have_vers1
          /\ c.manufacturer = b.manufacturer /\ c.product = b.product
      BY <3>2, <3>4 DEF Builder
    <3>6. b.have_vers1 = (b.have_vers1 \/ Naming(t))
      BY <1>0, <1>2
    <3> QED BY <1>2, <3>3, <3>5, <3>6 DEF Added, c
  <2>2. CASE ~whole
    <3>1. c = b
      <4>1. CASE t.code = CISTPL_VERS_1 /\ ~b.have_vers1
        <5>1. c = add_vers1(b, d)
          BY <4>1 DEF pnpid_add_tuple
        <5>2. Len(d) <= 4
          <6>1. Len(d) \in Nat /\ ~ (Len(d) > 4)
            BY <1>0, <1>2, <4>1, LenProperties DEF Naming
          <6> QED BY <6>1
        <5> QED BY <5>1, <5>2 DEF add_vers1
      <4>2. CASE ~ (t.code = CISTPL_VERS_1 /\ ~b.have_vers1)
        <5>1. t.code \notin WholeInCrc \cup {CISTPL_VERS_1}
          <6>1. t.code \notin WholeInCrc /\ t.code # CISTPL_VERS_1
            BY <1>0, <2>2, <4>2
          <6> QED BY <6>1
        <5> QED BY <4>2, <5>1 DEF pnpid_add_tuple
      <4> QED BY <4>1, <4>2
    <3>2. Taken(b, t) = <<>>
      BY <1>2, <2>2 DEF Taken
    <3>3. SerialCrcs(b.crc, <<>>) = b.crc
      BY <1>0, CrcShort
    <3>4. b.have_vers1 = (b.have_vers1 \/ Naming(t))
      BY <1>0, <1>2
    <3> HIDE DEF c
    <3> QED BY <1>2, <3>1, <3>2, <3>3, <3>4 DEF Added, c
  <2> QED BY <2>1, <2>2
<1> QED BY <1>1, <1>2

\* The states of the identifier along the walk.
BuiltOf(B, seen, n) ==
    /\ n \in Nat /\ seen \in Seq(Tuple) /\ n = Len(seen)
    /\ B \in [0 .. n -> Builder] /\ B[0] = pnpid_begin
    /\ \A k \in 1 .. n : B[k] = pnpid_add_tuple(B[k - 1], seen[k])

\* The identifier is finished from the last of these states.
LEMMA IdentifierRuns ==
    ASSUME NEW cis \in Seq(Tuple), NEW cap
    PROVE  \E B : /\ BuiltOf(B, Walked(cis), Len(Walked(cis)))
                  /\ identifier(cis, cap) = pnpid_finish(B[Len(Walked(cis))], cap)
<1> DEFINE seen == Walked(cis)
           n == Len(seen)
           F(h) == [k \in 0 .. n |-> IF k = 0 THEN pnpid_begin ELSE pnpid_add_tuple(h[k - 1], seen[k])]
           step == [p \in (1 .. n) \X Builder |-> pnpid_add_tuple(p[2], seen[p[1]])]
           P == CHOOSE h : h = F(h)
<1>0. seen \in Seq(Tuple) /\ n \in Nat /\ \A k \in 1 .. n : seen[k] \in Tuple
  <2>1. seen \in Seq(Tuple)
    BY WalkedType
  <2> HIDE DEF seen
  <2> QED BY <2>1
<1>1. identifier(cis, cap) = pnpid_finish(P[n], cap)
  BY DEF identifier
<1> HIDE DEF n, seen
<1>2. pnpid_begin \in Builder
  <2>1. <<>> \in Seq(Octet) /\ {} \in Crc
    BY DEF Crc
  <2> QED BY <2>1 DEF pnpid_begin, Builder
<1>3. step \in [(1 .. n) \X Builder -> Builder]
  <2>1. \A b \in Builder : \A t \in Tuple : pnpid_add_tuple(b, t) \in Builder
    BY AddTuple DEF Added
  <2> QED BY <1>0, <2>1
<1>4. PICK g : Built(g, n, Builder, pnpid_begin, step)
  <2> HIDE DEF step
  <2> QED BY <1>0, <1>2, <1>3, Recursion
<1>5. /\ g \in [0 .. n -> Builder] /\ g[0] = pnpid_begin
      /\ \A k \in 1 .. n : g[k] = pnpid_add_tuple(g[k - 1], seen[k])
  <2>1. g \in [0 .. n -> Builder] /\ g[0] = pnpid_begin /\ \A k \in 1 .. n : g[k] = step[<<k, g[k - 1]>>]
    BY <1>4 DEF Built
  <2>2. ASSUME NEW k \in 1 .. n PROVE g[k] = pnpid_add_tuple(g[k - 1], seen[k])
    <3>1. k - 1 \in 0 .. n
      BY <1>0
    <3>2. g[k - 1] \in Builder
      BY <2>1, <3>1
    <3>3. step[<<k, g[k - 1]>>] = pnpid_add_tuple(g[k - 1], seen[k])
      BY <3>2
    <3> QED BY <2>1, <3>3
  <2> QED BY <2>1, <2>2
<1> HIDE DEF step
<1>6. P = F(P)
  <2>1. ASSUME NEW k \in 0 .. n
        PROVE  g[k] = IF k = 0 THEN pnpid_begin ELSE pnpid_add_tuple(g[k - 1], seen[k])
    BY <1>0, <1>5
  <2>2. g = F(g)
    BY <1>5, <2>1
  <2> HIDE DEF F
  <2> QED BY <2>2
<1> HIDE DEF P
<1>7. P[0] = pnpid_begin /\ \A k \in 1 .. n : P[k] = pnpid_add_tuple(P[k - 1], seen[k])
  <2>1. P[0] = pnpid_begin
    BY <1>0, <1>6
  <2>2. ASSUME NEW k \in 1 .. n PROVE P[k] = pnpid_add_tuple(P[k - 1], seen[k])
    <3>1. k \in 0 .. n /\ k # 0
      BY <1>0
    <3> QED BY <1>6, <3>1
  <2> QED BY <2>1, <2>2
<1> DEFINE T == {k \in 0 .. n : P[k] = g[k]}
<1>8. 0 \in T
  BY <1>0, <1>5, <1>7
<1>9. ASSUME NEW k \in 1 .. n, k - 1 \in T PROVE k \in T
  <2>1. P[k - 1] = g[k - 1] /\ k \in 0 .. n
    BY <1>0, <1>9
  <2> QED BY <1>5, <1>7, <2>1
<1>10. \A k \in 0 .. n : k \in T
  <2> HIDE DEF T
  <2> QED BY <1>0, <1>8, <1>9, CountTo
<1>11. identifier(cis, cap) = pnpid_finish(g[n], cap)
  <2>1. n \in 0 .. n
    BY <1>0
  <2> QED BY <1>1, <1>10, <2>1
<1>12. BuiltOf(g, seen, n)
  BY <1>0, <1>5 DEF BuiltOf, n
<1> QED BY <1>11, <1>12 DEF n, seen

\* The first tuple that names the card has been seen.
Behind(first, k) == first # 0 /\ first <= k

\* After k tuples the identifier has the first names seen.
LEMMA NamesFirst ==
    ASSUME NEW B, NEW seen, NEW n, BuiltOf(B, seen, n)
    PROVE  LET first == Earliest({k \in 1 .. n : Naming(seen[k])})
               names == IF first = 0 THEN <<>> ELSE seen[first].data
           IN  \A k \in 0 .. n :
                  /\ B[k].have_vers1 = Behind(first, k)
                  /\ B[k].manufacturer = IF Behind(first, k) THEN Name(names, 1, ManfMax) ELSE <<>>
                  /\ B[k].product = IF Behind(first, k) THEN Name(names, 2, ProdMax) ELSE <<>>
<1> DEFINE S == {k \in 1 .. n : Naming(seen[k])}
           first == Earliest(S)
           names == IF first = 0 THEN <<>> ELSE seen[first].data
           m == Name(names, 1, ManfMax)
           p == Name(names, 2, ProdMax)
           T == {k \in 0 .. n : /\ B[k].have_vers1 = Behind(first, k)
                                /\ B[k].manufacturer = IF Behind(first, k) THEN m ELSE <<>>
                                /\ B[k].product = IF Behind(first, k) THEN p ELSE <<>>}
<1>0. n \in Nat /\ \A k \in 1 .. n : seen[k] \in Tuple
  BY DEF BuiltOf
<1>1. /\ first \in 0 .. n /\ (first # 0 => Naming(seen[first]))
      /\ \A k \in 1 .. n : Naming(seen[k]) => first # 0 /\ first <= k
  <2>1. S \in SUBSET (Nat \ {0}) /\ \A k : k \in S <=> k \in 1 .. n /\ Naming(seen[k])
    BY <1>0
  <2> HIDE DEF S
  <2> QED BY <1>0, <2>1, EarliestFacts
<1> HIDE DEF S, first
<1>2. 0 \in T
  <2>1. ~Behind(first, 0)
    BY <1>1 DEF Behind
  <2>2. B[0].have_vers1 = FALSE /\ B[0].manufacturer = <<>> /\ B[0].product = <<>>
    BY DEF BuiltOf, pnpid_begin
  <2>3. Behind(first, 0) = FALSE
    BY <2>1 DEF Behind
  <2>4. B[0].have_vers1 = Behind(first, 0)
    BY <2>2, <2>3
  <2>5. 0 \in 0 .. n
    BY <1>0
  <2> HIDE DEF m, p
  <2> QED BY <2>1, <2>2, <2>4, <2>5
<1>3. ASSUME NEW k \in 1 .. n, k - 1 \in T PROVE k \in T
  <2> DEFINE t == seen[k]
             b == B[k - 1]
             c == B[k]
  <2>1. /\ k - 1 \in 0 .. n /\ k \in 0 .. n /\ b \in Builder /\ c = pnpid_add_tuple(b, t) /\ t \in Tuple
    BY <1>0 DEF BuiltOf
  <2>2. Added(b, t, c)
    BY <2>1, AddTuple
  <2>3. /\ b.have_vers1 = Behind(first, k - 1)
        /\ b.manufacturer = IF Behind(first, k - 1) THEN m ELSE <<>>
        /\ b.product = IF Behind(first, k - 1) THEN p ELSE <<>>
    BY <1>3
  <2>4. /\ Behind(first, k) <=> Behind(first, k - 1) \/ Naming(t)
        /\ Naming(t) /\ ~Behind(first, k - 1) => first = k
    <3>1. Naming(t) => first # 0 /\ first <= k
      BY <1>1
    <3>2. first # 0 /\ first = k => Naming(t)
      BY <1>1
    <3> HIDE DEF t
    <3> QED BY <1>0, <1>1, <3>1, <3>2 DEF Behind
  <2>5. Naming(t) /\ ~Behind(first, k - 1) => names = t.data
    BY <1>0, <2>4
  <2> HIDE DEF b, c, t, names
  <2>6. /\ c.have_vers1 = (b.have_vers1 \/ Naming(t))
        /\ c.manufacturer = IF Naming(t) /\ ~b.have_vers1 THEN Name(t.data, 1, ManfMax) ELSE b.manufacturer
        /\ c.product = IF Naming(t) /\ ~b.have_vers1 THEN Name(t.data, 2, ProdMax) ELSE b.product
    BY <2>2 DEF Added
  <2>7. c.have_vers1 = Behind(first, k)
    <3>1. (Behind(first, k - 1) \/ Naming(t)) = Behind(first, k)
      <4>1. Behind(first, k) \in BOOLEAN
        BY DEF Behind
      <4> QED BY <2>4, <4>1
    <3> QED BY <2>3, <2>6, <3>1
  <2>8. /\ c.manufacturer = IF Behind(first, k) THEN m ELSE <<>>
        /\ c.product = IF Behind(first, k) THEN p ELSE <<>>
    <3>1. CASE Naming(t) /\ ~Behind(first, k - 1)
      BY <2>3, <2>4, <2>5, <2>6, <3>1
    <3>2. CASE ~ (Naming(t) /\ ~Behind(first, k - 1))
      BY <2>3, <2>4, <2>6, <3>2
    <3> QED BY <3>1, <3>2
  <2> QED BY <2>1, <2>7, <2>8 DEF c
<1>4. \A k \in 0 .. n : k \in T
  <2> HIDE DEF T
  <2> QED BY <1>0, <1>2, <1>3, CountTo
<1> QED BY <1>4 DEF first, S

\* What of the k-th tuple goes into the CRC, told from the whole walk.
CoveredOf(seen, k) ==
    LET first == Earliest({j \in 1 .. Len(seen) : Naming(seen[j])})
        names == IF first = 0 THEN <<>> ELSE seen[first].data
    IN  IF k = first THEN SubSeq(names, 1, Named(names))
        ELSE IF \/ seen[k].code \in WholeInCrc
                \/ seen[k].code = CISTPL_VERS_1 /\ first # 0 /\ first < k THEN seen[k].data
        ELSE <<>>

\* The CRC takes of each tuple what it should.
LEMMA TakenIsCovered ==
    ASSUME NEW B, NEW seen, NEW n, BuiltOf(B, seen, n), NEW k \in 1 .. n
    PROVE  Taken(B[k - 1], seen[k]) = CoveredOf(seen, k)
<1> DEFINE S == {j \in 1 .. n : Naming(seen[j])}
           first == Earliest(S)
           names == IF first = 0 THEN <<>> ELSE seen[first].data
           t == seen[k]
           b == B[k - 1]
<1>0. n \in Nat /\ n = Len(seen) /\ k - 1 \in 0 .. n
  BY DEF BuiltOf
<1>1. /\ first \in 0 .. n /\ (first # 0 => Naming(seen[first]))
      /\ \A j \in 1 .. n : Naming(seen[j]) => first # 0 /\ first <= j
  <2>1. S \in SUBSET (Nat \ {0}) /\ \A j : j \in S <=> j \in 1 .. n /\ Naming(seen[j])
    BY <1>0
  <2> HIDE DEF S
  <2> QED BY <1>0, <2>1, EarliestFacts
<1>2. b.have_vers1 = Behind(first, k - 1)
  BY <1>0, NamesFirst
<1>3. CoveredOf(seen, k) =
         IF k = first THEN SubSeq(names, 1, Named(names))
         ELSE IF \/ t.code \in WholeInCrc
                 \/ t.code = CISTPL_VERS_1 /\ first # 0 /\ first < k THEN t.data
         ELSE <<>>
  BY <1>0 DEF CoveredOf
<1> HIDE DEF S, first
<1>4. /\ k = first => Naming(t) /\ ~Behind(first, k - 1)
      /\ Naming(t) /\ ~Behind(first, k - 1) => k = first
      /\ Behind(first, k - 1) <=> first # 0 /\ first < k
  <2>1. Naming(t) => first # 0 /\ first <= k
    BY <1>1
  <2>2. k = first => Naming(t)
    BY <1>0, <1>1
  <2> HIDE DEF t
  <2> QED BY <1>0, <1>1, <2>1, <2>2 DEF Behind
<1>5. k = first => names = t.data
  BY <1>0
<1> HIDE DEF b, t, names
<1>6. CASE k = first
  <2>1. Taken(b, t) = SubSeq(t.data, 1, Named(t.data))
    BY <1>2, <1>4, <1>6 DEF Taken
  <2>2. CoveredOf(seen, k) = SubSeq(names, 1, Named(names))
    BY <1>3, <1>6
  <2> QED BY <1>5, <1>6, <2>1, <2>2 DEF b, t
<1>7. CASE k # first
  <2>1. ~ (Naming(t) /\ ~b.have_vers1)
    BY <1>2, <1>4, <1>7
  <2>2. Taken(b, t) = IF t.code \in WholeInCrc \/ (t.code = CISTPL_VERS_1 /\ b.have_vers1)
                      THEN t.data ELSE <<>>
    BY <2>1 DEF Taken
  <2>3. b.have_vers1 <=> first # 0 /\ first < k
    BY <1>2, <1>4
  <2>4. Taken(b, t) = CoveredOf(seen, k)
    BY <1>3, <1>7, <2>2, <2>3
  <2> QED BY <2>4 DEF b, t
<1> QED BY <1>6, <1>7

\* The running CRC of the tuples seen.
CrcsOf(seen) ==
    LET C[k \in 0 .. Len(seen)] == IF k = 0 THEN {} ELSE SerialCrcs(C[k - 1], CoveredOf(seen, k)) IN C

\* The CRC of the identifier is the running one of what is covered.
LEMMA CrcFollows ==
    ASSUME NEW B, NEW seen, NEW n, BuiltOf(B, seen, n)
    PROVE  CrcsOf(seen)[n] = B[n].crc
<1> DEFINE F(h) == [k \in 0 .. n |-> IF k = 0 THEN {} ELSE SerialCrcs(h[k - 1], CoveredOf(seen, k))]
           g == [k \in 0 .. n |-> B[k].crc]
           P == CHOOSE h : h = F(h)
<1>0. n \in Nat /\ n = Len(seen) /\ \A k \in 1 .. n : seen[k] \in Tuple
  BY DEF BuiltOf
<1>1. CrcsOf(seen) = P
  BY <1>0 DEF CrcsOf
<1>2. B[0].crc = {}
  BY DEF BuiltOf, pnpid_begin
<1>3. ASSUME NEW k \in 1 .. n
      PROVE  k - 1 \in 0 .. n /\ k \in 0 .. n /\ B[k].crc = SerialCrcs(B[k - 1].crc, CoveredOf(seen, k))
  <2>1. k - 1 \in 0 .. n /\ k \in 0 .. n /\ B[k - 1] \in Builder /\ B[k] = pnpid_add_tuple(B[k - 1], seen[k])
    BY <1>0 DEF BuiltOf
  <2>2. Added(B[k - 1], seen[k], B[k])
    BY <1>0, <2>1, AddTuple
  <2>3. Taken(B[k - 1], seen[k]) = CoveredOf(seen, k)
    BY TakenIsCovered
  <2> QED BY <2>1, <2>2, <2>3 DEF Added
<1>4. P = F(P)
  <2>1. ASSUME NEW k \in 0 .. n
        PROVE  g[k] = IF k = 0 THEN {} ELSE SerialCrcs(g[k - 1], CoveredOf(seen, k))
    <3>1. CASE k = 0
      BY <1>2, <3>1
    <3>2. CASE k # 0
      <4>1. k \in 1 .. n
        BY <1>0, <3>2
      <4>2. g[k] = B[k].crc /\ g[k - 1] = B[k - 1].crc
        BY <1>3, <4>1
      <4> HIDE DEF g
      <4> QED BY <1>3, <3>2, <4>1, <4>2
    <3> QED BY <3>1, <3>2
  <2>2. g = [k \in 0 .. n |-> g[k]]
    OBVIOUS
  <2>3. g = F(g)
    <3> HIDE DEF g
    <3> QED BY <2>1, <2>2
  <2> HIDE DEF F, g
  <2> QED BY <2>3
<1> HIDE DEF P
<1> DEFINE T == {k \in 0 .. n : P[k] = B[k].crc}
<1>5. 0 \in T
  <2>1. 0 \in 0 .. n
    BY <1>0
  <2> QED BY <1>2, <1>4, <2>1
<1>6. ASSUME NEW k \in 1 .. n, k - 1 \in T PROVE k \in T
  <2>1. P[k - 1] = B[k - 1].crc /\ k # 0
    BY <1>0, <1>6
  <2>2. P[k] = SerialCrcs(P[k - 1], CoveredOf(seen, k))
    BY <1>3, <1>4, <2>1
  <2> QED BY <1>3, <2>1, <2>2
<1>7. \A k \in 0 .. n : k \in T
  <2> HIDE DEF T
  <2> QED BY <1>0, <1>5, <1>6, CountTo
<1>8. n \in T
  <2> HIDE DEF T
  <2> QED BY <1>0, <1>7
<1> QED BY <1>1, <1>8

\* The identifier is the one of the tuples seen.
LEMMA IdentifierExact ==
    ASSUME NEW cis \in Seq(Tuple), NEW cap \in Nat
    PROVE  LET full == IdentifierOf(Walked(cis)) IN
           /\ identifier(cis, cap) = IF cap < 8 THEN <<>> ELSE Cut(full, cap - 1) \o <<0>>
           /\ cap >= 8 => \E S : full \in Seq(S)
<1> DEFINE seen == Walked(cis)
           n == Len(seen)
           Namers == {k \in 1 .. n : Naming(seen[k])}
           first == Earliest(Namers)
           names == IF first = 0 THEN <<>> ELSE seen[first].data
           manf == Name(names, 1, ManfMax)
           prod == Name(names, 2, ProdMax)
<1>1. PICK B : BuiltOf(B, seen, n) /\ identifier(cis, cap) = pnpid_finish(B[n], cap)
  BY IdentifierRuns
<1> HIDE DEF seen
<1>2. n \in Nat /\ n \in 0 .. n /\ B[n] \in Builder
  <2>1. n \in Nat /\ B \in [0 .. n -> Builder]
    BY <1>1 DEF BuiltOf
  <2> HIDE DEF n
  <2> QED BY <2>1
<1>3. IdentifierOf(seen) = Composed(manf, prod, HexDigits(CrcsOf(seen)[n]))
  BY Zenon DEF IdentifierOf, Composed, CrcsOf, CoveredOf, Naming
<1>4. CrcsOf(seen)[n] = B[n].crc
  <2> HIDE DEF n
  <2> QED BY <1>1, CrcFollows
<1>5. /\ B[n].manufacturer = IF Behind(first, n) THEN manf ELSE <<>>
      /\ B[n].product = IF Behind(first, n) THEN prod ELSE <<>>
  <2> HIDE DEF n
  <2> QED BY <1>1, <1>2, NamesFirst
<1>6. /\ first \in 0 .. n
  <2>1. Namers \in SUBSET (Nat \ {0}) /\ \A j : j \in Namers <=> j \in 1 .. n /\ Naming(seen[j])
    BY <1>2
  <2> HIDE DEF Namers
  <2> QED BY <1>2, <2>1, EarliestFacts
<1> HIDE DEF n, Namers, first
<1>7. ~Behind(first, n) => manf = <<>> /\ prod = <<>>
  <2>1. ManfMax \in Nat \ {0} /\ ProdMax \in Nat \ {0}
    BY CardAssumption
  <2>2. ~Behind(first, n) => names = <<>>
    BY <1>2, <1>6 DEF Behind
  <2>3. Name(<<>>, 1, ManfMax) = <<>> /\ Name(<<>>, 2, ProdMax) = <<>>
    BY <2>1, NoNames
  <2> HIDE DEF names
  <2> QED BY <2>2, <2>3
<1> HIDE DEF names, manf, prod
<1>8. B[n].manufacturer = manf /\ B[n].product = prod
  BY <1>5, <1>7
<1>9. LET full == Composed(B[n].manufacturer, B[n].product, HexDigits(B[n].crc)) IN
      /\ pnpid_finish(B[n], cap) = IF cap < 8 THEN <<>> ELSE Cut(full, cap - 1) \o <<0>>
      /\ cap >= 8 => \E S : full \in Seq(S)
  <2>1. B[n].manufacturer \in Seq(Octet) /\ B[n].product \in Seq(Octet)
    BY <1>2 DEF Builder
  <2> QED BY <2>1, FinishComposes
<1> QED BY <1>1, <1>3, <1>4, <1>8, <1>9 DEF seen

------------------------------------------------------------------------------
(* The calls *)

\* A call on the card's routines has inputs of the program, and gives what the routine gives.
CardInv ==
    /\ \/ \E crc \in Crcs, byte \in Octet : asked = <<"crc", crc, byte>>
       \/ \E cis \in Cises : asked = <<"capture", cis>>
       \/ \E cis \in Cises, size \in Sizes : asked = <<"identify", cis, size>>
       \/ \E cft \in Tables : asked = <<"window", cft>>
    /\ told = <<>> \/ told = Reading

\* It is an invariant.
LEMMA CardInvariant == CardSpec => []CardInv
<1>1. CardInit => CardInv
  BY DEF CardInit, CardInv
<1>2. CardInv /\ [Tell]_cardVars => CardInv'
  <2> SUFFICES ASSUME CardInv, [Tell]_cardVars PROVE CardInv'
    OBVIOUS
  <2>1. CASE Tell
    BY <2>1 DEF Tell, CardInv, Reading
  <2>2. CASE UNCHANGED cardVars
    BY <2>2 DEF cardVars, CardInv, Reading
  <2> QED BY <2>1, <2>2
<1> QED BY <1>1, <1>2, PTL DEF CardSpec

\* What cis_capture_socket and pick_io_window give is what the card says.
LEMMA CardKeptMeans == CardInv => CardKept
<1> SUFFICES ASSUME CardInv PROVE CardKept
  OBVIOUS
<1>1. ASSUME Told("capture")
      PROVE  LET seen == Walked(asked[2]) IN
             /\ Len(seen) <= MaxTuples /\ Len(told[1].raw) <= CaptureMax /\ CaptureOf(told[1], seen)
  <2>1. PICK cis \in Cises : asked = <<"capture", cis>>
    BY <1>1 DEF CardInv, Told
  <2>2. told = <<cis_capture_socket(cis)>>
    BY <1>1, <2>1 DEF CardInv, Told, Reading
  <2>3. cis \in Seq(Tuple)
    BY CardCallsAssumption
  <2>4. Len(Walked(cis)) <= MaxTuples
    BY <2>3, WalkedType
  <2>5. CaptureOf(cis_capture_socket(cis), Walked(cis)) /\ Len(cis_capture_socket(cis).raw) <= CaptureMax
    BY <2>3, CaptureExact
  <2> QED BY <2>1, <2>2, <2>4, <2>5
<1>2. ASSUME Told("window")
      PROVE  told = <<Earliest({k \in 1 .. Len(asked[2]) : Offers(asked[2][k]) >= WindowBytes})>>
  <2>1. PICK cft \in Tables : asked = <<"window", cft>>
    BY <1>2 DEF CardInv, Told
  <2>2. told = <<pick_io_window(cft)>>
    BY <1>2, <2>1 DEF CardInv, Told, Reading
  <2>3. cft \in Seq(Entry)
    BY CardCallsAssumption
  <2> QED BY <2>1, <2>2, <2>3, FirstWindow
<1> QED BY <1>1, <1>2 DEF CardKept

\* What pnpid_crc16 and the identifier's routines give is what Windows makes of the card.
LEMMA CardIdentifiedMeans == CardInv => CardIdentified
<1> SUFFICES ASSUME CardInv PROVE CardIdentified
  OBVIOUS
<1>1. ASSUME Told("crc") PROVE told = <<SerialCrc(asked[2], asked[3])>>
  <2>1. PICK crc \in Crcs, byte \in Octet : asked = <<"crc", crc, byte>>
    BY <1>1 DEF CardInv, Told
  <2>2. told = <<pnpid_crc16(crc, <<byte>>)>>
    BY <1>1, <2>1 DEF CardInv, Told, Reading
  <2>3. crc \in Crc
    BY CardCallsAssumption DEF Crc
  <2> QED BY <2>1, <2>2, <2>3, CrcShort
<1>2. ASSUME Told("identify")
      PROVE  LET full == IdentifierOf(Walked(asked[2]))
                 cap  == asked[3]
             IN  /\ cap >= 8 /\ Len(full) < cap => told = <<full \o <<0>>>>
                 /\ Len(told[1]) <= cap
  <2>1. PICK cis \in Cises, size \in Sizes : asked = <<"identify", cis, size>>
    BY <1>2 DEF CardInv, Told
  <2>2. told = <<identifier(cis, size)>>
    BY <1>2, <2>1 DEF CardInv, Told, Reading
  <2>3. cis \in Seq(Tuple) /\ size \in Nat
    BY CardCallsAssumption
  <2> DEFINE full == IdentifierOf(Walked(cis))
  <2>4. /\ identifier(cis, size) = IF size < 8 THEN <<>> ELSE Cut(full, size - 1) \o <<0>>
        /\ size >= 8 => \E S : full \in Seq(S)
    BY <2>3, IdentifierExact
  <2>5. SUFFICES /\ size >= 8 /\ Len(full) < size => told = <<full \o <<0>>>>
                 /\ Len(told[1]) <= size
    BY <2>1
  <2> HIDE DEF full
  <2>6. CASE size < 8
    BY <2>2, <2>3, <2>4, <2>6
  <2>7. CASE size >= 8
    <3>1. PICK S : full \in Seq(S)
      BY <2>4, <2>7
    <3>2. told[1] = Cut(full, size - 1) \o <<0>>
      BY <2>2, <2>3, <2>4, <2>7
    <3>3. Len(full) \in Nat
      BY <3>1
    <3>4. CASE Len(full) < size
      <4>1. Cut(full, size - 1) = full
        <5>1. size - 1 \in Nat /\ Len(full) <= size - 1
          BY <2>3, <2>7, <3>3, <3>4
        <5> QED BY <3>1, <5>1, FullCut
      <4>2. Len(full \o <<0>>) = Len(full) + 1
        BY <3>1
      <4>3. told = <<full \o <<0>>>> /\ Len(told[1]) <= size
        <5>1. told = <<full \o <<0>>>>
          <6>1. identifier(cis, size) = Cut(full, size - 1) \o <<0>>
            BY <2>3, <2>4, <2>7
          <6> QED BY <2>2, <4>1, <6>1
        <5>2. Len(full) + 1 <= size
          BY <2>3, <3>3, <3>4
        <5>3. told[1] = full \o <<0>>
          BY <5>1
        <5> QED BY <4>2, <5>1, <5>2, <5>3
      <4> QED BY <4>3
    <3>5. CASE ~ (Len(full) < size)
      <4>1. Cut(full, size - 1) \in Seq(S) /\ Len(Cut(full, size - 1)) = size - 1
        <5>1. size - 1 \in Nat /\ size - 1 <= Len(full)
          BY <2>3, <2>7, <3>3, <3>5
        <5> QED BY <3>1, <5>1, ShortCut
      <4>2. Len(Cut(full, size - 1) \o <<0>>) = Len(Cut(full, size - 1)) + 1
        BY <4>1, EndedLength
      <4>3. Len(told[1]) <= size
        BY <2>3, <3>2, <4>1, <4>2
      <4> QED BY <3>5, <4>3
    <3> QED BY <3>4, <3>5
  <2> QED BY <2>3, <2>6, <2>7
<1> QED BY <1>1, <1>2 DEF CardIdentified

\* What the driver keeps of a card is what the card says, on every card: every tuple of the
\* walk that fits, in order, the last numbers given, and the first I/O window with room.
THEOREM KeepsWhatTheCardSays == CardSpec => []CardKept
BY CardInvariant, CardKeptMeans, PTL

\* The nibble tables give the CRC of a serial register with Windows' slip, for every byte and
\* register, and the identifier is that of the names and of the CRC of the tuples seen, on
\* every card and for every buffer that holds it; no other buffer is written past its end.
THEOREM IdentifiesAsWindowsDoes == CardSpec => []CardIdentified
BY CardInvariant, CardIdentifiedMeans, PTL

\* Both, of every call: what the driver learns of any card is what the card says.
THEOREM DescribesTheCard == CardSpec => []CardDescribed
BY CardInvariant, CardKeptMeans, CardIdentifiedMeans, PTL DEF CardDescribed
=============================================================================
