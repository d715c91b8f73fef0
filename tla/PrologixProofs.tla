---------------------------- MODULE PrologixProofs ----------------------------
(* The gateway hands on the lines of the stream for every stream, line limit,  *)
(* receive buffer and number of connections.                                   *)
EXTENDS PrologixLine, FiniteSetTheorems, TLAPS

------------------------------------------------------------------------------
(* The k-th element of a set of positions *)

\* How many positions of S come no later than x.
Rank(S, x) == Cardinality({y \in S : y <= x})

\* Later positions have higher ranks.
LEMMA RankGrows ==
    ASSUME NEW S \in SUBSET Nat, IsFiniteSet(S), NEW x \in S, NEW y \in S, x < y
    PROVE  Rank(S, x) < Rank(S, y)
<1> DEFINE A == {z \in S : z <= x}
           B == {z \in S : z <= y}
<1>1. A \in SUBSET B /\ y \in B /\ y \notin A /\ B \in SUBSET S
  <2>1. x \in Nat /\ y \in Nat /\ ~(y <= x) /\ y <= y
    OBVIOUS
  <2>2. y \in B /\ y \notin A
    BY <2>1
  <2>3. ASSUME NEW z \in A PROVE z \in B
    BY <2>1, <2>3
  <2>4. B \subseteq S
    OBVIOUS
  <2> QED BY <2>2, <2>3, <2>4
<1>2. IsFiniteSet(B)
  BY <1>1, FS_Subset
<1>3. /\ Cardinality(A) <= Cardinality(B)
      /\ Cardinality(A) # Cardinality(B)
  BY <1>1, <1>2, FS_Subset
<1>4. Cardinality(A) \in Nat /\ Cardinality(B) \in Nat
  BY <1>1, <1>2, FS_Subset, FS_CardinalityType
<1> QED BY <1>3, <1>4 DEF Rank

\* The ranks of S are exactly 1 to its size.
LEMMA RankBijective ==
    ASSUME NEW S \in SUBSET Nat, IsFiniteSet(S)
    PROVE  /\ \A x \in S : Rank(S, x) \in 1 .. Cardinality(S)
           /\ \A x, y \in S : Rank(S, x) = Rank(S, y) => x = y
           /\ \A k \in 1 .. Cardinality(S) : \E x \in S : Rank(S, x) = k
<1> DEFINE f == [x \in S |-> Rank(S, x)]
           T == 1 .. Cardinality(S)
<1>1. Cardinality(S) \in Nat
  BY FS_CardinalityType
<1>2. ASSUME NEW x \in S PROVE Rank(S, x) \in T
  <2>1. {y \in S : y <= x} \in SUBSET S /\ x \in {y \in S : y <= x}
    OBVIOUS
  <2>2. Rank(S, x) \in Nat /\ Rank(S, x) <= Cardinality(S) /\ Rank(S, x) # 0
    BY <2>1, FS_Subset, FS_CardinalityType, FS_EmptySet DEF Rank
  <2> QED BY <1>1, <2>2
<1>3. ASSUME NEW x \in S, NEW y \in S, Rank(S, x) = Rank(S, y) PROVE x = y
  <2>1. Rank(S, x) \in Nat /\ Rank(S, y) \in Nat
    BY <1>1, <1>2
  <2>2. ~(x < y) /\ ~(y < x)
    BY <1>3, <2>1, RankGrows
  <2> QED BY <2>2
<1>4. f \in Injection(S, T)
  BY <1>2, <1>3 DEF Injection, IsInjective
<1>5. IsFiniteSet(T) /\ Cardinality(T) = Cardinality(S)
  BY <1>1, FS_Interval
<1>6. f \in Surjection(S, T)
  BY <1>4, <1>5, FS_Injection
<1>7. \A k \in T : \E x \in S : f[x] = k
  BY <1>6 DEF Surjection
<1> QED BY <1>2, <1>3, <1>7

\* Nth picks the one element of its rank.
LEMMA NthRank ==
    ASSUME NEW S \in SUBSET Nat, IsFiniteSet(S), NEW k \in 1 .. Cardinality(S)
    PROVE  Nth(S, k) \in S /\ Rank(S, Nth(S, k)) = k
<1>1. \E x \in S : Rank(S, x) = k
  BY RankBijective
<1> QED BY <1>1 DEF Nth, Rank

\* A position behind all the others becomes the last; the others keep their places.
LEMMA NthAdded ==
    ASSUME NEW S \in SUBSET Nat, IsFiniteSet(S), NEW n \in Nat, \A y \in S : y < n
    PROVE  /\ IsFiniteSet(S \cup {n}) /\ Cardinality(S \cup {n}) = Cardinality(S) + 1
           /\ \A k \in 1 .. Cardinality(S) : Nth(S \cup {n}, k) = Nth(S, k)
           /\ Nth(S \cup {n}, Cardinality(S) + 1) = n
<1> DEFINE T == S \cup {n}
<1>1. n \notin S /\ T \in SUBSET Nat /\ Cardinality(S) \in Nat
  BY FS_CardinalityType
<1>2. IsFiniteSet(T) /\ Cardinality(T) = Cardinality(S) + 1
  BY <1>1, FS_AddElement
<1>3. \A x \in S : Rank(T, x) = Rank(S, x)
  <2>1. \A x \in S : {y \in T : y <= x} = {y \in S : y <= x}
    OBVIOUS
  <2> QED BY <2>1 DEF Rank
<1>4. Rank(T, n) = Cardinality(T)
  <2>1. \A y \in T : y <= n
    OBVIOUS
  <2>2. {y \in T : y <= n} = T
    BY <2>1
  <2> QED BY <2>2 DEF Rank
<1> HIDE DEF T
<1>0. \A x, y \in T : Rank(T, x) = Rank(T, y) => x = y
  BY <1>1, <1>2, RankBijective
<1>5. ASSUME NEW k \in 1 .. Cardinality(S) PROVE Nth(T, k) = Nth(S, k)
  <2>1. k \in 1 .. Cardinality(T)
    BY <1>1, <1>2
  <2>2. Nth(S, k) \in S /\ Rank(S, Nth(S, k)) = k
    BY NthRank
  <2>3. Nth(T, k) \in T /\ Rank(T, Nth(T, k)) = k
    BY <1>1, <1>2, <2>1, NthRank
  <2>4. Nth(S, k) \in T /\ Rank(T, Nth(S, k)) = k
    BY <1>3, <2>2 DEF T
  <2> QED BY <1>0, <2>3, <2>4
<1>6. Nth(T, Cardinality(S) + 1) = n
  <2>1. Cardinality(S) + 1 \in 1 .. Cardinality(T)
    BY <1>1, <1>2
  <2>2. /\ Nth(T, Cardinality(S) + 1) \in T
        /\ Rank(T, Nth(T, Cardinality(S) + 1)) = Cardinality(S) + 1
    BY <1>1, <1>2, <2>1, NthRank
  <2>3. n \in T /\ Rank(T, n) = Cardinality(S) + 1
    BY <1>2, <1>4 DEF T
  <2> QED BY <1>0, <2>2, <2>3
<1> QED BY <1>2, <1>5, <1>6 DEF T

------------------------------------------------------------------------------
(* What one more byte makes of the stream *)

\* The bytes of a stream and of the stream with one more.
LEMMA Appended ==
    ASSUME NEW s \in Seq(Byte), NEW b \in Byte
    PROVE  /\ Append(s, b) \in Seq(Byte) /\ Len(s) \in Nat
           /\ Len(Append(s, b)) = Len(s) + 1 /\ Append(s, b)[Len(s) + 1] = b
           /\ \A j \in 1 .. Len(s) : Append(s, b)[j] = s[j]
  OBVIOUS

\* The stream ends in a run of ESCs or in none.
RunStarts(s) ==
    Len(s) > 0 /\ s[Len(s)] = "ESC" =>
        \E m \in 1 .. Len(s) : /\ \A k \in m .. Len(s) : s[k] = "ESC"
                               /\ m > 1 => s[m - 1] # "ESC"

\* A byte that is added to the stream lengthens its run of ESCs or breaks it.
LEMMA RunStep ==
    ASSUME NEW s \in Seq(Byte), NEW b \in Byte, RunStarts(s)
    PROVE  RunStarts(Append(s, b))
<1> DEFINE n == Len(s)
           t == Append(s, b)
<1>1. /\ n \in Nat /\ Len(t) = n + 1 /\ t[n + 1] = b
      /\ \A j \in 1 .. n : t[j] = s[j]
  BY Appended
<1> HIDE DEF n, t
<1> SUFFICES ASSUME b = "ESC"
    PROVE  \E m \in 1 .. n + 1 : /\ \A k \in m .. n + 1 : t[k] = "ESC"
                                 /\ m > 1 => t[m - 1] # "ESC"
  BY <1>1 DEF RunStarts, t
<1>2. CASE n > 0 /\ s[n] = "ESC"
  <2>1. PICK m \in 1 .. n : /\ \A k \in m .. n : s[k] = "ESC"
                            /\ m > 1 => s[m - 1] # "ESC"
    BY <1>2 DEF RunStarts, n
  <2>2. \A k \in m .. n + 1 : t[k] = "ESC"
    BY <1>1, <2>1
  <2>3. m > 1 => t[m - 1] # "ESC"
    BY <1>1, <2>1
  <2> QED BY <1>1, <2>2, <2>3
<1>3. CASE ~(n > 0 /\ s[n] = "ESC")
  <2>1. \A k \in n + 1 .. n + 1 : t[k] = "ESC"
    BY <1>1
  <2>2. n + 1 > 1 => t[n + 1 - 1] # "ESC"
    BY <1>1, <1>3
  <2> QED BY <1>1, <2>1, <2>2
<1> QED BY <1>2, <1>3

\* Of two neighbouring distances one is even.
LEMMA Parity == \A a \in Nat : a % 2 = 0 <=> (a + 1) % 2 # 0
  OBVIOUS

\* An ESC escapes unless it is escaped itself.
LEMMA EscapesStep ==
    ASSUME NEW s \in Seq(Byte), NEW b \in Byte, RunStarts(s)
    PROVE  Escapes(Append(s, b)) =
           Escapes(s) \cup IF b = "ESC" /\ Len(s) \notin Escapes(s) THEN {Len(s) + 1} ELSE {}
<1> DEFINE n == Len(s)
           t == Append(s, b)
           First(x, m, j) == /\ \A k \in m .. j : x[k] = "ESC"
                             /\ m > 1 => x[m - 1] # "ESC"
<1>1. /\ n \in Nat /\ Len(t) = n + 1 /\ t[n + 1] = b
      /\ \A j \in 1 .. n : t[j] = s[j]
  BY Appended
<1>2. \A j : j \in Escapes(s) <=> j \in 1 .. n /\ \E m \in 1 .. j : First(s, m, j) /\ (j - m) % 2 = 0
  BY DEF Escapes
<1>3. \A j : j \in Escapes(t) <=> j \in 1 .. n + 1 /\ \E m \in 1 .. j : First(t, m, j) /\ (j - m) % 2 = 0
  BY <1>1 DEF Escapes
<1> HIDE DEF n, t
<1>4. ASSUME NEW j \in 1 .. n, NEW m \in 1 .. j PROVE First(t, m, j) <=> First(s, m, j)
  BY <1>1
<1>5. ASSUME NEW j \in 1 .. n PROVE j \in Escapes(t) <=> j \in Escapes(s)
  <2>1. j \in 1 .. n + 1
    BY <1>1
  <2> HIDE DEF First
  <2> QED BY <1>2, <1>3, <1>4, <2>1
<1>6. n + 1 \in Escapes(t) <=> b = "ESC" /\ n \notin Escapes(s)
  <2>1. ASSUME n + 1 \in Escapes(t) PROVE b = "ESC" /\ n \notin Escapes(s)
    <3> HIDE DEF First
    <3>1. PICK m \in 1 .. n + 1 : First(t, m, n + 1) /\ (n + 1 - m) % 2 = 0
      BY <1>1, <1>3, <2>1
    <3> USE DEF First
    <3>2. b = "ESC"
      BY <1>1, <3>1
    <3>3. ASSUME n \in Escapes(s) PROVE FALSE
      <4>1. PICK l \in 1 .. n : First(s, l, n) /\ (n - l) % 2 = 0
        BY <1>2, <3>3
      <4>2. ~(m < l)
        <5> SUFFICES ASSUME m < l PROVE FALSE
          OBVIOUS
        <5>1. l - 1 \in m .. n + 1 /\ l - 1 \in 1 .. n /\ l > 1
          BY <1>1
        <5> QED BY <1>1, <3>1, <4>1, <5>1
      <4>3. ~(l < m)
        <5> SUFFICES ASSUME l < m PROVE FALSE
          OBVIOUS
        <5>1. m - 1 \in l .. n /\ m - 1 \in 1 .. n /\ m > 1
          BY <1>1
        <5> QED BY <1>1, <3>1, <4>1, <5>1
      <4>4. m = l /\ n - l \in Nat /\ n + 1 - m = (n - l) + 1
        BY <1>1, <4>2, <4>3
      <4> QED BY <3>1, <4>1, <4>4, Parity
    <3> QED BY <3>2, <3>3
  <2>2. ASSUME b = "ESC", n \notin Escapes(s) PROVE n + 1 \in Escapes(t)
    <3>1. CASE n > 0 /\ s[n] = "ESC"
      <4>1. PICK m \in 1 .. n : First(s, m, n)
        BY <3>1 DEF RunStarts, n
      <4>2. First(t, m, n + 1)
        BY <1>1, <2>2, <4>1
      <4>3. (n - m) % 2 # 0 /\ n - m \in Nat /\ n + 1 - m = (n - m) + 1
        <5>1. n \in 1 .. n /\ n - m \in Nat /\ n + 1 - m = (n - m) + 1
          BY <1>1, <3>1
        <5> HIDE DEF First
        <5> QED BY <1>2, <2>2, <4>1, <5>1
      <4>4. (n + 1 - m) % 2 = 0
        <5>1. (n - m) % 2 = 0 <=> ((n - m) + 1) % 2 # 0
          BY <4>3, Parity
        <5> QED BY <4>3, <5>1
      <4> HIDE DEF First
      <4> QED BY <1>1, <1>3, <4>2, <4>4
    <3>2. CASE ~(n > 0 /\ s[n] = "ESC")
      <4>1. First(t, n + 1, n + 1)
        BY <1>1, <2>2, <3>2
      <4>2. (n + 1 - (n + 1)) % 2 = 0 /\ n + 1 \in 1 .. n + 1
        BY <1>1
      <4> HIDE DEF First
      <4> QED BY <1>3, <4>1, <4>2
    <3> QED BY <3>1, <3>2
  <2> QED BY <2>1, <2>2
<1>7. \A j : j \in Escapes(t) => j \in 1 .. n \/ j = n + 1
  BY <1>1, <1>3
<1>8. \A j : j \in Escapes(s) => j \in 1 .. n
  BY <1>2
<1> QED BY <1>5, <1>6, <1>7, <1>8 DEF n, t

\* What the byte after position Len(s) is.
IsText(s, b)   == Len(s) \in Escapes(s) \/ b \notin Terminator \cup {"ESC"}
IsEscape(s, b) == Len(s) \notin Escapes(s) /\ b = "ESC"
IsEnd(s, b)    == Len(s) \notin Escapes(s) /\ b \in Terminator

\* It is one of the three.
LEMMA ByteKinds ==
    ASSUME NEW s \in Seq(Byte), NEW b \in Byte
    PROVE  /\ IsText(s, b) \/ IsEscape(s, b) \/ IsEnd(s, b)
           /\ ~(IsText(s, b) /\ IsEscape(s, b))
           /\ ~(IsText(s, b) /\ IsEnd(s, b))
           /\ ~(IsEscape(s, b) /\ IsEnd(s, b))
  BY DEF IsText, IsEscape, IsEnd, Terminator

\* A byte ends a line when it is a terminator that is not escaped.
LEMMA EndsStep ==
    ASSUME NEW s \in Seq(Byte), NEW b \in Byte, RunStarts(s)
    PROVE  Ends(Append(s, b)) = Ends(s) \cup IF IsEnd(s, b) THEN {Len(s) + 1} ELSE {}
<1> DEFINE n == Len(s)
           t == Append(s, b)
<1>1. /\ n \in Nat /\ Len(t) = n + 1 /\ t[n + 1] = b
      /\ \A j \in 1 .. n : t[j] = s[j]
  BY Appended
<1>2. \A j : j \in Ends(s) <=> j \in 1 .. n /\ s[j] \in Terminator /\ j - 1 \notin Escapes(s)
  BY DEF Ends
<1>3. \A j : j \in Ends(t) <=> j \in 1 .. n + 1 /\ t[j] \in Terminator /\ j - 1 \notin Escapes(t)
  BY <1>1 DEF Ends
<1>4. \A j : j # n + 1 => (j \in Escapes(t) <=> j \in Escapes(s))
  BY EscapesStep
<1> HIDE DEF n, t
<1>5. ASSUME NEW j \in 1 .. n PROVE j \in Ends(t) <=> j \in Ends(s)
  <2>1. j \in 1 .. n + 1 /\ j - 1 # n + 1
    BY <1>1
  <2> QED BY <1>1, <1>2, <1>3, <1>4, <2>1
<1>6. n + 1 \in Ends(t) <=> IsEnd(s, b)
  <2>1. n + 1 \in 1 .. n + 1 /\ n + 1 - 1 = n /\ n # n + 1
    BY <1>1
  <2>2. n + 1 \in Ends(t) <=> t[n + 1] \in Terminator /\ n + 1 - 1 \notin Escapes(t)
    BY <1>1, <1>3, <2>1
  <2>3. n \in Escapes(t) <=> n \in Escapes(s)
    BY <1>4, <2>1
  <2> QED BY <1>1, <2>1, <2>2, <2>3 DEF IsEnd, n
<1>7. \A j : j \in Ends(t) => j \in 1 .. n \/ j = n + 1
  BY <1>1, <1>3
<1>8. \A j : j \in Ends(s) => j \in 1 .. n
  BY <1>2
<1> QED BY <1>5, <1>6, <1>7, <1>8 DEF n, t

\* A byte is text when it is neither.
LEMMA TextStep ==
    ASSUME NEW s \in Seq(Byte), NEW b \in Byte, RunStarts(s)
    PROVE  Text(Append(s, b)) = Text(s) \cup IF IsText(s, b) THEN {Len(s) + 1} ELSE {}
<1> DEFINE n == Len(s)
           t == Append(s, b)
<1>1. n \in Nat /\ Len(t) = n + 1
  BY Appended
<1>2. \A j : j \in Text(s) <=> j \in 1 .. n /\ j \notin Escapes(s) /\ j \notin Ends(s)
  BY DEF Text
<1>3. \A j : j \in Text(t) <=> j \in 1 .. n + 1 /\ j \notin Escapes(t) /\ j \notin Ends(t)
  BY <1>1 DEF Text
<1>4. \A j : j # n + 1 => (j \in Escapes(t) <=> j \in Escapes(s)) /\ (j \in Ends(t) <=> j \in Ends(s))
  BY EscapesStep, EndsStep
<1>5. n + 1 \notin Escapes(s) /\ n + 1 \notin Ends(s)
  BY <1>1 DEF Escapes, Ends
<1>6. (n + 1 \in Escapes(t) <=> IsEscape(s, b)) /\ (n + 1 \in Ends(t) <=> IsEnd(s, b))
  BY <1>5, EscapesStep, EndsStep DEF IsEscape
<1> HIDE DEF n, t
<1>7. ASSUME NEW j \in 1 .. n PROVE j \in Text(t) <=> j \in Text(s)
  <2>1. j \in 1 .. n + 1 /\ j # n + 1
    BY <1>1
  <2> QED BY <1>2, <1>3, <1>4, <2>1
<1>8. n + 1 \in Text(t) <=> IsText(s, b)
  <2>1. n + 1 \in 1 .. n + 1
    BY <1>1
  <2> QED BY <1>3, <1>6, <2>1, ByteKinds
<1>9. \A j : j \in Text(t) => j \in 1 .. n \/ j = n + 1
  BY <1>1, <1>3
<1>10. \A j : j \in Text(s) => j \in 1 .. n
  BY <1>2
<1> QED BY <1>7, <1>8, <1>9, <1>10 DEF n, t

\* Where the lines of a stream lie.
LEMMA LinePlaces ==
    ASSUME NEW s \in Seq(Byte), NEW e
    PROVE  /\ Text(s) \subseteq 1 .. Len(s) /\ Ends(s) \subseteq 1 .. Len(s)
           /\ LineBefore(s, e) \in SUBSET (1 .. Len(s)) /\ LineBefore(s, e) \in SUBSET Nat
           /\ IsFiniteSet(LineBefore(s, e)) /\ Cardinality(LineBefore(s, e)) \in Nat
           /\ Lines(s) \in SUBSET (1 .. Len(s)) /\ Lines(s) \in SUBSET Nat
           /\ IsFiniteSet(Lines(s)) /\ Cardinality(Lines(s)) \in Nat
<1>1. Len(s) \in Nat /\ IsFiniteSet(1 .. Len(s))
  BY FS_Interval
<1>2. Text(s) \subseteq 1 .. Len(s) /\ Ends(s) \subseteq 1 .. Len(s)
  BY DEF Text, Ends
<1>3. LineBefore(s, e) \in SUBSET (1 .. Len(s))
  BY <1>2 DEF LineBefore
<1>4. Lines(s) \in SUBSET (1 .. Len(s))
  BY <1>2 DEF Lines
<1>5. 1 .. Len(s) \subseteq Nat
  BY <1>1
<1> QED BY <1>1, <1>2, <1>3, <1>4, <1>5, FS_Subset, FS_CardinalityType

\* One more byte leaves the lines before it alone.
LEMMA LineKept ==
    ASSUME NEW s \in Seq(Byte), NEW b \in Byte, RunStarts(s), NEW e \in 1 .. Len(s) + 1
    PROVE  LineBefore(Append(s, b), e) = LineBefore(s, e)
<1> DEFINE n == Len(s)
           t == Append(s, b)
<1>1. n \in Nat
  BY Appended
<1>2. \A j : j # n + 1 => (j \in Text(t) <=> j \in Text(s)) /\ (j \in Ends(t) <=> j \in Ends(s))
  BY TextStep, EndsStep
<1>3. \A p : p \in LineBefore(t, e) <=> p \in Text(t) /\ p < e /\ \A f \in Ends(t) : f < e => f < p
  BY DEF LineBefore
<1>4. \A p : p \in LineBefore(s, e) <=> p \in Text(s) /\ p < e /\ \A f \in Ends(s) : f < e => f < p
  BY DEF LineBefore
<1> HIDE DEF t
<1>5. ~(n + 1 < e)
  BY <1>1
<1> HIDE DEF n
<1> QED BY <1>2, <1>3, <1>4, <1>5 DEF t

\* The line under construction grows by a byte of text, stays at an escape, and is gone at
\* an end.
LEMMA LineGrows ==
    ASSUME NEW s \in Seq(Byte), NEW b \in Byte, RunStarts(s)
    PROVE  LineBefore(Append(s, b), Len(s) + 2) =
              IF IsEnd(s, b) THEN {}
              ELSE LineBefore(s, Len(s) + 1) \cup IF IsText(s, b) THEN {Len(s) + 1} ELSE {}
<1> DEFINE n == Len(s)
           t == Append(s, b)
<1>1. n \in Nat /\ Text(s) \subseteq 1 .. n /\ Ends(s) \subseteq 1 .. n
  BY Appended, LinePlaces
<1>2. /\ Text(t) = Text(s) \cup IF IsText(s, b) THEN {n + 1} ELSE {}
      /\ Ends(t) = Ends(s) \cup IF IsEnd(s, b) THEN {n + 1} ELSE {}
  BY TextStep, EndsStep
<1>3. \A p : p \in LineBefore(t, n + 2) <=>
                p \in Text(t) /\ p < n + 2 /\ \A f \in Ends(t) : f < n + 2 => f < p
  BY DEF LineBefore
<1>4. \A p : p \in LineBefore(s, n + 1) <=>
                p \in Text(s) /\ p < n + 1 /\ \A f \in Ends(s) : f < n + 1 => f < p
  BY DEF LineBefore
<1> HIDE DEF n, t
<1>5. CASE IsEnd(s, b)
  <2>1. n + 1 \in Ends(t) /\ n + 1 < n + 2
    BY <1>1, <1>2, <1>5
  <2>2. Text(t) = Text(s)
    BY <1>2, <1>5, ByteKinds
  <2>3. \A p \in Text(t) : ~(n + 1 < p)
    BY <1>1, <2>2
  <2>4. \A p : p \notin LineBefore(t, n + 2)
    BY <1>3, <2>1, <2>3
  <2> QED BY <1>5, <2>4 DEF n, t
<1>6. CASE ~IsEnd(s, b)
  <2>1. Ends(t) = Ends(s) /\ \A f \in Ends(s) : f < n + 2 /\ f < n + 1
    BY <1>1, <1>2, <1>6
  <2>2. \A p \in Text(s) : p < n + 2 /\ p < n + 1 /\ p # n + 1
    BY <1>1
  <2>3. \A p : p \in LineBefore(s, n + 1) <=> p \in Text(s) /\ \A f \in Ends(s) : f < p
    BY <1>4, <2>1, <2>2
  <2>4. CASE IsText(s, b)
    <3>1. \A p : p \in Text(t) <=> p \in Text(s) \/ p = n + 1
      BY <1>2, <2>4
    <3>2. n + 1 < n + 2
      BY <1>1
    <3>3. \A p : p \in LineBefore(t, n + 2) <=> p \in LineBefore(s, n + 1) \/ p = n + 1
      BY <1>3, <2>1, <2>2, <2>3, <3>1, <3>2
    <3> QED BY <1>6, <2>4, <3>3 DEF n, t
  <2>5. CASE ~IsText(s, b)
    <3>1. Text(t) = Text(s)
      BY <1>2, <2>5
    <3>2. \A p : p \in LineBefore(t, n + 2) <=> p \in LineBefore(s, n + 1)
      BY <1>3, <2>1, <2>2, <2>3, <3>1
    <3> QED BY <1>6, <2>5, <3>2 DEF n, t
  <2> QED BY <2>4, <2>5
<1> QED BY <1>5, <1>6

\* A line is added when an end meets text.
LEMMA LinesStep ==
    ASSUME NEW s \in Seq(Byte), NEW b \in Byte, RunStarts(s)
    PROVE  Lines(Append(s, b)) =
           Lines(s) \cup IF IsEnd(s, b) /\ LineBefore(s, Len(s) + 1) # {} THEN {Len(s) + 1} ELSE {}
<1> DEFINE n == Len(s)
           t == Append(s, b)
<1>1. n \in Nat /\ Ends(s) \subseteq 1 .. n
  BY Appended, LinePlaces
<1>2. Ends(t) = Ends(s) \cup IF IsEnd(s, b) THEN {n + 1} ELSE {}
  BY EndsStep
<1>3. \A e \in 1 .. n + 1 : LineBefore(t, e) = LineBefore(s, e)
  BY LineKept
<1>4. \A e : e \in Lines(t) <=> e \in Ends(t) /\ LineBefore(t, e) # {}
  BY DEF Lines
<1>5. \A e : e \in Lines(s) <=> e \in Ends(s) /\ LineBefore(s, e) # {}
  BY DEF Lines
<1> HIDE DEF n, t
<1>6. n + 1 \in 1 .. n + 1 /\ (\A e \in Ends(s) : e \in 1 .. n + 1) /\ n + 1 \notin Ends(s)
  BY <1>1
<1>7. \A e : e \in Lines(t) <=> \/ e \in Lines(s)
                                \/ e = n + 1 /\ IsEnd(s, b) /\ LineBefore(s, n + 1) # {}
  BY <1>2, <1>3, <1>4, <1>5, <1>6
<1> QED BY <1>7 DEF n, t

\* The text of a line: what it is made of, and how long.
LEMMA SpelledType ==
    ASSUME NEW s \in Seq(Byte), NEW P \in SUBSET (1 .. Len(s))
    PROVE  /\ Spelled(s, P) \in Seq(Byte)
           /\ Cardinality(P) \in Nat /\ IsFiniteSet(P) /\ P \in SUBSET Nat
           /\ Len(Spelled(s, P)) = IF Cardinality(P) < LineMax THEN Cardinality(P) ELSE LineMax
           /\ \A c \in 1 .. Len(Spelled(s, P)) :
                 Spelled(s, P)[c] = s[Nth(P, c)] /\ Nth(P, c) \in P
           /\ Spelled(s, P) = <<>> <=> P = {}
<1> DEFINE l == IF Cardinality(P) < LineMax THEN Cardinality(P) ELSE LineMax
<1>1. Len(s) \in Nat /\ IsFiniteSet(1 .. Len(s)) /\ 1 .. Len(s) \subseteq Nat
  BY FS_Interval
<1>2. IsFiniteSet(P) /\ Cardinality(P) \in Nat /\ P \in SUBSET Nat
  BY <1>1, FS_Subset, FS_CardinalityType
<1>3. l \in Nat /\ l <= Cardinality(P) /\ (l = 0 <=> Cardinality(P) = 0)
  BY <1>2, LineAssumption
<1>4. Spelled(s, P) = [c \in 1 .. l |-> s[Nth(P, c)]]
  BY DEF Spelled
<1> HIDE DEF l
<1>5. ASSUME NEW c \in 1 .. l PROVE Nth(P, c) \in P /\ s[Nth(P, c)] \in Byte
  <2>1. c \in 1 .. Cardinality(P)
    BY <1>2, <1>3
  <2>2. Nth(P, c) \in P
    BY <1>2, <2>1, NthRank
  <2>3. Nth(P, c) \in 1 .. Len(s)
    BY <2>2
  <2>4. \A j \in 1 .. Len(s) : s[j] \in Byte
    OBVIOUS
  <2> QED BY <2>2, <2>3, <2>4
<1>6. /\ Spelled(s, P) \in Seq(Byte) /\ Len(Spelled(s, P)) = l
      /\ \A c \in 1 .. l : Spelled(s, P)[c] = s[Nth(P, c)]
  BY <1>3, <1>4, <1>5
<1>7. Spelled(s, P) = <<>> <=> l = 0
  BY <1>3, <1>6
<1> QED BY <1>2, <1>3, <1>5, <1>6, <1>7, FS_EmptySet DEF l

\* A line that was complete stays what it was.
LEMMA SpelledKept ==
    ASSUME NEW s \in Seq(Byte), NEW b \in Byte, NEW P \in SUBSET (1 .. Len(s))
    PROVE  Spelled(Append(s, b), P) = Spelled(s, P)
<1> DEFINE l == IF Cardinality(P) < LineMax THEN Cardinality(P) ELSE LineMax
<1>1. \A j \in 1 .. Len(s) : Append(s, b)[j] = s[j]
  BY Appended
<1>2. \A c \in 1 .. l : Nth(P, c) \in 1 .. Len(s)
  BY SpelledType
<1>3. \A c \in 1 .. l : Append(s, b)[Nth(P, c)] = s[Nth(P, c)]
  BY <1>1, <1>2
<1> HIDE DEF l
<1>4. [c \in 1 .. l |-> Append(s, b)[Nth(P, c)]] = [c \in 1 .. l |-> s[Nth(P, c)]]
  BY <1>3
<1> QED BY <1>4 DEF Spelled, l

\* A byte of text is kept if the line has room.
LEMMA SpelledAdded ==
    ASSUME NEW s \in Seq(Byte), NEW b \in Byte, NEW P \in SUBSET (1 .. Len(s))
    PROVE  Spelled(Append(s, b), P \cup {Len(s) + 1}) =
           IF Len(Spelled(s, P)) < LineMax THEN Append(Spelled(s, P), b) ELSE Spelled(s, P)
<1> DEFINE n == Len(s)
           t == Append(s, b)
           Q == P \cup {n + 1}
           x == Spelled(s, P)
           y == Spelled(t, Q)
<1>1. /\ n \in Nat /\ t \in Seq(Byte) /\ Len(t) = n + 1 /\ t[n + 1] = b
      /\ \A j \in 1 .. n : t[j] = s[j]
  BY Appended
<1>2. /\ x \in Seq(Byte) /\ Cardinality(P) \in Nat /\ IsFiniteSet(P) /\ P \in SUBSET Nat
      /\ Len(x) = IF Cardinality(P) < LineMax THEN Cardinality(P) ELSE LineMax
      /\ \A c \in 1 .. Len(x) : x[c] = s[Nth(P, c)] /\ Nth(P, c) \in P
  BY SpelledType
<1>3. Q \in SUBSET (1 .. Len(t))
  <2>1. \A q \in P : q \in 1 .. Len(t)
    BY <1>1
  <2>2. n + 1 \in 1 .. Len(t)
    BY <1>1
  <2> HIDE DEF t, n
  <2> QED BY <2>1, <2>2
<1>4. /\ y \in Seq(Byte)
      /\ Len(y) = IF Cardinality(Q) < LineMax THEN Cardinality(Q) ELSE LineMax
      /\ \A c \in 1 .. Len(y) : y[c] = t[Nth(Q, c)]
  BY <1>1, <1>3, SpelledType, ZenonT(30)
<1>5. \A p \in P : p < n + 1
  BY <1>1
<1>6. /\ Cardinality(Q) = Cardinality(P) + 1
      /\ \A k \in 1 .. Cardinality(P) : Nth(Q, k) = Nth(P, k)
      /\ Nth(Q, Cardinality(P) + 1) = n + 1
  <2>1. n + 1 \in Nat
    BY <1>1
  <2> QED BY <1>2, <1>5, <2>1, NthAdded
<1>7. LineMax \in Nat
  BY LineAssumption
<1>8. P \subseteq 1 .. n
  OBVIOUS
<1> HIDE DEF n, t, Q, x, y
<1>9. \A c \in 1 .. Len(x) : c \in 1 .. Cardinality(P)
  BY <1>2, <1>7
<1>10. \A c \in 1 .. Len(x) : t[Nth(Q, c)] = x[c]
  BY <1>1, <1>2, <1>6, <1>8, <1>9
<1>11. CASE Len(x) < LineMax
  <2>1. Len(x) = Cardinality(P) /\ Len(y) = Len(x) + 1 /\ Len(x) \in Nat
    BY <1>2, <1>4, <1>6, <1>7, <1>11
  <2>2. y[Len(x) + 1] = b
    BY <1>1, <1>4, <1>6, <2>1
  <2>3. \A c \in 1 .. Len(x) : y[c] = x[c]
    BY <1>4, <1>10, <2>1
  <2>4. y = Append(x, b)
    <3>1. Append(x, b) \in Seq(Byte) /\ Len(Append(x, b)) = Len(x) + 1
      BY <1>2
    <3>2. \A c \in 1 .. Len(x) + 1 : y[c] = Append(x, b)[c]
      BY <1>2, <2>1, <2>2, <2>3
    <3> QED BY <1>4, <2>1, <3>1, <3>2
  <2> QED BY <1>11, <2>4 DEF n, t, Q, x, y
<1>12. CASE ~(Len(x) < LineMax)
  <2>1. Len(x) = LineMax /\ Len(y) = LineMax
    BY <1>2, <1>4, <1>6, <1>7, <1>12
  <2>2. \A c \in 1 .. LineMax : y[c] = x[c]
    BY <1>4, <1>10, <2>1
  <2>3. y = x
    BY <1>2, <1>4, <2>1, <2>2
  <2> QED BY <1>12, <2>3 DEF n, t, Q, x, y
<1> QED BY <1>11, <1>12

------------------------------------------------------------------------------
(* The invariant: what has been dealt with is the stream up to Position, and   *)
(* the line under construction is the text after its last end.                 *)

Item == [kind : Kind, text : Seq(Byte), query : BOOLEAN]

\* The bytes of this recv are the last ones recv returned.
StreamOK ==
    /\ input \in Seq(Byte) /\ buf \in Seq(Byte)
    /\ read \in 0 .. Len(input) /\ i \in 0 .. Len(buf) /\ Len(buf) <= read
    /\ \A k \in 1 .. Len(buf) : buf[k] = input[read - Len(buf) + k]
    /\ escaped \in BOOLEAN /\ handled \in Seq(Item)

\* serve_client's state says of the stream s what s says as a whole.
Follows(s) ==
    /\ RunStarts(s)
    /\ escaped <=> Len(s) \in Escapes(s)
    /\ line = Spelled(s, LineBefore(s, Len(s) + 1))
    /\ Len(handled) = Cardinality(Lines(s))
    /\ \A k \in 1 .. Len(handled) : handled[k] = Handled(Spelled(s, Line(s, k)))

LineInv == StreamOK /\ Follows(Taken)

\* What has been dealt with is a prefix of the input.
LEMMA TakenPrefix ==
    ASSUME StreamOK
    PROVE  /\ Position \in Nat /\ Position <= read /\ Position <= Len(input)
           /\ Taken \in Seq(Byte) /\ Len(Taken) = Position
           /\ \A j \in 1 .. Position : Taken[j] = input[j]
<1>1. /\ input \in Seq(Byte) /\ buf \in Seq(Byte) /\ Len(input) \in Nat /\ Len(buf) \in Nat
      /\ read \in 0 .. Len(input) /\ i \in 0 .. Len(buf) /\ Len(buf) <= read
  BY DEF StreamOK
<1>2. Position \in Nat /\ Position <= read /\ Position <= Len(input)
  BY <1>1 DEF Position
<1> HIDE DEF Position
<1> QED BY <1>1, <1>2 DEF Taken

\* Lines that have been handled stay what they were when a byte is added.
LEMMA LineSame ==
    ASSUME NEW s \in Seq(Byte), NEW b \in Byte, RunStarts(s), NEW k \in 1 .. Cardinality(Lines(s))
    PROVE  Spelled(Append(s, b), Line(Append(s, b), k)) = Spelled(s, Line(s, k))
<1> DEFINE t == Append(s, b)
<1>1. /\ Lines(s) \in SUBSET (1 .. Len(s)) /\ Lines(s) \in SUBSET Nat
      /\ IsFiniteSet(Lines(s)) /\ Len(s) \in Nat
  BY LinePlaces
<1>2. Nth(Lines(s), k) \in Lines(s)
  BY <1>1, NthRank
<1>3. Nth(Lines(t), k) = Nth(Lines(s), k)
  <2>1. CASE Lines(t) = Lines(s)
    BY <2>1
  <2>2. CASE Lines(t) = Lines(s) \cup {Len(s) + 1}
    <3>1. Len(s) + 1 \in Nat /\ \A y \in Lines(s) : y < Len(s) + 1
      BY <1>1
    <3>2. \A j \in 1 .. Cardinality(Lines(s)) : Nth(Lines(s) \cup {Len(s) + 1}, j) = Nth(Lines(s), j)
      BY <1>1, <3>1, NthAdded
    <3> QED BY <2>2, <3>2
  <2> QED BY <2>1, <2>2, LinesStep
<1>4. Line(t, k) = Line(s, k)
  <2>1. Nth(Lines(s), k) \in 1 .. Len(s) + 1
    BY <1>1, <1>2
  <2>2. LineBefore(t, Nth(Lines(s), k)) = LineBefore(s, Nth(Lines(s), k))
    BY <2>1, LineKept
  <2> QED BY <1>3, <2>2 DEF Line
<1>5. Line(s, k) \in SUBSET (1 .. Len(s))
  BY LinePlaces DEF Line
<1> QED BY <1>4, <1>5, SpelledKept

\* What a line is made of leaves a record of its kind, its text and whether it asks.
LEMMA HandledType ==
    ASSUME NEW l \in Seq(Byte)
    PROVE  Handled(l) \in Item
<1>1. SubSeq(l, 3, Len(l)) \in Seq(Byte)
  OBVIOUS
<1>2. CASE KindOf(l) = "command"
  BY <1>1, <1>2 DEF Handled, Item, Kind
<1>3. CASE KindOf(l) # "command"
  BY <1>3 DEF Handled, Item, Kind
<1> QED BY <1>2, <1>3

\* A byte of text, taken for itself or because it is escaped.
LEMMA FollowsText ==
    ASSUME NEW s \in Seq(Byte), NEW b \in Byte, Follows(s), IsText(s, b),
           line' = Keep(b), escaped' = FALSE, handled' = handled
    PROVE  Follows(Append(s, b))'
<1> DEFINE n == Len(s)
           t == Append(s, b)
           P == LineBefore(s, n + 1)
<1>1. /\ RunStarts(s) /\ line = Spelled(s, P) /\ Len(handled) = Cardinality(Lines(s))
      /\ \A k \in 1 .. Len(handled) : handled[k] = Handled(Spelled(s, Line(s, k)))
  BY DEF Follows
<1>2. n \in Nat /\ Len(t) = n + 1 /\ Len(t) + 1 = n + 2
  BY Appended
<1>3. ~IsEnd(s, b) /\ ~IsEscape(s, b)
  BY ByteKinds
<1>4. RunStarts(t)
  BY <1>1, RunStep
<1>5. Len(t) \notin Escapes(t)
  <2>1. Escapes(t) = Escapes(s)
    BY <1>1, <1>3, EscapesStep DEF IsEscape
  <2>2. Escapes(s) \subseteq 1 .. n /\ n + 1 \notin 1 .. n
    BY <1>2 DEF Escapes
  <2> QED BY <1>2, <2>1, <2>2
<1>6. line' = Spelled(t, LineBefore(t, Len(t) + 1))
  <2>1. LineBefore(t, n + 2) = P \cup {n + 1}
    BY <1>1, <1>3, LineGrows
  <2>2. P \in SUBSET (1 .. n)
    BY LinePlaces
  <2>3. Spelled(t, P \cup {n + 1}) = IF Len(line) < LineMax THEN Append(line, b) ELSE line
    BY <1>1, <2>2, SpelledAdded
  <2> QED BY <1>2, <2>1, <2>3 DEF Keep
<1>7. Lines(t) = Lines(s)
  BY <1>1, <1>3, LinesStep
<1>8. \A k \in 1 .. Len(handled) : handled[k] = Handled(Spelled(t, Line(t, k)))
  BY <1>1, LineSame
<1> HIDE DEF t
<1> QED BY <1>1, <1>4, <1>5, <1>6, <1>7, <1>8 DEF Follows, t

\* An ESC that is not escaped.
LEMMA FollowsEscape ==
    ASSUME NEW s \in Seq(Byte), NEW b \in Byte, Follows(s), IsEscape(s, b),
           line' = line, escaped' = TRUE, handled' = handled
    PROVE  Follows(Append(s, b))'
<1> DEFINE n == Len(s)
           t == Append(s, b)
           P == LineBefore(s, n + 1)
<1>1. /\ RunStarts(s) /\ line = Spelled(s, P) /\ Len(handled) = Cardinality(Lines(s))
      /\ \A k \in 1 .. Len(handled) : handled[k] = Handled(Spelled(s, Line(s, k)))
  BY DEF Follows
<1>2. n \in Nat /\ Len(t) = n + 1 /\ Len(t) + 1 = n + 2
  BY Appended
<1>3. ~IsEnd(s, b) /\ ~IsText(s, b)
  BY ByteKinds
<1>4. RunStarts(t)
  BY <1>1, RunStep
<1>5. Len(t) \in Escapes(t)
  BY <1>1, <1>2, EscapesStep DEF IsEscape
<1>6. line' = Spelled(t, LineBefore(t, Len(t) + 1))
  <2>1. LineBefore(t, n + 2) = P
    BY <1>1, <1>3, LineGrows
  <2>2. P \in SUBSET (1 .. n)
    BY LinePlaces
  <2>3. Spelled(t, P) = Spelled(s, P)
    BY <2>2, SpelledKept
  <2> QED BY <1>1, <1>2, <2>1, <2>3
<1>7. Lines(t) = Lines(s)
  BY <1>1, <1>3, LinesStep
<1>8. \A k \in 1 .. Len(handled) : handled[k] = Handled(Spelled(t, Line(t, k)))
  BY <1>1, LineSame
<1> HIDE DEF t
<1> QED BY <1>1, <1>4, <1>5, <1>6, <1>7, <1>8 DEF Follows, t

\* The end of a line: it is handled if it has any text, and the next one is empty.
LEMMA FollowsEnd ==
    ASSUME NEW s \in Seq(Byte), NEW b \in Byte, Follows(s), IsEnd(s, b), handled \in Seq(Item),
           line' = <<>>, escaped' = FALSE,
           handled' = IF line = <<>> THEN handled ELSE Append(handled, Handled(line))
    PROVE  Follows(Append(s, b))'
<1> DEFINE n == Len(s)
           t == Append(s, b)
           P == LineBefore(s, n + 1)
           c == Len(handled)
<1>1. /\ RunStarts(s) /\ line = Spelled(s, P) /\ c = Cardinality(Lines(s)) /\ c \in Nat
      /\ \A k \in 1 .. c : handled[k] = Handled(Spelled(s, Line(s, k)))
  BY DEF Follows
<1>2. n \in Nat /\ Len(t) = n + 1 /\ Len(t) + 1 = n + 2 /\ t \in Seq(Byte)
  BY Appended
<1>3. ~IsText(s, b) /\ ~IsEscape(s, b)
  BY ByteKinds
<1>4. RunStarts(t)
  BY <1>1, RunStep
<1>5. Len(t) \notin Escapes(t)
  <2>1. Escapes(t) = Escapes(s)
    BY <1>1, <1>3, EscapesStep DEF IsEscape
  <2>2. Escapes(s) \subseteq 1 .. n /\ n + 1 \notin 1 .. n
    BY <1>2 DEF Escapes
  <2> QED BY <1>2, <2>1, <2>2
<1>6. P \in SUBSET (1 .. n) /\ line \in Seq(Byte) /\ (line = <<>> <=> P = {})
  BY <1>1, LinePlaces, SpelledType
<1>7. line' = Spelled(t, LineBefore(t, Len(t) + 1))
  <2>1. LineBefore(t, Len(t) + 1) = {}
    BY <1>1, <1>2, LineGrows
  <2>2. Spelled(t, {}) = <<>>
    BY <1>2, SpelledType
  <2> QED BY <2>1, <2>2
<1>8. \A k \in 1 .. c : handled[k] = Handled(Spelled(t, Line(t, k)))
  BY <1>1, LineSame
<1>9. CASE line = <<>>
  <2>1. Lines(t) = Lines(s) /\ handled' = handled
    BY <1>1, <1>6, <1>9, LinesStep
  <2> HIDE DEF t
  <2> QED BY <1>1, <1>4, <1>5, <1>7, <1>8, <2>1 DEF Follows, t
<1>10. CASE line # <<>>
  <2>1. Lines(t) = Lines(s) \cup {n + 1}
    BY <1>1, <1>6, <1>10, LinesStep
  <2>2. Handled(line) \in Item
    BY <1>6, HandledType
  <2>3. /\ handled' = Append(handled, Handled(line)) /\ Len(handled') = c + 1
        /\ handled'[c + 1] = Handled(line)
        /\ \A k \in 1 .. c : handled'[k] = handled[k]
    BY <1>10, <2>2
  <2>4. /\ Cardinality(Lines(t)) = c + 1
        /\ Nth(Lines(t), c + 1) = n + 1
    <3>1. /\ Lines(s) \in SUBSET (1 .. n) /\ Lines(s) \in SUBSET Nat /\ IsFiniteSet(Lines(s))
      BY LinePlaces
    <3>2. n + 1 \in Nat /\ \A y \in Lines(s) : y < n + 1
      BY <1>2, <3>1
    <3> QED BY <1>1, <2>1, <3>1, <3>2, NthAdded
  <2>5. Spelled(t, Line(t, c + 1)) = line
    <3>1. n + 1 \in 1 .. n + 1
      BY <1>2
    <3>2. LineBefore(t, n + 1) = P
      BY <1>1, <3>1, LineKept
    <3>3. Spelled(t, P) = Spelled(s, P)
      BY <1>6, SpelledKept
    <3> QED BY <1>1, <2>4, <3>2, <3>3 DEF Line
  <2>6. \A k \in 1 .. Len(handled') : handled'[k] = Handled(Spelled(t, Line(t, k)))
    BY <1>1, <1>8, <2>3, <2>5
  <2> HIDE DEF t
  <2> QED BY <1>1, <1>4, <1>5, <1>7, <2>3, <2>4, <2>6 DEF Follows, t
<1> QED BY <1>9, <1>10

------------------------------------------------------------------------------
(* The steps of the gateway *)

\* The empty stream: that of a connection that has just been accepted.
LEMMA NothingYet ==
    /\ <<>> \in Seq(Byte) /\ Len(<<>>) = 0 /\ RunStarts(<<>>) /\ Escapes(<<>>) = {}
    /\ Spelled(<<>>, LineBefore(<<>>, Len(<<>>) + 1)) = <<>>
    /\ Cardinality(Lines(<<>>)) = 0
<1>1. <<>> \in Seq(Byte) /\ Len(<<>>) = 0
  OBVIOUS
<1>2. RunStarts(<<>>)
  BY <1>1 DEF RunStarts
<1>3. Escapes(<<>>) = {} /\ Ends(<<>>) = {} /\ Text(<<>>) = {}
  BY <1>1 DEF Escapes, Ends, Text
<1>4. \A e : LineBefore(<<>>, e) = {}
  BY <1>3 DEF LineBefore
<1>5. Lines(<<>>) = {}
  BY <1>3 DEF Lines
<1>6. {} \in SUBSET (1 .. Len(<<>>))
  OBVIOUS
<1>7. Spelled(<<>>, {}) = <<>>
  BY <1>1, <1>6, SpelledType
<1> QED BY <1>1, <1>2, <1>3, <1>4, <1>5, <1>7, FS_EmptySet

\* Bytes that arrive, or that recv returns, change nothing about those dealt with.
LEMMA FollowsUnmoved ==
    ASSUME Follows(Taken), Taken' = Taken, UNCHANGED <<line, escaped, handled>>
    PROVE  Follows(Taken)'
<1> HIDE DEF Taken
<1> QED BY DEF Follows

\* Bytes the client writes have not been dealt with yet.
LEMMA LineClientSends ==
    ASSUME LineInv, NEW b \in Byte, ClientSends(b)
    PROVE  LineInv'
<1>1. /\ input' = Append(input, b) /\ UNCHANGED <<read, buf, i, line, escaped, handled>>
      /\ StreamOK
  BY DEF ClientSends, LineInv
<1>2. /\ input' \in Seq(Byte) /\ Len(input) \in Nat /\ Len(input') = Len(input) + 1
      /\ \A j \in 1 .. Len(input) : input'[j] = input[j]
  BY <1>1 DEF StreamOK
<1>3. StreamOK'
  <2>1. ASSUME NEW k \in 1 .. Len(buf) PROVE buf[k] = input'[read - Len(buf) + k]
    <3>1. read - Len(buf) + k \in 1 .. Len(input) /\ buf[k] = input[read - Len(buf) + k]
      BY <1>1, <1>2 DEF StreamOK
    <3> QED BY <1>2, <3>1
  <2>2. read \in 0 .. Len(input')
    BY <1>1, <1>2 DEF StreamOK
  <2> QED BY <1>1, <1>2, <2>1, <2>2 DEF StreamOK
<1>4. Taken' = Taken
  <2>1. Position' = Position /\ Position \in Nat /\ Position <= Len(input)
    BY <1>1, TakenPrefix DEF Position
  <2>2. input \in Seq(Byte)
    BY <1>1 DEF StreamOK
  <2> HIDE DEF Position
  <2>3. SubSeq(input', 1, Position) = SubSeq(input, 1, Position)
    BY <1>2, <2>1, <2>2
  <2> QED BY <2>1, <2>3 DEF Taken
<1> QED BY <1>1, <1>3, <1>4, FollowsUnmoved DEF LineInv

\* Nor have those recv has only just returned, however many.
LEMMA LineRecv ==
    ASSUME LineInv, NEW n \in 1 .. BufMax, Recv(n)
    PROVE  LineInv'
<1>1. /\ i = Len(buf) /\ read + n <= Len(input) /\ i' = 0 /\ read' = read + n
      /\ buf' = SubSeq(input, read + 1, read + n)
      /\ UNCHANGED <<input, line, escaped, handled>>
      /\ StreamOK
  BY DEF Recv, LineInv
<1>2. /\ input \in Seq(Byte) /\ buf \in Seq(Byte) /\ Len(input) \in Nat /\ Len(buf) \in Nat
      /\ read \in Nat /\ n \in Nat
  BY <1>1, LineAssumption DEF StreamOK
<1>3. /\ buf' \in Seq(Byte) /\ Len(buf') = n
      /\ \A k \in 1 .. n : buf'[k] = input[read + k]
  BY <1>1, <1>2
<1>4. StreamOK'
  <2>1. \A k \in 1 .. Len(buf') : buf'[k] = input[read' - Len(buf') + k]
    BY <1>1, <1>2, <1>3
  <2>2. read' \in 0 .. Len(input)
    BY <1>1, <1>2
  <2>3. i' \in 0 .. Len(buf')
    BY <1>1, <1>2, <1>3
  <2>4. Len(buf') <= read'
    BY <1>1, <1>2, <1>3
  <2> QED BY <1>1, <1>3, <2>1, <2>2, <2>3, <2>4 DEF StreamOK
<1>5. Taken' = Taken
  <2>1. Position' = Position
    BY <1>1, <1>2, <1>3 DEF Position
  <2> HIDE DEF Position
  <2> QED BY <1>1, <2>1 DEF Taken
<1> QED BY <1>1, <1>4, <1>5, FollowsUnmoved DEF LineInv

\* The step of serve_client's loop, escape, terminator or text, is the step of the stream.
LEMMA LineTakeByte == LineInv /\ TakeByte => LineInv'
<1> SUFFICES ASSUME LineInv, TakeByte PROVE LineInv'
    OBVIOUS
<1>1. /\ i < Len(buf) /\ i' = i + 1 /\ UNCHANGED <<input, read, buf>>
      /\ StreamOK /\ Follows(Taken)
  BY DEF TakeByte, LineInv
<1>2. /\ input \in Seq(Byte) /\ buf \in Seq(Byte) /\ Len(input) \in Nat /\ Len(buf) \in Nat
      /\ read \in 0 .. Len(input) /\ i \in Nat /\ Len(buf) <= read
      /\ handled \in Seq(Item) /\ escaped \in BOOLEAN
  BY <1>1 DEF StreamOK
<1>3. PICK s \in Seq(Byte) : s = Taken
  BY <1>1, TakenPrefix
<1>4. PICK p \in Nat : p = Position /\ Len(s) = p /\ \A j \in 1 .. p : s[j] = input[j]
  BY <1>1, <1>3, TakenPrefix
<1>5. i + 1 \in 1 .. Len(buf)
  BY <1>1, <1>2
<1>6. PICK b \in Byte : b = buf[i + 1]
  BY <1>2, <1>5
<1>7. Position' = p + 1 /\ p + 1 <= Len(input) /\ input[p + 1] = b
  <2>1. b = input[read - Len(buf) + (i + 1)]
    BY <1>1, <1>5, <1>6 DEF StreamOK
  <2>2. p = read - (Len(buf) - i) /\ Position' = read - (Len(buf) - (i + 1))
    BY <1>1, <1>4 DEF Position
  <2>3. read - Len(buf) + (i + 1) = p + 1
    BY <1>2, <2>2
  <2>4. Position' = p + 1 /\ p + 1 <= Len(input)
    BY <1>1, <1>2, <2>2
  <2> QED BY <2>1, <2>3, <2>4
<1>8. Taken' = Append(s, b)
  <2>1. Taken' = SubSeq(input, 1, p + 1)
    BY <1>1, <1>7 DEF Taken
  <2>2. SubSeq(input, 1, p + 1) \in Seq(Byte) /\ Len(SubSeq(input, 1, p + 1)) = p + 1
    BY <1>2, <1>7
  <2>3. \A j \in 1 .. p + 1 : SubSeq(input, 1, p + 1)[j] = input[j]
    BY <1>2, <1>7
  <2>4. \A j \in 1 .. p + 1 : Append(s, b)[j] = input[j]
    BY <1>4, <1>7, Appended
  <2>5. Append(s, b) \in Seq(Byte) /\ Len(Append(s, b)) = p + 1
    BY <1>4, Appended
  <2>6. SubSeq(input, 1, p + 1) = Append(s, b)
    BY <2>2, <2>3, <2>4, <2>5
  <2> QED BY <2>1, <2>6
<1>9. Follows(s) /\ (escaped <=> p \in Escapes(s))
  BY <1>1, <1>3, <1>4 DEF Follows
<1>10. \/ /\ IsText(s, b) /\ line' = Keep(b) /\ escaped' = FALSE /\ handled' = handled
       \/ /\ IsEscape(s, b) /\ line' = line /\ escaped' = TRUE /\ handled' = handled
       \/ /\ IsEnd(s, b) /\ line' = <<>> /\ escaped' = FALSE
          /\ handled' = IF line = <<>> THEN handled ELSE Append(handled, Handled(line))
  <2>1. CASE escaped
    BY <1>4, <1>6, <1>9, <2>1 DEF TakeByte, IsText
  <2>2. CASE ~escaped /\ b = "ESC"
    BY <1>4, <1>6, <1>9, <2>2 DEF TakeByte, IsEscape, Terminator
  <2>3. CASE ~escaped /\ b \in Terminator
    BY <1>2, <1>4, <1>6, <1>9, <2>3 DEF TakeByte, IsEnd, Terminator
  <2>4. CASE ~escaped /\ b \notin Terminator \cup {"ESC"}
    BY <1>2, <1>4, <1>6, <1>9, <2>4 DEF TakeByte, IsText
  <2> QED BY <2>1, <2>2, <2>3, <2>4
<1>11. Follows(Append(s, b))'
  <2>1. CASE IsText(s, b) /\ line' = Keep(b) /\ escaped' = FALSE /\ handled' = handled
    BY <1>9, <2>1, FollowsText
  <2>2. CASE IsEscape(s, b) /\ line' = line /\ escaped' = TRUE /\ handled' = handled
    BY <1>9, <2>2, FollowsEscape
  <2>3. CASE /\ IsEnd(s, b) /\ line' = <<>> /\ escaped' = FALSE
             /\ handled' = IF line = <<>> THEN handled ELSE Append(handled, Handled(line))
    BY <1>2, <1>9, <2>3, FollowsEnd
  <2> QED BY <1>10, <2>1, <2>2, <2>3
<1>12. Follows(Taken)'
  BY <1>8, <1>11 DEF Follows
<1>13. StreamOK'
  <2>1. line \in Seq(Byte)
    <3>1. line = Spelled(s, LineBefore(s, Len(s) + 1))
      BY <1>9 DEF Follows
    <3> QED BY <3>1, LinePlaces, SpelledType
  <2>2. handled' \in Seq(Item)
    <3>1. Append(handled, Handled(line)) \in Seq(Item)
      BY <1>2, <2>1, HandledType
    <3>2. handled' = handled \/ handled' = Append(handled, Handled(line))
      BY <1>10
    <3> QED BY <1>2, <3>1, <3>2
  <2>3. i' \in 0 .. Len(buf')
    BY <1>1, <1>2
  <2>4. escaped' \in BOOLEAN
    BY <1>10
  <2> QED BY <1>1, <2>2, <2>3, <2>4 DEF StreamOK
<1> QED BY <1>12, <1>13 DEF LineInv

\* serve_client starts over for every connection.
LEMMA LineServeClient == ServeClient => LineInv'
<1> SUFFICES ASSUME ServeClient PROVE LineInv'
    OBVIOUS
<1>1. /\ input' = <<>> /\ read' = 0 /\ buf' = <<>> /\ i' = 0
      /\ line' = <<>> /\ escaped' = FALSE /\ handled' = <<>>
  BY DEF ServeClient
<1>2. StreamOK'
  <2>1. (\A S : <<>> \in Seq(S)) /\ Len(<<>>) = 0
    OBVIOUS
  <2>2. /\ input' \in Seq(Byte) /\ buf' \in Seq(Byte) /\ handled' \in Seq(Item)
        /\ Len(input') = 0 /\ Len(buf') = 0
    BY <1>1, <2>1
  <2>3. \A k \in 1 .. Len(buf') : FALSE
    BY <2>2
  <2>4. read' \in 0 .. Len(input') /\ i' \in 0 .. Len(buf') /\ Len(buf') <= read'
    BY <1>1, <2>2
  <2>5. escaped' \in BOOLEAN
    BY <1>1
  <2> QED BY <2>2, <2>3, <2>4, <2>5 DEF StreamOK
<1>3. Taken' = <<>>
  <2>1. Position' = 0
    <3>1. Len(<<>>) = 0
      OBVIOUS
    <3>2. read' = 0 /\ Len(buf') = 0 /\ i' = 0
      BY <1>1, <3>1
    <3> QED BY <3>2 DEF Position
  <2> QED BY <1>1, <2>1 DEF Taken
<1>4. Follows(Taken)'
  BY <1>1, <1>3, NothingYet DEF Follows
<1> QED BY <1>2, <1>4 DEF LineInv

\* However the client writes and recv cuts, the gateway's state follows the stream.
LEMMA LineInvariant == Spec => []LineInv
<1>1. Init => LineInv
  <2> SUFFICES ASSUME Init PROVE LineInv
      OBVIOUS
  <2>1. StreamOK
    <3>1. (\A S : <<>> \in Seq(S)) /\ Len(<<>>) = 0
      OBVIOUS
    <3>2. /\ input \in Seq(Byte) /\ buf \in Seq(Byte) /\ handled \in Seq(Item)
          /\ Len(input) = 0 /\ Len(buf) = 0
      BY <3>1 DEF Init
    <3>3. \A k \in 1 .. Len(buf) : FALSE
      BY <3>2
    <3>4. read \in 0 .. Len(input) /\ i \in 0 .. Len(buf) /\ Len(buf) <= read
      BY <3>2 DEF Init
    <3>5. escaped \in BOOLEAN
      BY DEF Init
    <3> QED BY <3>2, <3>3, <3>4, <3>5 DEF StreamOK
  <2>2. Taken = <<>>
    <3>1. Position = 0
      <4>1. Len(<<>>) = 0
        OBVIOUS
      <4>2. read = 0 /\ Len(buf) = 0 /\ i = 0
        BY <4>1 DEF Init
      <4> QED BY <4>2 DEF Position
    <3> QED BY <3>1 DEF Init, Taken
  <2>3. Follows(Taken)
    BY <2>2, NothingYet DEF Init, Follows
  <2> QED BY <2>1, <2>2, <2>3 DEF LineInv
<1>2. LineInv /\ [Next]_vars => LineInv'
  <2> SUFFICES ASSUME LineInv, [Next]_vars PROVE LineInv'
      OBVIOUS
  <2>1. ASSUME NEW b \in Byte, ClientSends(b) PROVE LineInv'
    BY <2>1, LineClientSends
  <2>2. ASSUME NEW n \in 1 .. BufMax, Recv(n) PROVE LineInv'
    BY <2>2, LineRecv
  <2>3. CASE UNCHANGED vars
    BY <2>3 DEF vars, LineInv, StreamOK, Follows, Taken, Position
  <2> QED BY <2>1, <2>2, <2>3, LineTakeByte, LineServeClient DEF Next
<1> QED BY <1>1, <1>2, PTL DEF Spec

\* The first m elements of a sequence.
LEMMA FirstOnes ==
    ASSUME NEW S, NEW s \in Seq(S), NEW m \in 0 .. Len(s)
    PROVE  /\ SubSeq(s, 1, m) \in Seq(S) /\ Len(SubSeq(s, 1, m)) = m
           /\ \A j \in 1 .. m : SubSeq(s, 1, m)[j] = s[j]
  OBVIOUS

\* The last element of a sequence heads its reverse.
LEMMA LastOne ==
    ASSUME NEW S, NEW s \in Seq(S), s # <<>>
    PROVE  /\ Reverse(s) \in Seq(S) /\ Len(Reverse(s)) = Len(s)
           /\ Reverse(s)[1] = s[Len(s)]
<1> DEFINE n == Len(s)
<1>1. n \in Nat /\ n > 0 /\ \A j \in 1 .. n : s[j] \in S
  OBVIOUS
<1>2. Reverse(s) = [j \in 1 .. n |-> s[(n - j) + 1]]
  BY DEF Reverse
<1> HIDE DEF n
<1>3. \A j \in 1 .. n : s[(n - j) + 1] \in S
  <2>1. \A j \in 1 .. n : (n - j) + 1 \in 1 .. n
    BY <1>1
  <2> QED BY <1>1, <2>1
<1>4. Reverse(s) \in Seq(S) /\ Len(Reverse(s)) = n
  BY <1>1, <1>2, <1>3
<1>5. 1 \in 1 .. n /\ (n - 1) + 1 = n
  BY <1>1
<1>6. Reverse(s)[1] = s[n]
  BY <1>2, <1>5
<1> QED BY <1>4, <1>6 DEF n

\* What handle_line makes of a line, read off its first two bytes and its last.
LEMMA HandledMeans ==
    ASSUME NEW l \in Seq(Byte), l # <<>>
    PROVE  Handled(l) = IF IsPrefix(<<"+", "+">>, l)
                        THEN [kind |-> "command", text |-> SubSeq(l, 3, Len(l)), query |-> FALSE]
                        ELSE [kind |-> "data", text |-> l, query |-> IsSuffix(<<"?">>, l)]
<1> DEFINE pp == <<"+", "+">>
           q  == <<"?">>
           n  == Len(l)
<1>1. n \in Nat \ {0} /\ \A j \in 1 .. n : l[j] \in Byte
  OBVIOUS
<1>2. "+" \in Byte /\ "?" \in Byte
  BY DEF Byte
<1>3. pp \in Seq(Byte) /\ Len(pp) = 2 /\ pp[1] = "+" /\ pp[2] = "+"
  BY <1>2
<1>4. q \in Seq(Byte) /\ Len(q) = 1 /\ q[1] = "?"
  BY <1>2
<1> HIDE DEF pp, q
<1>5. IsPrefix(pp, l) <=> n >= 2 /\ l[1] = "+" /\ l[2] = "+"
  <2> SUFFICES ASSUME n >= 2 PROVE SubSeq(pp, 1, 2) = SubSeq(l, 1, 2) <=> l[1] = "+" /\ l[2] = "+"
    BY <1>1, <1>3 DEF IsPrefix
  <2> DEFINE x == SubSeq(pp, 1, 2)
             y == SubSeq(l, 1, 2)
  <2>0. 2 \in 0 .. Len(pp) /\ 2 \in 0 .. n
    BY <1>1, <1>3
  <2>1. x \in Seq(Byte) /\ Len(x) = 2 /\ x[1] = "+" /\ x[2] = "+"
    BY <1>3, <2>0, FirstOnes
  <2>2. y \in Seq(Byte) /\ Len(y) = 2 /\ y[1] = l[1] /\ y[2] = l[2]
    BY <2>0, FirstOnes
  <2> HIDE DEF x, y
  <2>3. x = y <=> \A j \in 1 .. 2 : x[j] = y[j]
    BY <2>1, <2>2
  <2>4. x = y <=> x[1] = y[1] /\ x[2] = y[2]
    BY <2>3
  <2> QED BY <2>1, <2>2, <2>4 DEF x, y
<1>6. IsSuffix(q, l) <=> l[n] = "?"
  <2> DEFINE rq == Reverse(q)
             rl == Reverse(l)
  <2>1. q # <<>>
    BY <1>4
  <2>2. rq \in Seq(Byte) /\ Len(rq) = 1 /\ rq[1] = "?"
    BY <1>4, <2>1, LastOne
  <2>3. rl \in Seq(Byte) /\ Len(rl) = n /\ rl[1] = l[n]
    BY LastOne
  <2> HIDE DEF rq, rl
  <2>4. IsPrefix(rq, rl) <=> SubSeq(rq, 1, 1) = SubSeq(rl, 1, 1)
    BY <1>1, <2>2, <2>3 DEF IsPrefix
  <2> DEFINE x == SubSeq(rq, 1, 1)
             y == SubSeq(rl, 1, 1)
  <2>0. 1 \in 0 .. Len(rq) /\ 1 \in 0 .. Len(rl)
    BY <1>1, <2>2, <2>3
  <2>5. x \in Seq(Byte) /\ Len(x) = 1 /\ x[1] = "?"
    BY <2>0, <2>2, FirstOnes
  <2>6. y \in Seq(Byte) /\ Len(y) = 1 /\ y[1] = l[n]
    BY <2>0, <2>3, FirstOnes
  <2> HIDE DEF x, y
  <2>7. x = y <=> \A j \in 1 .. 1 : x[j] = y[j]
    BY <2>5, <2>6
  <2>8. x = y <=> x[1] = y[1]
    BY <2>7
  <2> QED BY <2>4, <2>5, <2>6, <2>8 DEF IsSuffix, rq, rl, x, y
<1>7. KindOf(l) = IF IsPrefix(pp, l) THEN "command" ELSE "data"
  BY <1>1, <1>5 DEF KindOf
<1>8. (Last(l) = "?") = IsSuffix(q, l)
  <2>1. Last(l) = l[n]
    BY DEF Last
  <2>2. IsSuffix(q, l) \in BOOLEAN
    BY DEF IsSuffix, IsPrefix
  <2> QED BY <1>6, <2>1, <2>2
<1>9. Handled(l) = IF IsPrefix(pp, l)
                   THEN [kind |-> "command", text |-> SubSeq(l, 3, Len(l)), query |-> FALSE]
                   ELSE [kind |-> "data", text |-> l, query |-> IsSuffix(q, l)]
  BY <1>7, <1>8 DEF Handled
<1> QED BY <1>9 DEF pp, q

\* Whatever bytes the clients send and however recv cuts them, the lines serve_client hands
\* on are those of the stream, in order, each cut to LINE_MAX, commands told from data.
THEOREM HandlesEveryLine == Spec => []HandlesItsLines
<1>1. LineInv => HandlesItsLines
  <2> SUFFICES ASSUME LineInv PROVE HandlesItsLines
      OBVIOUS
  <2> DEFINE s == Taken
  <2>1. s \in Seq(Byte) /\ Follows(s)
    BY TakenPrefix DEF LineInv
  <2> HIDE DEF s
  <2>2. /\ Len(handled) = Cardinality(Lines(s))
        /\ \A k \in 1 .. Len(handled) : handled[k] = Handled(Spelled(s, Line(s, k)))
    BY <2>1 DEF Follows
  <2>3. ASSUME NEW k \in 1 .. Len(handled)
        PROVE  LET text == Spelled(s, Line(s, k))
                   rest == SubSeq(text, 3, Len(text))
               IN  IF IsPrefix(<<"+", "+">>, text)
                   THEN handled[k] = [kind |-> "command", text |-> rest, query |-> FALSE]
                   ELSE handled[k] = [kind |-> "data", text |-> text, query |-> IsSuffix(<<"?">>, text)]
    <3> DEFINE text == Spelled(s, Line(s, k))
    <3>1. Nth(Lines(s), k) \in Lines(s)
      BY <2>1, <2>2, LinePlaces, NthRank
    <3>2. Line(s, k) # {} /\ Line(s, k) \in SUBSET (1 .. Len(s))
      BY <2>1, <3>1, LinePlaces DEF Line, Lines
    <3>3. text \in Seq(Byte) /\ text # <<>>
      BY <2>1, <3>2, SpelledType
    <3> HIDE DEF text
    <3>4. handled[k] = Handled(text)
      BY <2>2 DEF text
    <3> QED BY <3>3, <3>4, HandledMeans DEF text
  <2> QED BY <2>2, <2>3 DEF HandlesItsLines, s
<1> QED BY <1>1, LineInvariant, PTL
=============================================================================
