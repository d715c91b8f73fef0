------------------------------ MODULE RtRoutines ------------------------------
(* The runtime the programs are linked with instead of a C library: division in  *)
(* SH-3 divide steps, block moves, the formatter; and the deadline arithmetic of  *)
(* the chip driver.  Each routine is an operator that does what the code does on  *)
(* words of Width bits, 32 in the code.                                          *)
EXTENDS Integers, Sequences

CONSTANT Width

ASSUME WidthAssumption == Width \in Nat \ {0, 1}

\* The powers of two, by doubling.
Power2[k \in 0 .. Width] == IF k = 0 THEN 1 ELSE 2 * Power2[k - 1]

Span == Power2[Width]
Word == 0 .. Span - 1
Wrap(v)   == v % Span
Signed(v) == IF v < Span \div 2 THEN v ELSE v - Span

------------------------------------------------------------------------------
(* divide.s *)

\* The two instructions of a divide step: num and rem are the dividend's and the remainder's
\* register, q and t the status bits; M is 0 throughout since the divisor is taken unsigned.
Rotcl(s) ==
    [num |-> Wrap(2 * s.num + s.t), rem |-> s.rem, q |-> s.q, t |-> s.num \div (Span \div 2)]

Div1(s, d) ==
    LET shifted == Wrap(2 * s.rem + s.t)
        top     == s.rem \div (Span \div 2)
        sum     == IF s.q = 0 THEN shifted - d ELSE shifted + d
        q       == (top + IF sum \in Word THEN 0 ELSE 1) % 2
    IN  [num |-> s.num, rem |-> Wrap(sum), q |-> q, t |-> 1 - q]

\* mov #0 / div0u, then Width times rotcl, div1: the registers after each of them.
Steps(n, d) ==
    LET R[k \in 0 .. Width] ==
            IF k = 0 THEN [num |-> n, rem |-> 0, q |-> 0, t |-> 0] ELSE Div1(Rotcl(R[k - 1]), d)
    IN  R

\* Mutant: the last quotient bit stays in T.
QuotientUnrotated(n, d) == Steps(n, d)[Width].num

\* A last rotcl brings the last quotient bit in from T.
Quotient(n, d) == Rotcl(Steps(n, d)[Width]).num

udivsi3(n, d) == IF d = 0 THEN 0 ELSE Quotient(n, d)

Negative(v)  == v >= Span \div 2
Magnitude(v) == IF Negative(v) THEN Wrap(-v) ELSE v

sdivsi3(n, d) ==
    LET q == Quotient(Magnitude(n), Magnitude(d)) IN
    IF d = 0 THEN 0 ELSE IF Negative(n) # Negative(d) THEN Wrap(-q) ELSE q

umodsi3(n, d) == IF d = 0 THEN 0 ELSE Wrap(n - udivsi3(n, d) * d)
modsi3(n, d)  == IF d = 0 THEN 0 ELSE Wrap(n - sdivsi3(n, d) * d)

------------------------------------------------------------------------------
(* crt.c *)

\* The order memmove moves its bytes in: from the end when the destination is behind.
MoveOrder(dst, src, n) == [k \in 1 .. n |-> IF dst < src THEN k - 1 ELSE n - k]

\* One byte moved.
Moved(mem, to, from) == [mem EXCEPT ![to] = mem[from]]

memmove(mem, dst, src, n) ==
    LET order == MoveOrder(dst, src, n)
        M[k \in 0 .. n] ==
            IF k = 0 THEN mem ELSE Moved(M[k - 1], dst + order[k], src + order[k])
    IN  IF dst = src THEN mem ELSE M[n]

\* rt_wcscpy_n: the strings end before the "nul" that a C string ends with.
wcscpy_n(dst, src) ==
    LET n == IF Len(src) + 1 < Len(dst) THEN Len(src) ELSE Len(dst) - 1 IN
    IF dst = <<>> THEN dst
    ELSE [k \in 1 .. Len(dst) |-> IF k <= n THEN src[k] ELSE IF k = n + 1 THEN "nul" ELSE dst[k]]

------------------------------------------------------------------------------
(* fmt.c: a sink is the caller's buffer and the characters produced so far *)

put(s, ch) ==
    LET shown == IF s.narrow /\ ch = "wide" THEN "?" ELSE ch
    IN  [buf |-> IF s.len + 1 < Len(s.buf) THEN [s.buf EXCEPT ![s.len + 1] = shown] ELSE s.buf,
         len |-> s.len + 1, narrow |-> s.narrow]

\* Mutant: the end is where the text would have ended.
finishUnbounded(s) ==
    IF s.len < Len(s.buf) THEN [s EXCEPT !.buf[s.len + 1] = "nul"] ELSE s

finish(s) ==
    IF s.buf = <<>> THEN s
    ELSE LET end == IF s.len < Len(s.buf) THEN s.len ELSE Len(s.buf) - 1
         IN  [buf |-> [s.buf EXCEPT ![end + 1] = "nul"], len |-> s.len, narrow |-> s.narrow]

Digit == <<"0", "1", "2", "3", "4", "5", "6", "7", "8", "9", "a", "b", "c", "d", "e", "f">>

\* One turn of the loop in digits, which ends when the value is used up; division is the
\* runtime's own.
NextDigit(s, base) ==
    IF s.v = 0 /\ s.text # <<>> THEN s
    ELSE [v |-> udivsi3(s.v, base), text |-> <<Digit[umodsi3(s.v, base) + 1]>> \o s.text]

\* Most significant digit first, as emit_number puts them.  A word has no more digits than bits.
digits(v, base) ==
    LET D[k \in 0 .. Width] ==
            IF k = 0 THEN [v |-> v, text |-> <<>>] ELSE NextDigit(D[k - 1], base)
    IN  D[Width].text

pad(count, ch) == [k \in 1 .. IF count > 0 THEN count ELSE 0 |-> ch]

\* emit_number, emit_str and emit_wstr as the characters they put, in order.
emit_number(v, base, negative, f) ==
    LET text  == digits(v, base)
        sign  == IF negative THEN <<"-">> ELSE <<>>
        count == f.width - Len(sign \o text)
    IN  IF f.left THEN sign \o text \o pad(count, "space")
        ELSE IF f.zero THEN sign \o pad(count, "0") \o text
        ELSE pad(count, "space") \o sign \o text

emit_str(str, f) ==
    LET fill == pad(f.width - Len(str), "space") IN IF f.left THEN str \o fill ELSE fill \o str

DigitOf(ch) == CHOOSE k \in 0 .. 15 : Digit[k + 1] = ch

\* The loops after a "%": flags as long as there are any, a width, an "l" that says nothing.
Mark(p, ch) ==
    CASE ch = "-"             -> [p EXCEPT !.left = TRUE]
      [] ch = "0" /\ p.flags  -> [p EXCEPT !.zero = TRUE]
      [] ch = "l"             -> p
      [] OTHER -> [p EXCEPT !.width = 10 * p.width + DigitOf(ch), !.flags = FALSE]

NoMarks == [left |-> FALSE, zero |-> FALSE, width |-> 0, flags |-> TRUE]

Parsed(marks) ==
    LET M[k \in 0 .. Len(marks)] == IF k = 0 THEN NoMarks ELSE Mark(M[k - 1], marks[k])
    IN  M[Len(marks)]

\* One element of a format string with its argument: a character, or a conversion with the
\* marks between "%" and its letter; "end" if the format breaks off before the letter.
emit(f) ==
    LET p == Parsed(f.marks) IN
    CASE f.conv = "literal" -> f.text
      [] f.conv = "d" -> emit_number(IF Negative(f.arg) THEN Wrap(-(Signed(f.arg) + 1)) + 1 ELSE f.arg,
                                     10, Negative(f.arg), p)
      [] f.conv \in {"u", "x"} -> emit_number(f.arg, IF f.conv = "u" THEN 10 ELSE 16, FALSE, p)
      [] f.conv = "p" -> <<"0", "x">> \o emit_number(f.arg, 16, FALSE,
                                                    [width |-> 8, left |-> FALSE, zero |-> TRUE])
      [] f.conv = "c" -> <<f.text[1]>>
      [] f.conv = "s" -> emit_str(f.text, p)
      [] f.conv = "%" -> <<"%">>
      [] f.conv = "end" -> <<>>
      [] OTHER -> <<"%", f.conv>>

\* The characters of a format, element by element.
Produced(fmt) ==
    LET T[k \in 0 .. Len(fmt)] == IF k = 0 THEN <<>> ELSE T[k - 1] \o emit(fmt[k])
    IN  T[Len(fmt)]

PutAll(sink, text) ==
    LET P[k \in 0 .. Len(text)] == IF k = 0 THEN sink ELSE put(P[k - 1], text[k])
    IN  P[Len(text)]

format(buf, narrow, fmt) ==
    finish(PutAll([buf |-> buf, len |-> 0, narrow |-> narrow], Produced(fmt)))

------------------------------------------------------------------------------
(* tnt4882.c *)

\* Mutant: the clock is compared with the deadline as it stands.
deadline_expired_unsigned(d, now) == d.enabled /\ now >= d.at

deadline_start(now, timeout_ms) == [enabled |-> timeout_ms # 0, at |-> Wrap(now + timeout_ms)]
deadline_expired(d, now) == d.enabled /\ Signed(Wrap(now - d.at)) >= 0
==============================================================================
