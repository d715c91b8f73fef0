-------------------------------- MODULE RtCalls --------------------------------
(* One call of one routine of RtRoutines, on any of its inputs, and what the     *)
(* routine promises, said without its loops.                                     *)
EXTENDS RtRoutines

CONSTANTS
    MemSize,     \* bytes of memory moved about
    Letters,     \* characters of strings
    Texts,       \* strings copied
    Caps,        \* sizes of the caller's buffers
    Formats      \* format strings with their arguments

\* The characters there are: those of strings, those the formatter adds, and what a buffer
\* holds before.
Char ==
    Letters \cup {Digit[k] : k \in DOMAIN Digit} \cup {"space", "-", "%", "x", "?", "nul", "old"}

Kinds == {"literal", "d", "u", "x", "p", "c", "s", "%", "end"} \cup Letters

\* What can stand between "%" and the letter: flags, figures and an "l", in this order.
Marks ==
    {m \in Seq({Digit[k] : k \in 1 .. 10} \cup {"-", "l"}) :
        \A j \in DOMAIN m : \A i \in 1 .. j - 1 : m[i] # "l" /\ (m[j] = "-" => m[i] \in {"-", "0"})}

\* An element of a format; "c" has a character.  "d" stands for %i too, "x" for %X with its
\* upper-case figures, "s" for %S; the other letters name no conversion.
Element ==
    {f \in [conv : Kinds, arg : Word, text : Seq(Char), marks : Marks] : f.conv = "c" => f.text # <<>>}

ASSUME RtCallsAssumption ==
    /\ MemSize \in Nat
    /\ Texts \subseteq Seq(Char)
    /\ Caps \subseteq Nat
    /\ Formats \subseteq Seq(Element)
    /\ \A fmt \in Formats : \A k \in 1 .. Len(fmt) - 1 : fmt[k].conv # "end"

VARIABLES
    call,        \* the routine called and its arguments
    answer       \* what it gave; empty before

rtVars == <<call, answer>>

NoCall == call = <<"none">> /\ answer = <<>>

RtInit ==
    /\ answer = <<>>
    /\ \/ \E n, d \in Word : call = <<"divide", n, d>>
       \/ \E dst, src, n \in 0 .. MemSize :
             dst + n <= MemSize /\ src + n <= MemSize /\ call = <<"move", dst + 1, src + 1, n>>
       \/ \E cap \in Caps, text \in Texts : call = <<"copy", cap, text>>
       \/ \E cap \in Caps, narrow \in BOOLEAN, fmt \in Formats : call = <<"format", cap, narrow, fmt>>
       \/ \E now, timeout, elapsed \in Word : call = <<"deadline", now, timeout, elapsed>>

Memory == [k \in 1 .. MemSize |-> k]
Fresh(cap) == [k \in 1 .. cap |-> "old"]

Result ==
    CASE call[1] = "divide" -> <<udivsi3(call[2], call[3]), sdivsi3(call[2], call[3]),
                                 umodsi3(call[2], call[3]), modsi3(call[2], call[3])>>
      [] call[1] = "move"     -> <<memmove(Memory, call[2], call[3], call[4])>>
      [] call[1] = "copy"     -> <<wcscpy_n(Fresh(call[2]), call[3])>>
      [] call[1] = "format"   -> <<format(Fresh(call[2]), call[3], call[4])>>
      [] call[1] = "deadline" ->
            <<deadline_expired(deadline_start(call[2], call[3]), Wrap(call[2] + call[4]))>>

Return == call # <<"none">> /\ answer = <<>> /\ answer' = Result /\ UNCHANGED call

RtSpec == RtInit /\ [][Return]_rtVars

Answered(op) == call[1] = op /\ answer # <<>>
------------------------------------------------------------------------------
(* Properties *)

Abs(v) == IF v < 0 THEN -v ELSE v
Truncated(n, d) == LET q == Abs(n) \div Abs(d) IN IF (n < 0) = (d < 0) THEN q ELSE -q

\* The divide steps give the quotient and the remainder of C for every pair of words: the
\* quotient cut towards zero, the remainder with the dividend's sign, the most negative
\* word included; a division by zero gives zero.
DivisionExact ==
    Answered("divide") =>
        LET n == call[2]  d == call[3]  q == Truncated(Signed(n), Signed(d)) IN
        IF d = 0 THEN answer = <<0, 0, 0, 0>>
        ELSE answer = <<n \div d, Wrap(q), n % d, Wrap(Signed(n) - q * Signed(d))>>

Smaller(a, b) == IF a < b THEN a ELSE b
Larger(a, b) == IF a > b THEN a ELSE b

\* text cut to what leaves room for a NUL in a buffer of cap, and the rest of it untouched.
Terminated(text, cap) ==
    LET n == Smaller(Len(text), cap - 1) IN
    [k \in 1 .. cap |-> IF k <= n THEN text[k] ELSE IF k = n + 1 THEN "nul" ELSE "old"]

\* The number a string of figures stands for, and the powers of its base.
ValueOf(text, base) ==
    LET V[k \in 0 .. Len(text)] == IF k = 0 THEN 0 ELSE base * V[k - 1] + DigitOf(text[k])
    IN  V[Len(text)]

Powers(base) == LET P[k \in 0 .. Width] == IF k = 0 THEN 1 ELSE base * P[k - 1] IN P

\* What the marks of a conversion ask for: "-" the left side, a "0" before the width zeros, and
\* the figures a width, where a "-" or a "0" before them counts nothing.
Asked(marks) ==
    LET n == IF marks # <<>> /\ marks[Len(marks)] = "l" THEN Len(marks) - 1 ELSE Len(marks) IN
    [left  |-> \E k \in 1 .. n : marks[k] = "-",
     zero  |-> \E k \in 1 .. n : marks[k] = "0" /\ \A j \in 1 .. k : marks[j] \in {"-", "0"},
     width |-> ValueOf([k \in 1 .. n |-> IF marks[k] = "-" THEN "0" ELSE marks[k]], 10)]

\* A number has as many figures as it needs and reads back as its argument, fills its width
\* and is padded on the right side with the right character.
ReadsBack(text, f, base, value) ==
    LET sign == IF value < 0 THEN 1 ELSE 0 IN
    \E n \in 1 .. Width : \E first, last \in 1 .. Len(text) :
        /\ Abs(value) < Powers(base)[n]
        /\ n > 1 => Powers(base)[n - 1] <= Abs(value)
        /\ Len(text) = Larger(f.width, n + sign)
        /\ \A k \in 1 .. Len(text) : text[k] = "space" <=> k \notin first .. last
        /\ value < 0 => text[first] = "-"
        /\ ValueOf(SubSeq(text, first + sign, last), base) = Abs(value)
        /\ IF f.left THEN first = 1 /\ last = n + sign
           ELSE last = Len(text) /\ first = IF f.zero THEN 1 ELSE Len(text) + 1 - (n + sign)

\* The routines that fill a buffer of their caller fill it with just what they promise: a
\* block moved onto itself keeps its bytes; a copied or formatted text is cut to the buffer,
\* ends in a NUL, leaves the rest alone, and the formatter returns its full length; numbers
\* read back as their arguments.
BuffersExact ==
    /\ Answered("move") =>
          LET dst == call[2]  src == call[3]  n == call[4] IN
          answer = <<[k \in 1 .. MemSize |-> IF k \in dst .. dst + n - 1 THEN k - dst + src ELSE k]>>
    /\ Answered("copy") => answer = <<Terminated(call[3], call[2])>>
    /\ Answered("format") =>
          LET cap == call[2]  narrow == call[3]  fmt == call[4]
              text == Produced(fmt)
              shown == [k \in 1 .. Len(text) |-> IF narrow /\ text[k] = "wide" THEN "?" ELSE text[k]]
          IN  /\ answer[1].buf = Terminated(shown, cap)
              /\ answer[1].len = Len(text)
              /\ \A k \in 1 .. Len(fmt) :
                    LET f == fmt[k] IN
                    f.conv \in {"d", "u", "x"} =>
                        ReadsBack(emit(f), Asked(f.marks), IF f.conv = "x" THEN 16 ELSE 10,
                                  IF f.conv = "d" THEN Signed(f.arg) ELSE f.arg)

\* A timeout of less than half the clock's range expires when that much time has passed, no
\* sooner and no later, whether or not the clock wraps on the way; a timeout of 0 never.
DeadlineExact ==
    Answered("deadline") =>
        LET timeout == call[3]  elapsed == call[4] IN
        timeout < Span \div 2 /\ elapsed < timeout + Span \div 2 =>
            answer = <<timeout # 0 /\ elapsed >= timeout>>
================================================================================
