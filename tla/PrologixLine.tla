----------------------------- MODULE PrologixLine -----------------------------
(* The gateway's input: a byte stream that recv cuts anywhere is split into    *)
(* lines with escapes resolved, and each line is a controller command or data  *)
(* for the instrument.  Bytes are told apart by what the code does with them.  *)
EXTENDS Integers, Sequences, SequencesExt

CONSTANTS
    LineMax,    \* LINE_MAX
    BufMax,     \* bytes one recv returns at most
    MaxInput,   \* bound: bytes of one connection
    MaxConns    \* bound: connections

ASSUME LineAssumption ==
    /\ LineMax \in Nat \ {0, 1} /\ BufMax \in Nat \ {0}
    /\ MaxInput \in Nat /\ MaxConns \in Nat

Byte == {"+", "?", "x", "LF", "ESC"}    \* LF stands for CR too
Terminator == {"LF"}

VARIABLES
    input,      \* what the client of this connection has sent so far
    read,       \* how much of it recv has returned
    buf, i,     \* the bytes of this recv and how many of them were taken
    line,       \* the line under construction, line[0 .. n)
    escaped,    \* the next byte is taken as it is
    handled,    \* lines handled on this connection, in order
    conns       \* connections so far

vars == <<input, read, buf, i, line, escaped, handled, conns>>

Kind == {"command", "data"}

Init ==
    /\ input = <<>> /\ read = 0 /\ buf = <<>> /\ i = 0
    /\ line = <<>> /\ escaped = FALSE /\ handled = <<>> /\ conns = 0

\* handle_line: two plus signs at the head.
KindOf(l) == IF Len(l) >= 2 /\ l[1] = "+" /\ l[2] = "+" THEN "command" ELSE "data"

\* What handle_line and do_write make of a line; a query is read back in auto mode.
Handled(l) ==
    IF KindOf(l) = "command"
    THEN [kind |-> "command", text |-> SubSeq(l, 3, Len(l)), query |-> FALSE]
    ELSE [kind |-> "data", text |-> l, query |-> Last(l) = "?"]

\* The client sends another byte.
ClientSends(b) ==
    /\ Len(input) < MaxInput
    /\ input' = Append(input, b)
    /\ UNCHANGED <<read, buf, i, line, escaped, handled, conns>>

\* Mutant: an escape at the end of a recv is forgotten.
RecvForgetting(n) ==
    /\ i = Len(buf) /\ n \in 1 .. BufMax /\ read + n <= Len(input)
    /\ buf' = SubSeq(input, read + 1, read + n) /\ i' = 0
    /\ read' = read + n /\ escaped' = FALSE
    /\ UNCHANGED <<input, line, handled, conns>>

\* recv returns the next n bytes once the last ones are dealt with.
Recv(n) ==
    /\ i = Len(buf) /\ n \in 1 .. BufMax /\ read + n <= Len(input)
    /\ buf' = SubSeq(input, read + 1, read + n) /\ i' = 0
    /\ read' = read + n
    /\ UNCHANGED <<input, line, escaped, handled, conns>>

\* What no longer fits is dropped.
Keep(b) == IF Len(line) < LineMax THEN Append(line, b) ELSE line

TakeByte ==
    /\ i < Len(buf) /\ i' = i + 1
    /\ LET b == buf[i + 1] IN
       \/ /\ escaped
          /\ line' = Keep(b) /\ escaped' = FALSE
          /\ UNCHANGED handled
       \/ /\ ~escaped /\ b = "ESC"
          /\ escaped' = TRUE
          /\ UNCHANGED <<line, handled>>
       \/ /\ ~escaped /\ b \in Terminator
          /\ handled' = IF line = <<>> THEN handled ELSE Append(handled, Handled(line))
          /\ line' = <<>> /\ UNCHANGED escaped
       \/ /\ ~escaped /\ b \notin Terminator \cup {"ESC"}
          /\ line' = Keep(b)
          /\ UNCHANGED <<escaped, handled>>
    /\ UNCHANGED <<input, read, buf, conns>>

\* serve_client for the next client: what the last one left unfinished is gone.
ServeClient ==
    /\ i = Len(buf) /\ conns < MaxConns
    /\ conns' = conns + 1
    /\ input' = <<>> /\ read' = 0 /\ buf' = <<>> /\ i' = 0
    /\ line' = <<>> /\ escaped' = FALSE /\ handled' = <<>>

Next ==
    \/ \E b \in Byte : ClientSends(b)
    \/ \E n \in 1 .. BufMax : Recv(n)
    \/ TakeByte
    \/ ServeClient

Spec == Init /\ [][Next]_vars
------------------------------------------------------------------------------
(* What the stream means, read as a whole *)

\* Positions of an ESC that escapes the byte after it: the first, third, fifth and so on of
\* a run of them.
Escapes(s) ==
    {j \in 1 .. Len(s) :
        \E m \in 1 .. j : /\ \A k \in m .. j : s[k] = "ESC"
                          /\ m > 1 => s[m - 1] # "ESC"
                          /\ (j - m) % 2 = 0}

\* Positions where a line ends.
Ends(s) == {j \in 1 .. Len(s) : s[j] \in Terminator /\ j - 1 \notin Escapes(s)}

\* Positions of text: neither an escape nor an end.
Text(s) == (1 .. Len(s)) \ (Escapes(s) \cup Ends(s))

\* The text of s before position e, back to the end of the line before.
LineBefore(s, e) ==
    LET ends == Ends(s) IN {p \in Text(s) : p < e /\ \A f \in ends : f < e => f < p}

\* The ends of the lines that have any text.
Lines(s) == {e \in Ends(s) : LineBefore(s, e) # {}}

\* The k-th smallest element of S.
Nth(S, k) == CHOOSE x \in S : Cardinality({y \in S : y <= x}) = k

\* The bytes of s at the positions P, cut to LineMax.
Spelled(s, P) ==
    [c \in 1 .. (IF Cardinality(P) < LineMax THEN Cardinality(P) ELSE LineMax) |-> s[Nth(P, c)]]

Line(s, k) == LineBefore(s, Nth(Lines(s), k))

\* How much of the stream has been dealt with, and that much of it.
Position == read - (Len(buf) - i)
Taken == SubSeq(input, 1, Position)

\* However recv cuts the stream, the lines handled are those of the stream, in order,
\* each cut to LineMax, and nothing of another connection is in them.  Two plus signs and
\* nothing less make a command; data keeps all its bytes.
HandlesItsLines ==
    LET s == Taken IN
    /\ Len(handled) = Cardinality(Lines(s))
    /\ \A k \in 1 .. Len(handled) :
          LET text == Spelled(s, Line(s, k))
              rest == SubSeq(text, 3, Len(text))
          IN  IF IsPrefix(<<"+", "+">>, text)
              THEN handled[k] = [kind |-> "command", text |-> rest, query |-> FALSE]
              ELSE handled[k] = [kind |-> "data", text |-> text, query |-> IsSuffix(<<"?">>, text)]

\* Data may hold plus signs if they are escaped, as docs/pyvisa.md says: a line whose first
\* two bytes are each escaped is for the instrument, whatever they are.
EscapedDataIsData ==
    \A k \in 1 .. Len(handled) :
        handled[k].kind = "command" =>
            \E c \in 1 .. 2 : Nth(Line(Taken, k), c) - 1 \notin Escapes(Taken)
==============================================================================
