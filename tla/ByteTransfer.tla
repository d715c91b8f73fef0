---------------------------- MODULE ByteTransfer ----------------------------
(* What the chip driver promises of tnt_write, tnt_command and tnt_read:      *)
(* bytes cross the bus one at a time while a call is in progress, and the call *)
(* returns once, with a result that tells what crossed.  No FIFO, no counter,  *)
(* no status bits, no clock.                                                   *)
EXTENDS Integers, Sequences

CONSTANTS Byte, Buffers, Caps, MaxTransfer

VARIABLES
    busy,               \* a call is in progress
    op, buf, eoi, cap,  \* the call
    taken,              \* what the device accepted: bytes with EOI
    heard,              \* what the talker said: bytes with the end mark
    rc, sent, data, end \* the result of the call

vars == <<busy, op, buf, eoi, cap, taken, heard, rc, sent, data, end>>

Init ==
    /\ busy = FALSE /\ op = "none" /\ buf = <<>> /\ eoi = FALSE /\ cap = 0
    /\ taken = <<>> /\ heard = <<>>
    /\ rc = "OK" /\ sent = 0 /\ data = <<>> /\ end = FALSE

\* A call of length n begins: one that is empty or too long returns at once.
Begin(o, b, e, c, n) ==
    /\ ~busy
    /\ op' = o /\ buf' = b /\ eoi' = e /\ cap' = c
    /\ taken' = <<>> /\ heard' = <<>>
    /\ sent' = 0 /\ data' = <<>> /\ end' = FALSE
    /\ busy' = (n \in 1 .. MaxTransfer)
    /\ rc' = IF n <= MaxTransfer THEN "OK" ELSE "INVAL"

DeviceTakes ==
    /\ busy /\ op = "write" /\ Len(taken) < Len(buf)
    /\ taken' = LET i == Len(taken) + 1
                IN  Append(taken, [val |-> buf[i], eoi |-> eoi /\ i = Len(buf)])
    /\ UNCHANGED <<busy, op, buf, eoi, cap, heard, rc, sent, data, end>>

\* The talker stops at the end of a message and at the reader's limit.
Ended == heard # <<>> /\ heard[Len(heard)].end

TalkerSays ==
    /\ busy /\ op = "read" /\ Len(heard) < cap /\ ~Ended
    /\ \E v \in Byte, e \in BOOLEAN : heard' = Append(heard, [val |-> v, end |-> e])
    /\ UNCHANGED <<busy, op, buf, eoi, cap, taken, rc, sent, data, end>>

WriteReturns(r) ==
    /\ busy /\ op = "write"
    /\ r = "OK" => Len(taken) = Len(buf)
    /\ busy' = FALSE /\ rc' = r /\ sent' = Len(taken)
    /\ UNCHANGED <<op, buf, eoi, cap, taken, heard, data, end>>

ReadReturns(r, n) ==
    /\ busy /\ op = "read"
    /\ r = "OK" => n = Len(heard) /\ (n = cap \/ Ended)
    /\ busy' = FALSE /\ rc' = r
    /\ data' = [i \in 1 .. n |-> heard[i].val]
    /\ end' = (r = "OK" /\ Ended)
    /\ UNCHANGED <<op, buf, eoi, cap, taken, heard, sent>>

Next ==
    \/ \E b \in Buffers, e \in BOOLEAN : Begin("write", b, e, 0, Len(b))
    \/ \E c \in Caps : Begin("read", <<>>, FALSE, c, c)
    \/ DeviceTakes
    \/ TalkerSays
    \/ \E r \in {"OK", "TIMEOUT", "NOLISTENER"} : WriteReturns(r)
    \/ \E r \in {"OK", "TIMEOUT"}, n \in 0 .. Len(heard) : ReadReturns(r, n)

Spec == Init /\ [][Next]_vars
=============================================================================
