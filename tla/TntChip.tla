------------------------------- MODULE TntChip -------------------------------
(* The Turbo488 half of the TNT4882C and the one device it talks to, as the  *)
(* driver sees them: a FIFO, a transfer counter, GO/HALT, the clear-on-read   *)
(* status register ISR1 and the RFD holdoff.  It is translated from the       *)
(* behavioural simulator the host tests link against.  The simulator moves as *)
(* many bytes as it can at every register access; here each byte is a step of *)
(* its own that may fall between any two accesses of the driver, which is     *)
(* what the chip does.                                                        *)
EXTENDS Integers, Sequences

CONSTANTS
    Byte,         \* the values a data byte can have
    FifoDepth,    \* SIM_FIFO_DEPTH, 16 in the hardware
    CountSpan,    \* number of values of the transfer counter, 2^32 in 32-bit mode
    Messages      \* what the device may have to say: sequences of Item

Item == [val : Byte, end : BOOLEAN]     \* end: EOI on the byte, or it is the EOS byte

ASSUME ChipAssumption ==
    /\ FifoDepth \in Nat \ {0}
    /\ CountSpan \in Nat \ {0}
    /\ Messages \subseteq Seq(Item)

Flag == {"ERR", "END"}                  \* the ISR1 bits the transfers use

VARIABLES
    fifo,       \* bytes in the chip, oldest first
    cnt,        \* the counter CNT3..CNT0; counts up, a transfer ends at 0
    in,         \* CFG.IN: the transfer is a GPIB read
    ccen,       \* CFG.CCEN: act on the last counted byte (EOI out, holdoff in)
    go, halt,   \* the engine moves bytes when go and not halt
    isr1,       \* status bits raised since ISR1 was last read
    mode,       \* handshake mode in AUXRA
    holdoff,    \* RFD holdoff: the talker is not allowed to go on
    present,    \* a device takes part in the handshake
    msg,        \* what the device still has to say
    taken,      \* history: bytes the device accepted in this call, with EOI
    heard,      \* history: items the device put on the bus in this call
    refused     \* history: a byte of this call met no listener

chipVars == <<fifo, cnt, in, ccen, go, halt, isr1, mode, holdoff>>
devVars  == <<present, msg>>
busLog   == <<taken, heard, refused>>

ChipTypeOK ==
    /\ fifo \in Seq(Byte) /\ Len(fifo) <= FifoDepth
    /\ cnt \in 0 .. CountSpan - 1
    /\ in \in BOOLEAN /\ ccen \in BOOLEAN /\ go \in BOOLEAN /\ halt \in BOOLEAN
    /\ isr1 \subseteq Flag
    /\ mode \in {"HLDA", "HLDE"} /\ holdoff \in BOOLEAN
    /\ present \in BOOLEAN /\ msg \in Seq(Item)
    /\ taken \in Seq([val : Byte, eoi : BOOLEAN])
    /\ heard \in Seq(Item) /\ refused \in BOOLEAN

\* The state tnt_init leaves: engine stopped, every byte to be held off (HLDA),
\* nothing accepted before the first read (HLDI).
ChipInit ==
    /\ fifo = <<>> /\ cnt = CountSpan - 1
    /\ in = FALSE /\ ccen = FALSE /\ go = FALSE /\ halt = TRUE
    /\ isr1 = {} /\ mode = "HLDA" /\ holdoff = TRUE
    /\ present \in BOOLEAN /\ msg = <<>>
    /\ taken = <<>> /\ heard = <<>> /\ refused = FALSE

------------------------------------------------------------------------------
(* Registers *)

\* The counter is loaded with -n and read back negated (set_count,
\* remaining_count); both are exact modulo CountSpan.
Negated(v)   == IF v = 0 THEN 0 ELSE CountSpan - v
CountByteUnwrapped(c) == c + 1          \* Mutant: the counter does not wrap.
CountByte(c) == IF c = CountSpan - 1 THEN 0 ELSE c + 1

BFFN == Len(fifo) < FifoDepth           \* STS2: the FIFO has room
BEFN == fifo # <<>>                     \* STS2: the FIFO has a byte
DONE == ~go \/ (cnt = 0 /\ fifo = <<>>) \* STS1, for a GPIB write

Running == go /\ ~halt

------------------------------------------------------------------------------
(* The engine *)

\* A byte leaves the FIFO for the bus: the device accepts it, and sees EOI on
\* the byte that ends the count when CCEN is set.
BusOut ==
    /\ Running /\ ~in /\ BEFN /\ present
    /\ LET c == CountByte(cnt)
       IN  /\ cnt' = c
           /\ taken' = Append(taken, [val |-> Head(fifo), eoi |-> ccen /\ c = 0])
           /\ go' = (c # 0)
    /\ fifo' = Tail(fifo)
    /\ UNCHANGED <<in, ccen, halt, isr1, mode, holdoff, devVars, heard, refused>>

\* Nobody accepts the byte: the chip raises ERR and halts with the byte unsent.
BusRefused ==
    /\ Running /\ ~in /\ BEFN /\ ~present
    /\ isr1' = isr1 \cup {"ERR"}
    /\ halt' = TRUE
    /\ refused' = TRUE
    /\ UNCHANGED <<fifo, cnt, in, ccen, go, mode, holdoff, devVars, taken, heard>>

\* Whether the chip holds the talker off after item m, which takes the counter to c.
HoldsAfter(m, c) ==
    \/ mode = "HLDA"
    \/ m.end /\ mode = "HLDE"
    \/ c = 0 /\ ccen

\* A byte arrives from the talker.
BusIn ==
    /\ Running /\ in /\ ~holdoff /\ BFFN /\ present /\ msg # <<>>
    /\ LET m == Head(msg)
           c == CountByte(cnt)
       IN  /\ fifo' = Append(fifo, m.val)
           /\ cnt' = c
           /\ isr1' = IF m.end THEN isr1 \cup {"END"} ELSE isr1
           /\ holdoff' = HoldsAfter(m, c)
           /\ go' = (c # 0)
           /\ heard' = Append(heard, m)
    /\ msg' = Tail(msg)
    /\ UNCHANGED <<in, ccen, halt, mode, present, taken, refused>>

Engine == BusOut \/ BusRefused \/ BusIn

\* The device is switched off, unplugged or deaddressed, or comes back.
Toggle ==
    /\ present' = ~present
    /\ UNCHANGED <<chipVars, msg, busLog>>

\* The device prepares an answer.
Load ==
    /\ \E m \in Messages : msg' = m
    /\ msg' # msg
    /\ UNCHANGED <<chipVars, present, busLog>>
==============================================================================
