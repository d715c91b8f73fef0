----------------------------- MODULE TntTransfer -----------------------------
(* The polled FIFO transfers of the chip driver, tnt_transfer_out (behind     *)
(* tnt_write and tnt_command) and tnt_read, running against the chip of       *)
(* TntChip.  A step of the driver is the code between two register accesses    *)
(* whose order matters: the engine and the clock may move between them.  The   *)
(* prologue of a call is one step because the engine is halted until GO.       *)
EXTENDS TntChip

CONSTANTS
    Buffers,      \* what a caller may write: sequences of Byte
    Caps,         \* how much a caller may ask to read
    MaxTransfer,  \* TNT_MAX_TRANSFER, the longest transfer accepted
    Timeout       \* c->timeout_ms; 0 waits for ever

ASSUME TransferAssumption ==
    /\ Buffers \subseteq Seq(Byte)
    /\ Caps \subseteq Nat
    /\ MaxTransfer \in Nat /\ MaxTransfer < CountSpan
    /\ Timeout \in Nat

VARIABLES
    pc,         \* where the driver is; "idle" between calls
    op,         \* the call in progress, or the last one
    buf, eoi,   \* arguments of tnt_write
    cap,        \* argument of tnt_read
    queued,     \* bytes of buf put in the FIFO
    data,       \* bytes of the caller's read buffer filled so far
    moved,      \* n != before: this round of the read loop drained something
    seen,       \* c->isr1: status bits read from the chip and not yet consumed
    waited,     \* ms since the deadline was started, as far as Timeout
    rc, sent, end   \* results

callVars   == <<op, buf, eoi, cap>>
resultVars == <<rc, sent, end>>
driverVars == <<pc, callVars, queued, data, moved, seen, waited, resultVars>>
vars       == <<chipVars, devVars, busLog, driverVars>>

OutPcs == {"queue", "queuePoll", "done", "donePoll", "outStop", "count"}
InPcs  == {"drain", "inPoll", "endDrain", "lastPoll", "inStop"}

TypeOK ==
    /\ ChipTypeOK
    /\ pc \in {"idle"} \cup OutPcs \cup InPcs
    /\ op \in {"none", "write", "read"}
    /\ buf \in Seq(Byte) /\ eoi \in BOOLEAN /\ cap \in Nat
    /\ queued \in Nat /\ data \in Seq(Byte) /\ moved \in BOOLEAN
    /\ seen \subseteq Flag /\ waited \in 0 .. Timeout
    /\ rc \in {"OK", "TIMEOUT", "NOLISTENER", "INVAL"}
    /\ sent \in Nat /\ end \in BOOLEAN

Init ==
    /\ ChipInit
    /\ pc = "idle" /\ op = "none" /\ buf = <<>> /\ eoi = FALSE /\ cap = 0
    /\ queued = 0 /\ data = <<>> /\ moved = FALSE /\ seen = {} /\ waited = 0
    /\ rc = "OK" /\ sent = 0 /\ end = FALSE

Expired == Timeout # 0 /\ waited >= Timeout

------------------------------------------------------------------------------
(* The steps a call shares with others *)

\* Mutant: the FIFO is not reset.
ResetFifoOmitted == UNCHANGED fifo

ResetFifo == fifo' = <<>>

\* Mutant: the flag is forgotten but ISR1 is not read first.
ForgetFlagUnread(f) ==
    /\ seen' = seen \ {f}
    /\ UNCHANGED isr1

\* poll_status followed by forgetting one flag: what has been seen of it so far
\* belongs to an earlier transfer.
ForgetFlag(f) ==
    /\ seen' = (seen \cup isr1) \ {f}
    /\ isr1' = {}

\* poll_status inside a loop.
PollStatus ==
    /\ seen' = seen \cup isr1
    /\ isr1' = {}

Go(n) ==
    /\ cnt' = Negated(n)
    /\ go' = TRUE /\ halt' = FALSE

\* Mutant: the engine is not stopped.
StopOmitted == UNCHANGED <<go, halt>>

Stop == go' = FALSE /\ halt' = TRUE

\* Mutant: the mode is set but the held-off handshake is not finished.
ReleaseHoldoffUnfinished == UNCHANGED holdoff /\ mode' = "HLDE"

\* Whichever state the acceptor is in, release_holdoff ends with a finished
\* handshake in the hold-off-on-END mode.
ReleaseHoldoff == holdoff' = FALSE /\ mode' = "HLDE"

\* Mutant: no AUX_HLDI after a timeout.
HoldAfterTimeoutOmitted == UNCHANGED holdoff

\* After a read that timed out the chip is told to hold off at once (AUX_HLDI).
HoldAfterTimeout == holdoff' = (holdoff \/ rc = "TIMEOUT")

NewCall(o, b, e, c) ==
    /\ op' = o /\ buf' = b /\ eoi' = e /\ cap' = c
    /\ sent' = 0 /\ data' = <<>> /\ end' = FALSE
    /\ queued' = 0 /\ moved' = FALSE
    /\ taken' = <<>> /\ heard' = <<>> /\ refused' = FALSE

------------------------------------------------------------------------------
(* tnt_transfer_out *)

\* Nothing to send, or more than the counter is trusted with: the chip is not touched.
WriteNothing(b, e) ==
    /\ pc = "idle"
    /\ Len(b) = 0 \/ Len(b) > MaxTransfer
    /\ NewCall("write", b, e, 0)
    /\ rc' = IF Len(b) = 0 THEN "OK" ELSE "INVAL"
    /\ UNCHANGED <<chipVars, devVars, pc, seen, waited>>

StartWrite(b, e) ==
    /\ pc = "idle"
    /\ Len(b) \in 1 .. MaxTransfer
    /\ NewCall("write", b, e, 0)
    /\ ResetFifo
    /\ in' = FALSE /\ ccen' = e
    /\ ForgetFlag("ERR")
    /\ Go(Len(b))
    /\ rc' = "OK" /\ waited' = 0 /\ pc' = "queue"
    /\ UNCHANGED <<mode, holdoff, devVars>>

QueueByte ==
    /\ pc = "queue" /\ BFFN
    /\ fifo' = Append(fifo, buf[queued + 1])
    /\ queued' = queued + 1
    /\ waited' = 0
    /\ pc' = IF queued' < Len(buf) THEN "queue" ELSE "done"
    /\ UNCHANGED <<cnt, in, ccen, go, halt, isr1, mode, holdoff, devVars, busLog,
                   callVars, data, moved, seen, resultVars>>

\* Mutant: the deadline starts again at every look at a full FIFO.
QueueFullRestarting ==
    /\ pc = "queue" /\ ~BFFN
    /\ pc' = "queuePoll" /\ waited' = 0
    /\ UNCHANGED <<chipVars, devVars, busLog, callVars, queued, data, moved, seen,
                   resultVars>>

\* Mutant: a full FIFO is retried without looking at the status.
QueueFullUnpolled ==
    /\ pc = "queue" /\ ~BFFN
    /\ UNCHANGED vars

QueueFull ==
    /\ pc = "queue" /\ ~BFFN
    /\ pc' = "queuePoll"
    /\ UNCHANGED <<chipVars, devVars, busLog, callVars, queued, data, moved, seen,
                   waited, resultVars>>

\* The rest of a round of either loop: poll, give up on ERR or on the deadline,
\* else go round again.
PollOut(here, again) ==
    /\ pc = here
    /\ PollStatus
    /\ \/ "ERR" \in seen' /\ rc' = "NOLISTENER" /\ pc' = "outStop"
       \/ "ERR" \notin seen' /\ Expired /\ rc' = "TIMEOUT" /\ pc' = "outStop"
       \/ "ERR" \notin seen' /\ ~Expired /\ rc' = rc /\ pc' = again
    /\ UNCHANGED <<fifo, cnt, in, ccen, go, halt, mode, holdoff, devVars, busLog,
                   callVars, queued, data, moved, waited, sent, end>>

CheckDone ==
    /\ pc = "done"
    /\ pc' = IF DONE THEN "outStop" ELSE "donePoll"
    /\ UNCHANGED <<chipVars, devVars, busLog, callVars, queued, data, moved, seen,
                   waited, resultVars>>

StopOut ==
    /\ pc = "outStop"
    /\ Stop
    /\ pc' = "count"
    /\ UNCHANGED <<fifo, cnt, in, ccen, isr1, mode, holdoff, devVars, busLog,
                   callVars, queued, data, moved, seen, waited, resultVars>>

\* Mutant: what was queued is taken for what was sent.
SentCountQueued == queued

\* What the counter says was sent; a counter that cannot be right is not believed.
SentCount ==
    LET left == Negated(cnt)
    IN  IF left <= Len(buf) THEN Len(buf) - left ELSE queued

ReturnWrite ==
    /\ pc = "count"
    /\ sent' = SentCount
    /\ seen' = seen \ {"ERR"}
    /\ pc' = "idle"
    /\ UNCHANGED <<chipVars, devVars, busLog, callVars, queued, data, moved, waited,
                   rc, end>>

WriteStep ==
    \/ QueueByte \/ QueueFull \/ CheckDone \/ StopOut \/ ReturnWrite
    \/ PollOut("queuePoll", "queue")
    \/ PollOut("donePoll", "done")

------------------------------------------------------------------------------
(* tnt_read *)

ReadNothing(c) ==
    /\ pc = "idle"
    /\ c = 0 \/ c > MaxTransfer
    /\ NewCall("read", <<>>, FALSE, c)
    /\ rc' = IF c = 0 THEN "OK" ELSE "INVAL"
    /\ UNCHANGED <<chipVars, devVars, pc, seen, waited>>

StartRead(c) ==
    /\ pc = "idle"
    /\ c \in 1 .. MaxTransfer
    /\ NewCall("read", <<>>, FALSE, c)
    /\ ReleaseHoldoff
    /\ ResetFifo
    /\ in' = TRUE /\ ccen' = TRUE
    /\ ForgetFlag("END")
    /\ Go(c)
    /\ rc' = "OK" /\ waited' = 0 /\ pc' = "drain"
    /\ UNCHANGED devVars

\* One byte of drain_fifo, in the loop or after END was seen.
DrainByte ==
    /\ pc \in {"drain", "endDrain"}
    /\ Len(data) < cap /\ BEFN
    /\ data' = Append(data, Head(fifo))
    /\ fifo' = Tail(fifo)
    /\ moved' = TRUE
    /\ UNCHANGED <<cnt, in, ccen, go, halt, isr1, mode, holdoff, devVars, busLog,
                   pc, callVars, queued, seen, waited, resultVars>>

\* drain_fifo returns to the loop: a round that got something restarts the
\* deadline, and a full buffer ends the loop.
DrainReturns ==
    /\ pc = "drain"
    /\ Len(data) = cap \/ ~BEFN
    /\ waited' = IF moved THEN 0 ELSE waited
    /\ pc' = IF Len(data) = cap THEN "lastPoll" ELSE IF moved THEN "drain" ELSE "inPoll"
    /\ moved' = FALSE
    /\ UNCHANGED <<chipVars, devVars, busLog, callVars, queued, data, seen, resultVars>>

PollIn ==
    /\ pc = "inPoll"
    /\ PollStatus
    /\ \/ "END" \in seen' /\ rc' = rc /\ pc' = "endDrain"
       \/ "END" \notin seen' /\ Expired /\ rc' = "TIMEOUT" /\ pc' = "inStop"
       \/ "END" \notin seen' /\ ~Expired /\ rc' = rc /\ pc' = "drain"
    /\ UNCHANGED <<fifo, cnt, in, ccen, go, halt, mode, holdoff, devVars, busLog,
                   callVars, queued, data, moved, waited, sent, end>>

\* Mutant: no drain after END.
EndUndrained ==
    /\ pc = "endDrain"
    /\ end' = TRUE
    /\ pc' = "inStop"
    /\ UNCHANGED <<chipVars, devVars, busLog, callVars, queued, data, moved, seen,
                   waited, rc, sent>>

\* The drain after END: the END byte may have landed since the last one.
EndDrained ==
    /\ pc = "endDrain"
    /\ Len(data) = cap \/ ~BEFN
    /\ end' = TRUE
    /\ pc' = "inStop"
    /\ UNCHANGED <<chipVars, devVars, busLog, callVars, queued, data, moved, seen,
                   waited, rc, sent>>

\* Mutant: END is not looked for when the buffer is full.
LastPollOmitted ==
    /\ pc = "lastPoll"
    /\ pc' = "inStop"
    /\ UNCHANGED <<chipVars, devVars, busLog, callVars, queued, data, moved, seen,
                   waited, resultVars>>

\* The buffer filled up: the last byte may have carried END.
LastPoll ==
    /\ pc = "lastPoll"
    /\ PollStatus
    /\ end' = ("END" \in seen')
    /\ pc' = "inStop"
    /\ UNCHANGED <<fifo, cnt, in, ccen, go, halt, mode, holdoff, devVars, busLog,
                   callVars, queued, data, moved, waited, rc, sent>>

ReturnRead ==
    /\ pc = "inStop"
    /\ Stop
    /\ seen' = seen \ {"END"}
    /\ HoldAfterTimeout
    /\ pc' = "idle"
    /\ UNCHANGED <<fifo, cnt, in, ccen, isr1, mode, devVars, busLog, callVars, queued,
                   data, moved, waited, resultVars>>

ReadStep == DrainByte \/ DrainReturns \/ PollIn \/ EndDrained \/ LastPoll \/ ReturnRead

------------------------------------------------------------------------------

Call ==
    \/ \E b \in Buffers, e \in BOOLEAN : WriteNothing(b, e) \/ StartWrite(b, e)
    \/ \E c \in Caps : ReadNothing(c) \/ StartRead(c)

\* The millisecond clock advances while a call is running.
Tick ==
    /\ pc # "idle" /\ waited < Timeout
    /\ waited' = waited + 1
    /\ UNCHANGED <<chipVars, devVars, busLog, pc, callVars, queued, data, moved, seen,
                   resultVars>>

Driver == WriteStep \/ ReadStep

Next ==
    \/ Call
    \/ Driver
    \/ Tick
    \/ (Engine \/ Toggle \/ Load) /\ UNCHANGED driverVars

Spec == Init /\ [][Next]_vars

\* A call that has begun runs on, and the clock with it; whether the device ever
\* takes part is its own affair.
FairSpec == Spec /\ WF_vars(Driver) /\ WF_vars(Tick)

\* A willing device: a byte that can cross the bus does, and the talker goes on
\* talking.
Willing ==
    /\ WF_vars(Engine /\ UNCHANGED driverVars)
    /\ WF_vars(msg = <<>> /\ Load /\ UNCHANGED driverVars)
WillingSpec == FairSpec /\ Willing
------------------------------------------------------------------------------
(* Properties *)

\* tnt_transfer_out reports exactly what the device took, also when it gave up on a
\* stalled or vanished listener with bytes still in the FIFO: the engine is stopped
\* before the counter is read.
SentExact ==
    pc = "idle" /\ op = "write" =>
        /\ sent = Len(taken)
        /\ rc = "OK" => sent = Len(buf)

\* The device gets the caller's bytes and no others, in order, and EOI on the last
\* byte of the message only: what an aborted transfer left in the FIFO never
\* goes out with a later one.
OutFaithful ==
    \A i \in 1 .. Len(taken) :
        /\ i <= Len(buf)
        /\ taken[i] = [val |-> buf[i], eoi |-> eoi /\ i = Len(buf)]

\* "No listener" is reported only when a byte of this very call met none, and a
\* refused byte is never reported as success: an ERR left over in ISR1 or in
\* c->isr1 by an earlier call decides nothing.
NoListenerReal ==
    pc = "idle" =>
        /\ rc = "NOLISTENER" => refused
        /\ refused => rc # "OK"

\* A read that succeeds hands over everything the talker put on the bus during the
\* call, so consecutive reads join without a gap; one that timed out hands over
\* a prefix of it.
ReadLossless ==
    pc = "idle" /\ op = "read" =>
        /\ Len(data) <= Len(heard)
        /\ \A i \in 1 .. Len(data) : data[i] = heard[i].val
        /\ rc = "OK" => Len(data) = Len(heard)

\* *end tells the truth: set exactly when the last byte handed over carried END, and
\* a successful read without END filled the buffer.  A read never runs past an
\* END into the next message, and an END flag left by an earlier call is forgotten.
EndExact ==
    pc = "idle" /\ op = "read" =>
        /\ \A i \in 1 .. Len(heard) - 1 : ~heard[i].end
        /\ end => rc = "OK" /\ Len(data) > 0
        /\ rc = "OK" /\ cap > 0 => Len(data) > 0 /\ end = heard[Len(data)].end
        /\ rc = "OK" /\ ~end => Len(data) = cap

\* Between calls the engine is stopped and the talker is held off, whatever
\* way the last call ended: nothing can be put on the bus that no call will read.
QuietBetweenCalls == pc = "idle" => halt /\ holdoff

\* With a timeout every call returns, whatever the device does.
CallsReturn == []<>(pc = "idle")

\* Without a timeout, a write returns once the device stays on the bus, also when
\* a byte was refused before that.
WriteCompletes == <>[]present => (pc \in OutPcs ~> pc = "idle")

\* Without a timeout, a read from a device that goes on talking returns: the holdoff
\* the last read left is always released.
ReadCompletes == <>[]present => (pc \in InPcs ~> pc = "idle")
\* The driver and the chip together implement ByteTransfer: every step is one byte
\* crossing the bus, a call beginning or returning, or nothing the caller or the
\* device can see.  A result counts once the call has returned.
Promise == INSTANCE ByteTransfer WITH
    busy <- pc # "idle",
    rc   <- IF pc = "idle" THEN rc ELSE "OK",
    data <- IF pc = "idle" THEN data ELSE <<>>,
    end  <- pc = "idle" /\ end

ImplementsByteTransfer == Promise!Spec
==============================================================================
