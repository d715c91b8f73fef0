-------------------------- MODULE TntTransferProofs --------------------------
(* TntTransfer is type correct, has its safety properties and implements        *)
(* ByteTransfer, for every FIFO depth, counter width, timeout, buffer and       *)
(* message.                                                                    *)
EXTENDS TntTransfer, TLAPS

(* Types *)

\* The counter stays in its register when it is loaded and when it counts, and the
\* remaining count read back from it is a number of bytes.
LEMMA CounterType ==
    /\ \A n \in 0 .. CountSpan - 1 : Negated(n) \in 0 .. CountSpan - 1
    /\ \A c \in 0 .. CountSpan - 1 : CountByte(c) \in 0 .. CountSpan - 1
  BY ChipAssumption DEF Negated, CountByte

\* Taking the oldest byte out of the FIFO, or putting one in, leaves a FIFO.
LEMMA FifoType ==
    /\ \A s \in Seq(Byte) : s # <<>> =>
          /\ Head(s) \in Byte /\ Tail(s) \in Seq(Byte)
          /\ Len(s) \in Nat /\ Len(s) > 0 /\ Len(Tail(s)) = Len(s) - 1
    /\ \A s \in Seq(Byte), x \in Byte :
          Append(s, x) \in Seq(Byte) /\ Len(s) \in Nat /\ Len(Append(s, x)) = Len(s) + 1
  OBVIOUS

\* The state tnt_init leaves is well typed.
LEMMA TypeInit == Init => TypeOK
<1> SUFFICES ASSUME Init PROVE TypeOK
    OBVIOUS
<1>1. /\ fifo \in Seq(Byte) /\ Len(fifo) <= FifoDepth
      /\ cnt \in 0 .. CountSpan - 1
      /\ buf \in Seq(Byte) /\ data \in Seq(Byte)
      /\ cap \in Nat /\ queued \in Nat /\ sent \in Nat /\ waited \in 0 .. Timeout
  BY ChipAssumption, TransferAssumption DEF Init, ChipInit
<1>2. /\ msg \in Seq(Item) /\ heard \in Seq(Item)
      /\ taken \in Seq([val : Byte, eoi : BOOLEAN])
  BY DEF Init, ChipInit
<1> QED BY <1>1, <1>2 DEF Init, ChipInit, TypeOK, ChipTypeOK

\* The engine keeps the types of the chip and of the history.
LEMMA TypeEngine == TypeOK /\ Engine /\ UNCHANGED driverVars => TypeOK'
<1> SUFFICES ASSUME TypeOK, Engine, UNCHANGED driverVars PROVE TypeOK'
    OBVIOUS
<1>1. ChipTypeOK'
  <2>1. CASE BusOut
    <3>1. /\ Head(fifo) \in Byte /\ Tail(fifo) \in Seq(Byte)
          /\ Len(Tail(fifo)) <= FifoDepth
      BY <2>1, FifoType, ChipAssumption DEF BusOut, TypeOK, ChipTypeOK, BEFN
    <3>2. cnt' \in 0 .. CountSpan - 1 /\ go' \in BOOLEAN
      BY <2>1, CounterType DEF BusOut, TypeOK, ChipTypeOK
    <3>3. taken' \in Seq([val : Byte, eoi : BOOLEAN])
      BY <2>1, <3>1 DEF BusOut, TypeOK, ChipTypeOK
    <3> QED BY <2>1, <3>1, <3>2, <3>3 DEF BusOut, TypeOK, ChipTypeOK, devVars
  <2>2. CASE BusRefused
    BY <2>2 DEF BusRefused, TypeOK, ChipTypeOK, devVars, Flag
  <2>3. CASE BusIn
    <3>1. Head(msg) \in Item /\ Tail(msg) \in Seq(Item)
      BY <2>3 DEF BusIn, TypeOK, ChipTypeOK
    <3>2. /\ fifo' \in Seq(Byte) /\ Len(fifo') <= FifoDepth
      BY <2>3, <3>1, FifoType, ChipAssumption DEF BusIn, TypeOK, ChipTypeOK, Item, BFFN
    <3>3. cnt' \in 0 .. CountSpan - 1 /\ go' \in BOOLEAN /\ holdoff' \in BOOLEAN
      BY <2>3, CounterType DEF BusIn, TypeOK, ChipTypeOK, HoldsAfter
    <3>4. isr1' \subseteq Flag /\ heard' \in Seq(Item) /\ msg' \in Seq(Item)
      BY <2>3, <3>1 DEF BusIn, TypeOK, ChipTypeOK, Flag
    <3> QED BY <2>3, <3>2, <3>3, <3>4 DEF BusIn, TypeOK, ChipTypeOK
  <2> QED BY <2>1, <2>2, <2>3 DEF Engine
<1>2. QED
  BY <1>1 DEF TypeOK, driverVars, callVars, resultVars

\* A step that leaves the chip, the device and the history alone keeps their types.
LEMMA ChipFrame == ChipTypeOK /\ UNCHANGED <<chipVars, devVars, busLog>> => ChipTypeOK'
  BY DEF ChipTypeOK, chipVars, devVars, busLog

\* poll_status, with or without forgetting a flag, yields status bits.
LEMMA PollType ==
    ASSUME isr1 \subseteq Flag, seen \subseteq Flag,
           PollStatus \/ (\E f \in Flag : ForgetFlag(f))
    PROVE  isr1' \subseteq Flag /\ seen' \subseteq Flag
  BY DEF PollStatus, ForgetFlag

\* The queue loop runs only while there is a byte left to queue.  Without this TypeOK
\* is not inductive: buf[queued + 1] would be no byte.
QueueBound == pc \in {"queue", "queuePoll"} => queued < Len(buf)

TypeInv == TypeOK /\ QueueBound

\* The arguments and the emptied results of a new call have their types.
LEMMA NewCallType ==
    ASSUME NEW o \in {"write", "read"}, NEW b \in Seq(Byte), NEW e \in BOOLEAN,
           NEW c \in Nat, NewCall(o, b, e, c)
    PROVE  /\ op' \in {"none", "write", "read"} /\ buf' \in Seq(Byte)
           /\ eoi' \in BOOLEAN /\ cap' \in Nat
           /\ queued' \in Nat /\ data' \in Seq(Byte) /\ moved' \in BOOLEAN
           /\ sent' \in Nat /\ end' \in BOOLEAN
           /\ taken' \in Seq([val : Byte, eoi : BOOLEAN])
           /\ heard' \in Seq(Item) /\ refused' \in BOOLEAN
<1>1. op' = o /\ buf' = b /\ eoi' = e /\ cap' = c
  BY DEF NewCall
<1>2. queued' \in Nat /\ sent' \in Nat /\ data' \in Seq(Byte)
  BY DEF NewCall
<1>3. taken' \in Seq([val : Byte, eoi : BOOLEAN]) /\ heard' \in Seq(Item)
  BY DEF NewCall
<1>4. moved' \in BOOLEAN /\ end' \in BOOLEAN /\ refused' \in BOOLEAN
  BY DEF NewCall
<1> QED BY <1>1, <1>2, <1>3, <1>4

\* A call beginning keeps the types, whether it is refused at once or started.
LEMMA TypeCall == TypeInv /\ Call => TypeInv'
<1> SUFFICES ASSUME TypeInv, Call PROVE TypeInv'
    OBVIOUS
<1>0. TypeOK
  BY DEF TypeInv
<1>1. ASSUME NEW b \in Buffers, NEW e \in BOOLEAN, WriteNothing(b, e)
      PROVE  TypeInv'
  <2>0. b \in Seq(Byte)
    BY TransferAssumption
  <2>1. NewCall("write", b, e, 0)
    BY <1>1 DEF WriteNothing
  <2>2. ChipTypeOK'
    BY <1>0, <1>1, <2>0, <2>1, NewCallType DEF WriteNothing, TypeOK, ChipTypeOK, chipVars, devVars
  <2>3. rc' \in {"OK", "TIMEOUT", "NOLISTENER", "INVAL"} /\ pc' = "idle" /\ pc = "idle"
    BY <1>1 DEF WriteNothing
  <2> QED
    BY <1>0, <1>1, <2>0, <2>1, <2>2, <2>3, NewCallType
       DEF WriteNothing, TypeInv, TypeOK, QueueBound
<1>2. ASSUME NEW b \in Buffers, NEW e \in BOOLEAN, StartWrite(b, e)
      PROVE  TypeInv'
  <2>1. /\ b \in Seq(Byte) /\ Len(b) \in 0 .. CountSpan - 1
    BY <1>2, TransferAssumption, ChipAssumption DEF StartWrite
  <2>2. cnt' \in 0 .. CountSpan - 1
    BY <1>2, <2>1, CounterType DEF StartWrite, Go
  <2>3. isr1' \subseteq Flag /\ seen' \subseteq Flag
    BY <1>0, <1>2, PollType DEF StartWrite, TypeOK, ChipTypeOK, Flag
  <2>4. go' \in BOOLEAN /\ halt' \in BOOLEAN
    BY <1>2 DEF StartWrite, Go
  <2>5. fifo' \in Seq(Byte) /\ Len(fifo') <= FifoDepth
    BY <1>2, ChipAssumption DEF StartWrite, ResetFifo
  <2>6. NewCall("write", b, e, 0)
    BY <1>2 DEF StartWrite
  <2>7. ChipTypeOK'
    BY <1>0, <1>2, <2>1, <2>2, <2>3, <2>4, <2>5, <2>6, NewCallType
       DEF StartWrite, TypeOK, ChipTypeOK, devVars
  <2>8. pc' = "queue" /\ queued' = 0 /\ Len(buf') > 0
    BY <1>2, <2>1 DEF StartWrite, NewCall
  <2>9. pc' = "queue" /\ rc' = "OK" /\ waited' \in 0 .. Timeout
    BY <1>2, TransferAssumption DEF StartWrite
  <2> QED
    BY <2>8, <2>1, <2>3, <2>6, <2>7, <2>9, NewCallType
       DEF TypeInv, TypeOK, QueueBound, OutPcs
<1>3. ASSUME NEW c \in Caps, ReadNothing(c)
      PROVE  TypeInv'
  <2>0. c \in Nat /\ <<>> \in Seq(Byte)
    BY TransferAssumption
  <2>1. NewCall("read", <<>>, FALSE, c)
    BY <1>3 DEF ReadNothing
  <2>2. ChipTypeOK'
    BY <1>0, <1>3, <2>0, <2>1, NewCallType DEF ReadNothing, TypeOK, ChipTypeOK, chipVars, devVars
  <2>3. rc' \in {"OK", "TIMEOUT", "NOLISTENER", "INVAL"} /\ pc' = "idle" /\ pc = "idle"
    BY <1>3 DEF ReadNothing
  <2> QED
    BY <1>0, <1>3, <2>0, <2>1, <2>2, <2>3, NewCallType
       DEF ReadNothing, TypeInv, TypeOK, QueueBound
<1>4. ASSUME NEW c \in Caps, StartRead(c)
      PROVE  TypeInv'
  <2>1. c \in 0 .. CountSpan - 1 /\ c \in Nat /\ <<>> \in Seq(Byte)
    BY <1>4, TransferAssumption, ChipAssumption DEF StartRead
  <2>2. cnt' \in 0 .. CountSpan - 1
    BY <1>4, <2>1, CounterType DEF StartRead, Go
  <2>3. isr1' \subseteq Flag /\ seen' \subseteq Flag
    BY <1>0, <1>4, PollType DEF StartRead, TypeOK, ChipTypeOK, Flag
  <2>4. /\ go' \in BOOLEAN /\ halt' \in BOOLEAN
        /\ mode' \in {"HLDA", "HLDE"} /\ holdoff' \in BOOLEAN
    BY <1>4 DEF StartRead, Go, ReleaseHoldoff
  <2>5. fifo' \in Seq(Byte) /\ Len(fifo') <= FifoDepth
    BY <1>4, ChipAssumption DEF StartRead, ResetFifo
  <2>6. NewCall("read", <<>>, FALSE, c)
    BY <1>4 DEF StartRead
  <2>7. ChipTypeOK'
    BY <1>0, <1>4, <2>1, <2>2, <2>3, <2>4, <2>5, <2>6, NewCallType
       DEF StartRead, TypeOK, ChipTypeOK, devVars
  <2>9. pc' = "drain" /\ rc' = "OK" /\ waited' \in 0 .. Timeout
    BY <1>4, TransferAssumption DEF StartRead
  <2> QED
    BY <2>1, <2>3, <2>6, <2>7, <2>9, NewCallType
       DEF TypeInv, TypeOK, QueueBound, InPcs
<1> QED BY <1>1, <1>2, <1>3, <1>4 DEF Call

\* The count reported is a number of bytes.
LEMMA SentType == TypeOK => SentCount \in Nat
<1> SUFFICES ASSUME TypeOK PROVE SentCount \in Nat
    OBVIOUS
<1>1. Negated(cnt) \in Nat /\ Len(buf) \in Nat /\ queued \in Nat
  BY CounterType, ChipAssumption DEF TypeOK, ChipTypeOK
<1> QED BY <1>1 DEF SentCount

\* The steps of tnt_transfer_out keep the types.
LEMMA TypeWriteStep == TypeInv /\ WriteStep => TypeInv'
<1> SUFFICES ASSUME TypeInv, WriteStep PROVE TypeInv'
    OBVIOUS
<1>0. TypeOK
  BY DEF TypeInv
<1>1. CASE QueueByte
  <2>1. buf[queued + 1] \in Byte
    BY <1>0, <1>1 DEF QueueByte, TypeInv, TypeOK, QueueBound
  <2>2. fifo' \in Seq(Byte) /\ Len(fifo') <= FifoDepth
    BY <1>0, <1>1, <2>1, FifoType, ChipAssumption DEF QueueByte, BFFN, TypeOK, ChipTypeOK
  <2>3. ChipTypeOK'
    BY <1>0, <1>1, <2>2 DEF QueueByte, TypeOK, ChipTypeOK, devVars, busLog
  <2> QED
    BY <1>0, <1>1, <2>3, TransferAssumption
       DEF QueueByte, TypeInv, TypeOK, QueueBound, callVars, resultVars, OutPcs
<1>2. CASE QueueFull
  BY <1>0, <1>2, ChipFrame
     DEF QueueFull, TypeInv, TypeOK, QueueBound, callVars, resultVars, OutPcs
<1>3. CASE CheckDone
  BY <1>0, <1>3, ChipFrame
     DEF CheckDone, TypeInv, TypeOK, QueueBound, callVars, resultVars, OutPcs
<1>4. CASE StopOut
  <2>1. ChipTypeOK'
    BY <1>0, <1>4 DEF StopOut, Stop, TypeOK, ChipTypeOK, devVars, busLog
  <2> QED
    BY <1>0, <1>4, <2>1
       DEF StopOut, TypeInv, TypeOK, QueueBound, callVars, resultVars, OutPcs
<1>5. CASE ReturnWrite
  BY <1>0, <1>5, ChipFrame, SentType
     DEF ReturnWrite, TypeInv, TypeOK, QueueBound, callVars
<1>6. ASSUME NEW here \in OutPcs, NEW again \in OutPcs, PollOut(here, again),
             again = "queue" => here = "queuePoll", again # "queuePoll"
      PROVE  TypeInv'
  <2>1. isr1' \subseteq Flag /\ seen' \subseteq Flag
    BY <1>0, <1>6, PollType DEF PollOut, TypeOK, ChipTypeOK
  <2>2. ChipTypeOK'
    BY <1>0, <1>6, <2>1 DEF PollOut, TypeOK, ChipTypeOK, devVars, busLog
  <2> QED
    BY <1>0, <1>6, <2>1, <2>2 DEF PollOut, TypeInv, TypeOK, QueueBound, callVars, OutPcs
<1> QED BY <1>1, <1>2, <1>3, <1>4, <1>5, <1>6 DEF WriteStep, OutPcs

\* The steps of tnt_read keep the types.
LEMMA TypeReadStep == TypeInv /\ ReadStep => TypeInv'
<1> SUFFICES ASSUME TypeInv, ReadStep PROVE TypeInv'
    OBVIOUS
<1>0. TypeOK
  BY DEF TypeInv
<1>1. CASE DrainByte
  <2>1. /\ data' \in Seq(Byte) /\ fifo' \in Seq(Byte) /\ Len(fifo') <= FifoDepth
    BY <1>0, <1>1, FifoType, ChipAssumption DEF DrainByte, BEFN, TypeOK, ChipTypeOK
  <2>2. ChipTypeOK'
    BY <1>0, <1>1, <2>1 DEF DrainByte, TypeOK, ChipTypeOK, devVars, busLog
  <2> QED
    BY <1>0, <1>1, <2>1, <2>2
       DEF DrainByte, TypeInv, TypeOK, QueueBound, callVars, resultVars
<1>2. CASE DrainReturns
  <2>1. waited' \in 0 .. Timeout /\ pc' \in InPcs \ {"queue", "queuePoll"}
    BY <1>0, <1>2, TransferAssumption DEF DrainReturns, TypeOK, InPcs
  <2>2. ChipTypeOK'
    BY <1>0, <1>2, ChipFrame DEF DrainReturns, TypeOK
  <2> QED
    BY <1>0, <1>2, <2>1, <2>2
       DEF DrainReturns, TypeInv, TypeOK, QueueBound, callVars, resultVars
<1>3. CASE PollIn
  <2>1. isr1' \subseteq Flag /\ seen' \subseteq Flag
    BY <1>0, <1>3, PollType DEF PollIn, TypeOK, ChipTypeOK
  <2>2. ChipTypeOK'
    BY <1>0, <1>3, <2>1 DEF PollIn, TypeOK, ChipTypeOK, devVars, busLog
  <2> QED
    BY <1>0, <1>3, <2>1, <2>2 DEF PollIn, TypeInv, TypeOK, QueueBound, callVars, InPcs
<1>4. CASE EndDrained
  BY <1>0, <1>4, ChipFrame
     DEF EndDrained, TypeInv, TypeOK, QueueBound, callVars, InPcs
<1>5. CASE LastPoll
  <2>1. isr1' \subseteq Flag /\ seen' \subseteq Flag
    BY <1>0, <1>5, PollType DEF LastPoll, TypeOK, ChipTypeOK
  <2>2. ChipTypeOK'
    BY <1>0, <1>5, <2>1 DEF LastPoll, TypeOK, ChipTypeOK, devVars, busLog
  <2> QED
    BY <1>0, <1>5, <2>1, <2>2 DEF LastPoll, TypeInv, TypeOK, QueueBound, callVars, InPcs
<1>6. CASE ReturnRead
  <2>1. ChipTypeOK'
    BY <1>0, <1>6 DEF ReturnRead, Stop, HoldAfterTimeout, TypeOK, ChipTypeOK, devVars, busLog
  <2> QED
    BY <1>0, <1>6, <2>1
       DEF ReturnRead, TypeInv, TypeOK, QueueBound, callVars, resultVars
<1> QED BY <1>1, <1>2, <1>3, <1>4, <1>5, <1>6 DEF ReadStep

\* The device toggling or preparing an answer, and the clock, keep the types.
LEMMA TypeEnvironment ==
    TypeInv /\ (Tick \/ ((Toggle \/ Load) /\ UNCHANGED driverVars)) => TypeInv'
<1> SUFFICES ASSUME TypeInv, Tick \/ ((Toggle \/ Load) /\ UNCHANGED driverVars)
    PROVE TypeInv'
    OBVIOUS
<1>1. CASE Tick
  BY <1>1, ChipFrame, TransferAssumption
     DEF Tick, TypeInv, TypeOK, QueueBound, callVars, resultVars
<1>2. CASE (Toggle \/ Load) /\ UNCHANGED driverVars
  <2>1. ChipTypeOK'
    BY <1>2, ChipAssumption
       DEF Toggle, Load, TypeInv, TypeOK, ChipTypeOK, chipVars, devVars, busLog
  <2> QED
    BY <1>2, <2>1 DEF TypeInv, TypeOK, QueueBound, driverVars, callVars, resultVars
<1> QED BY <1>1, <1>2

\* Every step keeps the types.
LEMMA TypeNext == TypeInv /\ [Next]_vars => TypeInv'
<1> SUFFICES ASSUME TypeInv, [Next]_vars PROVE TypeInv'
    OBVIOUS
<1>1. CASE UNCHANGED vars
  BY <1>1, ChipFrame
     DEF TypeInv, TypeOK, QueueBound, vars, driverVars, callVars, resultVars
<1>2. CASE Engine /\ UNCHANGED driverVars
  BY <1>2, TypeEngine DEF TypeInv, QueueBound, driverVars, callVars
<1> QED
  BY <1>1, <1>2, TypeCall, TypeWriteStep, TypeReadStep, TypeEnvironment
     DEF Next, Driver

\* Every variable of the transfer keeps its type, whatever the constants.
THEOREM TypeCorrect == Spec => []TypeOK
<1>1. Init => TypeInv
  BY TypeInit DEF TypeInv, QueueBound, Init
<1>2. TypeInv => TypeOK
  BY DEF TypeInv
<1> QED BY <1>1, <1>2, TypeNext, PTL DEF Spec

------------------------------------------------------------------------------
(* The inductive invariant.  While a write runs, what the device took followed *)
(* by what is in the FIFO is what was queued, and the counter knows how much   *)
(* the device took; while a read runs, what was drained followed by what is in *)
(* the FIFO is what the talker said.  Between calls only the verdict is left.  *)

\* The chip side of a write.
OutChip ==
    /\ op = "write" /\ Len(buf) \in 1 .. MaxTransfer
    /\ ~in /\ ccen = eoi /\ holdoff
    /\ Len(taken) + Len(fifo) = queued /\ queued <= Len(buf)
    /\ \A i \in 1 .. Len(fifo) : fifo[i] = buf[Len(taken) + i]
    /\ cnt = Negated(Len(buf) - Len(taken))
    /\ pc # "count" => (go <=> cnt # 0)

\* What is known of the listener: ERR is news of this call, and a refusal halts.
OutRefusal ==
    /\ "ERR" \in seen \cup isr1 => refused
    /\ refused => halt /\ Len(taken) < Len(buf)

\* What the position in tnt_transfer_out says.
OutPosition ==
    /\ pc \in {"queue", "queuePoll"} => queued < Len(buf)
    /\ pc \in {"done", "donePoll"} => queued = Len(buf)
    /\ pc \in {"queue", "queuePoll", "done", "donePoll"} => rc = "OK"
    /\ ~halt \/ refused \/ pc = "count"
    /\ pc = "count" => halt
    /\ rc = "OK" /\ pc \in {"outStop", "count"} => Len(taken) = Len(buf)
    /\ rc = "NOLISTENER" => refused
    /\ rc # "INVAL"

OutInv == OutChip /\ OutRefusal /\ OutPosition

\* The talker's last word was an END.
Finished == heard # <<>> /\ heard[Len(heard)].end

\* The chip side of a read.
InChip ==
    /\ op = "read" /\ cap \in 1 .. MaxTransfer
    /\ in /\ ccen /\ mode = "HLDE" /\ ~halt
    /\ taken = <<>> /\ ~refused
    /\ Len(data) + Len(fifo) = Len(heard) /\ Len(heard) <= cap
    /\ \A i \in 1 .. Len(data) : data[i] = heard[i].val
    /\ \A i \in 1 .. Len(fifo) : fifo[i] = heard[Len(data) + i].val
    /\ \A i \in 1 .. Len(heard) - 1 : ~heard[i].end
    /\ cnt = Negated(cap - Len(heard))
    /\ go <=> cnt # 0
    /\ holdoff <=> Finished \/ Len(heard) = cap
    /\ "END" \in seen \cup isr1 <=> Finished

\* What the position in tnt_read says.
InPosition ==
    /\ pc \in {"drain", "inPoll", "endDrain", "lastPoll"} => rc = "OK" /\ ~end
    /\ pc = "inPoll" => Len(data) < cap
    /\ pc = "lastPoll" => Len(data) = cap
    /\ pc = "endDrain" => Finished
    /\ pc = "inStop" =>
         \/ rc = "TIMEOUT" /\ ~end
         \/ /\ rc = "OK" /\ Len(data) = Len(heard) /\ Len(data) > 0
            /\ end = Finished /\ (end \/ Len(data) = cap)

InInv == InChip /\ InPosition

IdleInv == QuietBetweenCalls /\ SentExact /\ NoListenerReal /\ ReadLossless /\ EndExact

TransferInv ==
    /\ TypeInv
    /\ OutFaithful
    /\ pc = "idle" => IdleInv
    /\ pc \in OutPcs => OutInv
    /\ pc \in InPcs => InInv

------------------------------------------------------------------------------
(* Facts about the data *)

\* Loading the counter with -n, counting a byte and reading it back are exact.
LEMMA CounterExact ==
    \A n \in 0 .. CountSpan - 1 :
        /\ Negated(n) = 0 <=> n = 0
        /\ Negated(Negated(n)) = n
        /\ n > 0 => CountByte(Negated(n)) = Negated(n - 1)
  BY ChipAssumption DEF Negated, CountByte

\* Where the elements of a queue are after one is put in or taken out.
LEMMA QueueElements ==
    ASSUME NEW S, NEW s \in Seq(S)
    PROVE  /\ Len(s) \in Nat
           /\ \A x \in S :
                /\ Len(Append(s, x)) = Len(s) + 1
                /\ \A i \in 1 .. Len(s) : Append(s, x)[i] = s[i]
                /\ Append(s, x)[Len(s) + 1] = x
           /\ s # <<>> =>
                /\ Len(s) > 0 /\ Len(Tail(s)) = Len(s) - 1
                /\ Head(s) = s[1] /\ Head(s) \in S
                /\ \A i \in 1 .. Len(s) - 1 : Tail(s)[i] = s[i + 1]
  OBVIOUS

------------------------------------------------------------------------------
(* The engine keeps the invariant *)

\* A byte that leaves for the device is the next one of the caller's, with EOI when
\* it is the last.
LEMMA InvBusOut == TransferInv /\ BusOut /\ UNCHANGED driverVars /\ TypeInv' => TransferInv'
<1> SUFFICES ASSUME TransferInv, BusOut, UNCHANGED driverVars, TypeInv'
    PROVE  TransferInv'
    OBVIOUS
<1>1. /\ UNCHANGED <<pc, op, buf, eoi, cap, queued, data, seen, rc, sent, end>>
      /\ UNCHANGED <<in, ccen, halt, isr1, holdoff, heard, refused>>
      /\ TypeOK
  BY DEF BusOut, driverVars, callVars, resultVars, devVars, TransferInv, TypeInv
<1>2. pc \in OutPcs /\ pc # "count" /\ OutInv
  BY <1>1 DEF TransferInv, BusOut, Running, IdleInv, QuietBetweenCalls, TypeOK,
              InInv, InChip, OutInv, OutPosition
<1> DEFINE t == Len(taken)
           l == Len(buf)
<1>3. /\ t \in Nat /\ l \in 1 .. MaxTransfer /\ l < CountSpan /\ queued \in Nat
      /\ Len(fifo) \in Nat /\ Len(fifo) > 0 /\ t < queued /\ queued <= l
  <2>1. /\ taken \in Seq([val : Byte, eoi : BOOLEAN]) /\ fifo \in Seq(Byte)
        /\ buf \in Seq(Byte) /\ queued \in Nat
    BY <1>1 DEF TypeOK, ChipTypeOK
  <2>2. t \in Nat /\ Len(fifo) \in Nat
    BY <2>1
  <2>3. Len(fifo) > 0
    BY <2>1, QueueElements DEF BusOut, BEFN
  <2>4. l \in 1 .. MaxTransfer /\ t + Len(fifo) = queued /\ queued <= l
    BY <1>2 DEF OutInv, OutChip
  <2> QED BY <2>1, <2>2, <2>3, <2>4, TransferAssumption, ChipAssumption
<1>4. /\ l - t \in 1 .. CountSpan - 1
      /\ cnt' = Negated(l - (t + 1)) /\ (cnt' = 0 <=> t + 1 = l) /\ (go' <=> cnt' # 0)
  <2>1. l - t \in 1 .. CountSpan - 1 /\ l - t - 1 \in 0 .. CountSpan - 1
    BY <1>3, ChipAssumption
  <2>2. cnt = Negated(l - t) /\ cnt' = CountByte(cnt) /\ go' = (cnt' # 0)
    BY <1>2 DEF OutInv, OutChip, BusOut
  <2>3. cnt' = Negated(l - t - 1) /\ (cnt' = 0 <=> l - t - 1 = 0)
    BY <2>1, <2>2, CounterExact
  <2>4. l - t - 1 = l - (t + 1) /\ (l - t - 1 = 0 <=> t + 1 = l)
    BY <1>3
  <2> QED BY <2>1, <2>2, <2>3, <2>4
<1>5. Len(taken') = t + 1 /\ taken'[t + 1] = [val |-> buf[t + 1], eoi |-> eoi /\ t + 1 = l]
      /\ \A i \in 1 .. t : taken'[i] = taken[i]
  <2>1. Head(fifo) = buf[t + 1] /\ Head(fifo) \in Byte
    <3>1. fifo \in Seq(Byte) /\ fifo # <<>>
      BY <1>1 DEF TypeOK, ChipTypeOK, BusOut, BEFN
    <3>2. fifo[1] = buf[t + 1]
      BY <1>2, <1>3 DEF OutInv, OutChip
    <3> QED BY <3>1, <3>2, QueueElements
  <2>2. [val |-> Head(fifo), eoi |-> ccen /\ cnt' = 0] = [val |-> buf[t + 1], eoi |-> eoi /\ t + 1 = l]
    BY <1>2, <1>4, <2>1 DEF OutInv, OutChip
  <2>3. taken' = Append(taken, [val |-> buf[t + 1], eoi |-> eoi /\ t + 1 = l])
    BY <2>2 DEF BusOut
  <2>4. [val |-> buf[t + 1], eoi |-> eoi /\ t + 1 = l] \in [val : Byte, eoi : BOOLEAN]
    BY <1>1, <2>1 DEF TypeOK
  <2> QED BY <1>1, <2>3, <2>4, QueueElements DEF TypeOK, ChipTypeOK
<1>6. OutFaithful'
  <2> SUFFICES ASSUME NEW i \in 1 .. t + 1
               PROVE  i <= l /\ taken'[i] = [val |-> buf[i], eoi |-> eoi /\ i = l]
    BY <1>1, <1>5 DEF OutFaithful
  <2>1. CASE i = t + 1
    BY <1>3, <1>5, <2>1
  <2>2. CASE i \in 1 .. t
    BY <1>5, <2>2 DEF TransferInv, OutFaithful
  <2> QED BY <1>3, <2>1, <2>2
<1>7. OutChip'
  <2>1. /\ Len(fifo') = Len(fifo) - 1
        /\ \A i \in 1 .. Len(fifo) - 1 : fifo'[i] = fifo[i + 1]
    BY <1>1, QueueElements DEF TypeOK, ChipTypeOK, BusOut, BEFN
  <2>2. \A i \in 1 .. Len(fifo) : fifo[i] = buf[t + i]
    BY <1>2 DEF OutInv, OutChip
  <2>3. \A i \in 1 .. Len(fifo') : fifo'[i] = buf[Len(taken') + i]
    <3> SUFFICES ASSUME NEW i \in 1 .. Len(fifo') PROVE fifo'[i] = buf[Len(taken') + i]
        OBVIOUS
    <3>1. fifo'[i] = buf[t + (i + 1)]
      BY <1>3, <2>1, <2>2
    <3> QED BY <1>3, <1>5, <3>1
  <2>4. Len(taken') + Len(fifo') = queued'
    <3>1. t + Len(fifo) = queued
      BY <1>2 DEF OutInv, OutChip
    <3> QED BY <1>1, <1>3, <1>5, <2>1, <3>1
  <2> QED
    BY <1>1, <1>2, <1>4, <1>5, <2>3, <2>4 DEF OutInv, OutChip
<1>8. OutRefusal' /\ OutPosition'
  <2>1. ~halt /\ ~refused
    BY <1>2 DEF BusOut, Running, OutInv, OutRefusal
  <2> QED
    BY <1>1, <1>2, <1>3, <1>5, <2>1 DEF OutInv, OutRefusal, OutPosition
<1> QED
  BY <1>1, <1>2, <1>6, <1>7, <1>8 DEF TransferInv, OutInv, OutPcs, InPcs

\* A refused byte stays in the FIFO and stops the engine.
LEMMA InvBusRefused ==
    TransferInv /\ BusRefused /\ UNCHANGED driverVars /\ TypeInv' => TransferInv'
<1> SUFFICES ASSUME TransferInv, BusRefused, UNCHANGED driverVars, TypeInv'
    PROVE  TransferInv'
    OBVIOUS
<1>1. /\ UNCHANGED <<pc, op, buf, eoi, cap, queued, data, seen, rc, sent, end>>
      /\ UNCHANGED <<fifo, cnt, in, ccen, go, mode, holdoff, taken, heard>>
      /\ isr1' = isr1 \cup {"ERR"} /\ halt' /\ refused'
      /\ TypeOK
  BY DEF BusRefused, driverVars, callVars, resultVars, TransferInv, TypeInv
<1>2. pc \in OutPcs /\ pc # "count" /\ OutInv
  BY <1>1 DEF TransferInv, BusRefused, Running, IdleInv, QuietBetweenCalls, TypeOK,
              InInv, InChip, OutInv, OutPosition
<1>3. Len(taken) < Len(buf)
  <2>1. fifo \in Seq(Byte) /\ Len(fifo) > 0 /\ Len(taken) \in Nat /\ Len(buf) \in Nat
    BY <1>1, QueueElements DEF TypeOK, ChipTypeOK, BusRefused, BEFN
  <2>2. Len(taken) + Len(fifo) = queued /\ queued <= Len(buf)
    BY <1>2 DEF OutInv, OutChip
  <2> QED BY <1>1, <2>1, <2>2 DEF TypeOK
<1>4. OutChip'
  BY <1>1, <1>2 DEF OutInv, OutChip
<1>5. OutRefusal' /\ OutPosition'
  <2>1. rc = "OK" => pc # "outStop"
    BY <1>2, <1>3 DEF OutInv, OutPosition
  <2> QED BY <1>1, <1>2, <1>3, <2>1 DEF OutInv, OutRefusal, OutPosition
<1>6. OutFaithful'
  BY <1>1 DEF TransferInv, OutFaithful
<1> QED
  BY <1>1, <1>2, <1>4, <1>5, <1>6 DEF TransferInv, OutInv, OutPcs, InPcs

\* A byte from the talker goes to the end of the FIFO, and the holdoff and the END flag
\* tell whether it was the last the talker may say in this call.
LEMMA InvBusIn == TransferInv /\ BusIn /\ UNCHANGED driverVars /\ TypeInv' => TransferInv'
<1> SUFFICES ASSUME TransferInv, BusIn, UNCHANGED driverVars, TypeInv'
    PROVE  TransferInv'
    OBVIOUS
<1> DEFINE m == Head(msg)
           h == Len(heard)
<1>1. /\ UNCHANGED <<pc, op, buf, eoi, cap, queued, data, seen, rc, sent, end>>
      /\ UNCHANGED <<in, ccen, halt, mode, taken, refused>>
      /\ TypeOK
  BY DEF BusIn, driverVars, callVars, resultVars, TransferInv, TypeInv
<1>2. pc \in InPcs /\ InInv /\ go /\ ~halt /\ ~holdoff
  BY <1>1 DEF TransferInv, BusIn, Running, IdleInv, QuietBetweenCalls, TypeOK,
              OutInv, OutChip
<1>3. /\ h \in Nat /\ Len(data) \in Nat /\ Len(fifo) \in Nat /\ cap \in 1 .. MaxTransfer
      /\ cap < CountSpan /\ ~Finished /\ h < cap /\ Len(data) + Len(fifo) = h
  <2>1. h \in Nat /\ Len(data) \in Nat /\ Len(fifo) \in Nat
    BY <1>1 DEF TypeOK, ChipTypeOK
  <2>2. cap \in 1 .. MaxTransfer /\ ~Finished /\ h # cap /\ h <= cap
        /\ Len(data) + Len(fifo) = h
    BY <1>2 DEF InInv, InChip
  <2> QED BY <2>1, <2>2, TransferAssumption, ChipAssumption
<1>4. m \in Item /\ m.val \in Byte
  <2>1. msg \in Seq(Item) /\ msg # <<>>
    BY <1>1 DEF BusIn, TypeOK, ChipTypeOK
  <2>2. m \in Item
    BY <2>1, QueueElements
  <2> QED BY <2>2 DEF Item
<1>5. /\ heard' = Append(heard, m) /\ Len(heard') = h + 1 /\ heard'[h + 1] = m
      /\ \A i \in 1 .. h : heard'[i] = heard[i]
  <2>1. heard' = Append(heard, m) /\ heard \in Seq(Item)
    BY <1>1 DEF BusIn, TypeOK, ChipTypeOK
  <2> QED BY <1>4, <2>1, QueueElements
<1>6. /\ fifo' = Append(fifo, m.val) /\ Len(fifo') = Len(fifo) + 1
      /\ fifo'[Len(fifo) + 1] = m.val
      /\ \A i \in 1 .. Len(fifo) : fifo'[i] = fifo[i]
  <2>1. fifo' = Append(fifo, m.val) /\ fifo \in Seq(Byte)
    BY <1>1 DEF BusIn, TypeOK, ChipTypeOK
  <2> QED BY <1>4, <2>1, QueueElements
<1>7. /\ cnt' = Negated(cap - (h + 1)) /\ (cnt' = 0 <=> h + 1 = cap)
      /\ (go' <=> cnt' # 0)
  <2>1. /\ cap - h \in 1 .. CountSpan - 1 /\ cap - h - 1 \in 0 .. CountSpan - 1
        /\ cap - h - 1 = cap - (h + 1) /\ (cap - h - 1 = 0 <=> h + 1 = cap)
    BY <1>3, ChipAssumption
  <2>2. cnt = Negated(cap - h) /\ cnt' = CountByte(cnt) /\ go' = (cnt' # 0)
    BY <1>2 DEF InInv, InChip, BusIn
  <2>3. cnt' = Negated(cap - h - 1) /\ (cnt' = 0 <=> cap - h - 1 = 0)
    BY <2>1, <2>2, CounterExact
  <2> QED BY <2>1, <2>2, <2>3
<1>8. Finished' <=> m.end
  <2>1. heard' # <<>>
    BY <1>3, <1>5
  <2> QED BY <1>5, <2>1 DEF Finished
<1>9. /\ \A i \in 1 .. Len(data') : data'[i] = heard'[i].val
      /\ \A i \in 1 .. Len(fifo') : fifo'[i] = heard'[Len(data') + i].val
      /\ \A i \in 1 .. Len(heard') - 1 : ~heard'[i].end
  <2>1. \A i \in 1 .. Len(data') : data'[i] = heard'[i].val
    BY <1>1, <1>2, <1>3, <1>5 DEF InInv, InChip
  <2>2. ASSUME NEW i \in 1 .. Len(fifo') PROVE fifo'[i] = heard'[Len(data') + i].val
    <3>1. CASE i = Len(fifo) + 1
      BY <1>1, <1>3, <1>5, <1>6, <3>1
    <3>2. CASE i \in 1 .. Len(fifo)
      <4>1. Len(data) + i \in 1 .. h /\ fifo[i] = heard[Len(data) + i].val
        BY <1>2, <1>3, <3>2 DEF InInv, InChip
      <4> QED BY <1>1, <1>5, <1>6, <3>2, <4>1
    <3> QED BY <1>3, <1>6, <3>1, <3>2
  <2>3. ASSUME NEW i \in 1 .. Len(heard') - 1 PROVE ~heard'[i].end
    <3>1. i \in 1 .. h /\ heard'[i] = heard[i] /\ heard # <<>>
      BY <1>1, <1>3, <1>5 DEF TypeOK, ChipTypeOK
    <3>2. CASE i = h
      BY <1>3, <3>1, <3>2 DEF Finished
    <3>3. CASE i \in 1 .. h - 1
      BY <1>2, <3>1, <3>3 DEF InInv, InChip
    <3> QED BY <1>3, <3>1, <3>2, <3>3
  <2> QED BY <2>1, <2>2, <2>3
<1>10. holdoff' <=> Finished' \/ Len(heard') = cap'
  <2>1. mode = "HLDE" /\ ccen
    BY <1>2 DEF InInv, InChip
  <2>2. holdoff' <=> m.end \/ cnt' = 0
    BY <2>1 DEF BusIn, HoldsAfter
  <2> QED BY <1>1, <1>5, <1>7, <1>8, <2>2
<1>11. "END" \in seen' \cup isr1' <=> Finished'
  <2>1. "END" \notin seen \cup isr1
    BY <1>2, <1>3 DEF InInv, InChip
  <2>2. isr1' = IF m.end THEN isr1 \cup {"END"} ELSE isr1
    BY DEF BusIn
  <2> QED BY <1>1, <1>8, <2>1, <2>2
<1>12. InChip'
  <2>1. /\ op' = "read" /\ cap' \in 1 .. MaxTransfer
        /\ in' /\ ccen' /\ mode' = "HLDE" /\ ~halt'
        /\ taken' = <<>> /\ ~refused'
    BY <1>1, <1>2 DEF InInv, InChip
  <2>2. Len(data') + Len(fifo') = Len(heard') /\ Len(heard') <= cap'
    <3>1. data' = data /\ cap' = cap
      BY <1>1
    <3> QED BY <1>3, <1>5, <1>6, <3>1
  <2>3. cnt' = Negated(cap' - Len(heard')) /\ (go' <=> cnt' # 0)
    BY <1>1, <1>5, <1>7
  <2> QED BY <1>9, <1>10, <1>11, <2>1, <2>2, <2>3 DEF InChip
<1>13. InPosition'
  <2>1. pc # "endDrain" /\ ~(pc = "inStop" /\ rc = "OK")
    BY <1>2, <1>3 DEF InInv, InPosition
  <2> QED BY <1>1, <1>2, <1>3, <2>1 DEF InInv, InPosition
<1>14. OutFaithful'
  BY <1>1 DEF TransferInv, OutFaithful
<1> QED
  BY <1>1, <1>2, <1>12, <1>13, <1>14 DEF TransferInv, InInv, OutPcs, InPcs

------------------------------------------------------------------------------
(* The calls keep the invariant *)

\* A call refused for its length leaves a result nothing contradicts.
LEMMA InvNothing ==
    ASSUME TransferInv, TypeInv',
           NEW b \in Seq(Byte), NEW e \in BOOLEAN, NEW c \in Nat,
           WriteNothing(b, e) \/ ReadNothing(c)
    PROVE  TransferInv'
<1>1. /\ pc = "idle" /\ pc' = "idle" /\ UNCHANGED <<halt, holdoff>>
      /\ taken' = <<>> /\ heard' = <<>> /\ data' = <<>> /\ sent' = 0
      /\ ~refused' /\ ~end'
  BY DEF WriteNothing, ReadNothing, NewCall, chipVars
<1>2. /\ op' = "write" => (rc' = "OK" => buf' = <<>>)
      /\ op' = "read" => (rc' = "OK" => cap' = 0)
      /\ rc' # "NOLISTENER"
  BY DEF WriteNothing, ReadNothing, NewCall
<1>3. IdleInv'
  <2>1. QuietBetweenCalls'
    BY <1>1 DEF TransferInv, IdleInv, QuietBetweenCalls
  <2>2. SentExact' /\ NoListenerReal'
    BY <1>1, <1>2 DEF SentExact, NoListenerReal
  <2>3. ReadLossless' /\ EndExact'
    BY <1>1, <1>2 DEF ReadLossless, EndExact
  <2> QED BY <2>1, <2>2, <2>3 DEF IdleInv
<1>4. OutFaithful'
  BY <1>1 DEF OutFaithful
<1> QED BY <1>1, <1>3, <1>4 DEF TransferInv, OutPcs, InPcs

\* A write starts with an empty FIFO and the whole message to count.
LEMMA InvStartWrite ==
    ASSUME TransferInv, TypeInv', NEW b \in Seq(Byte), NEW e \in BOOLEAN, StartWrite(b, e)
    PROVE  TransferInv'
<1>1. /\ pc' = "queue" /\ op' = "write" /\ buf' = b /\ eoi' = e /\ queued' = 0
      /\ taken' = <<>> /\ fifo' = <<>> /\ ~refused' /\ rc' = "OK"
      /\ Len(b) \in 1 .. MaxTransfer
      /\ ~in' /\ ccen' = e /\ holdoff' = holdoff
      /\ cnt' = Negated(Len(b)) /\ go' /\ ~halt'
      /\ "ERR" \notin seen' /\ isr1' = {}
  BY DEF StartWrite, NewCall, ResetFifo, ForgetFlag, Go
<1>2. holdoff
  BY DEF TransferInv, IdleInv, QuietBetweenCalls, StartWrite
<1>3. Len(b) \in 1 .. CountSpan - 1 /\ cnt' # 0
  <2>1. Len(b) \in 1 .. CountSpan - 1
    BY <1>1, TransferAssumption, ChipAssumption
  <2> QED BY <1>1, <2>1, CounterExact
<1>4. OutChip'
  BY <1>1, <1>2, <1>3 DEF OutChip
<1>5. OutRefusal' /\ OutPosition'
  BY <1>1 DEF OutRefusal, OutPosition
<1>6. OutFaithful'
  BY <1>1 DEF OutFaithful
<1> QED BY <1>1, <1>4, <1>5, <1>6 DEF TransferInv, OutInv, OutPcs, InPcs

\* A read starts with an empty FIFO, the whole buffer to count and the talker released.
LEMMA InvStartRead ==
    ASSUME TransferInv, TypeInv', NEW c \in Nat, StartRead(c)
    PROVE  TransferInv'
<1>1. /\ pc' = "drain" /\ op' = "read" /\ cap' = c /\ data' = <<>> /\ heard' = <<>>
      /\ taken' = <<>> /\ fifo' = <<>> /\ ~refused' /\ rc' = "OK" /\ ~end'
      /\ c \in 1 .. MaxTransfer
      /\ in' /\ ccen' /\ ~holdoff' /\ mode' = "HLDE"
      /\ cnt' = Negated(c) /\ go' /\ ~halt'
      /\ "END" \notin seen' /\ isr1' = {}
  BY DEF StartRead, NewCall, ResetFifo, ForgetFlag, Go, ReleaseHoldoff
<1>2. c \in 1 .. CountSpan - 1 /\ cnt' # 0
  <2>1. c \in 1 .. CountSpan - 1
    BY <1>1, TransferAssumption, ChipAssumption
  <2> QED BY <1>1, <2>1, CounterExact
<1>3. ~Finished'
  BY <1>1 DEF Finished
<1>4. InChip'
  BY <1>1, <1>2, <1>3 DEF InChip
<1>5. InPosition'
  BY <1>1 DEF InPosition
<1>6. OutFaithful'
  BY <1>1 DEF OutFaithful
<1> QED BY <1>1, <1>4, <1>5, <1>6 DEF TransferInv, InInv, OutPcs, InPcs

\* Every call, refused or started.
LEMMA InvCall == TransferInv /\ Call /\ TypeInv' => TransferInv'
<1> SUFFICES ASSUME TransferInv, Call, TypeInv' PROVE TransferInv'
    OBVIOUS
<1>1. ASSUME NEW b \in Buffers, NEW e \in BOOLEAN, WriteNothing(b, e) \/ StartWrite(b, e)
      PROVE  TransferInv'
  <2>1. b \in Seq(Byte) /\ 0 \in Nat
    BY TransferAssumption
  <2>2. CASE WriteNothing(b, e)
    BY <2>1, <2>2, InvNothing
  <2>3. CASE StartWrite(b, e)
    BY <2>1, <2>3, InvStartWrite
  <2> QED BY <1>1, <2>2, <2>3
<1>2. ASSUME NEW c \in Caps, ReadNothing(c) \/ StartRead(c)
      PROVE  TransferInv'
  <2>1. c \in Nat /\ <<>> \in Seq(Byte) /\ TRUE \in BOOLEAN
    BY TransferAssumption
  <2>2. CASE ReadNothing(c)
    BY <2>1, <2>2, InvNothing
  <2>3. CASE StartRead(c)
    BY <2>1, <2>3, InvStartRead
  <2> QED BY <1>2, <2>2, <2>3
<1> QED BY <1>1, <1>2 DEF Call

------------------------------------------------------------------------------
(* The steps of tnt_transfer_out keep the invariant *)

\* A queued byte joins the end of the FIFO.
LEMMA InvQueueByte == TransferInv /\ QueueByte /\ TypeInv' => TransferInv'
<1> SUFFICES ASSUME TransferInv, QueueByte, TypeInv' PROVE TransferInv'
    OBVIOUS
<1>1. /\ UNCHANGED <<op, buf, eoi, cap, data, seen, rc, sent, end>>
      /\ UNCHANGED <<cnt, in, ccen, go, halt, isr1, holdoff, taken, heard, refused>>
      /\ queued' = queued + 1 /\ pc = "queue" /\ pc' \in {"queue", "done"}
      /\ TypeOK
  BY DEF QueueByte, busLog, callVars, resultVars, TransferInv, TypeInv
<1>2. OutInv /\ queued < Len(buf)
  BY <1>1 DEF TransferInv, OutPcs, OutInv, OutPosition
<1>3. /\ Len(taken) \in Nat /\ Len(fifo) \in Nat /\ queued \in Nat /\ Len(buf) \in Nat
      /\ Len(taken) + Len(fifo) = queued
  BY <1>1, <1>2 DEF TypeOK, ChipTypeOK, OutInv, OutChip
<1>4. /\ Len(fifo') = Len(fifo) + 1 /\ fifo'[Len(fifo) + 1] = buf[queued + 1]
      /\ \A i \in 1 .. Len(fifo) : fifo'[i] = fifo[i]
  <2>1. fifo' = Append(fifo, buf[queued + 1]) /\ fifo \in Seq(Byte)
    BY <1>1 DEF QueueByte, TypeOK, ChipTypeOK
  <2>2. buf[queued + 1] \in Byte
    BY <1>1, <1>2, <1>3 DEF TypeOK
  <2> QED BY <2>1, <2>2, QueueElements
<1>5. \A i \in 1 .. Len(fifo') : fifo'[i] = buf'[Len(taken') + i]
  <2> SUFFICES ASSUME NEW i \in 1 .. Len(fifo') PROVE fifo'[i] = buf[Len(taken) + i]
    BY <1>1
  <2>1. CASE i = Len(fifo) + 1
    BY <1>3, <1>4, <2>1
  <2>2. CASE i \in 1 .. Len(fifo)
    BY <1>2, <1>4, <2>2 DEF OutInv, OutChip
  <2> QED BY <1>3, <1>4, <2>1, <2>2
<1>6. Len(taken') + Len(fifo') = queued' /\ queued' <= Len(buf')
  <2>1. taken' = taken /\ buf' = buf /\ queued' = queued + 1
    BY <1>1
  <2> QED BY <1>2, <1>3, <1>4, <2>1
<1>7. OutChip'
  BY <1>1, <1>2, <1>5, <1>6 DEF OutInv, OutChip
<1>8. OutRefusal' /\ OutPosition'
  <2>1. pc' = IF queued' < Len(buf') THEN "queue" ELSE "done"
    BY <1>1 DEF QueueByte
  <2>2. pc' = "queue" => queued' < Len(buf')
    BY <2>1
  <2>3. pc' = "done" => queued' = Len(buf')
    BY <1>1, <1>2, <1>3, <2>1
  <2> QED BY <1>1, <1>2, <2>2, <2>3 DEF OutInv, OutRefusal, OutPosition
<1>9. OutFaithful'
  BY <1>1 DEF TransferInv, OutFaithful
<1> QED BY <1>1, <1>7, <1>8, <1>9 DEF TransferInv, OutInv, OutPcs, InPcs

\* Waiting for room moves nothing.
LEMMA InvQueueFull == TransferInv /\ QueueFull /\ TypeInv' => TransferInv'
<1> SUFFICES ASSUME TransferInv, QueueFull, TypeInv' PROVE TransferInv'
    OBVIOUS
<1>1. /\ UNCHANGED <<chipVars, busLog, callVars, queued, data, seen, resultVars>>
      /\ pc = "queue" /\ pc' = "queuePoll"
  BY DEF QueueFull
<1>2. OutInv
  BY <1>1 DEF TransferInv, OutPcs
<1>3. OutInv'
  BY <1>1, <1>2
     DEF OutInv, OutChip, OutRefusal, OutPosition, chipVars, busLog, callVars, resultVars
<1>4. OutFaithful'
  BY <1>1 DEF TransferInv, OutFaithful, busLog, callVars
<1> QED BY <1>1, <1>3, <1>4 DEF TransferInv, OutPcs, InPcs

\* DONE is believed: it is raised only when the whole message was taken.
LEMMA InvCheckDone == TransferInv /\ CheckDone /\ TypeInv' => TransferInv'
<1> SUFFICES ASSUME TransferInv, CheckDone, TypeInv' PROVE TransferInv'
    OBVIOUS
<1>1. /\ UNCHANGED <<chipVars, busLog, callVars, queued, data, seen, resultVars>>
      /\ pc = "done" /\ pc' \in {"outStop", "donePoll"} /\ TypeOK
  BY DEF CheckDone, TransferInv, TypeInv
<1>2. OutInv
  BY <1>1 DEF TransferInv, OutPcs
<1>3. pc' = "outStop" => Len(taken) = Len(buf)
  <2>1. /\ Len(taken) \in Nat /\ Len(buf) \in 1 .. MaxTransfer /\ Len(fifo) \in Nat
        /\ Len(taken) + Len(fifo) = Len(buf)
    BY <1>1, <1>2 DEF TypeOK, ChipTypeOK, OutInv, OutChip, OutPosition
  <2>2. Len(buf) - Len(taken) \in 0 .. CountSpan - 1
    BY <2>1, TransferAssumption, ChipAssumption
  <2>3. pc' = "outStop" => cnt = 0
    BY <1>1, <1>2 DEF CheckDone, DONE, OutInv, OutChip
  <2>4. cnt = Negated(Len(buf) - Len(taken))
    BY <1>2 DEF OutInv, OutChip
  <2> QED BY <2>1, <2>2, <2>3, <2>4, CounterExact
<1>4. OutInv'
  BY <1>1, <1>2, <1>3
     DEF OutInv, OutChip, OutRefusal, OutPosition, chipVars, busLog, callVars, resultVars
<1>5. OutFaithful'
  BY <1>1 DEF TransferInv, OutFaithful, busLog, callVars
<1> QED BY <1>1, <1>4, <1>5 DEF TransferInv, OutPcs, InPcs

\* Polling moves ERR from the chip to c->isr1 and gives up when it is there.
LEMMA InvPollOut ==
    ASSUME TransferInv, TypeInv',
           PollOut("queuePoll", "queue") \/ PollOut("donePoll", "done")
    PROVE  TransferInv'
<1>1. /\ UNCHANGED <<op, buf, eoi, cap, queued, data, sent, end>>
      /\ UNCHANGED <<fifo, cnt, in, ccen, go, halt, holdoff, taken, heard, refused>>
      /\ seen' = seen \cup isr1 /\ isr1' = {}
      /\ pc \in {"queuePoll", "donePoll"}
      /\ pc' = "queue" => pc = "queuePoll"
      /\ pc' = "done" => pc = "donePoll"
      /\ pc' \in {"queue", "done", "outStop"}
  BY DEF PollOut, PollStatus, busLog, callVars
<1>2. OutInv
  BY <1>1 DEF TransferInv, OutPcs
<1>3. /\ pc' \in {"queue", "done"} => rc' = rc
      /\ pc' = "outStop" => rc' = "TIMEOUT" \/ (rc' = "NOLISTENER" /\ "ERR" \in seen')
  BY DEF PollOut
<1>4. OutChip'
  BY <1>1, <1>2 DEF OutInv, OutChip
<1>5. OutRefusal'
  BY <1>1, <1>2 DEF OutInv, OutRefusal
<1>6. OutPosition'
  <2>1. rc' = "NOLISTENER" => refused'
    BY <1>1, <1>2, <1>3, <1>5 DEF OutInv, OutPosition, OutRefusal
  <2> QED BY <1>1, <1>2, <1>3, <2>1 DEF OutInv, OutPosition
<1>7. OutFaithful'
  BY <1>1 DEF TransferInv, OutFaithful
<1> QED BY <1>1, <1>4, <1>5, <1>6, <1>7 DEF TransferInv, OutInv, OutPcs, InPcs

\* Once stopped, nothing moves until the counter has been read.
LEMMA InvStopOut == TransferInv /\ StopOut /\ TypeInv' => TransferInv'
<1> SUFFICES ASSUME TransferInv, StopOut, TypeInv' PROVE TransferInv'
    OBVIOUS
<1>1. /\ UNCHANGED <<op, buf, eoi, cap, queued, data, seen, rc, sent, end>>
      /\ UNCHANGED <<fifo, cnt, in, ccen, isr1, holdoff, taken, heard, refused>>
      /\ pc = "outStop" /\ pc' = "count" /\ halt'
  BY DEF StopOut, Stop, busLog, callVars, resultVars
<1>2. OutInv
  BY <1>1 DEF TransferInv, OutPcs
<1>3. OutChip' /\ OutRefusal' /\ OutPosition'
  BY <1>1, <1>2 DEF OutInv, OutChip, OutRefusal, OutPosition
<1>4. OutFaithful'
  BY <1>1 DEF TransferInv, OutFaithful
<1> QED BY <1>1, <1>3, <1>4 DEF TransferInv, OutInv, OutPcs, InPcs

\* The counter tells what was taken.
LEMMA InvReturnWrite == TransferInv /\ ReturnWrite /\ TypeInv' => TransferInv'
<1> SUFFICES ASSUME TransferInv, ReturnWrite, TypeInv' PROVE TransferInv'
    OBVIOUS
<1>1. /\ UNCHANGED <<op, buf, eoi, cap, rc, end, halt, holdoff, taken, heard, refused>>
      /\ pc = "count" /\ pc' = "idle" /\ sent' = SentCount /\ TypeOK
  BY DEF ReturnWrite, chipVars, busLog, callVars, TransferInv, TypeInv
<1>2. OutInv
  BY <1>1 DEF TransferInv, OutPcs
<1>3. sent' = Len(taken)
  <2>1. /\ Len(taken) \in Nat /\ Len(buf) \in 1 .. MaxTransfer /\ Len(taken) <= Len(buf)
    <3>1. Len(taken) \in Nat /\ Len(fifo) \in Nat /\ Len(taken) + Len(fifo) = queued
      BY <1>1, <1>2 DEF TypeOK, ChipTypeOK, OutInv, OutChip
    <3>2. Len(buf) \in 1 .. MaxTransfer /\ queued <= Len(buf)
      BY <1>2 DEF OutInv, OutChip
    <3> QED BY <3>1, <3>2, TransferAssumption
  <2>2. Len(buf) - Len(taken) \in 0 .. CountSpan - 1
    BY <2>1, TransferAssumption, ChipAssumption
  <2>3. Negated(cnt) = Len(buf) - Len(taken)
    BY <1>2, <2>2, CounterExact DEF OutInv, OutChip
  <2> QED BY <1>1, <2>1, <2>3, TransferAssumption DEF SentCount
<1>4. IdleInv'
  <2>1. QuietBetweenCalls'
    BY <1>1, <1>2 DEF OutInv, OutChip, OutPosition, QuietBetweenCalls
  <2>2. SentExact'
    BY <1>1, <1>2, <1>3 DEF OutInv, OutPosition, SentExact
  <2>3. NoListenerReal'
    BY <1>1, <1>2, <1>3 DEF OutInv, OutPosition, OutRefusal, OutChip, NoListenerReal, TypeOK
  <2>4. ReadLossless' /\ EndExact'
    BY <1>1, <1>2 DEF OutInv, OutChip, ReadLossless, EndExact
  <2> QED BY <2>1, <2>2, <2>3, <2>4 DEF IdleInv
<1>5. OutFaithful'
  BY <1>1 DEF TransferInv, OutFaithful
<1> QED BY <1>1, <1>4, <1>5 DEF TransferInv, OutPcs, InPcs

------------------------------------------------------------------------------
(* The steps of tnt_read keep the invariant *)

\* A drained byte is the oldest in the FIFO.
LEMMA InvDrainByte == TransferInv /\ DrainByte /\ TypeInv' => TransferInv'
<1> SUFFICES ASSUME TransferInv, DrainByte, TypeInv' PROVE TransferInv'
    OBVIOUS
<1> DEFINE d == Len(data)
           f == Len(fifo)
<1>1. /\ UNCHANGED <<pc, op, buf, eoi, cap, seen, rc, sent, end>>
      /\ UNCHANGED <<cnt, in, ccen, go, halt, isr1, mode, holdoff, taken, heard, refused>>
      /\ pc \in {"drain", "endDrain"} /\ d < cap
      /\ TypeOK
  BY DEF DrainByte, busLog, callVars, resultVars, TransferInv, TypeInv
<1>2. InInv
  BY <1>1 DEF TransferInv, InPcs
<1>3. /\ Len(fifo') = f - 1 /\ f > 0 /\ f \in Nat /\ d \in Nat /\ Len(heard) \in Nat
      /\ d + f = Len(heard)
      /\ \A i \in 1 .. f - 1 : fifo'[i] = fifo[i + 1]
  <2>1. fifo \in Seq(Byte) /\ fifo # <<>> /\ fifo' = Tail(fifo)
    BY <1>1 DEF DrainByte, BEFN, TypeOK, ChipTypeOK
  <2>2. /\ f > 0 /\ f \in Nat /\ Len(fifo') = f - 1
        /\ \A i \in 1 .. f - 1 : fifo'[i] = fifo[i + 1]
    BY <2>1, QueueElements
  <2>3. d \in Nat /\ Len(heard) \in Nat /\ d + f = Len(heard)
    BY <1>1, <1>2 DEF TypeOK, ChipTypeOK, InInv, InChip
  <2> QED BY <2>2, <2>3
<1>4. /\ Len(data') = d + 1 /\ data'[d + 1] = fifo[1]
      /\ \A i \in 1 .. d : data'[i] = data[i]
  <2>1. fifo \in Seq(Byte) /\ fifo # <<>> /\ data' = Append(data, Head(fifo))
        /\ data \in Seq(Byte)
    BY <1>1 DEF DrainByte, BEFN, TypeOK, ChipTypeOK
  <2>2. Head(fifo) = fifo[1] /\ Head(fifo) \in Byte
    BY <2>1, QueueElements
  <2> QED BY <2>1, <2>2, QueueElements
<1>5. fifo[1] = heard[d + 1].val
  BY <1>2, <1>3 DEF InInv, InChip
<1>6. \A i \in 1 .. Len(data') : data'[i] = heard'[i].val
  <2> SUFFICES ASSUME NEW i \in 1 .. d + 1 PROVE data'[i] = heard[i].val
    BY <1>1, <1>4
  <2>1. CASE i = d + 1
    BY <1>4, <1>5, <2>1
  <2>2. CASE i \in 1 .. d
    BY <1>2, <1>4, <2>2 DEF InInv, InChip
  <2> QED BY <1>3, <2>1, <2>2
<1>7. \A i \in 1 .. Len(fifo') : fifo'[i] = heard'[Len(data') + i].val
  <2> SUFFICES ASSUME NEW i \in 1 .. f - 1 PROVE fifo'[i] = heard[(d + 1) + i].val
    BY <1>1, <1>3, <1>4
  <2>1. fifo'[i] = fifo[i + 1] /\ i + 1 \in 1 .. f
    BY <1>3
  <2>2. fifo[i + 1] = heard[d + (i + 1)].val
    BY <1>2, <2>1 DEF InInv, InChip
  <2> QED BY <1>3, <2>1, <2>2
<1>8. Len(data') + Len(fifo') = Len(heard')
  <2>1. heard' = heard
    BY <1>1
  <2>2. Len(data') = d + 1 /\ Len(fifo') = f - 1 /\ (d + 1) + (f - 1) = d + f
    BY <1>3, <1>4
  <2> QED BY <1>3, <2>1, <2>2
<1>9. Finished' <=> Finished
  BY <1>1 DEF Finished
<1>10. InChip'
  BY <1>1, <1>2, <1>6, <1>7, <1>8, <1>9 DEF InInv, InChip
<1>11. InPosition'
  BY <1>1, <1>2, <1>9 DEF InInv, InPosition
<1>12. OutFaithful'
  BY <1>1 DEF TransferInv, OutFaithful
<1> QED BY <1>1, <1>10, <1>11, <1>12 DEF TransferInv, InInv, OutPcs, InPcs

\* The end of a round of the read loop moves nothing.
LEMMA InvDrainReturns == TransferInv /\ DrainReturns /\ TypeInv' => TransferInv'
<1> SUFFICES ASSUME TransferInv, DrainReturns, TypeInv' PROVE TransferInv'
    OBVIOUS
<1>1. /\ UNCHANGED <<chipVars, busLog, callVars, data, seen, resultVars>>
      /\ pc = "drain" /\ pc' \in {"lastPoll", "drain", "inPoll"} /\ TypeOK
      /\ pc' = "lastPoll" => Len(data) = cap
      /\ pc' = "inPoll" => Len(data) # cap
  BY DEF DrainReturns, TransferInv, TypeInv
<1>2. InInv
  BY <1>1 DEF TransferInv, InPcs
<1>3. InChip'
  BY <1>1, <1>2 DEF InInv, InChip, Finished, chipVars, busLog, callVars, resultVars
<1>4. InPosition'
  <2>1. Len(data) \in Nat /\ cap \in Nat /\ Len(data) <= cap
    <3>1. Len(data) \in Nat /\ Len(fifo) \in Nat /\ Len(heard) \in Nat /\ cap \in Nat
      BY <1>1 DEF TypeOK, ChipTypeOK
    <3>2. Len(data) + Len(fifo) = Len(heard) /\ Len(heard) <= cap
      BY <1>2 DEF InInv, InChip
    <3> QED BY <3>1, <3>2
  <2>2. pc' = "inPoll" => Len(data) < cap
    BY <1>1, <2>1
  <2> QED
    BY <1>1, <1>2, <2>2 DEF InInv, InPosition, Finished, busLog, callVars, resultVars
<1>5. OutFaithful'
  BY <1>1 DEF TransferInv, OutFaithful, busLog, callVars
<1> QED BY <1>1, <1>3, <1>4, <1>5 DEF TransferInv, InInv, OutPcs, InPcs

\* After END the drain has emptied the FIFO: what the talker said is all there.
LEMMA InvEndDrained == TransferInv /\ EndDrained /\ TypeInv' => TransferInv'
<1> SUFFICES ASSUME TransferInv, EndDrained, TypeInv' PROVE TransferInv'
    OBVIOUS
<1>1. /\ UNCHANGED <<chipVars, busLog, callVars, data, seen, rc, sent>>
      /\ pc = "endDrain" /\ pc' = "inStop" /\ end' /\ TypeOK
      /\ Len(data) = cap \/ fifo = <<>>
  BY DEF EndDrained, BEFN, TransferInv, TypeInv
<1>2. InInv /\ Finished /\ rc = "OK"
  BY <1>1 DEF TransferInv, InPcs, InInv, InPosition
<1>3. InChip'
  BY <1>1, <1>2 DEF InInv, InChip, Finished, chipVars, busLog, callVars
<1>4. Len(data) = Len(heard) /\ Len(data) > 0
  <2>1. /\ Len(data) \in Nat /\ Len(fifo) \in Nat /\ Len(heard) \in Nat /\ cap \in Nat
        /\ heard # <<>> => Len(heard) > 0
    BY <1>1 DEF TypeOK, ChipTypeOK
  <2>2. Len(data) + Len(fifo) = Len(heard) /\ Len(heard) <= cap /\ heard # <<>>
    BY <1>2 DEF InInv, InChip, Finished
  <2>3. fifo = <<>> => Len(fifo) = 0
    OBVIOUS
  <2> QED BY <1>1, <2>1, <2>2, <2>3
<1>5. InPosition'
  BY <1>1, <1>2, <1>4 DEF InPosition, Finished, busLog, callVars
<1>6. OutFaithful'
  BY <1>1 DEF TransferInv, OutFaithful, busLog, callVars
<1> QED BY <1>1, <1>3, <1>5, <1>6 DEF TransferInv, InInv, OutPcs, InPcs

\* Polling moves END from the chip to c->isr1: it decides only what it means.
LEMMA InvPollIn == TransferInv /\ PollIn /\ TypeInv' => TransferInv'
<1> SUFFICES ASSUME TransferInv, PollIn, TypeInv' PROVE TransferInv'
    OBVIOUS
<1>1. /\ UNCHANGED <<op, buf, eoi, cap, data, sent, end>>
      /\ UNCHANGED <<fifo, cnt, in, ccen, go, halt, mode, holdoff, taken, heard, refused>>
      /\ seen' = seen \cup isr1 /\ isr1' = {} /\ pc = "inPoll"
  BY DEF PollIn, PollStatus, busLog, callVars
<1>2. \/ "END" \in seen' /\ rc' = rc /\ pc' = "endDrain"
      \/ rc' = "TIMEOUT" /\ pc' = "inStop"
      \/ rc' = rc /\ pc' = "drain"
  BY DEF PollIn
<1>3. InInv
  BY <1>1 DEF TransferInv, InPcs
<1>4. Finished' <=> Finished
  BY <1>1 DEF Finished
<1>5. InChip'
  BY <1>1, <1>3, <1>4 DEF InInv, InChip
<1>6. InPosition'
  <2>1. rc = "OK" /\ ~end
    BY <1>1, <1>3 DEF InInv, InPosition
  <2>2. "END" \in seen' => Finished'
    BY <1>1, <1>3, <1>4 DEF InInv, InChip
  <2> QED BY <1>1, <1>2, <2>1, <2>2 DEF InPosition
<1>7. OutFaithful'
  BY <1>1 DEF TransferInv, OutFaithful
<1> QED BY <1>2, <1>5, <1>6, <1>7 DEF TransferInv, InInv, OutPcs, InPcs

\* A full buffer holds everything the talker was allowed to say, and END is asked for.
LEMMA InvLastPoll == TransferInv /\ LastPoll /\ TypeInv' => TransferInv'
<1> SUFFICES ASSUME TransferInv, LastPoll, TypeInv' PROVE TransferInv'
    OBVIOUS
<1>1. /\ UNCHANGED <<op, buf, eoi, cap, data, rc, sent>>
      /\ UNCHANGED <<fifo, cnt, in, ccen, go, halt, mode, holdoff, taken, heard, refused>>
      /\ seen' = seen \cup isr1 /\ isr1' = {} /\ pc = "lastPoll" /\ pc' = "inStop"
      /\ end' = ("END" \in seen') /\ TypeOK
  BY DEF LastPoll, PollStatus, busLog, callVars, TransferInv, TypeInv
<1>2. InInv /\ Len(data) = cap /\ rc = "OK"
  BY <1>1 DEF TransferInv, InPcs, InInv, InPosition
<1>3. Finished' <=> Finished
  BY <1>1 DEF Finished
<1>4. InChip'
  BY <1>1, <1>2, <1>3 DEF InInv, InChip
<1>5. end' = Finished'
  BY <1>1, <1>2, <1>3 DEF InInv, InChip, Finished
<1>6. Len(data) = Len(heard) /\ Len(data) > 0
  <2>1. Len(data) \in Nat /\ Len(fifo) \in Nat /\ Len(heard) \in Nat
    BY <1>1 DEF TypeOK, ChipTypeOK
  <2>2. Len(data) + Len(fifo) = Len(heard) /\ Len(heard) <= cap /\ cap \in 1 .. MaxTransfer
    BY <1>2 DEF InInv, InChip
  <2> QED BY <1>2, <2>1, <2>2, TransferAssumption
<1>7. InPosition'
  BY <1>1, <1>2, <1>5, <1>6 DEF InPosition
<1>8. OutFaithful'
  BY <1>1 DEF TransferInv, OutFaithful
<1> QED BY <1>1, <1>4, <1>7, <1>8 DEF TransferInv, InInv, OutPcs, InPcs

\* However the read ended, the talker is held off when it returns: by END, by the count,
\* or by AUX_HLDI after a timeout.
LEMMA InvReturnRead == TransferInv /\ ReturnRead /\ TypeInv' => TransferInv'
<1> SUFFICES ASSUME TransferInv, ReturnRead, TypeInv' PROVE TransferInv'
    OBVIOUS
<1>1. /\ UNCHANGED <<op, buf, eoi, cap, data, rc, sent, end, taken, heard, refused>>
      /\ pc = "inStop" /\ pc' = "idle" /\ halt' /\ holdoff' = (holdoff \/ rc = "TIMEOUT")
      /\ TypeOK
  BY DEF ReturnRead, Stop, HoldAfterTimeout, busLog, callVars, resultVars, TransferInv, TypeInv
<1>2. InInv
  BY <1>1 DEF TransferInv, InPcs
<1>3. \/ rc = "TIMEOUT" /\ ~end
      \/ /\ rc = "OK" /\ Len(data) = Len(heard) /\ Len(data) > 0
         /\ end = Finished /\ (end \/ Len(data) = cap)
  BY <1>1, <1>2 DEF InInv, InPosition
<1>4. QuietBetweenCalls'
  <2>1. Finished \/ Len(heard) = cap => holdoff
    BY <1>2 DEF InInv, InChip
  <2>2. rc = "TIMEOUT" \/ Finished \/ Len(heard) = cap
    BY <1>3
  <2>3. holdoff'
    BY <1>1, <2>1, <2>2
  <2> QED BY <1>1, <2>3 DEF QuietBetweenCalls
<1>5. SentExact' /\ NoListenerReal'
  BY <1>1, <1>2, <1>3 DEF InInv, InChip, SentExact, NoListenerReal
<1>6. ReadLossless'
  <2>1. Len(data) \in Nat /\ Len(fifo) \in Nat /\ Len(heard) \in Nat
    BY <1>1 DEF TypeOK, ChipTypeOK
  <2>2. Len(data) + Len(fifo) = Len(heard)
    BY <1>2 DEF InInv, InChip
  <2>3. Len(data) <= Len(heard)
    BY <2>1, <2>2
  <2> QED BY <1>1, <1>2, <1>3, <2>3 DEF InInv, InChip, ReadLossless
<1>7. EndExact'
  <2>1. heard # <<>> => Len(heard) > 0
    BY <1>1 DEF TypeOK, ChipTypeOK
  <2>2. rc = "OK" => end = heard[Len(data)].end
    <3> SUFFICES ASSUME rc = "OK" PROVE end = heard[Len(data)].end
        OBVIOUS
    <3>1. Len(data) = Len(heard) /\ Len(data) > 0 /\ end = Finished
      BY <1>3
    <3>2. heard \in Seq(Item) /\ heard # <<>>
      BY <1>1, <3>1 DEF TypeOK, ChipTypeOK
    <3>3. heard[Len(heard)] \in Item
      BY <3>2
    <3>4. heard[Len(heard)].end \in BOOLEAN
      BY <3>3 DEF Item
    <3> QED BY <3>1, <3>2, <3>4 DEF Finished
  <2> QED BY <1>1, <1>2, <1>3, <2>2 DEF InInv, InChip, EndExact
<1>8. OutFaithful'
  BY <1>1 DEF TransferInv, OutFaithful
<1> QED
  BY <1>1, <1>4, <1>5, <1>6, <1>7, <1>8 DEF TransferInv, IdleInv, OutPcs, InPcs

------------------------------------------------------------------------------
(* The environment, and the theorems *)

\* The clock, the device and a stuttering step touch nothing the invariant speaks of.
LEMMA InvEnvironment ==
    ASSUME TransferInv, TypeInv',
           \/ Tick
           \/ (Toggle \/ Load) /\ UNCHANGED driverVars
           \/ UNCHANGED vars
    PROVE  TransferInv'
<1>1. /\ UNCHANGED <<chipVars, busLog, pc, callVars, queued, data, seen, resultVars>>
  BY DEF Tick, Toggle, Load, driverVars, vars
<1>2. OutFaithful'
  BY <1>1 DEF TransferInv, OutFaithful, busLog, callVars
<1>3. pc' \in OutPcs => OutInv'
  <2> SUFFICES ASSUME pc \in OutPcs PROVE OutInv'
    BY <1>1
  <2>1. OutInv
    BY DEF TransferInv
  <2> QED
    BY <1>1, <2>1 DEF OutInv, OutChip, OutRefusal, OutPosition, chipVars, busLog,
                      callVars, resultVars
<1>4. pc' \in InPcs => InInv'
  <2> SUFFICES ASSUME pc \in InPcs PROVE InInv'
    BY <1>1
  <2>1. InChip /\ InPosition
    BY DEF TransferInv, InInv
  <2>2. InChip'
    BY <1>1, <2>1 DEF InChip, Finished, chipVars, busLog, callVars
  <2>3. InPosition'
    BY <1>1, <2>1 DEF InPosition, Finished, busLog, callVars, resultVars
  <2> QED BY <2>2, <2>3 DEF InInv
<1>5. pc' = "idle" => IdleInv'
  <2> SUFFICES ASSUME pc = "idle" PROVE IdleInv'
    BY <1>1
  <2>1. IdleInv
    BY DEF TransferInv
  <2> QED
    BY <1>1, <2>1 DEF IdleInv, QuietBetweenCalls, SentExact, NoListenerReal, ReadLossless,
                      EndExact, chipVars, busLog, callVars, resultVars
<1> QED BY <1>2, <1>3, <1>4, <1>5 DEF TransferInv

\* The invariant holds of every state the driver and the chip reach together.
THEOREM TransferInvariant == Spec => []TransferInv
<1>1. Init => TransferInv
  <2> SUFFICES ASSUME Init PROVE TransferInv
      OBVIOUS
  <2>1. TypeInv
    BY TypeInit DEF TypeInv, QueueBound, Init
  <2>2. OutFaithful
    BY DEF Init, ChipInit, OutFaithful
  <2>3. IdleInv
    BY DEF Init, ChipInit, IdleInv, QuietBetweenCalls, SentExact, NoListenerReal,
           ReadLossless, EndExact
  <2> QED BY <2>1, <2>2, <2>3 DEF Init, TransferInv, OutPcs, InPcs
<1>2. TransferInv /\ [Next]_vars => TransferInv'
  <2> SUFFICES ASSUME TransferInv, [Next]_vars PROVE TransferInv'
      OBVIOUS
  <2>1. TypeInv'
    BY TypeNext DEF TransferInv
  <2>2. CASE Call
    BY <2>1, <2>2, InvCall
  <2>3. CASE WriteStep
    BY <2>1, <2>3, InvQueueByte, InvQueueFull, InvCheckDone, InvPollOut, InvStopOut,
       InvReturnWrite DEF WriteStep
  <2>4. CASE ReadStep
    BY <2>1, <2>4, InvDrainByte, InvDrainReturns, InvEndDrained, InvPollIn, InvLastPoll,
       InvReturnRead DEF ReadStep
  <2>5. CASE Engine /\ UNCHANGED driverVars
    BY <2>1, <2>5, InvBusOut, InvBusRefused, InvBusIn DEF Engine
  <2> QED BY <2>1, <2>2, <2>3, <2>4, <2>5, InvEnvironment DEF Next, Driver
<1> QED BY <1>1, <1>2, PTL DEF Spec

\* tnt_transfer_out hands the device the caller's bytes in order, with EOI on the last
\* byte only, and nothing else: never a leftover of an earlier transfer.
THEOREM DeliversFaithfully == Spec => []OutFaithful
<1>1. TransferInv => OutFaithful
  BY DEF TransferInv
<1> QED BY <1>1, TransferInvariant, PTL

\* What tnt_transfer_out reports as sent is what the device took, on every way out.
THEOREM ReportsExactly == Spec => []SentExact
<1>1. TransferInv => SentExact
  <2> SUFFICES ASSUME TransferInv, pc = "idle" PROVE SentExact
    BY DEF SentExact
  <2> QED BY DEF TransferInv, IdleInv
<1> QED BY <1>1, TransferInvariant, PTL

\* "No listener" is said only when a byte of the call met none.
THEOREM BlamesTruthfully == Spec => []NoListenerReal
<1>1. TransferInv => NoListenerReal
  <2> SUFFICES ASSUME TransferInv, pc = "idle" PROVE NoListenerReal
    BY DEF NoListenerReal
  <2> QED BY DEF TransferInv, IdleInv
<1> QED BY <1>1, TransferInvariant, PTL

\* A successful tnt_read loses nothing the talker said.
THEOREM ReadsWithoutLoss == Spec => []ReadLossless
<1>1. TransferInv => ReadLossless
  <2> SUFFICES ASSUME TransferInv, pc = "idle" PROVE ReadLossless
    BY DEF ReadLossless
  <2> QED BY DEF TransferInv, IdleInv
<1> QED BY <1>1, TransferInvariant, PTL

\* The end flag of tnt_read is the truth.
THEOREM ReportsEndExactly == Spec => []EndExact
<1>1. TransferInv => EndExact
  <2> SUFFICES ASSUME TransferInv, pc = "idle" PROVE EndExact
    BY DEF EndExact
  <2> QED BY DEF TransferInv, IdleInv
<1> QED BY <1>1, TransferInvariant, PTL

\* Between calls the chip is stopped and the talker held off.
THEOREM LeavesBusQuiet == Spec => []QuietBetweenCalls
<1>1. TransferInv => QuietBetweenCalls
  <2> SUFFICES ASSUME TransferInv, pc = "idle" PROVE QuietBetweenCalls
    BY DEF QuietBetweenCalls
  <2> QED BY DEF TransferInv, IdleInv
<1> QED BY <1>1, TransferInvariant, PTL

------------------------------------------------------------------------------
(* The driver and the chip implement ByteTransfer.  A byte crossing the bus, a *)
(* call beginning and a call returning are steps of it; every other step of    *)
(* the driver, the FIFO, the clock or the device is invisible to the caller    *)
(* and to the device.                                                          *)

\* A write fills in no part of a read's answer: one more part of the invariant, which
\* only the refinement needs.
WriteAnswersNothing == pc \in OutPcs => data = <<>> /\ ~end

\* Whatever the driver does between the beginning of a write and its return, the read's
\* results are left alone.
LEMMA AnswerEmpty == Spec => []WriteAnswersNothing
<1>1. Init => WriteAnswersNothing
  BY DEF Init, WriteAnswersNothing
<1>2. WriteAnswersNothing /\ [Next]_vars => WriteAnswersNothing'
  <2> SUFFICES ASSUME WriteAnswersNothing, [Next]_vars PROVE WriteAnswersNothing'
      OBVIOUS
  <2>1. CASE Call
    BY <2>1 DEF Call, WriteNothing, StartWrite, ReadNothing, StartRead, NewCall,
                WriteAnswersNothing, OutPcs
  <2>2. CASE WriteStep
    BY <2>2 DEF WriteStep, QueueByte, QueueFull, CheckDone, StopOut, ReturnWrite, PollOut,
                resultVars, WriteAnswersNothing, OutPcs
  <2>3. CASE ReadStep
    BY <2>3 DEF ReadStep, DrainByte, DrainReturns, PollIn, EndDrained, LastPoll, ReturnRead,
                WriteAnswersNothing, OutPcs
  <2>4. CASE UNCHANGED driverVars
    BY <2>4 DEF driverVars, resultVars, WriteAnswersNothing
  <2>5. CASE UNCHANGED vars
    BY <2>5 DEF vars, driverVars, resultVars, WriteAnswersNothing
  <2>6. CASE Tick
    BY <2>6 DEF Tick, resultVars, WriteAnswersNothing
  <2> QED BY <2>1, <2>2, <2>3, <2>4, <2>5, <2>6 DEF Next, Driver
<1> QED BY <1>1, <1>2, PTL DEF Spec

\* What the caller and the device can see of the transfer.
Visible == <<pc, callVars, taken, heard, rc, sent, data, end>>

\* A step that leaves all of it alone is a stutter.
LEMMA Invisible == UNCHANGED Visible => UNCHANGED Promise!vars
  BY DEF Visible, callVars, Promise!vars

\* Between two points of a call that is still running, nothing the caller is to see has
\* changed unless a byte crossed the bus.
LEMMA StillRunning ==
    ASSUME pc # "idle", pc' # "idle",
           UNCHANGED <<callVars, taken, heard, sent>>
    PROVE  UNCHANGED Promise!vars
  BY DEF callVars, Promise!vars

\* A call, of either kind and of any length, is the beginning of one.
LEMMA CallBegins == Call => Promise!Next
<1> SUFFICES ASSUME Call PROVE Promise!Next
    OBVIOUS
<1>1. ASSUME NEW b \in Buffers, NEW e \in BOOLEAN, WriteNothing(b, e) \/ StartWrite(b, e)
      PROVE  Promise!Next
  <2>0. Len(b) \in Nat /\ MaxTransfer \in Nat
    BY TransferAssumption
  <2>1. /\ pc = "idle" /\ NewCall("write", b, e, 0)
        /\ (pc' = "idle" <=> Len(b) \notin 1 .. MaxTransfer)
        /\ rc' = IF Len(b) <= MaxTransfer THEN "OK" ELSE "INVAL"
    <3>1. CASE WriteNothing(b, e)
      BY <2>0, <3>1 DEF WriteNothing
    <3>2. CASE StartWrite(b, e)
      BY <2>0, <3>2 DEF StartWrite
    <3> QED BY <1>1, <3>1, <3>2
  <2>2. Promise!Begin("write", b, e, 0, Len(b))
    BY <2>1, <2>0 DEF Promise!Begin, NewCall
  <2> QED BY <2>2 DEF Promise!Next
<1>2. ASSUME NEW c \in Caps, ReadNothing(c) \/ StartRead(c)
      PROVE  Promise!Next
  <2>0. c \in Nat /\ MaxTransfer \in Nat
    BY TransferAssumption
  <2>1. /\ pc = "idle" /\ NewCall("read", <<>>, FALSE, c)
        /\ (pc' = "idle" <=> c \notin 1 .. MaxTransfer)
        /\ rc' = IF c <= MaxTransfer THEN "OK" ELSE "INVAL"
    <3>1. CASE ReadNothing(c)
      BY <2>0, <3>1 DEF ReadNothing, NewCall
    <3>2. CASE StartRead(c)
      BY <2>0, <3>2 DEF StartRead, NewCall
    <3> QED BY <1>2, <3>1, <3>2
  <2>2. Promise!Begin("read", <<>>, FALSE, c, c)
    BY <2>1, <2>0 DEF Promise!Begin, NewCall
  <2> QED BY <2>2 DEF Promise!Next
<1> QED BY <1>1, <1>2 DEF Call

\* A byte the chip hands the device is the caller's next one.
LEMMA OutIsDeviceTakes ==
    TransferInv /\ TransferInv' /\ BusOut /\ UNCHANGED driverVars => Promise!Next
<1> SUFFICES ASSUME TransferInv, TransferInv', BusOut, UNCHANGED driverVars
    PROVE  Promise!Next
    OBVIOUS
<1> DEFINE t == Len(taken)
           byte == [val |-> Head(fifo), eoi |-> ccen /\ CountByte(cnt) = 0]
<1>1. /\ UNCHANGED <<pc, op, buf, eoi, cap, data, rc, sent, end, heard>>
      /\ TypeOK /\ taken' = Append(taken, byte)
  BY DEF BusOut, driverVars, callVars, resultVars, TransferInv, TypeInv
<1>2. pc \in OutPcs /\ OutInv
  BY <1>1 DEF TransferInv, BusOut, Running, IdleInv, QuietBetweenCalls, TypeOK,
              InInv, InChip
<1>3. /\ t \in Nat /\ Len(taken') = t + 1 /\ taken'[t + 1] = byte /\ byte.val \in Byte
  <2>1. taken \in Seq([val : Byte, eoi : BOOLEAN]) /\ fifo \in Seq(Byte)
    BY <1>1 DEF TypeOK, ChipTypeOK
  <2>2. Head(fifo) \in Byte
    BY <2>1, QueueElements DEF BusOut, BEFN
  <2>3. ccen \in BOOLEAN
    BY <1>1 DEF TypeOK, ChipTypeOK
  <2>4. byte \in [val : Byte, eoi : BOOLEAN]
    BY <2>2, <2>3
  <2> HIDE DEF byte
  <2>5. Len(taken') = t + 1 /\ taken'[t + 1] = byte
    BY <1>1, <2>1, <2>4, QueueElements
  <2> QED BY <2>1, <2>4, <2>5
<1> HIDE DEF byte
<1>4. t + 1 <= Len(buf) /\ byte = [val |-> buf[t + 1], eoi |-> eoi /\ t + 1 = Len(buf)]
  <2>1. t + 1 \in 1 .. Len(taken')
    BY <1>3
  <2>2. \A i \in 1 .. Len(taken') :
           i <= Len(buf) /\ taken'[i] = [val |-> buf[i], eoi |-> eoi /\ i = Len(buf)]
    BY <1>1 DEF TransferInv, OutFaithful
  <2> QED BY <1>3, <2>1, <2>2
<1>5. Len(buf) \in Nat
  BY <1>1 DEF TypeOK
<1>6. /\ pc # "idle" /\ op = "write" /\ t < Len(buf)
  BY <1>2, <1>3, <1>4, <1>5 DEF OutInv, OutChip, OutPcs
<1>7. Promise!DeviceTakes
  BY <1>1, <1>4, <1>6 DEF Promise!DeviceTakes
<1> QED BY <1>7 DEF Promise!Next

\* A byte that comes in is one the talker may say: the reader has room and no END was
\* said before it.
LEMMA InIsTalkerSays == TransferInv /\ BusIn /\ UNCHANGED driverVars => Promise!Next
<1> SUFFICES ASSUME TransferInv, BusIn, UNCHANGED driverVars
    PROVE  Promise!Next
    OBVIOUS
<1> DEFINE m == Head(msg)
<1>1. /\ UNCHANGED <<pc, op, buf, eoi, cap, data, rc, sent, end, taken>>
      /\ TypeOK /\ heard' = Append(heard, m)
  BY DEF BusIn, driverVars, callVars, resultVars, TransferInv, TypeInv
<1>2. pc \in InPcs /\ InInv /\ ~holdoff
  BY <1>1 DEF TransferInv, BusIn, Running, IdleInv, QuietBetweenCalls, TypeOK,
              OutInv, OutChip
<1>3. Len(heard) < cap /\ ~Finished
  <2>1. Len(heard) \in Nat /\ cap \in Nat
    BY <1>1 DEF TypeOK, ChipTypeOK
  <2> QED BY <1>2, <2>1 DEF InInv, InChip
<1>4. m \in Item
  <2>1. msg \in Seq(Item) /\ msg # <<>>
    BY <1>1 DEF BusIn, TypeOK, ChipTypeOK
  <2> QED BY <2>1, QueueElements
<1> HIDE DEF m
<1>5. \E v \in Byte, e \in BOOLEAN : heard' = Append(heard, [val |-> v, end |-> e])
  <2>1. m.val \in Byte /\ m.end \in BOOLEAN /\ m = [val |-> m.val, end |-> m.end]
    BY <1>4 DEF Item
  <2> QED BY <1>1, <2>1
<1>6. pc # "idle" /\ op = "read" /\ ~Promise!Ended
  BY <1>2, <1>3 DEF InInv, InChip, InPcs, Finished, Promise!Ended
<1>7. Promise!TalkerSays
  BY <1>1, <1>3, <1>5, <1>6 DEF Promise!TalkerSays
<1> QED BY <1>7 DEF Promise!Next

\* tnt_transfer_out returns with the count of what the device took, and with success only
\* when that is the whole buffer.
LEMMA WriteReturnsExactly ==
    TransferInv /\ TransferInv' /\ WriteAnswersNothing /\ ReturnWrite => Promise!Next
<1> SUFFICES ASSUME TransferInv, TransferInv', WriteAnswersNothing, ReturnWrite
    PROVE  Promise!Next
    OBVIOUS
<1>1. /\ UNCHANGED <<op, buf, eoi, cap, rc, data, end, taken, heard>>
      /\ pc = "count" /\ pc' = "idle" /\ TypeOK
  BY DEF ReturnWrite, busLog, callVars, TransferInv, TypeInv
<1>2. op = "write" /\ OutInv /\ data = <<>> /\ end = FALSE
  BY <1>1 DEF TransferInv, OutPcs, OutInv, OutChip, WriteAnswersNothing, TypeOK
<1>3. sent' = Len(taken) /\ (rc = "OK" => Len(taken) = Len(buf))
  BY <1>1, <1>2 DEF TransferInv, IdleInv, SentExact
<1>4. rc \in {"OK", "TIMEOUT", "NOLISTENER"}
  BY <1>1, <1>2 DEF TypeOK, OutInv, OutPosition
<1>5. Promise!WriteReturns(rc)
  BY <1>1, <1>2, <1>3 DEF Promise!WriteReturns
<1> QED BY <1>4, <1>5 DEF Promise!Next

\* tnt_read returns with what it drained, a prefix of what was said, and with success only
\* when nothing is left and the buffer is full or the message over.
LEMMA ReadReturnsExactly == TransferInv /\ TransferInv' /\ ReturnRead => Promise!Next
<1> SUFFICES ASSUME TransferInv, TransferInv', ReturnRead
    PROVE  Promise!Next
    OBVIOUS
<1> DEFINE n == Len(data)
<1>1. /\ UNCHANGED <<op, buf, eoi, cap, data, rc, sent, end, taken, heard>>
      /\ pc = "inStop" /\ pc' = "idle" /\ TypeOK
  BY DEF ReturnRead, busLog, callVars, resultVars, TransferInv, TypeInv
<1>2. op = "read" /\ InInv
  BY <1>1 DEF TransferInv, InPcs, InInv, InChip
<1>3. \/ rc = "TIMEOUT" /\ ~end
      \/ /\ rc = "OK" /\ n = Len(heard) /\ n > 0
         /\ end = Finished /\ (end \/ n = cap)
  BY <1>1, <1>2 DEF InInv, InPosition
<1>4. n \in Nat /\ Len(heard) \in Nat /\ n <= Len(heard) /\ n \in 0 .. Len(heard)
  <2>1. n \in Nat /\ Len(heard) \in Nat
    BY <1>1 DEF TypeOK, ChipTypeOK
  <2>2. n <= Len(heard)
    BY <1>1, <1>2 DEF TransferInv, IdleInv, ReadLossless
  <2> QED BY <2>1, <2>2
<1>5. data = [i \in 1 .. n |-> heard[i].val]
  <2>1. data \in Seq(Byte)
    BY <1>1 DEF TypeOK
  <2>2. \A i \in 1 .. n : data[i] = heard[i].val
    BY <1>2 DEF InInv, InChip
  <2>3. data = [i \in 1 .. n |-> data[i]]
    BY <2>1
  <2> QED BY <2>2, <2>3
<1>6. Finished <=> Promise!Ended
  BY DEF Finished, Promise!Ended
<1>7. end <=> rc = "OK" /\ Promise!Ended
  BY <1>1, <1>3, <1>6 DEF TypeOK
<1>8. rc = "OK" => n = Len(heard) /\ (n = cap \/ Promise!Ended)
  BY <1>3, <1>7
<1>9. (pc' = "idle" /\ end') = (rc = "OK" /\ Promise!Ended)
  BY <1>1, <1>7
<1>10. Promise!ReadReturns(rc, n)
  BY <1>1, <1>2, <1>5, <1>8, <1>9 DEF Promise!ReadReturns
<1> QED BY <1>3, <1>4, <1>10 DEF Promise!Next

\* The other steps of the driver only move it through the call.
LEMMA OtherStepsInvisible ==
    \/ QueueByte \/ QueueFull \/ CheckDone \/ StopOut
    \/ PollOut("queuePoll", "queue") \/ PollOut("donePoll", "done")
    \/ DrainByte \/ DrainReturns \/ PollIn \/ EndDrained \/ LastPoll
    => UNCHANGED Promise!vars
<1>1. QueueByte \/ QueueFull \/ CheckDone \/ StopOut => UNCHANGED Promise!vars
  BY StillRunning DEF QueueByte, QueueFull, CheckDone, StopOut, busLog, resultVars
<1>2. PollOut("queuePoll", "queue") \/ PollOut("donePoll", "done") => UNCHANGED Promise!vars
  BY StillRunning DEF PollOut, busLog, resultVars
<1>3. DrainByte \/ DrainReturns \/ PollIn => UNCHANGED Promise!vars
  BY StillRunning DEF DrainByte, DrainReturns, PollIn, busLog, resultVars
<1>4. EndDrained \/ LastPoll => UNCHANGED Promise!vars
  BY StillRunning DEF EndDrained, LastPoll, busLog, resultVars
<1> QED BY <1>1, <1>2, <1>3, <1>4

\* Nor is the clock seen, a refused byte, the device coming and going, or its preparing
\* an answer.
LEMMA EnvironmentInvisible ==
    ASSUME \/ Tick
           \/ (BusRefused \/ Toggle \/ Load) /\ UNCHANGED driverVars
           \/ UNCHANGED vars
    PROVE  UNCHANGED Promise!vars
<1>1. UNCHANGED Visible
  BY DEF Tick, BusRefused, Toggle, Load, vars, driverVars, resultVars, busLog, Visible
<1> QED BY <1>1, Invisible

\* Every step of the driver, the chip and the device is a step of ByteTransfer or a stutter.
LEMMA StepImplements ==
    TransferInv /\ TransferInv' /\ WriteAnswersNothing /\ [Next]_vars
    => [Promise!Next]_(Promise!vars)
<1> SUFFICES ASSUME TransferInv, TransferInv', WriteAnswersNothing, [Next]_vars
    PROVE  Promise!Next \/ UNCHANGED Promise!vars
    OBVIOUS
<1>1. CASE Call
  BY <1>1, CallBegins
<1>2. CASE WriteStep
  BY <1>2, OtherStepsInvisible, WriteReturnsExactly DEF WriteStep
<1>3. CASE ReadStep
  BY <1>3, OtherStepsInvisible, ReadReturnsExactly DEF ReadStep
<1>4. CASE Engine /\ UNCHANGED driverVars
  BY <1>4, OutIsDeviceTakes, InIsTalkerSays, EnvironmentInvisible DEF Engine
<1>5. CASE \/ Tick
           \/ (Toggle \/ Load) /\ UNCHANGED driverVars
           \/ UNCHANGED vars
  BY <1>5, EnvironmentInvisible
<1> QED BY <1>1, <1>2, <1>3, <1>4, <1>5 DEF Next, Driver

\* The polled FIFO transfers against the chip implement byte-at-a-time transfer: for every
\* FIFO depth, counter width, timeout, buffer and device, what the caller and the device
\* see is what ByteTransfer allows.
THEOREM ImplementsPromise == Spec => ImplementsByteTransfer
<1>1. Init => Promise!Init
  BY DEF Init, ChipInit, Promise!Init
<1>2. TransferInv /\ TransferInv' /\ WriteAnswersNothing /\ [Next]_vars
      => [Promise!Next]_(Promise!vars)
  BY StepImplements
<1> QED
  BY <1>1, <1>2, TransferInvariant, AnswerEmpty, PTL DEF Spec, ImplementsByteTransfer, Promise!Spec
==============================================================================
