------------------------------- MODULE Gpib488 -------------------------------
(* The controller's sequences of gpib488.c, entered through the driver's       *)
(* ensure_cic: address, go to standby, move data, take control back.  Command *)
(* and data bytes cross the bus one at a time under the promise of            *)
(* ByteTransfer: a transfer may stop short at any byte.  Between any two       *)
(* steps a device may be switched off or on, another controller may clear the *)
(* bus, and the card may be pulled, which the driver learns of later.          *)
EXTENDS GpibBus

CONSTANTS
    Ops        \* the operations callers use

BusOps  == {"write", "read", "poll"}
CmdOps  == {"clear", "trigger", "local"}
AllOps  == BusOps \cup CmdOps \cup {"ifc", "dcl", "llo", "pass"}

ASSUME OpsAssumption == Ops \subseteq AllOps

VARIABLES
    present,   \* card_present, set by the Card Services callback
    pc,        \* where the call is; "idle" between calls
    op, dev,   \* the call in progress, or the last one, and its device
    todo,      \* command bytes not yet sent
    tail,      \* the commands being sent are those that end a serial poll
    left,      \* data bytes still to move
    rc,        \* result; keeps the first error
    want,      \* history: data bytes asked for
    rx,        \* history: data bytes each device received in this call
    heard,     \* history: who talked to us in this call, and whether it was a status byte
    upset,     \* history: what went wrong on the bus during this call
    dirty      \* history: a serial poll failed since the last that did not, or the last IFC

callVars == <<op, dev, want>>
vars == <<card, cic, atn, alive, busVars, hit, present, pc, callVars, todo, tail, left,
          rc, rx, heard, upset, dirty>>

TypeOK ==
    /\ BusTypeOK
    /\ present \in BOOLEAN
    /\ pc \in {"idle", "gate", "ifc", "ifcWait", "cmd", "cmdWait", "send", "standby",
               "standbyWait", "data", "regain", "regainWait", "tail"}
    /\ op \in AllOps \cup {"none"} /\ dev \in Devices
    /\ todo \in Seq(Command) /\ tail \in BOOLEAN
    /\ left \in 0 .. MaxData /\ want \in 0 .. MaxData
    /\ rc \in {"OK", "TIMEOUT", "NOLISTENER", "NOTCIC", "EIO", "NOCARD"}
    /\ rx \in [Devices -> 0 .. MaxData]
    /\ heard \in Seq(Devices \X BOOLEAN)
    /\ upset \subseteq {"power", "lost", "pulled"} /\ dirty \in BOOLEAN

Init ==
    /\ BusInit
    /\ present = TRUE /\ pc = "idle" /\ op = "none" /\ dev \in Devices
    /\ todo = <<>> /\ tail = FALSE /\ left = 0 /\ want = 0 /\ rc = "OK"
    /\ rx = [d \in Devices |-> 0] /\ heard = <<>> /\ upset = {} /\ dirty = FALSE

------------------------------------------------------------------------------
(* Command strings *)

Secondary(m) == IF Sad[m] = -1 THEN <<>> ELSE <<SAD(Sad[m])>>
ListenTo(m)  == <<LAD(Pad[m])>> \o Secondary(m)
TalkAs(m)    == <<TAD(Pad[m])>> \o Secondary(m)

\* Mutant: no UNL first.
BuildAddressKeeping(d, deviceTalks) ==
    IF deviceTalks THEN TalkAs(d) \o ListenTo(Ctl) ELSE ListenTo(d) \o TalkAs(Ctl)

BuildAddress(d, deviceTalks) ==
    <<UNL>> \o IF deviceTalks THEN TalkAs(d) \o ListenTo(Ctl) ELSE ListenTo(d) \o TalkAs(Ctl)

\* Mutant: no UNL first.
AddressedCommandKeeping(d, c) == ListenTo(d) \o <<<<c, 0>>>>

AddressedCommand(d, c) == <<UNL>> \o ListenTo(d) \o <<<<c, 0>>>>

\* The interface's own secondary address is not sent here, unlike in BuildAddress.
PollHead(d) == <<UNL, LAD(Pad[Ctl]), SPE>> \o TalkAs(d)

PollTail == <<SPD, UNT>>

PassControl(d) == <<TAD(Pad[d]), TCT>>

\* What each operation sends first.
Head488(o, d) ==
    CASE o = "write"   -> BuildAddress(d, FALSE)
      [] o = "read"    -> BuildAddress(d, TRUE)
      [] o = "poll"    -> PollHead(d)
      [] o = "pass"    -> PassControl(d)
      [] o = "clear"   -> AddressedCommand(d, "SDC")
      [] o = "trigger" -> AddressedCommand(d, "GET")
      [] o = "local"   -> AddressedCommand(d, "GTL")
      [] o = "dcl"     -> <<<<"DCL", 0>>>>
      [] o = "llo"     -> <<<<"LLO", 0>>>>
      [] OTHER         -> <<>>

\* What an addressed or universal command operation makes a device do.
Effect(o) ==
    CASE o = "clear"   -> "SDC"
      [] o = "trigger" -> "GET"
      [] o = "local"   -> "GTL"
      [] o = "dcl"     -> "DCL"
      [] o = "llo"     -> "LLO"
      [] OTHER         -> "none"

------------------------------------------------------------------------------
(* How a call goes on *)

FirstError(e) == IF rc = "OK" THEN e ELSE rc

\* Mutant: the sequence goes on after its commands failed.
AfterCommandErrorIgnored(o) == IF o = "poll" THEN "regain" ELSE IF o \in {"write", "read"} THEN "standby" ELSE "idle"

\* A failed command string ends the call; a serial poll still cleans up.
AfterCommandError(o) == IF o = "poll" THEN "regain" ELSE "idle"

AfterCommands(o) == IF o \in BusOps \cup {"pass"} THEN "standby" ELSE "idle"

\* After the data control is taken back whatever happened.
AfterData == "regain"

\* Mutant: a failure to take control back is not reported.
RegainErrorDropped == rc

RegainError == FirstError("EIO")

\* Mutant: a failure of the commands that end the poll is not reported.
TailErrorDropped == rc

TailError == FirstError("EIO")

\* Results of a serial poll say whether devices may still be answering polls.
Returned(r) == dirty' = IF op = "poll" THEN r # "OK" ELSE dirty

\* The command string is a local of the step that sends it.
Leave(next, r) ==
    /\ pc' = next /\ rc' = r
    /\ todo' = (IF next \in {"cmd", "cmdWait", "send"} THEN todo ELSE <<>>)
    /\ tail' = (tail /\ next # "idle")
    /\ IF next = "idle" THEN Returned(r) ELSE UNCHANGED dirty

\* The commands being sent failed with e.
CommandsFail(e) ==
    IF tail THEN Leave("idle", TailError) ELSE Leave(AfterCommandError(op), e)

bus      == <<card, cic, atn, alive, busVars, hit>>
moved    == <<left, rx, heard, upset>>
progress == <<todo, tail, moved>>

------------------------------------------------------------------------------
(* Entering a call: check_ready, ensure_cic, tnt_interface_clear *)

Begin(o, d, n) ==
    /\ pc = "idle"
    /\ op' = o /\ dev' = d /\ want' = n /\ left' = n
    /\ todo' = Head488(o, d) /\ tail' = FALSE
    /\ rx' = [x \in Devices |-> 0] /\ heard' = <<>> /\ hit' = {}
    /\ upset' = (IF d \in alive THEN {} ELSE {"power"}) \cup (IF card THEN {} ELSE {"pulled"})
    /\ IF present THEN pc' = "gate" /\ rc' = "OK" ELSE pc' = "idle" /\ rc' = "NOCARD"
    /\ UNCHANGED <<card, cic, atn, alive, busVars, present, dirty>>

\* Mutant: the driver does not look whether it is in charge.
NeedsIfcUnchecked == op = "ifc"

\* IFC is sent when asked for, and first thing when control was lost.
NeedsIfc == op = "ifc" \/ ~IsCic

\* IFC makes the interface controller in charge and asserts ATN.
SendIfc ==
    IF card THEN ClearBus /\ cic' = TRUE /\ atn' = TRUE /\ dirty' = FALSE
            ELSE UNCHANGED <<busVars, cic, atn, dirty>>

Gate ==
    /\ pc = "gate"
    /\ IF NeedsIfc
       THEN pc' = "ifc" /\ SendIfc
       ELSE pc' = "cmd" /\ UNCHANGED <<busVars, cic, atn, dirty>>
    /\ UNCHANGED <<card, alive, hit, present, callVars, progress, rc>>

AfterIfc == IF op = "ifc" THEN "idle" ELSE "cmd"

------------------------------------------------------------------------------
(* tnt_take_control and tnt_go_to_standby *)

\* The auxiliary command that sets ATN, refused when control was lost.
Ask(here, wait, value, fail) ==
    /\ pc = here
    /\ IF IsCic
       THEN /\ pc' = wait
            /\ atn' = (card /\ value)
            /\ UNCHANGED <<rc, dirty, todo, tail>>
       ELSE fail /\ UNCHANGED atn
    /\ UNCHANGED <<card, cic, alive, busVars, hit, present, callVars, moved>>

\* wait_atn sees ATN as it should be; a pulled card reads as ATN unasserted.
Saw(wait, value, next) ==
    /\ pc = wait
    /\ atn = value
    /\ Leave(next, rc)
    /\ UNCHANGED <<bus, present, callVars, moved>>

\* Mutant: the wait has no deadline.
ExpiresNever(wait, value, fail) == FALSE

\* wait_atn gives up.
Expires(wait, value, fail) ==
    /\ pc = wait
    /\ atn # value
    /\ fail
    /\ UNCHANGED <<bus, present, callVars, moved>>

------------------------------------------------------------------------------
(* tnt_command *)

\* ATN is asserted first unless it is already.
StartCommands ==
    /\ pc = "cmd"
    /\ \/ ~IsCic /\ CommandsFail("NOTCIC") /\ UNCHANGED atn
       \/ IsCic /\ atn /\ Leave("send", rc) /\ UNCHANGED atn
       \/ IsCic /\ ~atn /\ Leave("cmdWait", rc) /\ atn' = card
    /\ UNCHANGED <<card, cic, alive, busVars, hit, present, callVars, moved>>

\* One command byte is accepted by everyone who is up.
SendCommand ==
    /\ pc = "send" /\ todo # <<>>
    /\ card /\ cic /\ atn /\ alive # {}
    /\ Apply(Head(todo))
    /\ hit' = hit \cup HitBy(Head(todo))
    /\ todo' = Tail(todo)
    /\ UNCHANGED <<card, cic, atn, alive, present, pc, callVars, tail, left, rc, rx, heard,
                   upset, dirty>>

CommandsSent ==
    /\ pc = "send" /\ todo = <<>> /\ card
    /\ Leave(IF tail THEN "idle" ELSE AfterCommands(op), rc)
    /\ UNCHANGED <<bus, present, callVars, moved>>

\* A byte met nobody, the deadline passed, or the card was pulled: registers that read
\* 0xFF look like ERR, or like a transfer done but one byte short.
CommandsCut ==
    /\ pc = "send"
    /\ \/ card /\ cic /\ atn /\ alive = {} /\ todo # <<>> /\ CommandsFail("NOLISTENER")
       \/ card /\ CommandsFail("TIMEOUT")
       \/ ~card /\ (CommandsFail("NOLISTENER") \/ CommandsFail("EIO"))
    /\ UNCHANGED <<bus, present, callVars, moved>>

------------------------------------------------------------------------------
(* The data: tnt_write and tnt_read under the promise of ByteTransfer *)

\* Mutant: one byte too many.
MoreToMoveLate == left >= 0

MoreToMove == left > 0

WriteByte ==
    /\ pc = "data" /\ op = "write" /\ MoreToMove
    /\ card /\ ~atn /\ Ctl \in talk /\ Listeners # {}
    /\ rx' = [d \in Devices |-> IF d \in Listeners THEN rx[d] + 1 ELSE rx[d]]
    /\ left' = left - 1
    /\ UNCHANGED <<bus, present, pc, callVars, todo, tail, rc, heard, upset, dirty>>

\* A talker in serial poll mode sends its status byte, once.
ReadByte ==
    /\ pc = "data" /\ op \in {"read", "poll"} /\ MoreToMove
    /\ card /\ ~atn /\ Ctl \in listen
    /\ \E d \in Talkers :
          /\ d \in spe => heard = <<>>
          /\ heard' = Append(heard, <<d, d \in spe>>)
    /\ left' = left - 1
    /\ UNCHANGED <<bus, present, pc, callVars, todo, tail, rc, rx, upset, dirty>>

WriteResults ==
    IF ~card THEN {"OK", "NOLISTENER"}
    ELSE (IF MoreToMove THEN {} ELSE {"OK"})
         \cup (IF MoreToMove /\ ~atn /\ Ctl \in talk /\ Listeners = {} THEN {"NOLISTENER"} ELSE {})
         \cup {"TIMEOUT"}

\* A read ends with the buffer full or with END on a byte; a pulled card fills the buffer
\* with 0xFF.
ReadResults ==
    {"TIMEOUT"} \cup (IF ~card \/ ~MoreToMove \/ heard # <<>> THEN {"OK"} ELSE {})

DataEnds ==
    /\ pc = "data"
    /\ \E r \in IF op = "write" THEN WriteResults ELSE ReadResults : Leave(AfterData, r)
    /\ UNCHANGED <<bus, present, callVars, moved>>

------------------------------------------------------------------------------

AfterStandby == IF op = "pass" THEN "idle" ELSE "data"
AfterRegain  == IF op = "poll" THEN "tail" ELSE "idle"

\* A device that is a controller takes over once ATN is released after TCT.
HandOver ==
    /\ pc = "standbyWait" /\ op = "pass" /\ ~atn
    /\ card /\ dev \in Talkers
    /\ cic' = FALSE
    /\ Leave("idle", rc)
    /\ UNCHANGED <<card, atn, alive, busVars, hit, present, callVars, moved>>

StartTail ==
    /\ pc = "tail"
    /\ todo' = PollTail /\ tail' = TRUE
    /\ pc' = "cmd"
    /\ UNCHANGED <<bus, present, callVars, left, rc, rx, heard, upset, dirty>>

Call ==
    \E o \in Ops, d \in Devices, n \in 0 .. MaxData :
        /\ IF o = "poll" THEN n = 1 ELSE IF o = "read" THEN n > 0 ELSE o = "write" \/ n = 0
        /\ Begin(o, d, n)

Controller ==
    \/ Gate
    \/ Ask("ifc", "ifcWait", TRUE, Leave("idle", "NOTCIC"))
    \/ Saw("ifcWait", TRUE, AfterIfc)
    \/ Expires("ifcWait", TRUE, Leave("idle", "TIMEOUT"))
    \/ StartCommands
    \/ Saw("cmdWait", TRUE, "send")
    \/ Expires("cmdWait", TRUE, CommandsFail("TIMEOUT"))
    \/ SendCommand \/ CommandsSent \/ CommandsCut
    \/ Ask("standby", "standbyWait", FALSE, Leave(AfterCommandError(op), "NOTCIC"))
    \/ Saw("standbyWait", FALSE, AfterStandby)
    \/ HandOver
    \/ Expires("standbyWait", FALSE, Leave(AfterCommandError(op), "TIMEOUT"))
    \/ WriteByte \/ ReadByte \/ DataEnds
    \/ Ask("regain", "regainWait", TRUE, Leave(AfterRegain, RegainError))
    \/ Saw("regainWait", TRUE, AfterRegain)
    \/ Expires("regainWait", TRUE, Leave(AfterRegain, RegainError))
    \/ StartTail

\* What an event during a call spoils.
Spoils(e) == upset' = IF pc = "idle" THEN upset ELSE upset \cup {e}

rest == <<hit, pc, callVars, todo, tail, left, rc, rx, heard>>

Outside ==
    \/ /\ \E d \in Devices :
             /\ PowerOff(d) \/ PowerOn(d)
             /\ IF d = dev THEN Spoils("power") ELSE UNCHANGED upset
       /\ UNCHANGED <<rest, present, dirty>>
    \/ LoseControl /\ Spoils("lost") /\ UNCHANGED <<rest, present, dirty>>
    \/ Foreign /\ UNCHANGED <<rest, present, upset, dirty>>
    \/ Pull /\ Spoils("pulled") /\ UNCHANGED <<rest, present, dirty>>
    \/ ~card /\ present' = FALSE /\ UNCHANGED <<bus, pc, callVars, progress, rc, dirty>>

Next == Call \/ Controller \/ Outside

Spec == Init /\ [][Next]_vars

\* A call runs on, and its deadlines pass.
FairSpec == Spec /\ WF_vars(Controller)
------------------------------------------------------------------------------
(* Properties *)

\* Data written reaches the addressed device and no other, and all of it when the write
\* succeeds: no listener is left over from an earlier operation, whichever step
\* that one stopped at.
DataOnlyToTarget ==
    op = "write" /\ "lost" \notin upset =>
        /\ \A d \in Devices \ {dev} : rx[d] = 0
        /\ pc = "idle" /\ rc = "OK" => rx[dev] = want

\* What is read comes from the addressed device and no other; a poll gets that device's
\* status byte if the device stayed on, and a read gets data unless an earlier
\* poll failed and left the devices answering polls.
ReadOnlyFromTarget ==
    op \in {"read", "poll"} /\ "lost" \notin upset =>
        \A i \in 1 .. Len(heard) :
            /\ heard[i][1] = dev
            /\ op = "read" /\ heard[i][2] => dirty
            /\ op = "poll" /\ "power" \notin upset => heard[i][2]

\* Once the data phase begins the interface itself is addressed: to talk in a write, to
\* listen in a read and in a serial poll.
WeAreAddressed ==
    pc = "data" /\ card /\ "lost" \notin upset =>
        IF op = "write" THEN Ctl \in talk ELSE Ctl \in listen

\* A clear, trigger or local acts on the addressed device only, and has acted on it when
\* the call succeeds and the device was there throughout.
CommandOnlyTarget ==
    /\ op \in CmdOps \cup BusOps \cup {"pass"} => hit \subseteq {<<dev, Effect(op)>>}
    /\ pc = "idle" /\ rc = "OK" /\ op \in CmdOps \cup {"dcl", "llo"} /\ "power" \notin upset
         => <<dev, Effect(op)>> \in hit

\* A success is a success, also when the card was pulled or control was lost while the
\* call ran: what a read reports came over the bus, a write was taken, and
\* a poll heard a byte.  Registers that all read 0xFF never pass for a transfer.
OkMeansDone ==
    pc = "idle" /\ rc = "OK" =>
        /\ op = "write" => left = 0
        /\ op = "read" => heard # <<>>
        /\ op = "poll" => heard # <<>>

\* Devices are left answering polls only after a serial poll that reported a failure.
PollsAreEnded == pc = "idle" /\ cic /\ spe # {} => dirty

\* "Not controller in charge" is reported only when control was lost while the call ran:
\* control lost or passed on before is taken back first.  Nobody is said to have
\* listened in vain while the device was there and the bus was ours.
ErrorsHaveCauses ==
    pc = "idle" =>
        /\ rc = "NOTCIC" => "lost" \in upset
        /\ rc = "NOLISTENER" => upset # {}
        /\ rc = "NOCARD" => ~card

\* Every call returns, also when the card is pulled or control is lost half way.
CallsReturn == []<>(pc = "idle")
==============================================================================
