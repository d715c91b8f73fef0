----------------------------- MODULE Gpib488Inv -----------------------------
(* The invariants the proofs about Gpib488 rest on: where a call may stand,   *)
(* which part of its command string is still to be sent, and whom the part    *)
(* already sent has addressed.                                                *)
EXTENDS Gpib488

\* No member answers to the addresses of another.
Distinct ==
    \A m, n \in Members :
        m # n /\ Pad[m] = Pad[n] => Sad[m] # -1 /\ Sad[n] # -1 /\ Sad[m] # Sad[n]

\* The call has got no further than its interface clear, or than its commands.
Entering   == pc \in {"gate", "ifc", "ifcWait"}
Commanding == pc \in {"cmd", "cmdWait", "send"}
MovingData == pc \in {"standby", "standbyWait", "data"}

Reads == {"read", "poll"}

\* Where a call of each operation may stand and what it has still to send.
Placed ==
    /\ tail => op = "poll" /\ Commanding
    /\ pc = "tail" => op = "poll"
    /\ pc \in {"data", "regain", "regainWait"} => op \in BusOps
    /\ pc \in {"standby", "standbyWait"} => op \in BusOps \cup {"pass"}
    /\ pc # "idle" => op # "none"
    /\ op = "ifc" => Entering \/ pc = "idle"
    /\ Entering \/ (pc \in {"cmd", "cmdWait"} /\ ~tail) => todo = Head488(op, dev)
    /\ pc \in {"cmd", "cmdWait"} /\ tail => todo = PollTail
    /\ Entering \/ MovingData \/ (Commanding /\ ~tail) => rc = "OK"
    /\ pc = "gate" => heard = <<>>

\* The card is gone for good, and control lost since the call began is put down as lost.
CardGone == ~card => ~atn /\ ~cic
Charge ==
    /\ CardGone
    /\ ~present => ~card
    /\ pc \notin {"idle", "gate"} /\ card /\ ~cic => "lost" \in upset

\* What is amiss now was noted.
Noted ==
    pc # "idle" => /\ dev \in alive \/ "power" \in upset
                   /\ card \/ "pulled" \in upset

\* Every byte moved is a byte asked for.
Counted ==
    /\ left <= want
    /\ \A d \in Devices : rx[d] <= want - left
    /\ op \in Reads => want > 0 /\ left = want - Len(heard)

Finished ==
    /\ op = "write" => left = 0
    /\ op \in Reads => heard # <<>>

\* A success so far is one in truth, or the card is gone, and then it is not the last word.
Truthful ==
    rc = "OK" =>
        /\ pc \in {"idle", "tail"} \/ tail => Finished
        /\ pc \in {"regain", "regainWait"} => Finished \/ ~card

\* Devices answer polls only during a poll, or after one that failed.
Polls ==
    /\ cic /\ spe # {} => dirty \/ (op = "poll" /\ pc # "idle")
    /\ cic /\ tail /\ pc = "send" =>
          todo = PollTail \/ (todo \in {<<UNT>>, <<>>} /\ spe = {})

------------------------------------------------------------------------------
(* The command string, sent up to some byte *)

Steady == "power" \notin upset

Cons(x, s) == <<x>> \o s

\* The device and nobody else listens; it waits for its secondary address.
Listening == (Distinct => listen \subseteq {dev}) /\ (Steady => dev \in listen)
AwaitingListen ==
    /\ Distinct => listen = {}
    /\ lpas \subseteq {m \in Members : Pad[m] = Pad[dev] /\ Sad[m] # -1}
    /\ Steady => dev \in lpas

Talking == Distinct => talk \subseteq {dev}
AwaitingTalk ==
    /\ Distinct => talk \subseteq tpas
    /\ tpas \subseteq {m \in Members : Pad[m] = Pad[dev]}

Polled == Steady => dev \in spe

ListenRest(d, t) == Cons(LAD(Pad[d]), Secondary(d) \o t)
TalkRest(d, t)   == Cons(TAD(Pad[d]), Secondary(d) \o t)

\* The device is made a listener, before t.
ListenPart(t) ==
    \/ todo = Cons(UNL, ListenRest(dev, t))
    \/ todo = ListenRest(dev, t) /\ listen = {}
    \/ Sad[dev] # -1 /\ todo = Cons(SAD(Sad[dev]), t) /\ AwaitingListen

\* The device is made the talker, before t.
TalkPart(t) ==
    \/ todo = TalkRest(dev, t)
    \/ Sad[dev] # -1 /\ todo = Cons(SAD(Sad[dev]), t) /\ AwaitingTalk

WriteSent ==
    \/ ListenPart(TalkAs(Ctl))
    \/ Listening /\ (todo = TalkAs(Ctl) \/ (lpas = {} /\ todo = Secondary(Ctl)) \/ todo = <<>>)

ReadSent ==
    \/ todo = Cons(UNL, TalkRest(dev, ListenTo(Ctl)))
    \/ TalkPart(ListenTo(Ctl))
    \/ Talking /\ (todo = ListenTo(Ctl) \/ (tpas = {} /\ todo = Secondary(Ctl)) \/ todo = <<>>)

PollSent ==
    \/ todo = Cons(UNL, Cons(LAD(Pad[Ctl]), Cons(SPE, TalkRest(dev, <<>>))))
    \/ todo = Cons(LAD(Pad[Ctl]), Cons(SPE, TalkRest(dev, <<>>)))
    \/ todo = Cons(SPE, TalkRest(dev, <<>>))
    \/ Polled /\ (TalkPart(<<>>) \/ (todo = <<>> /\ Talking))

\* An addressed command: what the device is to do, then nothing more.
CmdSent ==
    \/ ListenPart(<<<<Effect(op), 0>>>>)
    \/ Listening /\ todo = <<<<Effect(op), 0>>>>
    \/ todo = <<>>

PassSent == todo \in {PassControl(dev), <<TCT>>, <<>>}
AllSent  == todo \in {<<<<Effect(op), 0>>>>, <<>>}

\* While in charge, what was sent has addressed whom it should.
Sending ==
    pc = "send" /\ ~tail /\ cic =>
        /\ op = "write" => WriteSent
        /\ op = "read" => ReadSent
        /\ op = "poll" => PollSent
        /\ op \in CmdOps => CmdSent
        /\ op = "pass" => PassSent
        /\ op \in {"dcl", "llo"} => AllSent

Ready ==
    MovingData /\ cic =>
        /\ op = "write" => Listening
        /\ op \in Reads => Talking
        /\ op = "poll" => Polled

------------------------------------------------------------------------------
(* The interface's own part in it *)

\* To talk in a write: its own address is still to come, waits for its second half, or was taken.
OwnTalk ==
    \/ \E s \in Seq(Command) : todo = s \o TalkAs(Ctl)
    \/ Ctl \in tpas /\ Sad[Ctl] # -1 /\ todo = Cons(SAD(Sad[Ctl]), <<>>)
    \/ Ctl \in talk /\ todo = <<>>

\* To listen in a read.
OwnListen ==
    \/ \E s \in Seq(Command) : todo = s \o ListenTo(Ctl)
    \/ Ctl \in lpas /\ Sad[Ctl] # -1 /\ todo = Cons(SAD(Sad[Ctl]), <<>>)
    \/ Ctl \in listen /\ todo = <<>>

\* In a poll its primary address is sent ahead of the device's, and no second half.
PollRest == Cons(LAD(Pad[Ctl]), Cons(SPE, TalkRest(dev, <<>>)))
OwnPoll  == Ctl \in listen \/ todo = PollRest \/ todo = Cons(UNL, PollRest)

OwnSending ==
    pc = "send" /\ ~tail /\ cic =>
        /\ op = "write" => OwnTalk
        /\ op = "read" => OwnListen
        /\ op = "poll" /\ Sad[Ctl] = -1 => OwnPoll

OwnReady ==
    MovingData /\ cic =>
        /\ op = "write" => Ctl \in talk
        /\ op = "read" \/ (op = "poll" /\ Sad[Ctl] = -1) => Ctl \in listen

OwnInv == OwnSending /\ OwnReady

------------------------------------------------------------------------------
(* What the call did *)

RightByte(h) ==
    /\ Distinct => h[1] = dev
    /\ op = "read" /\ h[2] => dirty
    /\ op = "poll" /\ Steady /\ Distinct => h[2]

Reached ==
    "lost" \notin upset =>
        /\ op = "write" /\ Distinct =>
              \A d \in Devices : rx[d] = IF d = dev THEN want - left ELSE 0
        /\ op \in Reads => \A i \in 1 .. Len(heard) : RightByte(heard[i])

Struck ==
    /\ op \in CmdOps \cup BusOps \cup {"pass"} /\ Distinct => hit \subseteq {<<dev, Effect(op)>>}
    /\ op \in CmdOps \cup {"dcl", "llo"} /\ rc = "OK" /\ Steady
         /\ (pc = "idle" \/ (pc = "send" /\ todo = <<>>)) => <<dev, Effect(op)>> \in hit

Causes ==
    /\ rc = "NOTCIC" => "lost" \in upset
    /\ rc = "NOLISTENER" => upset # {}
    /\ rc = "NOCARD" => ~card

SequenceInv ==
    /\ TypeOK /\ Placed /\ Charge /\ Noted /\ Counted /\ Truthful /\ Polls
    /\ Sending /\ Ready /\ Reached /\ Struck /\ Causes
==============================================================================
