---------------------------- MODULE Gpib488Proofs ----------------------------
(* The controller's sequences keep SequenceInv, for any devices at any         *)
(* addresses and any operations; from it follow the properties of Gpib488.    *)
EXTENDS Gpib488Inv, SequenceTheorems, TLAPS

(* The command strings of gpib488.c, byte by byte: what each byte does to the  *)
(* members of the bus, and that every byte sent leaves the part of the string *)
(* already sent true to what Gpib488Inv says of it.                           *)

\* A command before a command string makes a command string, and can be taken off again.
LEMMA ConsFacts ==
    ASSUME NEW x \in Command, NEW s \in Seq(Command)
    PROVE  /\ Cons(x, s) \in Seq(Command)
           /\ Cons(x, s) # <<>>
           /\ Head(Cons(x, s)) = x
           /\ Tail(Cons(x, s)) = s
<1> DEFINE q == Cons(x, s)
<1>0. <<x>> \in Seq(Command) /\ Len(<<x>>) = 1 /\ <<x>>[1] = x
  OBVIOUS
<1>1. /\ q \in Seq(Command) /\ Len(q) = 1 + Len(s) /\ q[1] = x
      /\ \A i \in 2 .. 1 + Len(s) : q[i] = s[i - 1]
  <2>1. /\ <<x>> \o s \in Seq(Command) /\ Len(<<x>> \o s) = 1 + Len(s)
        /\ \A i \in 1 .. 1 + Len(s) : (<<x>> \o s)[i] = IF i <= 1 THEN <<x>>[i] ELSE s[i - 1]
    BY <1>0, ConcatProperties
  <2>2. Len(s) \in Nat
    BY LenProperties
  <2> QED
    BY <2>1, <2>2, <1>0 DEF Cons
<1> HIDE DEF q
<1>2. q # <<>> /\ Head(q) = x
  BY <1>1, LenProperties
<1>3. Tail(q) \in Seq(Command) /\ Len(Tail(q)) = Len(s)
      /\ \A i \in 1 .. Len(s) : Tail(q)[i] = s[i]
  BY <1>1, <1>2, HeadTailProperties, LenProperties
<1>4. Tail(q) = s
  BY <1>3, SeqEqual
<1> QED
  BY <1>1, <1>2, <1>4 DEF q

\* Short command strings, command by command.
LEMMA Literals ==
    ASSUME NEW a \in Command, NEW b \in Command, NEW e \in Command
    PROVE  /\ <<a>> \in Seq(Command) /\ <<a, b>> \in Seq(Command) /\ <<a, b, e>> \in Seq(Command)
           /\ <<a>> \o <<b>> = <<a, b>>
           /\ <<a>> \o <<b, e>> = <<a, b, e>>
<1>1. <<a>> \in Seq(Command) /\ Len(<<a>>) = 1 /\ <<a>>[1] = a
  OBVIOUS
<1>2. <<b>> \in Seq(Command) /\ Len(<<b>>) = 1 /\ <<b>>[1] = b
  OBVIOUS
<1>3. <<a, b>> \in Seq(Command) /\ Len(<<a, b>>) = 2 /\ <<a, b>>[1] = a /\ <<a, b>>[2] = b
  OBVIOUS
<1>4. <<b, e>> \in Seq(Command) /\ Len(<<b, e>>) = 2 /\ <<b, e>>[1] = b /\ <<b, e>>[2] = e
  OBVIOUS
<1>5. /\ <<a, b, e>> \in Seq(Command) /\ Len(<<a, b, e>>) = 3
      /\ <<a, b, e>>[1] = a /\ <<a, b, e>>[2] = b /\ <<a, b, e>>[3] = e
  OBVIOUS
<1>6. <<a>> \o <<b>> = <<a, b>>
  <2> DEFINE p == <<a>>  q == <<b>>  r == <<a, b>>
  <2> HIDE DEF p, q, r
  <2>1. /\ p \in Seq(Command) /\ Len(p) = 1 /\ p[1] = a
        /\ q \in Seq(Command) /\ Len(q) = 1 /\ q[1] = b
        /\ r \in Seq(Command) /\ Len(r) = 2 /\ r[1] = a /\ r[2] = b
    BY <1>1, <1>2, <1>3 DEF p, q, r
  <2>2. /\ p \o q \in Seq(Command) /\ Len(p \o q) = 2
        /\ \A i \in 1 .. 2 : (p \o q)[i] = IF i <= 1 THEN p[i] ELSE q[i - 1]
    BY <2>1, ConcatProperties
  <2>3. \A i \in 1 .. Len(p \o q) : (p \o q)[i] = r[i]
    BY <2>1, <2>2
  <2>4. p \o q = r
    BY <2>1, <2>2, <2>3, SeqEqual
  <2> QED
    BY <2>4 DEF p, q, r
<1>7. <<a>> \o <<b, e>> = <<a, b, e>>
  <2> DEFINE p == <<a>>  q == <<b, e>>  r == <<a, b, e>>
  <2> HIDE DEF p, q, r
  <2>1. /\ p \in Seq(Command) /\ Len(p) = 1 /\ p[1] = a
        /\ q \in Seq(Command) /\ Len(q) = 2 /\ q[1] = b /\ q[2] = e
        /\ r \in Seq(Command) /\ Len(r) = 3 /\ r[1] = a /\ r[2] = b /\ r[3] = e
    BY <1>1, <1>4, <1>5 DEF p, q, r
  <2>2. /\ p \o q \in Seq(Command) /\ Len(p \o q) = 3
        /\ \A i \in 1 .. 3 : (p \o q)[i] = IF i <= 1 THEN p[i] ELSE q[i - 1]
    <3>1. /\ p \o q \in Seq(Command) /\ Len(p \o q) = Len(p) + Len(q)
          /\ \A i \in 1 .. Len(p) + Len(q) :
                (p \o q)[i] = IF i <= Len(p) THEN p[i] ELSE q[i - Len(p)]
      BY <2>1, ConcatProperties
    <3>2. Len(p) + Len(q) = 3
      BY <2>1
    <3> QED
      BY <2>1, <3>1, <3>2
  <2>3. \A i \in 1 .. Len(p \o q) : (p \o q)[i] = r[i]
    BY <2>1, <2>2
  <2>4. p \o q = r
    BY <2>1, <2>2, <2>3, SeqEqual
  <2> QED
    BY <2>4 DEF p, q, r
<1> QED
  BY <1>1, <1>3, <1>5, <1>6, <1>7

\* The command bytes gpib488.c sends are commands of the bus.
LEMMA CommandTypes ==
    /\ UNL \in Command /\ UNT \in Command /\ SPE \in Command /\ SPD \in Command
    /\ TCT \in Command
    /\ \A e \in Addressed \cup Universal : <<e, 0>> \in Command
    /\ \A p \in 0 .. 30 : LAD(p) \in Command /\ TAD(p) \in Command /\ SAD(p) \in Command
<1>1. UNL \in Command /\ UNT \in Command /\ SPE \in Command /\ SPD \in Command /\ TCT \in Command
  BY DEF UNL, UNT, SPE, SPD, TCT, Command
<1>2. \A e \in Addressed \cup Universal : <<e, 0>> \in Command
  BY DEF Command
<1>3. ASSUME NEW p \in 0 .. 30 PROVE LAD(p) \in Command /\ TAD(p) \in Command /\ SAD(p) \in Command
  BY DEF Command, LAD, TAD, SAD
<1> QED
  BY <1>1, <1>2, <1>3

\* A secondary address, if any, before what follows it.
LEMMA SecondaryForms ==
    ASSUME NEW m \in Members, NEW t \in Seq(Command)
    PROVE  /\ Secondary(m) \in Seq(Command) /\ Secondary(m) \o t \in Seq(Command)
           /\ Sad[m] = -1 => Secondary(m) = <<>> /\ Secondary(m) \o t = t
           /\ Sad[m] # -1 => /\ SAD(Sad[m]) \in Command
                             /\ Secondary(m) = Cons(SAD(Sad[m]), <<>>)
                             /\ Secondary(m) \o t = Cons(SAD(Sad[m]), t)
<1>1. Sad[m] \in -1 .. 30
  BY BusAssumption
<1>2. CASE Sad[m] = -1
  BY <1>2, ConcatEmptySeq DEF Secondary
<1>3. CASE Sad[m] # -1
  <2>1. SAD(Sad[m]) \in Command
    <3>1. Sad[m] \in 0 .. 30
      BY <1>1, <1>3
    <3> QED
      BY <3>1, CommandTypes
  <2> DEFINE y == SAD(Sad[m])
  <2> HIDE DEF y
  <2>2. Secondary(m) = <<y>> /\ y \in Command
    BY <1>3, <2>1 DEF Secondary, y
  <2>3. <<y>> \in Seq(Command) /\ <<>> \in Seq(Command)
    BY <2>2, Literals
  <2>4. <<y>> \o <<>> = <<y>>
    BY <2>3, ConcatEmptySeq
  <2>5. <<y>> \o t \in Seq(Command)
    BY <2>3, ConcatProperties
  <2> QED
    BY <1>3, <2>2, <2>3, <2>4, <2>5 DEF Cons, y
<1> QED
  BY <1>2, <1>3

\* The strings that make a member listen or talk, with their first command set apart.
LEMMA AddressForms ==
    ASSUME NEW m \in Members, NEW t \in Seq(Command)
    PROVE  /\ LAD(Pad[m]) \in Command /\ TAD(Pad[m]) \in Command
           /\ ListenTo(m) = Cons(LAD(Pad[m]), Secondary(m))
           /\ TalkAs(m) = Cons(TAD(Pad[m]), Secondary(m))
           /\ ListenTo(m) \in Seq(Command) /\ TalkAs(m) \in Seq(Command)
           /\ ListenTo(m) \o t = ListenRest(m, t) /\ TalkAs(m) \o t = TalkRest(m, t)
           /\ ListenRest(m, t) \in Seq(Command) /\ TalkRest(m, t) \in Seq(Command)
<1>1. LAD(Pad[m]) \in Command /\ TAD(Pad[m]) \in Command
  BY BusAssumption, CommandTypes
<1>2. Secondary(m) \in Seq(Command) /\ Secondary(m) \o t \in Seq(Command)
  BY SecondaryForms
<1>3. <<LAD(Pad[m])>> \in Seq(Command) /\ <<TAD(Pad[m])>> \in Seq(Command)
  BY <1>1
<1>4. /\ (<<LAD(Pad[m])>> \o Secondary(m)) \o t = <<LAD(Pad[m])>> \o (Secondary(m) \o t)
      /\ (<<TAD(Pad[m])>> \o Secondary(m)) \o t = <<TAD(Pad[m])>> \o (Secondary(m) \o t)
  BY <1>2, <1>3, ConcatAssociative
<1>5. /\ ListenTo(m) = Cons(LAD(Pad[m]), Secondary(m))
      /\ TalkAs(m) = Cons(TAD(Pad[m]), Secondary(m))
      /\ ListenTo(m) \o t = ListenRest(m, t) /\ TalkAs(m) \o t = TalkRest(m, t)
  BY <1>4 DEF Cons, ListenTo, TalkAs, ListenRest, TalkRest
<1>6. /\ ListenTo(m) \in Seq(Command) /\ TalkAs(m) \in Seq(Command)
      /\ ListenRest(m, t) \in Seq(Command) /\ TalkRest(m, t) \in Seq(Command)
  BY <1>1, <1>2, <1>5, ConsFacts DEF ListenRest, TalkRest
<1> QED
  BY <1>1, <1>5, <1>6

CmdEffects == Addressed \cup Universal

\* The command strings, with what follows the first command set apart.
LEMMA HeadForms ==
    ASSUME NEW d \in Devices
    PROVE  /\ Head488("write", d) = Cons(UNL, ListenRest(d, TalkAs(Ctl)))
           /\ Head488("read", d) = Cons(UNL, TalkRest(d, ListenTo(Ctl)))
           /\ Head488("poll", d) = Cons(UNL, Cons(LAD(Pad[Ctl]), Cons(SPE, TalkRest(d, <<>>))))
           /\ \A o \in CmdOps :
                 Head488(o, d) = Cons(UNL, ListenRest(d, <<<<Effect(o), 0>>>>))
           /\ Head488("pass", d) = Cons(TAD(Pad[d]), Cons(TCT, <<>>))
           /\ \A o \in {"dcl", "llo"} : Head488(o, d) = Cons(<<Effect(o), 0>>, <<>>)
           /\ Head488("ifc", d) = <<>>
<1>0. d \in Members /\ Ctl \in Members
  BY DEF Members
<1>1. TalkAs(Ctl) \in Seq(Command) /\ ListenTo(Ctl) \in Seq(Command) /\ LAD(Pad[Ctl]) \in Command
      /\ <<>> \in Seq(Command)
  <2>1. <<>> \in Seq(Command)
    OBVIOUS
  <2> QED
    BY <1>0, <2>1, AddressForms
<1>2. Head488("write", d) = Cons(UNL, ListenRest(d, TalkAs(Ctl)))
  <2>1. ListenTo(d) \o TalkAs(Ctl) = ListenRest(d, TalkAs(Ctl))
    BY <1>0, <1>1, AddressForms
  <2> QED
    BY <2>1 DEF Head488, BuildAddress, Cons
<1>3. Head488("read", d) = Cons(UNL, TalkRest(d, ListenTo(Ctl)))
  <2>1. TalkAs(d) \o ListenTo(Ctl) = TalkRest(d, ListenTo(Ctl))
    BY <1>0, <1>1, AddressForms
  <2> QED
    BY <2>1 DEF Head488, BuildAddress, Cons
<1>4. Head488("poll", d) = Cons(UNL, Cons(LAD(Pad[Ctl]), Cons(SPE, TalkRest(d, <<>>))))
  <2> DEFINE a == UNL  b == LAD(Pad[Ctl])  e == SPE  t == TalkAs(d)
  <2>1. t = TalkRest(d, <<>>) /\ t \in Seq(Command)
    <3>1. t \o <<>> = t /\ t \in Seq(Command)
      BY <1>0, <1>1, AddressForms, ConcatEmptySeq
    <3> QED
      BY <1>0, <1>1, <3>1, AddressForms
  <2>2. Head488("poll", d) = <<a, b, e>> \o t
    BY DEF Head488, PollHead
  <2>3. a \in Command /\ b \in Command /\ e \in Command
    BY <1>1, CommandTypes
  <2> HIDE DEF a, b, e, t
  <2>4. <<a>> \in Seq(Command) /\ <<b>> \in Seq(Command) /\ <<e>> \in Seq(Command)
    BY <2>3, Literals
  <2>5. <<b, e>> \in Seq(Command) /\ <<b>> \o <<e>> = <<b, e>>
    BY <2>3, Literals
  <2>6. <<a>> \o <<b, e>> = <<a, b, e>>
    BY <2>3, Literals
  <2>7. <<a, b, e>> \o t = <<a>> \o (<<b, e>> \o t)
    <3>1. (<<a>> \o <<b, e>>) \o t = <<a>> \o (<<b, e>> \o t)
      BY <2>1, <2>4, <2>5, ConcatAssociative
    <3> QED
      BY <3>1, <2>6
  <2>8. <<b, e>> \o t = <<b>> \o (<<e>> \o t)
    <3>1. (<<b>> \o <<e>>) \o t = <<b>> \o (<<e>> \o t)
      BY <2>1, <2>4, ConcatAssociative
    <3> QED
      BY <3>1, <2>5
  <2> QED
    BY <2>1, <2>2, <2>7, <2>8 DEF Cons, a, b, e
<1>5. ASSUME NEW o \in CmdOps
      PROVE Head488(o, d) = Cons(UNL, ListenRest(d, <<<<Effect(o), 0>>>>))
  <2>1. Effect(o) \in Addressed /\ Head488(o, d) = AddressedCommand(d, Effect(o))
    BY DEF CmdOps, Effect, Head488, Addressed
  <2> DEFINE x == <<Effect(o), 0>>
  <2>2. x \in Command
    BY <2>1, CommandTypes
  <2>3. Head488(o, d) = <<UNL>> \o ListenTo(d) \o <<x>>
    BY <2>1 DEF AddressedCommand
  <2> HIDE DEF x
  <2>4. <<UNL>> \in Seq(Command) /\ <<x>> \in Seq(Command) /\ ListenTo(d) \in Seq(Command)
    <3>1. <<UNL>> \in Seq(Command)
      <4>1. UNL \in Command
        BY CommandTypes
      <4> QED
        BY <4>1
    <3>2. <<x>> \in Seq(Command)
      BY <2>2
    <3>3. ListenTo(d) \in Seq(Command)
      BY <1>0, <1>1, AddressForms
    <3> QED
      BY <3>1, <3>2, <3>3
  <2>5. <<UNL>> \o ListenTo(d) \o <<x>> = <<UNL>> \o (ListenTo(d) \o <<x>>)
    BY <2>4, ConcatAssociative
  <2>6. ListenTo(d) \o <<x>> = ListenRest(d, <<x>>)
    BY <2>4, <1>0, AddressForms
  <2> QED
    BY <2>3, <2>5, <2>6 DEF Cons, x
<1>6. Head488("pass", d) = Cons(TAD(Pad[d]), Cons(TCT, <<>>))
  <2> DEFINE a == TAD(Pad[d])  b == TCT
  <2>1. a \in Command /\ b \in Command
    BY <1>0, <1>1, AddressForms, CommandTypes
  <2>2. Head488("pass", d) = <<a, b>>
    BY DEF Head488, PassControl
  <2> HIDE DEF a, b
  <2>3. <<b>> \o <<>> = <<b>>
    BY <2>1, <1>1, ConcatEmptySeq
  <2>4. <<a>> \o <<b>> = <<a, b>>
    BY <2>1, Literals
  <2> QED
    BY <2>2, <2>3, <2>4 DEF Cons, a, b
<1>7. ASSUME NEW o \in {"dcl", "llo"}
      PROVE Head488(o, d) = Cons(<<Effect(o), 0>>, <<>>)
  <2>1. Effect(o) \in Universal /\ Head488(o, d) = <<<<Effect(o), 0>>>>
    BY DEF Effect, Head488, Universal
  <2> DEFINE x == <<Effect(o), 0>>
  <2>2. x \in Command /\ Head488(o, d) = <<x>>
    BY <2>1, CommandTypes
  <2> HIDE DEF x
  <2>3. <<x>> \o <<>> = <<x>>
    BY <2>2, <1>1, ConcatEmptySeq
  <2> QED
    BY <2>2, <2>3 DEF Cons, x
<1>8. Head488("ifc", d) = <<>>
  BY DEF Head488
<1> QED
  BY <1>2, <1>3, <1>4, <1>5, <1>6, <1>7, <1>8

\* What each kind of command byte does.
LEMMA ApplyUnl ==
    ASSUME Apply(UNL)
    PROVE  /\ listen' = {} /\ lpas' = {} /\ talk' = talk /\ tpas' = {} /\ spe' = spe
           /\ HitBy(UNL) = {}
<1>1. UNL # UNT /\ UNL # SPE /\ UNL # SPD /\ UNL[1] = "UNL"
  BY DEF UNL, UNT, SPE, SPD
<1> QED
  BY <1>1 DEF Apply, ListenAfter, TalkAfter, PrimaryAfter, SpeAfter, HitBy, Addressed, Universal

\* A listen address makes its member a listener, or has it wait for its secondary address.
LEMMA ApplyListen ==
    ASSUME NEW p, Apply(LAD(p))
    PROVE  /\ listen' = listen \cup Simple(p) /\ lpas' = Extended(p)
           /\ talk' = talk /\ tpas' = {} /\ spe' = spe
           /\ HitBy(LAD(p)) = {}
<1>1. LAD(p) # UNL /\ LAD(p) # UNT /\ LAD(p) # SPE /\ LAD(p) # SPD /\ LAD(p)[1] = "LAD" /\ LAD(p)[2] = p
  BY DEF UNL, UNT, SPE, SPD, LAD
<1> HIDE DEF LAD
<1> QED
  BY <1>1 DEF Apply, ListenAfter, TalkAfter, PrimaryAfter, SpeAfter, HitBy, Addressed, Universal

\* A talk address makes its member the talker and every other member stop talking.
LEMMA ApplyTalk ==
    ASSUME NEW p, Apply(TAD(p))
    PROVE  /\ listen' = listen /\ lpas' = {}
           /\ talk' = Simple(p) \cup (talk \cap Extended(p)) /\ tpas' = Extended(p) /\ spe' = spe
           /\ HitBy(TAD(p)) = {}
<1>1. TAD(p) # UNL /\ TAD(p) # UNT /\ TAD(p) # SPE /\ TAD(p) # SPD /\ TAD(p)[1] = "TAD" /\ TAD(p)[2] = p
  BY DEF UNL, UNT, SPE, SPD, TAD
<1> QED
  BY <1>1 DEF Apply, ListenAfter, TalkAfter, PrimaryAfter, SpeAfter, HitBy, Addressed, Universal

\* A secondary address addresses those that wait for it.
LEMMA ApplySecondary ==
    ASSUME NEW s, Apply(SAD(s))
    PROVE  /\ listen' = listen \cup {m \in lpas : Sad[m] = s} /\ lpas' = lpas
           /\ talk' = {m \in talk \cup tpas : m \in tpas => Sad[m] = s} /\ tpas' = tpas
           /\ spe' = spe /\ HitBy(SAD(s)) = {}
<1>1. SAD(s) # UNL /\ SAD(s) # UNT /\ SAD(s) # SPE /\ SAD(s) # SPD /\ SAD(s)[1] = "SAD" /\ SAD(s)[2] = s
  BY DEF UNL, UNT, SPE, SPD, SAD
<1> QED
  BY <1>1 DEF Apply, ListenAfter, TalkAfter, PrimaryAfter, SpeAfter, HitBy, Addressed, Universal

\* After SPE whoever is up answers polls.
LEMMA ApplySpe ==
    ASSUME Apply(SPE)
    PROVE  listen' = listen /\ talk' = talk /\ spe' = alive /\ HitBy(SPE) = {}
<1>1. SPE # UNL /\ SPE # UNT /\ SPE[1] = "SPE"
  BY DEF UNL, UNT, SPE
<1> QED
  BY <1>1 DEF Apply, ListenAfter, TalkAfter, SpeAfter, HitBy, Addressed, Universal

\* After SPD nobody does.
LEMMA ApplySpd ==
    ASSUME Apply(SPD)
    PROVE  spe' = {} /\ HitBy(SPD) = {}
<1>1. SPD # SPE /\ SPD[1] = "SPD"
  BY DEF SPD, SPE
<1> QED
  BY <1>1 DEF Apply, SpeAfter, HitBy, Addressed, Universal

\* UNT acts on talkers only.
LEMMA ApplyUnt ==
    ASSUME Apply(UNT)
    PROVE  spe' = spe /\ HitBy(UNT) = {}
<1>1. UNT # SPE /\ UNT # SPD /\ UNT[1] = "UNT"
  BY DEF UNT, SPD, SPE
<1> QED
  BY <1>1 DEF Apply, SpeAfter, HitBy, Addressed, Universal

\* TCT makes no device do anything by itself.
LEMMA ApplyTct ==
    ASSUME Apply(TCT)
    PROVE  spe' = spe /\ HitBy(TCT) = {}
<1>1. TCT # SPE /\ TCT # SPD /\ TCT[1] = "TCT"
  BY DEF TCT, SPD, SPE
<1> QED
  BY <1>1 DEF Apply, SpeAfter, HitBy, Addressed, Universal

\* An addressed command acts on the listeners that are up, a universal one on all that are up.
LEMMA ApplyEffect ==
    ASSUME NEW e \in CmdEffects, Apply(<<e, 0>>)
    PROVE  /\ listen' = listen /\ spe' = spe
           /\ HitBy(<<e, 0>>) = (IF e \in Addressed THEN listen \cap alive ELSE alive) \X {e}
<1> DEFINE c == <<e, 0>>
<1>1. c # UNL /\ c # UNT /\ c # SPE /\ c # SPD /\ c[1] = e /\ e \notin {"LAD", "SAD", "TAD"}
  BY DEF UNL, UNT, SPE, SPD, CmdEffects, Addressed, Universal
<1> HIDE DEF c
<1>2. Apply(c)
  BY DEF c
<1>3. listen' = listen /\ spe' = spe
  BY <1>1, <1>2 DEF Apply, ListenAfter, SpeAfter
<1>4. HitBy(c) = (IF e \in Addressed THEN listen \cap alive ELSE alive) \X {e}
  BY <1>1 DEF HitBy, CmdEffects
<1> QED
  BY <1>3, <1>4 DEF c

------------------------------------------------------------------------------
(* Addressing, command by command *)

\* With addresses told apart, who shares a primary and answers to the secondary is one.
LEMMA OneMember ==
    ASSUME Distinct, NEW m \in Members, NEW n \in Members, Pad[m] = Pad[n],
           Sad[n] = -1 \/ Sad[m] = Sad[n]
    PROVE  m = n
  BY DEF Distinct

ListenOn(t) ==
    \/ todo' = ListenRest(dev, t) /\ listen' = {}
    \/ Sad[dev] # -1 /\ todo' = Cons(SAD(Sad[dev]), t) /\ AwaitingListen'
    \/ todo' = t /\ Listening'

\* A byte of the string that makes the device listen brings it one byte nearer to that.
LEMMA ListenStep ==
    ASSUME NEW t \in Seq(Command), TypeOK, Noted, ListenPart(t), SendCommand
    PROVE  ListenOn(t) /\ HitBy(Head(todo)) = {} /\ spe' = spe
<1>0. /\ dev \in Members /\ dev \in Devices /\ dev' = dev /\ upset' = upset /\ alive' = alive
      /\ Apply(Head(todo)) /\ todo' = Tail(todo)
      /\ Steady => dev \in alive
      /\ listen \subseteq Members /\ lpas \subseteq Members
  BY DEF SendCommand, TypeOK, BusTypeOK, callVars, Noted, Steady, Members
<1>1. /\ LAD(Pad[dev]) \in Command /\ UNL \in Command
      /\ ListenRest(dev, t) \in Seq(Command) /\ Secondary(dev) \o t \in Seq(Command)
  BY <1>0, AddressForms, CommandTypes, SecondaryForms
<1>2. CASE todo = Cons(UNL, ListenRest(dev, t))
  <2>1. Head(todo) = UNL /\ todo' = ListenRest(dev, t)
    BY <1>0, <1>1, <1>2, ConsFacts
  <2>2. listen' = {} /\ HitBy(Head(todo)) = {} /\ spe' = spe
    BY <1>0, <2>1, ApplyUnl
  <2> QED
    BY <1>0, <2>1, <2>2 DEF ListenOn
<1>3. CASE todo = ListenRest(dev, t) /\ listen = {}
  <2>1. Head(todo) = LAD(Pad[dev]) /\ todo' = Secondary(dev) \o t
    BY <1>0, <1>1, <1>3, ConsFacts DEF ListenRest
  <2>2. /\ listen' = Simple(Pad[dev]) /\ lpas' = Extended(Pad[dev])
        /\ HitBy(Head(todo)) = {} /\ spe' = spe
    BY <1>0, <1>3, <2>1, ApplyListen
  <2>3. CASE Sad[dev] = -1
    <3>1. todo' = t
      BY <1>0, <2>1, <2>3, SecondaryForms
    <3>2. Steady => dev \in listen'
      BY <1>0, <2>2, <2>3 DEF Simple, Up
    <3>3. ASSUME Distinct, NEW m \in listen' PROVE m = dev
      <4>1. m \in Members /\ Pad[m] = Pad[dev] /\ Sad[m] = -1
        BY <2>2, <3>3, <1>0 DEF Simple, Up, Members, TypeOK, BusTypeOK
      <4> QED
        BY <1>0, <2>3, <3>3, <4>1, OneMember
    <3>4. Listening'
      BY <1>0, <3>2, <3>3 DEF Listening, Steady, Distinct
    <3> QED
      BY <2>2, <3>1, <3>4 DEF ListenOn
  <2>4. CASE Sad[dev] # -1
    <3>1. todo' = Cons(SAD(Sad[dev]), t)
      BY <1>0, <2>1, <2>4, SecondaryForms
    <3>2. Steady => dev \in lpas'
      BY <1>0, <2>2, <2>4 DEF Extended, Up
    <3>3. lpas' \subseteq {m \in Members : Pad[m] = Pad[dev] /\ Sad[m] # -1}
      BY <1>0, <2>2 DEF Extended, Up, Members, TypeOK, BusTypeOK
    <3>4. ASSUME Distinct, NEW m \in listen' PROVE FALSE
      <4>1. m \in Members /\ Pad[m] = Pad[dev] /\ Sad[m] = -1
        BY <2>2, <3>4, <1>0 DEF Simple, Up, Members, TypeOK, BusTypeOK
      <4>2. m = dev
        BY <1>0, <3>4, <4>1, OneMember
      <4> QED
        BY <2>4, <4>1, <4>2
    <3>5. AwaitingListen'
      BY <1>0, <3>2, <3>3, <3>4 DEF AwaitingListen, Steady, Distinct
    <3> QED
      BY <2>2, <2>4, <3>1, <3>5 DEF ListenOn
  <2> QED
    BY <2>3, <2>4
<1>4. CASE Sad[dev] # -1 /\ todo = Cons(SAD(Sad[dev]), t) /\ AwaitingListen
  <2>0. SAD(Sad[dev]) \in Command
    BY <1>0, <1>4, SecondaryForms
  <2>1. Head(todo) = SAD(Sad[dev]) /\ todo' = t
    BY <1>0, <1>4, <2>0, ConsFacts
  <2>2. /\ listen' = listen \cup {m \in lpas : Sad[m] = Sad[dev]}
        /\ HitBy(Head(todo)) = {} /\ spe' = spe
    BY <1>0, <2>1, ApplySecondary
  <2>3. Steady => dev \in listen'
    BY <1>4, <2>2 DEF AwaitingListen
  <2>4. ASSUME Distinct, NEW m \in listen' PROVE m = dev
    <3>1. m \in Members /\ Pad[m] = Pad[dev] /\ Sad[m] = Sad[dev]
      BY <1>4, <2>2, <2>4 DEF AwaitingListen
    <3> QED
      BY <1>0, <2>4, <3>1, OneMember
  <2>5. Listening'
    BY <1>0, <2>3, <2>4 DEF Listening, Steady, Distinct
  <2> QED
    BY <2>1, <2>2, <2>5 DEF ListenOn
<1> QED
  BY <1>2, <1>3, <1>4 DEF ListenPart

TalkOn(t) ==
    \/ Sad[dev] # -1 /\ todo' = Cons(SAD(Sad[dev]), t) /\ AwaitingTalk'
    \/ todo' = t /\ Talking'

\* A byte of the string that makes the device talk brings it one byte nearer to that.
LEMMA TalkStep ==
    ASSUME NEW t \in Seq(Command), TypeOK, TalkPart(t), SendCommand
    PROVE  TalkOn(t) /\ HitBy(Head(todo)) = {} /\ spe' = spe
<1>0. /\ dev \in Members /\ dev' = dev /\ upset' = upset /\ alive' = alive
      /\ Apply(Head(todo)) /\ todo' = Tail(todo)
      /\ talk \subseteq Members /\ tpas \subseteq Members
  BY DEF SendCommand, TypeOK, BusTypeOK, callVars, Members
<1>1. /\ TAD(Pad[dev]) \in Command
      /\ Secondary(dev) \o t \in Seq(Command)
  BY <1>0, AddressForms, SecondaryForms
<1>2. CASE todo = TalkRest(dev, t)
  <2>1. Head(todo) = TAD(Pad[dev]) /\ todo' = Secondary(dev) \o t
    BY <1>0, <1>1, <1>2, ConsFacts DEF TalkRest
  <2>2. /\ talk' = Simple(Pad[dev]) \cup (talk \cap Extended(Pad[dev]))
        /\ tpas' = Extended(Pad[dev])
        /\ HitBy(Head(todo)) = {} /\ spe' = spe
    BY <1>0, <2>1, ApplyTalk
  <2>3. /\ Simple(Pad[dev]) \subseteq {m \in Members : Pad[m] = Pad[dev] /\ Sad[m] = -1}
        /\ Extended(Pad[dev]) \subseteq {m \in Members : Pad[m] = Pad[dev] /\ Sad[m] # -1}
    BY DEF Simple, Extended, Up, Members, TypeOK, BusTypeOK
  <2>4. CASE Sad[dev] = -1
    <3>1. todo' = t
      BY <1>0, <2>1, <2>4, SecondaryForms
    <3>2. ASSUME Distinct, NEW m \in talk' PROVE m = dev
      <4>1. m \in Members /\ Pad[m] = Pad[dev]
        BY <2>2, <2>3, <3>2
      <4> QED
        BY <1>0, <2>4, <3>2, <4>1, OneMember
    <3>3. Talking'
      BY <1>0, <3>2 DEF Talking, Distinct
    <3> QED
      BY <2>2, <3>1, <3>3 DEF TalkOn
  <2>5. CASE Sad[dev] # -1
    <3>1. todo' = Cons(SAD(Sad[dev]), t)
      BY <1>0, <2>1, <2>5, SecondaryForms
    <3>2. ASSUME Distinct, NEW m \in talk' PROVE m \in tpas'
      <4>1. CASE m \in Simple(Pad[dev])
        <5>1. m \in Members /\ Pad[dev] = Pad[m] /\ Sad[m] = -1
          BY <4>1, <2>3
        <5>2. dev = m
          BY <1>0, <3>2, <5>1, OneMember
        <5> QED
          BY <2>5, <5>1, <5>2
      <4> QED
        BY <4>1, <2>2, <3>2
    <3>3. tpas' \subseteq {m \in Members : Pad[m] = Pad[dev]}
      BY <2>2, <2>3
    <3>4. AwaitingTalk'
      BY <1>0, <3>2, <3>3 DEF AwaitingTalk, Distinct
    <3> QED
      BY <2>2, <2>5, <3>1, <3>4 DEF TalkOn
  <2> QED
    BY <2>4, <2>5
<1>3. CASE Sad[dev] # -1 /\ todo = Cons(SAD(Sad[dev]), t) /\ AwaitingTalk
  <2>0. SAD(Sad[dev]) \in Command
    BY <1>0, <1>3, SecondaryForms
  <2>1. Head(todo) = SAD(Sad[dev]) /\ todo' = t
    BY <1>0, <1>3, <2>0, ConsFacts
  <2>2. /\ talk' = {m \in talk \cup tpas : m \in tpas => Sad[m] = Sad[dev]}
        /\ HitBy(Head(todo)) = {} /\ spe' = spe
    BY <1>0, <2>1, ApplySecondary
  <2>3. ASSUME Distinct, NEW m \in talk' PROVE m = dev
    <3>1. m \in Members /\ Pad[m] = Pad[dev] /\ Sad[m] = Sad[dev]
      BY <1>3, <2>2, <2>3 DEF AwaitingTalk
    <3> QED
      BY <1>0, <2>3, <3>1, OneMember
  <2>4. Talking'
    BY <1>0, <2>3 DEF Talking, Distinct
  <2> QED
    BY <2>1, <2>2, <2>4 DEF TalkOn
<1> QED
  BY <1>2, <1>3 DEF TalkPart

\* What every command byte has in common.
LEMMA SendFacts ==
    ASSUME TypeOK, Noted, SendCommand
    PROVE  /\ dev \in Devices /\ dev \in Members /\ Ctl \in Members
           /\ dev' = dev /\ op' = op /\ upset' = upset /\ alive' = alive
           /\ todo # <<>> /\ todo' = Tail(todo) /\ Apply(Head(todo))
           /\ <<>> \in Seq(Command) /\ TalkAs(Ctl) \in Seq(Command) /\ ListenTo(Ctl) \in Seq(Command)
           /\ Steady => dev \in alive
           /\ (Listening /\ listen' = listen => Listening')
           /\ (Talking /\ talk' = talk => Talking')
           /\ (Polled /\ spe' = spe => Polled')
<1>1. /\ dev \in Devices /\ dev \in Members /\ Ctl \in Members
      /\ dev' = dev /\ op' = op /\ upset' = upset /\ alive' = alive
      /\ todo # <<>> /\ todo' = Tail(todo) /\ Apply(Head(todo))
      /\ Steady => dev \in alive
  BY DEF SendCommand, TypeOK, BusTypeOK, callVars, Noted, Steady, Members
<1>2. <<>> \in Seq(Command)
  OBVIOUS
<1>3. TalkAs(Ctl) \in Seq(Command) /\ ListenTo(Ctl) \in Seq(Command)
  BY <1>1, <1>2, AddressForms
<1>4. /\ Listening /\ listen' = listen => Listening'
      /\ Talking /\ talk' = talk => Talking'
      /\ Polled /\ spe' = spe => Polled'
  BY <1>1 DEF Listening, Talking, Polled, Steady, Distinct
<1> QED
  BY <1>1, <1>2, <1>3, <1>4

\* The interface's own secondary address, sent last, changes nobody else.
LEMMA LastSecondary ==
    ASSUME todo = Secondary(Ctl), TypeOK, Noted, SendCommand
    PROVE  /\ todo' = <<>> /\ HitBy(Head(todo)) = {} /\ spe' = spe
           /\ lpas = {} => listen' = listen
           /\ tpas = {} => talk' = talk
<1>1. /\ Sad[Ctl] # -1 /\ SAD(Sad[Ctl]) \in Command
      /\ todo = Cons(SAD(Sad[Ctl]), <<>>)
  BY SendFacts, SecondaryForms
<1>2. Head(todo) = SAD(Sad[Ctl]) /\ todo' = <<>>
  BY <1>1, SendFacts, ConsFacts
<1>3. Apply(SAD(Sad[Ctl]))
  BY <1>2, SendFacts
<1> QED
  BY <1>2, <1>3, ApplySecondary

\* A command byte of gpib488_write keeps what was sent as it should be.
LEMMA WriteStep ==
    ASSUME WriteSent, TypeOK, Noted, SendCommand
    PROVE  WriteSent' /\ HitBy(Head(todo)) = {} /\ spe' = spe
<1> DEFINE t == TalkAs(Ctl)
<1>0. t \in Seq(Command)
  BY SendFacts
<1>1. CASE ListenPart(t)
  <2>1. ListenOn(t) /\ HitBy(Head(todo)) = {} /\ spe' = spe
    BY <1>0, <1>1, ListenStep
  <2>2. dev' = dev
    BY SendFacts
  <2> QED
    BY <2>1, <2>2 DEF ListenOn, WriteSent, ListenPart
<1>2. CASE Listening /\ todo = TalkAs(Ctl)
  <2>1. TAD(Pad[Ctl]) \in Command /\ Secondary(Ctl) \in Seq(Command)
        /\ todo = Cons(TAD(Pad[Ctl]), Secondary(Ctl))
    BY <1>2, SendFacts, AddressForms, SecondaryForms
  <2>2. Head(todo) = TAD(Pad[Ctl]) /\ todo' = Secondary(Ctl)
    BY <2>1, SendFacts, ConsFacts
  <2>3. Apply(TAD(Pad[Ctl]))
    BY <2>2, SendFacts
  <2>4. listen' = listen /\ lpas' = {} /\ HitBy(Head(todo)) = {} /\ spe' = spe
    BY <2>2, <2>3, ApplyTalk
  <2> QED
    BY <1>2, <2>2, <2>4, SendFacts DEF WriteSent
<1>3. CASE Listening /\ lpas = {} /\ todo = Secondary(Ctl)
  BY <1>3, LastSecondary, SendFacts DEF WriteSent
<1> QED
  BY <1>1, <1>2, <1>3, SendFacts DEF WriteSent

\* A command byte of gpib488_read keeps what was sent as it should be.
LEMMA ReadStep ==
    ASSUME ReadSent, TypeOK, Noted, SendCommand
    PROVE  ReadSent' /\ HitBy(Head(todo)) = {} /\ spe' = spe
<1> DEFINE t == ListenTo(Ctl)
<1>0. t \in Seq(Command)
  BY SendFacts
<1>1. CASE todo = Cons(UNL, TalkRest(dev, t))
  <2>1. UNL \in Command /\ TalkRest(dev, t) \in Seq(Command)
    BY <1>0, SendFacts, AddressForms, CommandTypes
  <2>2. Head(todo) = UNL /\ todo' = TalkRest(dev, t)
    BY <1>1, <2>1, SendFacts, ConsFacts
  <2>3. Apply(UNL)
    BY <2>2, SendFacts
  <2>4. HitBy(Head(todo)) = {} /\ spe' = spe
    BY <2>2, <2>3, ApplyUnl
  <2> QED
    BY <2>2, <2>4, SendFacts DEF ReadSent, TalkPart
<1>2. CASE TalkPart(t)
  <2>1. TalkOn(t) /\ HitBy(Head(todo)) = {} /\ spe' = spe
    BY <1>0, <1>2, TalkStep
  <2>2. dev' = dev
    BY SendFacts
  <2> QED
    BY <2>1, <2>2 DEF TalkOn, ReadSent, TalkPart
<1>3. CASE Talking /\ todo = ListenTo(Ctl)
  <2>1. LAD(Pad[Ctl]) \in Command /\ Secondary(Ctl) \in Seq(Command)
        /\ todo = Cons(LAD(Pad[Ctl]), Secondary(Ctl))
    BY <1>3, SendFacts, AddressForms, SecondaryForms
  <2>2. Head(todo) = LAD(Pad[Ctl]) /\ todo' = Secondary(Ctl)
    BY <2>1, SendFacts, ConsFacts
  <2>3. Apply(LAD(Pad[Ctl]))
    BY <2>2, SendFacts
  <2>4. talk' = talk /\ tpas' = {} /\ HitBy(Head(todo)) = {} /\ spe' = spe
    BY <2>2, <2>3, ApplyListen
  <2> QED
    BY <1>3, <2>2, <2>4, SendFacts DEF ReadSent
<1>4. CASE Talking /\ tpas = {} /\ todo = Secondary(Ctl)
  BY <1>4, LastSecondary, SendFacts DEF ReadSent
<1> QED
  BY <1>1, <1>2, <1>3, <1>4, SendFacts DEF ReadSent

\* A command byte of gpib488_serial_poll keeps what was sent as it should be.
LEMMA PollStep ==
    ASSUME PollSent, TypeOK, Noted, SendCommand
    PROVE  PollSent' /\ HitBy(Head(todo)) = {}
<1> DEFINE r == TalkRest(dev, <<>>)
           l == LAD(Pad[Ctl])
<1>0. /\ UNL \in Command /\ SPE \in Command /\ l \in Command /\ r \in Seq(Command)
  BY SendFacts, AddressForms, CommandTypes
<1>1. Cons(SPE, r) \in Seq(Command)
  BY <1>0, ConsFacts
<1>2. Cons(l, Cons(SPE, r)) \in Seq(Command)
  BY <1>0, <1>1, ConsFacts
<1>3. CASE todo = Cons(UNL, Cons(l, Cons(SPE, r)))
  <2>1. Head(todo) = UNL /\ todo' = Cons(l, Cons(SPE, r))
    BY <1>0, <1>2, <1>3, SendFacts, ConsFacts
  <2>2. Apply(UNL)
    BY <2>1, SendFacts
  <2>3. HitBy(Head(todo)) = {}
    BY <2>1, <2>2, ApplyUnl
  <2> QED
    BY <2>1, <2>3, SendFacts DEF PollSent
<1>4. CASE todo = Cons(l, Cons(SPE, r))
  <2>1. Head(todo) = l /\ todo' = Cons(SPE, r)
    BY <1>0, <1>1, <1>4, SendFacts, ConsFacts
  <2>2. Apply(l)
    BY <2>1, SendFacts
  <2>3. HitBy(Head(todo)) = {}
    BY <2>1, <2>2, ApplyListen
  <2> QED
    BY <2>1, <2>3, SendFacts DEF PollSent
<1>5. CASE todo = Cons(SPE, r)
  <2>1. Head(todo) = SPE /\ todo' = r
    BY <1>0, <1>5, SendFacts, ConsFacts
  <2>2. Apply(SPE)
    BY <2>1, SendFacts
  <2>3. HitBy(Head(todo)) = {} /\ spe' = alive
    BY <2>1, <2>2, ApplySpe
  <2>4. Polled'
    BY <2>3, SendFacts DEF Polled, Steady
  <2> QED
    BY <2>1, <2>3, <2>4, SendFacts DEF PollSent, TalkPart
<1>6. CASE Polled /\ TalkPart(<<>>)
  <2>1. TalkOn(<<>>) /\ HitBy(Head(todo)) = {} /\ spe' = spe
    BY <1>6, SendFacts, TalkStep
  <2>2. dev' = dev /\ Polled'
    BY <1>6, <2>1, SendFacts
  <2> QED
    BY <2>1, <2>2 DEF TalkOn, PollSent, TalkPart
<1> QED
  BY <1>3, <1>4, <1>5, <1>6, SendFacts DEF PollSent

Strike == <<dev, Effect(op)>>

\* A byte of a clear, a trigger or a local addresses the device, or acts on it alone.
LEMMA CmdStep ==
    ASSUME CmdSent, op \in CmdOps, TypeOK, Noted, SendCommand
    PROVE  /\ CmdSent' /\ spe' = spe
           /\ Distinct => HitBy(Head(todo)) \subseteq {Strike}
           /\ Steady /\ todo' = <<>> => Strike \in HitBy(Head(todo))
<1>1. PICK e \in Addressed : e = Effect(op)
  BY DEF CmdOps, Effect, Addressed
<1>2. Effect(op)' = e
  BY <1>1, SendFacts DEF Effect
<1> DEFINE x == <<e, 0>>  t == <<x>>
<1>3. x \in Command /\ e \in CmdEffects
  BY CommandTypes DEF CmdEffects
<1> HIDE DEF x
<1>4. t \in Seq(Command) /\ t # <<>> /\ Head(t) = x /\ Tail(t) = <<>>
  BY <1>3
<1> HIDE DEF t
<1>5. CASE ListenPart(t)
  <2>1. ListenOn(t) /\ HitBy(Head(todo)) = {} /\ spe' = spe
    BY <1>4, <1>5, ListenStep
  <2>2. dev' = dev
    BY SendFacts
  <2>3. CmdSent'
    BY <1>2, <2>1, <2>2 DEF ListenOn, CmdSent, ListenPart, t, x
  <2>4. todo' # <<>>
    <3>1. ListenRest(dev, t) # <<>> /\ ListenRest(dev, t) \in Seq(Command)
      BY <1>4, SendFacts, AddressForms, SecondaryForms, ConsFacts DEF ListenRest
    <3>2. Sad[dev] # -1 => Cons(SAD(Sad[dev]), t) # <<>>
      BY <1>4, SendFacts, SecondaryForms, ConsFacts
    <3> QED
      BY <2>1, <3>1, <3>2, <1>4 DEF ListenOn
  <2> QED
    BY <2>1, <2>3, <2>4
<1>6. CASE Listening /\ todo = t
  <2>1. Head(todo) = x /\ todo' = <<>>
    BY <1>4, <1>6, SendFacts
  <2>2. Apply(x)
    BY <2>1, SendFacts
  <2>3. spe' = spe /\ HitBy(x) = (listen \cap alive) \X {e}
    BY <1>3, <2>2, ApplyEffect DEF x
  <2>4. Distinct => HitBy(x) \subseteq {<<dev, e>>}
    BY <1>6, <2>3 DEF Listening
  <2>5. Steady => <<dev, e>> \in HitBy(x)
    BY <1>6, <2>3, SendFacts DEF Listening
  <2> QED
    BY <1>1, <2>1, <2>3, <2>4, <2>5 DEF CmdSent, Strike
<1> QED
  BY <1>1, <1>5, <1>6, SendFacts DEF CmdSent, t, x

\* The byte of a device clear or lockout to all acts on the device if it is up.
LEMMA AllStep ==
    ASSUME AllSent, op \in {"dcl", "llo"}, TypeOK, Noted, SendCommand
    PROVE  /\ AllSent' /\ spe' = spe /\ todo' = <<>>
           /\ Steady => Strike \in HitBy(Head(todo))
<1>1. PICK e \in Universal : e = Effect(op)
  BY DEF Effect, Universal
<1> DEFINE x == <<e, 0>>
<1>3. x \in Command /\ e \in CmdEffects /\ e \notin Addressed
  BY CommandTypes DEF CmdEffects, Universal, Addressed
<1> HIDE DEF x
<1>4. todo = <<x>>
  BY <1>1, SendFacts DEF AllSent, x
<1>5. Head(todo) = x /\ todo' = <<>>
  BY <1>3, <1>4, SendFacts
<1>6. Apply(x)
  BY <1>5, SendFacts
<1>7. spe' = spe /\ HitBy(x) = alive \X {e}
  BY <1>3, <1>6, ApplyEffect DEF x
<1>8. Steady => <<dev, e>> \in HitBy(x)
  BY <1>7, SendFacts
<1> QED
  BY <1>1, <1>5, <1>7, <1>8 DEF AllSent, Strike

\* The bytes that pass control make no device do anything yet.
LEMMA PassStep ==
    ASSUME PassSent, TypeOK, Noted, SendCommand
    PROVE  PassSent' /\ spe' = spe /\ HitBy(Head(todo)) = {}
<1> DEFINE a == TAD(Pad[dev])  b == TCT
<1>1. a \in Command /\ b \in Command
  BY SendFacts, AddressForms, CommandTypes
<1>2. CASE todo = PassControl(dev)
  <2>1. todo = <<a, b>>
    BY <1>2 DEF PassControl
  <2>2. Apply(Head(todo)) /\ todo' = Tail(todo)
    BY SendFacts
  <2> HIDE DEF a, b
  <2>3. Head(todo) = a /\ todo' = <<b>>
    BY <1>1, <2>1, <2>2
  <2>4. spe' = spe /\ HitBy(Head(todo)) = {}
    BY <2>2, <2>3, ApplyTalk DEF a
  <2> QED
    BY <2>3, <2>4 DEF PassSent, b
<1>3. CASE todo = <<TCT>>
  <2>1. Head(todo) = TCT /\ todo' = <<>>
    BY <1>1, <1>3, SendFacts
  <2>2. Apply(TCT)
    BY <2>1, SendFacts
  <2> QED
    BY <2>1, <2>2, ApplyTct DEF PassSent
<1> QED
  BY <1>2, <1>3, SendFacts DEF PassSent

\* The bytes that end a serial poll leave nobody answering polls.
LEMMA TailStep ==
    ASSUME todo = PollTail \/ (todo \in {<<UNT>>, <<>>} /\ spe = {}), TypeOK, Noted, SendCommand
    PROVE  todo' \in {<<UNT>>, <<>>} /\ spe' = {} /\ HitBy(Head(todo)) = {}
<1>1. UNT \in Command /\ SPD \in Command
  BY CommandTypes
<1>2. CASE todo = PollTail
  <2>1. Head(todo) = SPD /\ todo' = <<UNT>>
    <3> DEFINE a == SPD  b == UNT
    <3>1. a \in Command /\ b \in Command /\ todo = <<a, b>>
      BY <1>1, <1>2 DEF PollTail
    <3> HIDE DEF a, b
    <3>2. Head(todo) = a /\ todo' = <<b>>
      BY <3>1, SendFacts
    <3> QED
      BY <3>2 DEF a, b
  <2>2. Apply(SPD)
    BY <2>1, SendFacts
  <2> QED
    BY <2>1, <2>2, ApplySpd
<1>3. CASE todo = <<UNT>> /\ spe = {}
  <2>1. Head(todo) = UNT /\ todo' = <<>>
    BY <1>1, <1>3, SendFacts
  <2>2. Apply(UNT)
    BY <2>1, SendFacts
  <2> QED
    BY <1>3, <2>1, <2>2, ApplyUnt
<1> QED
  BY <1>2, <1>3, SendFacts

\* A command byte leaves the bus in its types.
LEMMA ApplyTyped ==
    ASSUME BusTypeOK, NEW c, Apply(c)
    PROVE  /\ listen' \subseteq Members /\ talk' \subseteq Members
           /\ lpas' \subseteq Members /\ tpas' \subseteq Members /\ spe' \subseteq Devices
<1>1. Up \subseteq Members /\ alive \subseteq Devices /\ spe \subseteq Devices
  BY DEF Up, Members, BusTypeOK
<1>2. Simple(c[2]) \subseteq Members /\ Extended(c[2]) \subseteq Members
  BY <1>1 DEF Simple, Extended
<1>3. listen \subseteq Members /\ talk \subseteq Members /\ lpas \subseteq Members /\ tpas \subseteq Members
  BY DEF BusTypeOK
<1>4. listen' \subseteq Members
  BY <1>2, <1>3 DEF Apply, ListenAfter
<1>5. talk' \subseteq Members
  BY <1>2, <1>3 DEF Apply, TalkAfter
<1>6. lpas' \subseteq Members /\ tpas' \subseteq Members
  BY <1>2, <1>3 DEF Apply, PrimaryAfter
<1>7. spe' \subseteq Devices
  BY <1>1 DEF Apply, SpeAfter
<1> QED
  BY <1>4, <1>5, <1>6, <1>7

\* What a command makes devices do, by device and effect.
LEMMA HitTyped ==
    ASSUME BusTypeOK, NEW c
    PROVE  HitBy(c) \subseteq Devices \X (Addressed \cup Universal)
<1>1. alive \subseteq Devices /\ listen \cap alive \subseteq Devices
  BY DEF BusTypeOK
<1> QED
  BY <1>1 DEF HitBy

\* What was sent stays so while members are at most lost, and the device not unless noted.
LEMMA Kept ==
    ASSUME op' = op, dev' = dev, todo' = todo,
           listen' \subseteq listen, lpas' \subseteq lpas, talk' \subseteq talk, tpas' \subseteq tpas,
           talk' \cap tpas \subseteq tpas',
           Steady' => /\ Steady
                      /\ dev \in listen => dev \in listen'
                      /\ dev \in lpas => dev \in lpas'
                      /\ dev \in spe => dev \in spe'
    PROVE  /\ WriteSent => WriteSent'
           /\ ReadSent => ReadSent'
           /\ PollSent => PollSent'
           /\ CmdSent => CmdSent'
           /\ PassSent => PassSent'
           /\ AllSent => AllSent'
           /\ Listening => Listening'
           /\ Talking => Talking'
           /\ Polled => Polled'
<1>1. Listening => Listening'
  BY DEF Listening, Distinct
<1>2. Talking => Talking'
  BY DEF Talking, Distinct
<1>3. Polled => Polled'
  BY DEF Polled
<1>4. AwaitingListen => AwaitingListen'
  BY DEF AwaitingListen, Distinct
<1>5. AwaitingTalk => AwaitingTalk'
  BY DEF AwaitingTalk, Distinct
<1>6. Effect(op)' = Effect(op)
  BY DEF Effect
<1>7. WriteSent => WriteSent'
  BY <1>1, <1>4 DEF WriteSent, ListenPart
<1>8. ReadSent => ReadSent'
  BY <1>2, <1>5 DEF ReadSent, TalkPart
<1>9. PollSent => PollSent'
  BY <1>2, <1>3, <1>5 DEF PollSent, TalkPart
<1>10. CmdSent => CmdSent'
  BY <1>1, <1>4, <1>6 DEF CmdSent, ListenPart
<1>11. PassSent => PassSent'
  BY DEF PassSent
<1>12. AllSent => AllSent'
  BY <1>6 DEF AllSent
<1> QED
  BY <1>1, <1>2, <1>3, <1>7, <1>8, <1>9, <1>10, <1>11, <1>12

\* A command byte sent preserves the invariant.
LEMMA SendStep == SequenceInv /\ SendCommand => SequenceInv'
<1> SUFFICES ASSUME SequenceInv, SendCommand PROVE SequenceInv'
  OBVIOUS
<1>0. TypeOK /\ Placed /\ Charge /\ Noted /\ Counted /\ Truthful /\ Polls
      /\ Sending /\ Ready /\ Reached /\ Struck /\ Causes
  BY DEF SequenceInv
<1>1. /\ UNCHANGED <<card, cic, atn, alive, present, pc, op, dev, want, tail, left, rc, rx,
                     heard, upset, dirty>>
      /\ pc = "send" /\ card /\ cic /\ todo # <<>> /\ todo' = Tail(todo)
      /\ hit' = hit \cup HitBy(Head(todo)) /\ Apply(Head(todo))
  BY DEF SendCommand, callVars
<1>2. TypeOK'
  <2>1. todo' \in Seq(Command)
    BY <1>0, <1>1 DEF TypeOK
  <2>2. BusTypeOK'
    <3>1. BusTypeOK
      BY <1>0 DEF TypeOK
    <3>2. /\ listen' \subseteq Members /\ talk' \subseteq Members
          /\ lpas' \subseteq Members /\ tpas' \subseteq Members /\ spe' \subseteq Devices
      BY <1>1, <3>1, ApplyTyped
    <3>3. HitBy(Head(todo)) \subseteq Devices \X (Addressed \cup Universal)
      BY <3>1, HitTyped
    <3> QED
      BY <1>1, <3>1, <3>2, <3>3 DEF BusTypeOK
  <2> QED
    BY <1>0, <1>1, <2>1, <2>2 DEF TypeOK
<1>3. Placed'
  BY <1>0, <1>1 DEF Placed, Entering, Commanding, MovingData
<1>4. Charge' /\ Noted' /\ Counted' /\ Causes'
  BY <1>0, <1>1 DEF Charge, CardGone, Noted, Counted, Causes
<1>5. Truthful'
  BY <1>0, <1>1 DEF Truthful, Finished
<1>6. Reached'
  <2>1. Distinct' <=> Distinct
    BY DEF Distinct
  <2>2. Steady' <=> Steady
    BY <1>1 DEF Steady
  <2>3. ASSUME NEW h PROVE RightByte(h)' <=> RightByte(h)
    BY <1>1, <2>1, <2>2 DEF RightByte
  <2> QED
    BY <1>0, <1>1, <2>1, <2>3 DEF Reached, RightByte, Steady
<1>7. Ready'
  BY <1>1 DEF Ready, MovingData
<1>8. CASE tail
  <2>1. op = "poll" /\ (todo = PollTail \/ (todo \in {<<UNT>>, <<>>} /\ spe = {}))
    BY <1>0, <1>1, <1>8 DEF Placed, Polls
  <2>2. todo' \in {<<UNT>>, <<>>} /\ spe' = {} /\ HitBy(Head(todo)) = {}
    BY <1>0, <2>1, TailStep
  <2>3. Sending'
    BY <1>1, <1>8 DEF Sending
  <2>4. Polls'
    BY <1>1, <1>8, <2>2 DEF Polls
  <2>5. Struck'
    <3>1. hit' = hit
      BY <1>1, <2>2
    <3> QED
      BY <1>0, <1>1, <2>1, <3>1 DEF Struck, Distinct, Effect, Steady, CmdOps
  <2> QED
    BY <1>2, <1>3, <1>4, <1>5, <1>6, <1>7, <2>3, <2>4, <2>5 DEF SequenceInv
<1>9. CASE ~tail
  <2>0. /\ op = "write" => WriteSent
        /\ op = "read" => ReadSent
        /\ op = "poll" => PollSent
        /\ op \in CmdOps => CmdSent
        /\ op = "pass" => PassSent
        /\ op \in {"dcl", "llo"} => AllSent
    BY <1>0, <1>1, <1>9 DEF Sending
  <2>1. op \in {"write", "read", "poll", "pass", "dcl", "llo"} \cup CmdOps
    BY <1>0, <1>1 DEF Placed, TypeOK, AllOps, BusOps, CmdOps, Entering
  <2>2. CASE op \in CmdOps
    <3>1. CmdSent' /\ spe' = spe
          /\ (Distinct => HitBy(Head(todo)) \subseteq {Strike})
          /\ (Steady /\ todo' = <<>> => Strike \in HitBy(Head(todo)))
      BY <1>0, <2>0, <2>2, CmdStep
    <3>2. op \notin {"write", "read", "poll", "pass", "dcl", "llo"}
      BY <2>2 DEF CmdOps
    <3>3. Sending'
      BY <1>1, <3>1, <3>2 DEF Sending
    <3>4. Polls'
      BY <1>0, <1>1, <1>9, <3>1 DEF Polls
    <3>5. Struck'
      BY <1>0, <1>1, <3>1 DEF Struck, Distinct, Effect, Steady, Strike
    <3> QED
      BY <1>2, <1>3, <1>4, <1>5, <1>6, <1>7, <3>3, <3>4, <3>5 DEF SequenceInv
  <2>3. CASE op \in {"dcl", "llo"}
    <3>1. AllSent' /\ spe' = spe /\ (Steady => Strike \in HitBy(Head(todo)))
      BY <1>0, <2>0, <2>3, AllStep
    <3>2. op \notin {"write", "read", "poll", "pass"} \cup CmdOps \cup BusOps
      BY <2>3 DEF CmdOps, BusOps
    <3>3. Sending'
      BY <1>1, <3>1, <3>2 DEF Sending
    <3>4. Polls'
      BY <1>0, <1>1, <1>9, <3>1 DEF Polls
    <3>5. Struck'
      BY <1>0, <1>1, <3>1, <3>2 DEF Struck, Distinct, Effect, Steady, Strike
    <3> QED
      BY <1>2, <1>3, <1>4, <1>5, <1>6, <1>7, <3>3, <3>4, <3>5 DEF SequenceInv
  <2>4. CASE op \in {"write", "read", "poll", "pass"}
    <3>1. /\ op = "write" => WriteSent'
          /\ op = "read" => ReadSent'
          /\ op = "poll" => PollSent'
          /\ op = "pass" => PassSent'
          /\ op # "poll" => spe' = spe
          /\ HitBy(Head(todo)) = {}
      BY <1>0, <2>0, <2>4, WriteStep, ReadStep, PollStep, PassStep
    <3>2. op \notin CmdOps \cup {"dcl", "llo"}
      BY <2>4 DEF CmdOps
    <3>3. Sending'
      BY <1>1, <3>1, <3>2 DEF Sending
    <3>4. Polls'
      BY <1>0, <1>1, <1>9, <3>1 DEF Polls
    <3>5. Struck'
      <4>1. hit' = hit
        BY <1>1, <3>1
      <4> QED
        BY <1>0, <1>1, <3>2, <4>1 DEF Struck, Distinct, Effect, Steady
    <3> QED
      BY <1>2, <1>3, <1>4, <1>5, <1>6, <1>7, <3>3, <3>4, <3>5 DEF SequenceInv
  <2> QED
    BY <2>1, <2>2, <2>3, <2>4
<1> QED
  BY <1>8, <1>9
------------------------------------------------------------------------------
(* Steps that leave the bus alone *)

Results == {"OK", "TIMEOUT", "NOLISTENER", "NOTCIC", "EIO", "NOCARD"}

\* Steps that move the call on and touch neither the bus nor what was moved, ATN excepted.
Aside ==
    /\ pc \notin {"idle", "gate"}
    /\ UNCHANGED <<card, cic, alive, busVars, hit, present, callVars, left, rx, heard, upset>>
    /\ op = "read" => dirty' = dirty
    /\ ~card => ~atn'

\* What such steps preserve.
LEMMA AsideKeeps ==
    ASSUME SequenceInv, Aside, pc' # "gate"
    PROVE  /\ Charge' /\ Noted' /\ Counted' /\ Reached'
           /\ Finished' <=> Finished
           /\ Distinct' <=> Distinct
           /\ Steady' <=> Steady
           /\ Effect(op)' = Effect(op)
           /\ op' = op /\ dev' = dev /\ card' = card /\ cic' = cic /\ spe' = spe /\ hit' = hit
           /\ upset' = upset
           /\ Listening => Listening'
           /\ Talking => Talking'
           /\ Polled => Polled'
<1>1. Charge /\ Noted /\ Counted /\ Reached
  BY DEF SequenceInv
<1>2. /\ UNCHANGED <<card, cic, alive, listen, talk, lpas, tpas, spe, hit, present, op, dev,
                     want, left, rx, heard, upset>>
      /\ pc \notin {"idle", "gate"} /\ (op = "read" => dirty' = dirty) /\ (~card => ~atn')
  BY DEF Aside, busVars, callVars
<1>3. Charge' /\ Noted' /\ Counted'
  BY <1>1, <1>2 DEF Charge, CardGone, Noted, Counted
<1>4. Distinct' <=> Distinct
  BY DEF Distinct
<1>5. Steady' <=> Steady
  BY <1>2 DEF Steady
<1>6. Reached'
  BY <1>1, <1>2, <1>4, <1>5 DEF Reached, RightByte
<1>7. Finished' <=> Finished
  BY <1>2 DEF Finished
<1>8. Effect(op)' = Effect(op)
  BY <1>2 DEF Effect
<1>9. (Listening => Listening') /\ (Talking => Talking') /\ (Polled => Polled')
  BY <1>2, <1>4, <1>5 DEF Listening, Talking, Polled
<1> QED
  BY <1>2, <1>3, <1>4, <1>5, <1>6, <1>7, <1>8, <1>9

\* They preserve types, if what they set is in its type.
LEMMA AsideTyped ==
    ASSUME TypeOK, Aside, atn' \in BOOLEAN, dirty' \in BOOLEAN, tail' \in BOOLEAN,
           todo' \in Seq(Command), rc' \in Results,
           pc' \in {"idle", "cmd", "cmdWait", "send", "standby", "ifcWait",
                    "standbyWait", "data", "regain", "regainWait", "tail"}
    PROVE  TypeOK'
<1>1. UNCHANGED <<card, cic, alive, listen, talk, lpas, tpas, spe, hit, present, op, dev,
                  want, left, rx, heard, upset>>
  BY DEF Aside, busVars, callVars
<1>2. BusTypeOK'
  BY <1>1 DEF TypeOK, BusTypeOK
<1> QED
  BY <1>1, <1>2 DEF TypeOK, Results

\* A call that ends, takes control back, or goes on to end its poll.
LEMMA TurnsAway ==
    ASSUME SequenceInv, Aside, atn' \in BOOLEAN,
           NEW next \in {"idle", "regain", "tail"}, NEW r \in Results, Leave(next, r),
           next = "regain" => op \in BusOps,
           next = "tail" => op = "poll",
           tail => next = "idle",
           r = "OK" => /\ next \in {"idle", "tail"} => Finished
                       /\ next = "regain" => Finished \/ ~card
                       /\ next = "idle" /\ op = "poll" /\ cic => spe = {}
                       /\ next = "idle" /\ op \in CmdOps \cup {"dcl", "llo"} /\ Steady => Strike \in hit,
           r = "NOTCIC" => "lost" \in upset,
           r = "NOLISTENER" => upset # {},
           r = "NOCARD" => ~card
    PROVE  SequenceInv'
<1>0. TypeOK /\ Placed /\ Polls /\ Struck
  BY DEF SequenceInv
<1>1. /\ pc' = next /\ rc' = r /\ todo' = <<>> /\ pc \notin {"idle", "gate"}
      /\ tail' = (tail /\ next # "idle")
      /\ next = "idle" => dirty' = IF op = "poll" THEN r # "OK" ELSE dirty
      /\ next # "idle" => dirty' = dirty
  BY DEF Leave, Returned, Aside
<1>2. /\ Charge' /\ Noted' /\ Counted' /\ Reached'
      /\ Finished' <=> Finished
      /\ Distinct' <=> Distinct
      /\ Steady' <=> Steady
      /\ Effect(op)' = Effect(op)
      /\ op' = op /\ dev' = dev /\ card' = card /\ cic' = cic /\ spe' = spe /\ hit' = hit
      /\ upset' = upset
  BY <1>1, AsideKeeps
<1>3. tail' = FALSE
  BY <1>0, <1>1 DEF TypeOK
<1>11. /\ dirty' \in BOOLEAN
       /\ next = "idle" /\ op = "poll" => (dirty' <=> r # "OK")
       /\ ~(next = "idle" /\ op = "poll") => (dirty' <=> dirty)
  <2>1. CASE next = "idle" /\ op = "poll"
    <3>1. dirty' = (r # "OK")
      BY <1>1, <2>1
    <3> QED
      BY <2>1, <3>1
  <2>2. CASE ~(next = "idle" /\ op = "poll")
    <3>1. dirty' = dirty
      BY <1>1, <2>2
    <3> QED
      BY <1>0, <2>2, <3>1 DEF TypeOK
  <2> QED
    BY <2>1, <2>2
<1>4. TypeOK'
  <2>1. todo' \in Seq(Command)
    BY <1>1
  <2> QED
    BY <1>0, <1>1, <1>3, <1>11, <2>1, AsideTyped
<1>5. Placed'
  <2>1. op # "ifc" \/ next = "idle"
    BY DEF BusOps
  <2>2. op # "none"
    BY <1>0, <1>1 DEF Placed
  <2> QED
    BY <1>1, <1>2, <1>3, <2>1, <2>2 DEF Placed, Entering, Commanding, MovingData
<1>6. Truthful'
  BY <1>1, <1>2, <1>3 DEF Truthful
<1>7. Polls'
  <2>1. cic /\ spe # {} => dirty \/ op = "poll"
    BY <1>0 DEF Polls
  <2>2. cic /\ spe # {} => dirty' \/ (op = "poll" /\ next # "idle")
    BY <1>11, <2>1
  <2> QED
    BY <1>1, <1>2, <1>3, <2>2 DEF Polls
<1>8. Sending' /\ Ready'
  BY <1>1 DEF Sending, Ready, MovingData
<1>9. Struck'
  BY <1>0, <1>1, <1>2 DEF Struck, Strike
<1>10. Causes'
  BY <1>1, <1>2 DEF Causes
<1> QED
  BY <1>2, <1>4, <1>5, <1>6, <1>7, <1>8, <1>9, <1>10 DEF SequenceInv

\* A call that goes on to the data with all its commands sent.
LEMMA TurnsToData ==
    ASSUME SequenceInv, Aside, atn' \in BOOLEAN, pc' \in {"standby", "standbyWait", "data"},
           pc' = "data" => op \in BusOps,
           op \in BusOps \cup {"pass"},
           rc = "OK", rc' = rc, todo' \in Seq(Command), ~tail, tail' = FALSE, dirty' = dirty,
           cic => /\ op = "write" => Listening
                  /\ op \in Reads => Talking
                  /\ op = "poll" => Polled
    PROVE  SequenceInv'
<1>0. TypeOK /\ Placed /\ Polls /\ Struck /\ Causes
  BY DEF SequenceInv
<1>2. /\ Charge' /\ Noted' /\ Counted' /\ Reached'
      /\ Finished' <=> Finished
      /\ Distinct' <=> Distinct
      /\ Steady' <=> Steady
      /\ Effect(op)' = Effect(op)
      /\ op' = op /\ dev' = dev /\ card' = card /\ cic' = cic /\ spe' = spe /\ hit' = hit
      /\ upset' = upset
      /\ Listening => Listening'
      /\ Talking => Talking'
      /\ Polled => Polled'
  BY AsideKeeps
<1>4. TypeOK'
  <2>1. dirty' \in BOOLEAN /\ todo' \in Seq(Command) /\ rc' \in Results
    BY <1>0 DEF TypeOK, Results
  <2> QED
    BY <1>0, <2>1, AsideTyped
<1>5. Placed'
  <2>1. op # "ifc" /\ op # "none"
    BY DEF BusOps
  <2> QED
    BY <1>2, <2>1 DEF Placed, Entering, Commanding, MovingData
<1>6. Truthful'
  BY DEF Truthful
<1>7. Polls'
  BY <1>0, <1>2 DEF Polls, Aside
<1>8. Ready'
  BY <1>2 DEF Ready
<1>9. Struck'
  BY <1>0, <1>2 DEF Struck
<1>10. Causes'
  BY <1>2 DEF Causes
<1>11. Sending'
  BY DEF Sending
<1> QED
  BY <1>2, <1>4, <1>5, <1>6, <1>7, <1>8, <1>9, <1>10, <1>11 DEF SequenceInv

\* What is known of a command string of which nothing was sent.
LEMMA NothingSent ==
    ASSUME dev \in Devices, todo = Head488(op, dev)
    PROVE  /\ op = "write" => WriteSent
           /\ op = "read" => ReadSent
           /\ op = "poll" => PollSent
           /\ op \in CmdOps => CmdSent /\ todo # <<>>
           /\ op = "pass" => PassSent
           /\ op \in {"dcl", "llo"} => AllSent /\ todo # <<>>
<1>1. op = "write" => WriteSent
  BY HeadForms DEF WriteSent, ListenPart
<1>2. op = "read" => ReadSent
  BY HeadForms DEF ReadSent
<1>3. op = "poll" => PollSent
  BY HeadForms DEF PollSent
<1>4. ASSUME op \in CmdOps PROVE CmdSent /\ todo # <<>>
  <2>1. Effect(op) \in Addressed /\ dev \in Members
    BY <1>4 DEF CmdOps, Effect, Addressed, Members
  <2> DEFINE t == <<<<Effect(op), 0>>>>
  <2>2. t \in Seq(Command)
    <3> DEFINE x == <<Effect(op), 0>>
    <3>1. x \in Command
      BY <2>1, CommandTypes
    <3> HIDE DEF x
    <3>2. <<x>> \in Seq(Command)
      BY <3>1
    <3> QED
      BY <3>2 DEF x
  <2> HIDE DEF t
  <2>3. todo = Cons(UNL, ListenRest(dev, t))
    BY <1>4, HeadForms DEF t
  <2>4. todo # <<>>
    BY <2>1, <2>2, <2>3, AddressForms, CommandTypes, ConsFacts
  <2> QED
    BY <2>3, <2>4 DEF CmdSent, ListenPart, t
<1>5. op = "pass" => PassSent
  BY DEF Head488, PassSent
<1>6. op \in {"dcl", "llo"} => AllSent /\ todo # <<>>
  BY DEF Head488, AllSent, Effect
<1> QED
  BY <1>1, <1>2, <1>3, <1>4, <1>5, <1>6

\* A call that goes on to its commands, or to those that end its poll.
LEMMA TurnsToCommands ==
    ASSUME SequenceInv, Aside, atn' \in BOOLEAN, pc' \in {"cmd", "cmdWait", "send"},
           op \notin {"ifc", "none"}, rc' = rc, dirty' = dirty, tail' \in BOOLEAN,
           tail' => op = "poll" /\ todo' = PollTail /\ (rc = "OK" => Finished),
           ~tail' => todo' = todo /\ todo = Head488(op, dev) /\ rc = "OK"
    PROVE  SequenceInv'
<1>0. TypeOK /\ Placed /\ Polls /\ Struck /\ Causes
  BY DEF SequenceInv
<1>2. /\ Charge' /\ Noted' /\ Counted' /\ Reached'
      /\ Finished' <=> Finished
      /\ Distinct' <=> Distinct
      /\ Steady' <=> Steady
      /\ Effect(op)' = Effect(op)
      /\ op' = op /\ dev' = dev /\ card' = card /\ cic' = cic /\ spe' = spe /\ hit' = hit
      /\ upset' = upset
  BY AsideKeeps
<1>3. dev \in Devices
  BY <1>0 DEF TypeOK
<1>4. TypeOK'
  <2>1. PollTail \in Seq(Command)
    BY CommandTypes, Literals DEF PollTail
  <2>2. dirty' \in BOOLEAN /\ todo' \in Seq(Command) /\ rc' \in Results
    BY <1>0, <2>1 DEF TypeOK, Results
  <2> QED
    BY <1>0, <2>2, AsideTyped
<1>5. Placed'
  <2>1. Head488(op, dev)' = Head488(op, dev)
    BY <1>2
  <2> QED
    BY <1>2, <2>1 DEF Placed, Entering, Commanding, MovingData
<1>6. Truthful'
  BY <1>2 DEF Truthful
<1>7. Polls'
  BY <1>0, <1>2 DEF Polls, Aside
<1>8. Ready'
  BY DEF Ready, MovingData
<1>9. Struck'
  <2>1. CASE tail'
    BY <1>0, <1>2, <2>1 DEF Struck, CmdOps
  <2>2. CASE ~tail'
    <3>1. op \in CmdOps \cup {"dcl", "llo"} => todo' # <<>>
      BY <1>3, <2>2, NothingSent
    <3> QED
      BY <1>0, <1>2, <3>1 DEF Struck
  <2> QED
    BY <2>1, <2>2
<1>10. Causes'
  BY <1>0, <1>2 DEF Causes
<1>11. Sending'
  <2>1. CASE ~tail'
    <3>1. /\ op = "write" => WriteSent
          /\ op = "read" => ReadSent
          /\ op = "poll" => PollSent
          /\ op \in CmdOps => CmdSent
          /\ op = "pass" => PassSent
          /\ op \in {"dcl", "llo"} => AllSent
      BY <1>3, <2>1, NothingSent
    <3>2. UNCHANGED <<op, dev, todo, listen, lpas, talk, tpas, spe, upset>>
      BY <1>2, <2>1 DEF Aside, busVars
    <3>3. /\ WriteSent => WriteSent'
          /\ ReadSent => ReadSent'
          /\ PollSent => PollSent'
          /\ CmdSent => CmdSent'
          /\ PassSent => PassSent'
          /\ AllSent => AllSent'
      BY <1>2, <3>2, Kept
    <3> QED
      BY <1>2, <3>1, <3>3 DEF Sending
  <2>2. CASE tail'
    BY <2>2 DEF Sending
  <2> QED
    BY <2>1, <2>2
<1> QED
  BY <1>2, <1>4, <1>5, <1>6, <1>7, <1>8, <1>9, <1>10, <1>11 DEF SequenceInv

\* A step that only leaves for another point touches nothing else.
LEMMA LeaveAside ==
    ASSUME SequenceInv, pc \notin {"idle", "gate"}, NEW next, NEW r, Leave(next, r),
           UNCHANGED <<bus, present, callVars, moved>>
    PROVE  Aside /\ atn' \in BOOLEAN
<1>1. atn \in BOOLEAN /\ (~card => ~atn)
  BY DEF SequenceInv, TypeOK, BusTypeOK, Charge, CardGone
<1>2. op = "read" => dirty' = dirty
  BY DEF Leave, Returned
<1> QED
  BY <1>1, <1>2 DEF Aside, bus, moved, busVars, callVars

\* Steps that may set ATN or clear it.
LEMMA AtnAside ==
    ASSUME SequenceInv, pc \notin {"idle", "gate"}, atn' \in {atn, card, FALSE},
           op = "read" => dirty' = dirty,
           UNCHANGED <<card, cic, alive, busVars, hit, present, callVars, moved>>
    PROVE  Aside /\ atn' \in BOOLEAN
<1>1. atn \in BOOLEAN /\ card \in BOOLEAN /\ (~card => ~atn)
  BY DEF SequenceInv, TypeOK, BusTypeOK, Charge, CardGone
<1>2. CASE atn' = atn
  BY <1>1, <1>2 DEF Aside, moved, busVars, callVars
<1>3. CASE atn' = card
  BY <1>1, <1>3 DEF Aside, moved, busVars, callVars
<1>4. CASE atn' = FALSE
  BY <1>1, <1>4 DEF Aside, moved, busVars, callVars
<1> QED
  BY <1>2, <1>3, <1>4

\* ATN follows the auxiliary command while the card is in.
LEMMA AtnSet ==
    ASSUME SequenceInv, NEW v \in BOOLEAN, atn' = (card /\ v)
    PROVE  atn' \in {atn, card, FALSE}
<1>1. card \in BOOLEAN
  BY DEF SequenceInv, TypeOK, BusTypeOK
<1> QED
  BY <1>1

------------------------------------------------------------------------------
(* The interface clear *)

\* Taking control after the interface clear, asked for.
LEMMA IfcAsked ==
    SequenceInv /\ Ask("ifc", "ifcWait", TRUE, Leave("idle", "NOTCIC")) => SequenceInv'
<1> SUFFICES ASSUME SequenceInv, Ask("ifc", "ifcWait", TRUE, Leave("idle", "NOTCIC"))
             PROVE  SequenceInv'
  OBVIOUS
<1>0. TypeOK /\ Placed /\ Charge /\ Polls /\ Struck /\ Causes
  BY DEF SequenceInv
<1>1. /\ pc = "ifc" /\ UNCHANGED <<card, cic, alive, busVars, hit, present, callVars, moved>>
      /\ \/ /\ IsCic /\ pc' = "ifcWait" /\ UNCHANGED <<rc, dirty, todo, tail>>
            /\ atn' = (card /\ TRUE)
         \/ ~IsCic /\ Leave("idle", "NOTCIC") /\ atn' = atn
  BY DEF Ask
<1>2. Aside /\ atn' \in BOOLEAN
  <2>1. op = "read" => dirty' = dirty
    BY <1>1 DEF Leave, Returned
  <2>2. atn' \in {atn, card, FALSE}
    BY <1>1, AtnSet
  <2> QED
    BY <1>1, <2>1, <2>2, AtnAside
<1>3. ~tail /\ rc = "OK" /\ todo = Head488(op, dev) /\ op # "none"
  BY <1>0, <1>1 DEF Placed, Entering, Commanding, TypeOK
<1>4. CASE IsCic
  <2>1. pc' = "ifcWait" /\ UNCHANGED <<rc, dirty, todo, tail>>
    BY <1>1, <1>4
  <2>2. /\ Charge' /\ Noted' /\ Counted' /\ Reached'
        /\ Distinct' <=> Distinct
        /\ Steady' <=> Steady
        /\ Effect(op)' = Effect(op)
        /\ op' = op /\ dev' = dev /\ cic' = cic /\ spe' = spe /\ hit' = hit /\ upset' = upset
    BY <1>2, <2>1, AsideKeeps
  <2>3. TypeOK'
    <3>1. dirty' \in BOOLEAN /\ tail' \in BOOLEAN /\ todo' \in Seq(Command) /\ rc' \in Results
      BY <1>0, <2>1 DEF TypeOK, Results
    <3> QED
      BY <1>0, <1>2, <2>1, <3>1, AsideTyped
  <2>4. Placed'
    <3>1. Head488(op, dev)' = Head488(op, dev)
      BY <2>2
    <3> QED
      BY <1>3, <2>1, <2>2, <3>1 DEF Placed, Entering, Commanding, MovingData
  <2>5. Truthful' /\ Sending' /\ Ready'
    BY <1>3, <2>1 DEF Truthful, Sending, Ready, MovingData
  <2>6. Polls'
    BY <1>0, <1>1, <2>1, <2>2 DEF Polls
  <2>7. Struck' /\ Causes'
    BY <1>0, <1>3, <2>1, <2>2 DEF Struck, Causes
  <2> QED
    BY <2>2, <2>3, <2>4, <2>5, <2>6, <2>7 DEF SequenceInv
<1>5. CASE ~IsCic
  <2>1. Leave("idle", "NOTCIC")
    BY <1>1, <1>5
  <2>2. "lost" \in upset
    BY <1>0, <1>1, <1>5 DEF Charge, IsCic
  <2> QED
    BY <1>2, <1>3, <2>1, <2>2, TurnsAway DEF Results
<1> QED
  BY <1>4, <1>5

\* The interface clear is over once ATN is seen.
LEMMA IfcSeen == SequenceInv /\ Saw("ifcWait", TRUE, AfterIfc) => SequenceInv'
<1> SUFFICES ASSUME SequenceInv, Saw("ifcWait", TRUE, AfterIfc) PROVE SequenceInv'
  OBVIOUS
<1>0. TypeOK /\ Placed
  BY DEF SequenceInv
<1>1. pc = "ifcWait" /\ Leave(AfterIfc, rc) /\ UNCHANGED <<bus, present, callVars, moved>>
  BY DEF Saw
<1>2. Aside /\ atn' \in BOOLEAN
  BY <1>1, LeaveAside
<1>3. ~tail /\ rc = "OK" /\ todo = Head488(op, dev) /\ op # "none"
  BY <1>0, <1>1 DEF Placed, Entering, Commanding, TypeOK
<1>4. CASE op = "ifc"
  <2>1. Leave("idle", "OK")
    BY <1>1, <1>3, <1>4 DEF AfterIfc
  <2>2. Finished /\ op \notin CmdOps \cup {"dcl", "llo", "poll"}
    BY <1>4 DEF Finished, CmdOps, Reads
  <2> QED
    BY <1>2, <1>3, <2>1, <2>2, TurnsAway DEF Results
<1>5. CASE op # "ifc"
  <2>1. pc' = "cmd" /\ rc' = rc /\ todo' = todo /\ dirty' = dirty /\ ~tail'
    BY <1>1, <1>3, <1>5 DEF AfterIfc, Leave
  <2>2. tail' \in BOOLEAN
    BY <1>0, <1>1, <1>3 DEF Leave
  <2> QED
    BY <1>2, <1>3, <1>5, <2>1, <2>2, TurnsToCommands
<1> QED
  BY <1>4, <1>5

\* The interface clear is given up.
LEMMA IfcLate == SequenceInv /\ Expires("ifcWait", TRUE, Leave("idle", "TIMEOUT")) => SequenceInv'
<1> SUFFICES ASSUME SequenceInv, Expires("ifcWait", TRUE, Leave("idle", "TIMEOUT"))
             PROVE  SequenceInv'
  OBVIOUS
<1>1. pc = "ifcWait" /\ Leave("idle", "TIMEOUT") /\ UNCHANGED <<bus, present, callVars, moved>>
  BY DEF Expires
<1>2. Aside /\ atn' \in BOOLEAN
  BY <1>1, LeaveAside
<1>3. ~tail
  BY <1>1 DEF SequenceInv, Placed, Commanding
<1> QED
  BY <1>1, <1>2, <1>3, TurnsAway DEF Results

------------------------------------------------------------------------------
(* Commands *)

\* A command string that fails ends the call, or goes on to end the poll.
LEMMA CommandsFailKeeps ==
    ASSUME SequenceInv, Aside, atn' \in BOOLEAN, Commanding, NEW e \in Results \ {"OK", "NOCARD"},
           CommandsFail(e),
           e = "NOTCIC" => "lost" \in upset,
           e = "NOLISTENER" => upset # {}
    PROVE  SequenceInv'
<1>0. TypeOK /\ Placed /\ Causes
  BY DEF SequenceInv
<1>1. CASE tail
  <2> DEFINE r == TailError
  <2>1. r \in Results \ {"OK"} /\ (r = "EIO" \/ r = rc)
    BY <1>0 DEF TailError, FirstError, TypeOK, Results
  <2>2. Leave("idle", r)
    BY <1>1 DEF CommandsFail
  <2>3. (r = "NOTCIC" => "lost" \in upset) /\ (r = "NOLISTENER" => upset # {})
        /\ (r = "NOCARD" => ~card)
    BY <1>0, <2>1 DEF Causes
  <2> HIDE DEF r
  <2> QED
    BY <2>1, <2>2, <2>3, TurnsAway
<1>2. CASE ~tail
  <2> DEFINE next == AfterCommandError(op)
  <2>1. next \in {"idle", "regain", "tail"} /\ next # "tail" /\ (next = "regain" => op \in BusOps)
    BY DEF AfterCommandError, BusOps
  <2>2. Leave(next, e)
    BY <1>2 DEF CommandsFail
  <2> HIDE DEF next
  <2> QED
    BY <1>2, <2>1, <2>2, TurnsAway
<1> QED
  BY <1>1, <1>2

\* The start of a command string, with ATN or on the way to it.
LEMMA CommandsStarted == SequenceInv /\ StartCommands => SequenceInv'
<1> SUFFICES ASSUME SequenceInv, StartCommands PROVE SequenceInv'
  OBVIOUS
<1>0. TypeOK /\ Placed /\ Charge /\ Truthful
  BY DEF SequenceInv
<1>1. /\ pc = "cmd" /\ UNCHANGED <<card, cic, alive, busVars, hit, present, callVars, moved>>
      /\ \/ ~IsCic /\ CommandsFail("NOTCIC") /\ atn' = atn
         \/ Leave("send", rc) /\ atn' = atn
         \/ Leave("cmdWait", rc) /\ atn' = card
  BY DEF StartCommands
<1>2. Aside /\ atn' \in BOOLEAN
  <2>1. op = "read" => dirty' = dirty
    BY <1>1 DEF CommandsFail, Leave, Returned
  <2> QED
    BY <1>1, <2>1, AtnAside
<1>3. CASE ~IsCic /\ CommandsFail("NOTCIC")
  <2>1. "lost" \in upset
    BY <1>0, <1>1, <1>3 DEF Charge, IsCic
  <2> QED
    BY <1>1, <1>2, <1>3, <2>1, CommandsFailKeeps DEF Commanding, Results
<1>4. CASE Leave("send", rc) \/ Leave("cmdWait", rc)
  <2>1. /\ pc' \in {"send", "cmdWait"} /\ rc' = rc /\ dirty' = dirty /\ todo' = todo
        /\ tail' = (tail /\ TRUE)
    BY <1>4 DEF Leave
  <2>2. tail' \in BOOLEAN /\ (tail' <=> tail)
    BY <1>0, <2>1 DEF TypeOK
  <2>3. op \notin {"ifc", "none"}
    BY <1>0, <1>1 DEF Placed, Entering
  <2>4. tail => op = "poll" /\ todo = PollTail /\ (rc = "OK" => Finished)
    BY <1>0, <1>1 DEF Placed, Truthful
  <2>5. ~tail => todo = Head488(op, dev) /\ rc = "OK"
    BY <1>0, <1>1 DEF Placed, Commanding
  <2> QED
    BY <1>2, <2>1, <2>2, <2>3, <2>4, <2>5, TurnsToCommands
<1> QED
  BY <1>1, <1>3, <1>4

\* ATN is seen, the command string may go.
LEMMA CommandsMayStart == SequenceInv /\ Saw("cmdWait", TRUE, "send") => SequenceInv'
<1> SUFFICES ASSUME SequenceInv, Saw("cmdWait", TRUE, "send") PROVE SequenceInv'
  OBVIOUS
<1>0. TypeOK /\ Placed /\ Truthful
  BY DEF SequenceInv
<1>1. pc = "cmdWait" /\ Leave("send", rc) /\ UNCHANGED <<bus, present, callVars, moved>>
  BY DEF Saw
<1>2. Aside /\ atn' \in BOOLEAN
  BY <1>1, LeaveAside
<1>3. /\ pc' = "send" /\ rc' = rc /\ dirty' = dirty /\ todo' = todo /\ tail' = (tail /\ TRUE)
  BY <1>1 DEF Leave
<1>4. tail' \in BOOLEAN /\ (tail' <=> tail)
  BY <1>0, <1>3 DEF TypeOK
<1>5. op \notin {"ifc", "none"}
  BY <1>0, <1>1 DEF Placed, Entering
<1>6. tail => op = "poll" /\ todo = PollTail /\ (rc = "OK" => Finished)
  BY <1>0, <1>1 DEF Placed, Truthful
<1>7. ~tail => todo = Head488(op, dev) /\ rc = "OK"
  BY <1>0, <1>1 DEF Placed, Commanding
<1> QED
  BY <1>2, <1>3, <1>4, <1>5, <1>6, <1>7, TurnsToCommands

\* ATN is not seen in time for the command string.
LEMMA CommandsLate == SequenceInv /\ Expires("cmdWait", TRUE, CommandsFail("TIMEOUT")) => SequenceInv'
<1> SUFFICES ASSUME SequenceInv, Expires("cmdWait", TRUE, CommandsFail("TIMEOUT"))
             PROVE  SequenceInv'
  OBVIOUS
<1>1. pc = "cmdWait" /\ CommandsFail("TIMEOUT") /\ UNCHANGED <<bus, present, callVars, moved>>
  BY DEF Expires
<1>2. PICK next, r : Leave(next, r)
  BY <1>1 DEF CommandsFail
<1>3. Aside /\ atn' \in BOOLEAN
  BY <1>1, <1>2, LeaveAside
<1> QED
  BY <1>1, <1>3, CommandsFailKeeps DEF Commanding, Results

\* A command string stops short.
LEMMA CommandsStop == SequenceInv /\ CommandsCut => SequenceInv'
<1> SUFFICES ASSUME SequenceInv, CommandsCut PROVE SequenceInv'
  OBVIOUS
<1>0. Noted /\ TypeOK
  BY DEF SequenceInv
<1>1. /\ pc = "send" /\ UNCHANGED <<bus, present, callVars, moved>>
      /\ \/ (alive = {} \/ ~card) /\ CommandsFail("NOLISTENER")
         \/ CommandsFail("TIMEOUT")
         \/ CommandsFail("EIO")
  BY DEF CommandsCut
<1>2. PICK next, r : Leave(next, r)
  BY <1>1 DEF CommandsFail
<1>3. Aside /\ atn' \in BOOLEAN
  BY <1>1, <1>2, LeaveAside
<1>4. alive = {} \/ ~card => upset # {}
  BY <1>0, <1>1 DEF Noted
<1> QED
  BY <1>1, <1>3, <1>4, CommandsFailKeeps DEF Commanding, Results

\* With the whole string sent, the device is addressed.
LEMMA AllIsSent ==
    ASSUME TypeOK, todo = <<>>
    PROVE  /\ WriteSent => Listening
           /\ ReadSent => Talking
           /\ PollSent => Talking /\ Polled
<1>0. /\ dev \in Members /\ Ctl \in Members /\ dev \in Devices
      /\ <<>> \in Seq(Command) /\ UNL \in Command /\ SPE \in Command
  <2>1. <<>> \in Seq(Command)
    OBVIOUS
  <2> QED
    BY <2>1, CommandTypes DEF TypeOK, Members
<1>1. TalkAs(Ctl) \in Seq(Command) /\ ListenTo(Ctl) \in Seq(Command) /\ LAD(Pad[Ctl]) \in Command
  BY <1>0, AddressForms
<1>2. ASSUME NEW t \in Seq(Command)
      PROVE  ListenRest(dev, t) # <<>> /\ TalkRest(dev, t) # <<>>
             /\ (Sad[dev] # -1 => Cons(SAD(Sad[dev]), t) # <<>>)
             /\ Cons(UNL, ListenRest(dev, t)) # <<>> /\ Cons(UNL, TalkRest(dev, t)) # <<>>
             /\ Cons(SPE, TalkRest(dev, t)) \in Seq(Command) /\ Cons(SPE, TalkRest(dev, t)) # <<>>
  <2>1. /\ LAD(Pad[dev]) \in Command /\ TAD(Pad[dev]) \in Command
        /\ ListenRest(dev, t) \in Seq(Command) /\ TalkRest(dev, t) \in Seq(Command)
        /\ Secondary(dev) \o t \in Seq(Command)
        /\ Sad[dev] # -1 => SAD(Sad[dev]) \in Command
    BY <1>0, AddressForms, SecondaryForms
  <2>2. ListenRest(dev, t) # <<>> /\ TalkRest(dev, t) # <<>>
    BY <2>1, ConsFacts DEF ListenRest, TalkRest
  <2>3. Sad[dev] # -1 => Cons(SAD(Sad[dev]), t) # <<>>
    BY <2>1, ConsFacts
  <2>4. /\ Cons(UNL, ListenRest(dev, t)) # <<>> /\ Cons(UNL, TalkRest(dev, t)) # <<>>
        /\ Cons(SPE, TalkRest(dev, t)) \in Seq(Command) /\ Cons(SPE, TalkRest(dev, t)) # <<>>
    BY <1>0, <2>1, ConsFacts
  <2> QED
    BY <2>2, <2>3, <2>4
<1>3. WriteSent => Listening
  BY <1>1, <1>2 DEF WriteSent, ListenPart
<1>4. ReadSent => Talking
  BY <1>1, <1>2 DEF ReadSent, TalkPart
<1>5. PollSent => Talking /\ Polled
  <2> DEFINE q == Cons(SPE, TalkRest(dev, <<>>))
  <2>1. q \in Seq(Command) /\ q # <<>>
    BY <1>0, <1>2
  <2> HIDE DEF q
  <2>2. Cons(LAD(Pad[Ctl]), q) \in Seq(Command) /\ Cons(LAD(Pad[Ctl]), q) # <<>>
    BY <1>1, <2>1, ConsFacts
  <2>3. Cons(UNL, Cons(LAD(Pad[Ctl]), q)) # <<>>
    BY <1>0, <2>2, ConsFacts
  <2> QED
    BY <1>0, <1>2, <2>1, <2>2, <2>3 DEF PollSent, TalkPart, q
<1> QED
  BY <1>3, <1>4, <1>5

\* A command string is through.
LEMMA CommandsDone == SequenceInv /\ CommandsSent => SequenceInv'
<1> SUFFICES ASSUME SequenceInv, CommandsSent PROVE SequenceInv'
  OBVIOUS
<1>0. TypeOK /\ Placed /\ Truthful /\ Polls /\ Sending /\ Struck /\ Causes
  BY DEF SequenceInv
<1>1. /\ pc = "send" /\ todo = <<>> /\ card /\ UNCHANGED <<bus, present, callVars, moved>>
      /\ Leave(IF tail THEN "idle" ELSE AfterCommands(op), rc)
  BY DEF CommandsSent
<1>2. Aside /\ atn' \in BOOLEAN
  BY <1>1, LeaveAside
<1>3. CASE tail
  <2>1. Leave("idle", rc) /\ op = "poll"
    BY <1>0, <1>1, <1>3 DEF Placed
  <2>2. todo # PollTail
    BY <1>1 DEF PollTail
  <2>3. (cic => spe = {}) /\ (rc = "OK" => Finished) /\ op \notin CmdOps \cup {"dcl", "llo"}
    BY <1>0, <1>1, <1>3, <2>1, <2>2 DEF Polls, Truthful, CmdOps
  <2>4. /\ rc \in Results /\ (rc = "NOTCIC" => "lost" \in upset)
        /\ (rc = "NOLISTENER" => upset # {}) /\ (rc = "NOCARD" => ~card)
    BY <1>0 DEF TypeOK, Results, Causes
  <2> QED
    BY <1>2, <1>3, <2>1, <2>3, <2>4, TurnsAway
<1>4. CASE ~tail /\ op \in BusOps \cup {"pass"}
  <2>1. Leave("standby", rc) /\ rc = "OK"
    BY <1>0, <1>1, <1>4 DEF AfterCommands, Placed, Commanding
  <2>2. pc' = "standby" /\ rc' = rc /\ todo' = <<>> /\ tail' = FALSE /\ dirty' = dirty
    BY <1>0, <1>4, <2>1 DEF Leave, TypeOK
  <2>3. cic => /\ op = "write" => Listening
               /\ op \in Reads => Talking
               /\ op = "poll" => Polled
    <3>1. cic => /\ op = "write" => WriteSent
                 /\ op = "read" => ReadSent
                 /\ op = "poll" => PollSent
      BY <1>0, <1>1, <1>4 DEF Sending
    <3> QED
      BY <1>0, <1>1, <3>1, AllIsSent DEF Reads
  <2>4. /\ pc' \in {"standby", "standbyWait", "data"} /\ pc' # "data"
        /\ todo' \in Seq(Command) /\ ~tail
    BY <1>4, <2>2
  <2> QED
    BY <1>2, <1>4, <2>1, <2>2, <2>3, <2>4, TurnsToData
<1>5. CASE ~tail /\ op \notin BusOps \cup {"pass"}
  <2>1. Leave("idle", rc) /\ rc = "OK"
    BY <1>0, <1>1, <1>5 DEF AfterCommands, Placed, Commanding
  <2>2. Finished /\ op # "poll"
    BY <1>5 DEF Finished, BusOps, Reads
  <2>3. op \in CmdOps \cup {"dcl", "llo"} /\ Steady => Strike \in hit
    <3>1. rc = "OK" /\ pc = "send" /\ todo = <<>>
      BY <1>1, <2>1
    <3>2. op \in CmdOps \cup {"dcl", "llo"} /\ Steady => <<dev, Effect(op)>> \in hit
      BY <1>0, <3>1 DEF Struck
    <3> QED
      BY <3>2 DEF Strike
  <2>4. "OK" \in Results
    BY DEF Results
  <2> QED
    BY <1>2, <1>5, <2>1, <2>2, <2>3, <2>4, TurnsAway
<1> QED
  BY <1>3, <1>4, <1>5

------------------------------------------------------------------------------
(* Standby *)

\* A call whose standby fails ends, or takes control back to end its poll.
LEMMA ErrorEnds ==
    ASSUME SequenceInv, Aside, atn' \in BOOLEAN, ~tail,
           NEW r \in {"NOTCIC", "TIMEOUT"}, Leave(AfterCommandError(op), r),
           r = "NOTCIC" => "lost" \in upset
    PROVE  SequenceInv'
<1> DEFINE next == AfterCommandError(op)
<1>1. next \in {"idle", "regain", "tail"} /\ next # "tail" /\ (next = "regain" => op \in BusOps)
  BY DEF AfterCommandError, BusOps
<1> HIDE DEF next
<1>2. Leave(next, r)
  BY DEF next
<1>3. r \in Results /\ r # "OK" /\ r # "NOLISTENER" /\ r # "NOCARD"
  BY DEF Results
<1> QED
  BY <1>1, <1>2, <1>3, TurnsAway

\* Standby is asked for.
LEMMA StandbyAsked ==
    SequenceInv /\ Ask("standby", "standbyWait", FALSE, Leave(AfterCommandError(op), "NOTCIC"))
        => SequenceInv'
<1> SUFFICES ASSUME SequenceInv,
                    Ask("standby", "standbyWait", FALSE, Leave(AfterCommandError(op), "NOTCIC"))
             PROVE  SequenceInv'
  OBVIOUS
<1>0. TypeOK /\ Placed /\ Charge /\ Ready
  BY DEF SequenceInv
<1>1. /\ pc = "standby" /\ UNCHANGED <<card, cic, alive, busVars, hit, present, callVars, moved>>
      /\ \/ /\ IsCic /\ pc' = "standbyWait" /\ UNCHANGED <<rc, dirty, todo, tail>>
            /\ atn' = (card /\ FALSE)
         \/ ~IsCic /\ Leave(AfterCommandError(op), "NOTCIC") /\ atn' = atn
  BY DEF Ask
<1>2. Aside /\ atn' \in BOOLEAN
  <2>1. op = "read" => dirty' = dirty
    BY <1>1 DEF Leave, Returned
  <2>2. atn' \in {atn, card, FALSE}
    BY <1>1, AtnSet
  <2> QED
    BY <1>1, <2>1, <2>2, AtnAside
<1>3. ~tail /\ rc = "OK" /\ op \in BusOps \cup {"pass"}
  BY <1>0, <1>1 DEF Placed, Commanding, MovingData
<1>4. CASE IsCic
  <2>1. pc' = "standbyWait" /\ UNCHANGED <<rc, dirty, todo, tail>>
    BY <1>1, <1>4
  <2>2. todo' \in Seq(Command) /\ tail' = FALSE
    BY <1>0, <1>3, <2>1 DEF TypeOK
  <2>3. cic => /\ op = "write" => Listening
               /\ op \in Reads => Talking
               /\ op = "poll" => Polled
    BY <1>0, <1>1 DEF Ready, MovingData
  <2> QED
    BY <1>2, <1>3, <2>1, <2>2, <2>3, TurnsToData
<1>5. CASE ~IsCic
  <2>1. "lost" \in upset /\ Leave(AfterCommandError(op), "NOTCIC")
    BY <1>0, <1>1, <1>5 DEF Charge, IsCic
  <2> QED
    BY <1>2, <1>3, <2>1, ErrorEnds
<1> QED
  BY <1>4, <1>5

\* ATN is seen released.
LEMMA StandbySeen == SequenceInv /\ Saw("standbyWait", FALSE, AfterStandby) => SequenceInv'
<1> SUFFICES ASSUME SequenceInv, Saw("standbyWait", FALSE, AfterStandby) PROVE SequenceInv'
  OBVIOUS
<1>0. TypeOK /\ Placed /\ Ready
  BY DEF SequenceInv
<1>1. pc = "standbyWait" /\ Leave(AfterStandby, rc) /\ UNCHANGED <<bus, present, callVars, moved>>
  BY DEF Saw
<1>2. Aside /\ atn' \in BOOLEAN
  BY <1>1, LeaveAside
<1>3. ~tail /\ rc = "OK" /\ op \in BusOps \cup {"pass"}
  BY <1>0, <1>1 DEF Placed, Commanding, MovingData
<1>4. CASE op = "pass"
  <2>1. Leave("idle", "OK")
    BY <1>1, <1>3, <1>4 DEF AfterStandby
  <2>2. Finished /\ op \notin CmdOps \cup {"dcl", "llo", "poll"}
    BY <1>4 DEF Finished, CmdOps, Reads
  <2> QED
    BY <1>2, <1>3, <2>1, <2>2, TurnsAway DEF Results
<1>5. CASE op # "pass"
  <2>1. pc' = "data" /\ rc' = rc /\ todo' = <<>> /\ dirty' = dirty /\ tail' = FALSE
    BY <1>0, <1>1, <1>3, <1>5 DEF AfterStandby, Leave, TypeOK
  <2>2. todo' \in Seq(Command)
    BY <2>1
  <2>3. cic => /\ op = "write" => Listening
               /\ op \in Reads => Talking
               /\ op = "poll" => Polled
    BY <1>0, <1>1 DEF Ready, MovingData
  <2> QED
    BY <1>2, <1>3, <1>5, <2>1, <2>2, <2>3, TurnsToData
<1> QED
  BY <1>4, <1>5

\* ATN is not released in time.
LEMMA StandbyLate ==
    SequenceInv /\ Expires("standbyWait", FALSE, Leave(AfterCommandError(op), "TIMEOUT"))
        => SequenceInv'
<1> SUFFICES ASSUME SequenceInv,
                    Expires("standbyWait", FALSE, Leave(AfterCommandError(op), "TIMEOUT"))
             PROVE  SequenceInv'
  OBVIOUS
<1>1. /\ pc = "standbyWait" /\ Leave(AfterCommandError(op), "TIMEOUT")
      /\ UNCHANGED <<bus, present, callVars, moved>>
  BY DEF Expires
<1>2. Aside /\ atn' \in BOOLEAN
  BY <1>1, LeaveAside
<1>3. ~tail
  BY <1>1 DEF SequenceInv, Placed, Commanding
<1> QED
  BY <1>1, <1>2, <1>3, ErrorEnds

\* Another controller takes over after TCT.
LEMMA HandedOver == SequenceInv /\ HandOver => SequenceInv'
<1> SUFFICES ASSUME SequenceInv, HandOver PROVE SequenceInv'
  OBVIOUS
<1>0. /\ TypeOK /\ Placed /\ Charge /\ Noted /\ Counted /\ Reached /\ Struck
  BY DEF SequenceInv
<1>1. /\ pc = "standbyWait" /\ op = "pass" /\ card /\ cic' = FALSE /\ Leave("idle", rc)
      /\ UNCHANGED <<card, atn, alive, listen, talk, lpas, tpas, spe, hit, present, op, dev, want,
                     left, rx, heard, upset>>
  BY DEF HandOver, busVars, callVars, moved
<1>2. pc' = "idle" /\ rc' = "OK" /\ todo' = <<>> /\ tail' = FALSE /\ dirty' = dirty
  BY <1>0, <1>1 DEF Leave, Returned, Placed, MovingData, TypeOK
<1>3. TypeOK'
  <2>1. BusTypeOK'
    BY <1>0, <1>1 DEF TypeOK, BusTypeOK
  <2>2. todo' \in Seq(Command)
    BY <1>2
  <2> QED
    BY <1>0, <1>1, <1>2, <2>1, <2>2 DEF TypeOK
<1>4. Placed'
  BY <1>1, <1>2 DEF Placed, Entering, Commanding, MovingData
<1>5. Charge' /\ Noted' /\ Counted'
  BY <1>0, <1>1, <1>2 DEF Charge, CardGone, Noted, Counted
<1>6. Truthful' /\ Polls' /\ Sending' /\ Ready' /\ Causes'
  BY <1>1, <1>2 DEF Truthful, Finished, Reads, Polls, Sending, Ready, Causes, MovingData
<1>7. Reached'
  BY <1>1 DEF Reached, Reads
<1>8. Struck'
  BY <1>0, <1>1 DEF Struck, Effect, Distinct, CmdOps
<1> QED
  BY <1>3, <1>4, <1>5, <1>6, <1>7, <1>8 DEF SequenceInv

------------------------------------------------------------------------------
(* Taking control back *)

\* Control that is not taken back is an error, unless there was one before.
LEMMA RegainFails ==
    ASSUME SequenceInv, Aside, atn' \in BOOLEAN, pc \in {"regain", "regainWait"},
           Leave(AfterRegain, RegainError)
    PROVE  SequenceInv'
<1>0. TypeOK /\ Placed /\ Causes
  BY DEF SequenceInv
<1> DEFINE next == AfterRegain  r == RegainError
<1>1. next \in {"idle", "tail"} /\ (next = "tail" => op = "poll")
  BY DEF AfterRegain
<1>2. r \in Results \ {"OK"} /\ (r = "EIO" \/ r = rc)
  BY <1>0 DEF RegainError, FirstError, TypeOK, Results
<1>3. ~tail
  BY <1>0 DEF Placed, Commanding
<1>4. (r = "NOTCIC" => "lost" \in upset) /\ (r = "NOLISTENER" => upset # {}) /\ (r = "NOCARD" => ~card)
  BY <1>0, <1>2 DEF Causes
<1>5. Leave(next, r)
  OBVIOUS
<1> HIDE DEF next, r
<1> QED
  BY <1>1, <1>2, <1>3, <1>4, <1>5, TurnsAway

\* Taking control back is asked for.
LEMMA RegainAsked ==
    SequenceInv /\ Ask("regain", "regainWait", TRUE, Leave(AfterRegain, RegainError)) => SequenceInv'
<1> SUFFICES ASSUME SequenceInv,
                    Ask("regain", "regainWait", TRUE, Leave(AfterRegain, RegainError))
             PROVE  SequenceInv'
  OBVIOUS
<1>0. TypeOK /\ Placed /\ Charge /\ Truthful /\ Polls /\ Struck /\ Causes
  BY DEF SequenceInv
<1>1. /\ pc = "regain" /\ UNCHANGED <<card, cic, alive, busVars, hit, present, callVars, moved>>
      /\ \/ /\ IsCic /\ pc' = "regainWait" /\ UNCHANGED <<rc, dirty, todo, tail>>
            /\ atn' = (card /\ TRUE)
         \/ ~IsCic /\ Leave(AfterRegain, RegainError) /\ atn' = atn
  BY DEF Ask
<1>2. Aside /\ atn' \in BOOLEAN
  <2>1. op = "read" => dirty' = dirty
    BY <1>1 DEF Leave, Returned
  <2>2. atn' \in {atn, card, FALSE}
    BY <1>1, AtnSet
  <2> QED
    BY <1>1, <2>1, <2>2, AtnAside
<1>3. ~tail /\ op \in BusOps
  BY <1>0, <1>1 DEF Placed, Commanding
<1>4. CASE IsCic
  <2>1. pc' = "regainWait" /\ UNCHANGED <<rc, dirty, todo, tail>>
    BY <1>1, <1>4
  <2>2. /\ Charge' /\ Noted' /\ Counted' /\ Reached'
        /\ Finished' <=> Finished
        /\ Distinct' <=> Distinct
        /\ Steady' <=> Steady
        /\ Effect(op)' = Effect(op)
        /\ op' = op /\ dev' = dev /\ card' = card /\ cic' = cic /\ spe' = spe /\ hit' = hit
        /\ upset' = upset
    BY <1>2, <2>1, AsideKeeps
  <2>3. TypeOK'
    <3>1. dirty' \in BOOLEAN /\ tail' \in BOOLEAN /\ todo' \in Seq(Command) /\ rc' \in Results
      BY <1>0, <2>1 DEF TypeOK, Results
    <3> QED
      BY <1>0, <1>2, <2>1, <3>1, AsideTyped
  <2>4. Placed'
    BY <1>3, <2>1, <2>2 DEF Placed, Entering, Commanding, MovingData, BusOps
  <2>5. Truthful' /\ Sending' /\ Ready'
    BY <1>0, <1>1, <1>3, <2>1, <2>2 DEF Truthful, Sending, Ready, MovingData
  <2>6. Polls'
    BY <1>0, <1>1, <2>1, <2>2 DEF Polls
  <2>7. Struck' /\ Causes'
    BY <1>0, <2>1, <2>2 DEF Struck, Causes
  <2> QED
    BY <2>2, <2>3, <2>4, <2>5, <2>6, <2>7 DEF SequenceInv
<1>5. CASE ~IsCic
  BY <1>1, <1>2, <1>5, RegainFails
<1> QED
  BY <1>4, <1>5

\* Control is taken back.
LEMMA RegainSeen == SequenceInv /\ Saw("regainWait", TRUE, AfterRegain) => SequenceInv'
<1> SUFFICES ASSUME SequenceInv, Saw("regainWait", TRUE, AfterRegain) PROVE SequenceInv'
  OBVIOUS
<1>0. TypeOK /\ Placed /\ Charge /\ Truthful /\ Causes
  BY DEF SequenceInv
<1>1. /\ pc = "regainWait" /\ atn = TRUE /\ Leave(AfterRegain, rc)
      /\ UNCHANGED <<bus, present, callVars, moved>>
  BY DEF Saw
<1>2. Aside /\ atn' \in BOOLEAN
  BY <1>1, LeaveAside
<1>3. ~tail /\ op \in BusOps /\ card
  BY <1>0, <1>1 DEF Placed, Commanding, Charge, CardGone
<1>4. rc = "OK" => Finished
  BY <1>0, <1>1, <1>3 DEF Truthful
<1>5. AfterRegain \in {"idle", "tail"} /\ (AfterRegain = "tail" <=> op = "poll")
  BY DEF AfterRegain
<1>6. op \notin CmdOps \cup {"dcl", "llo"}
  BY <1>3 DEF BusOps, CmdOps
<1>7. /\ rc \in Results /\ (rc = "NOTCIC" => "lost" \in upset)
      /\ (rc = "NOLISTENER" => upset # {}) /\ (rc = "NOCARD" => ~card)
  BY <1>0 DEF TypeOK, Results, Causes
<1> QED
  BY <1>1, <1>2, <1>3, <1>4, <1>5, <1>6, <1>7, TurnsAway

\* Control is not taken back in time.
LEMMA RegainLate ==
    SequenceInv /\ Expires("regainWait", TRUE, Leave(AfterRegain, RegainError)) => SequenceInv'
<1> SUFFICES ASSUME SequenceInv, Expires("regainWait", TRUE, Leave(AfterRegain, RegainError))
             PROVE  SequenceInv'
  OBVIOUS
<1>1. /\ pc = "regainWait" /\ Leave(AfterRegain, RegainError)
      /\ UNCHANGED <<bus, present, callVars, moved>>
  BY DEF Expires
<1>2. Aside /\ atn' \in BOOLEAN
  BY <1>1, LeaveAside
<1> QED
  BY <1>1, <1>2, RegainFails

\* The commands that end a serial poll begin.
LEMMA TailStarted == SequenceInv /\ StartTail => SequenceInv'
<1> SUFFICES ASSUME SequenceInv, StartTail PROVE SequenceInv'
  OBVIOUS
<1>0. TypeOK /\ Placed /\ Charge /\ Truthful
  BY DEF SequenceInv
<1>1. /\ pc = "tail" /\ todo' = PollTail /\ tail' = TRUE /\ pc' = "cmd"
      /\ UNCHANGED <<bus, present, callVars, moved, rc, dirty>>
  BY DEF StartTail, moved
<1>2. Aside /\ atn' \in BOOLEAN
  <2>1. atn' \in {atn, card, FALSE} /\ (op = "read" => dirty' = dirty)
    BY <1>1 DEF bus
  <2> QED
    BY <1>1, <2>1, AtnAside DEF bus
<1>3. op = "poll" /\ (rc = "OK" => Finished)
  BY <1>0, <1>1 DEF Placed, Truthful
<1> QED
  BY <1>1, <1>2, <1>3, TurnsToCommands

------------------------------------------------------------------------------
(* Data *)

\* With the bus ours, the device listens to a write and talks in a read.
LEMMA OursInData ==
    ASSUME SequenceInv, pc = "data", card, "lost" \notin upset
    PROVE  /\ cic
           /\ op = "write" => Listening
           /\ op \in Reads => Talking
           /\ op = "poll" => Polled
           /\ Steady => dev \in alive
BY DEF SequenceInv, Charge, Ready, MovingData, Noted, Steady

\* The data phase ends, done or not.
LEMMA DataDone == SequenceInv /\ DataEnds => SequenceInv'
<1> SUFFICES ASSUME SequenceInv, DataEnds PROVE SequenceInv'
  OBVIOUS
<1>0. TypeOK /\ Placed /\ Counted
  BY DEF SequenceInv
<1>1. PICK r \in IF op = "write" THEN WriteResults ELSE ReadResults : Leave(AfterData, r)
  BY DEF DataEnds
<1>2. pc = "data" /\ UNCHANGED <<bus, present, callVars, moved>>
  BY DEF DataEnds
<1>3. Aside /\ atn' \in BOOLEAN
  BY <1>1, <1>2, LeaveAside
<1>4. ~tail /\ op \in BusOps
  BY <1>0, <1>2 DEF Placed, Commanding
<1>5. r \in {"OK", "NOLISTENER", "TIMEOUT"}
  BY <1>1 DEF WriteResults, ReadResults
<1>6. r = "OK" => Finished \/ ~card
  <2>1. CASE op = "write"
    <3>1. r = "OK" => ~card \/ ~MoreToMove
      BY <1>1, <2>1 DEF WriteResults
    <3>2. ~MoreToMove => left = 0
      BY <1>0 DEF MoreToMove, TypeOK, BusAssumption
    <3> QED
      BY <2>1, <3>1, <3>2 DEF Finished, Reads
  <2>2. CASE op # "write"
    <3>1. r = "OK" => ~card \/ ~MoreToMove \/ heard # <<>>
      BY <1>1, <2>2 DEF ReadResults
    <3>2. op \in Reads => want > 0 /\ left = want - Len(heard)
      BY <1>0 DEF Counted
    <3>3. op \in Reads /\ ~MoreToMove => heard # <<>>
      BY <1>0, <3>2 DEF MoreToMove, TypeOK
    <3>4. op \in Reads
      BY <1>4, <2>2 DEF BusOps, Reads
    <3> QED
      BY <2>2, <3>1, <3>3, <3>4 DEF Finished
  <2> QED
    BY <2>1, <2>2
<1>7. r = "NOLISTENER" => upset # {}
  <2> SUFFICES ASSUME r = "NOLISTENER", upset = {} PROVE FALSE
    OBVIOUS
  <2>1. card
    BY <1>2 DEF SequenceInv, Noted
  <2>2. op = "write" /\ Listeners = {}
    BY <1>1, <2>1 DEF WriteResults, ReadResults
  <2>3. dev \in listen /\ dev \in alive
    BY <1>2, <2>1, <2>2, OursInData DEF Listening, Steady
  <2> QED
    BY <2>2, <2>3 DEF Listeners
<1>8. Leave("regain", r) /\ r \in Results
  BY <1>1, <1>5 DEF AfterData, Results
<1> QED
  BY <1>3, <1>4, <1>5, <1>6, <1>7, <1>8, TurnsAway

\* A byte written goes to the device alone.
LEMMA ByteWritten == SequenceInv /\ WriteByte => SequenceInv'
<1> SUFFICES ASSUME SequenceInv, WriteByte PROVE SequenceInv'
  OBVIOUS
<1>0. /\ TypeOK /\ Placed /\ Charge /\ Noted /\ Counted /\ Truthful /\ Polls
      /\ Sending /\ Ready /\ Reached /\ Struck /\ Causes
  BY DEF SequenceInv
<1>1. /\ pc = "data" /\ op = "write" /\ left > 0 /\ card /\ Listeners # {}
      /\ rx' = [d \in Devices |-> IF d \in Listeners THEN rx[d] + 1 ELSE rx[d]]
      /\ left' = left - 1
      /\ UNCHANGED <<card, cic, atn, alive, listen, talk, lpas, tpas, spe, hit, present, pc, op, dev,
                     want, todo, tail, rc, heard, upset, dirty>>
  BY DEF WriteByte, MoreToMove, bus, busVars, callVars
<1>2. left \in Nat /\ want \in Nat /\ want <= MaxData /\ MaxData \in Nat /\ left <= want
      /\ rx \in [Devices -> Nat] /\ \A d \in Devices : rx[d] <= want - left
  BY <1>0, BusAssumption DEF TypeOK, Counted
<1>3. \A d \in Devices : rx'[d] \in Nat /\ rx'[d] <= want - left'
  BY <1>1, <1>2
<1>4. TypeOK'
  <2>1. left' \in 0 .. MaxData
    BY <1>1, <1>2
  <2>2. rx' \in [Devices -> 0 .. MaxData]
    BY <1>1, <1>2, <1>3, <2>1
  <2>3. BusTypeOK'
    BY <1>0, <1>1 DEF TypeOK, BusTypeOK
  <2> QED
    BY <1>0, <1>1, <2>1, <2>2, <2>3 DEF TypeOK
<1>5. Placed' /\ Charge' /\ Noted' /\ Causes'
  BY <1>0, <1>1 DEF Placed, Charge, CardGone, Noted, Causes, Entering, Commanding, MovingData
<1>6. Counted'
  BY <1>1, <1>2, <1>3 DEF Counted, Reads
<1>7. Truthful' /\ Sending'
  BY <1>0, <1>1 DEF Truthful, Sending, Placed, Commanding
<1>8. Polls'
  BY <1>0, <1>1 DEF Polls
<1>9. Ready'
  BY <1>0, <1>1 DEF Ready, MovingData, Listening, Distinct, Steady, Reads
<1>10. Struck'
  BY <1>0, <1>1 DEF Struck, Effect, Distinct, Steady
<1>11. Reached'
  <2>1. ASSUME "lost" \notin upset, Distinct, NEW d \in Devices
        PROVE  rx'[d] = IF d = dev THEN want - left' ELSE 0
    <3>1. listen \subseteq {dev}
      BY <1>1, <2>1, OursInData DEF Listening
    <3>2. Listeners = {dev} /\ dev \in Devices
      BY <1>0, <1>1, <3>1 DEF Listeners, TypeOK
    <3>3. rx[d] = IF d = dev THEN want - left ELSE 0
      BY <1>0, <1>1, <2>1 DEF Reached
    <3> QED
      BY <1>1, <1>2, <3>2, <3>3
  <2> QED
    BY <1>1, <2>1 DEF Reached, Distinct, Reads
<1> QED
  BY <1>4, <1>5, <1>6, <1>7, <1>8, <1>9, <1>10, <1>11 DEF SequenceInv

\* A byte read comes from the device alone.
LEMMA ByteRead == SequenceInv /\ ReadByte => SequenceInv'
<1> SUFFICES ASSUME SequenceInv, ReadByte PROVE SequenceInv'
  OBVIOUS
<1>0. /\ TypeOK /\ Placed /\ Charge /\ Noted /\ Counted /\ Truthful /\ Polls
      /\ Sending /\ Ready /\ Reached /\ Struck /\ Causes
  BY DEF SequenceInv
<1>1. /\ pc = "data" /\ op \in Reads /\ left > 0 /\ card /\ left' = left - 1
      /\ UNCHANGED <<card, cic, atn, alive, listen, talk, lpas, tpas, spe, hit, present, pc, op, dev,
                     want, todo, tail, rc, rx, upset, dirty>>
  BY DEF ReadByte, MoreToMove, bus, busVars, callVars, Reads
<1>2. PICK d \in Talkers : heard' = Append(heard, <<d, d \in spe>>)
  BY DEF ReadByte
<1> DEFINE h == <<d, d \in spe>>
<1>3. h \in Devices \X BOOLEAN /\ h[1] = d /\ (h[2] <=> d \in spe)
  <2>1. d \in Devices /\ (d \in spe) \in BOOLEAN
    BY <1>0 DEF TypeOK, BusTypeOK, Talkers
  <2> QED
    BY <2>1
<1> HIDE DEF h
<1>4. /\ heard' = Append(heard, h) /\ heard \in Seq(Devices \X BOOLEAN)
      /\ heard' \in Seq(Devices \X BOOLEAN) /\ Len(heard') = Len(heard) + 1 /\ Len(heard) \in Nat
      /\ \A i \in 1 .. Len(heard) : heard'[i] = heard[i]
      /\ heard'[Len(heard) + 1] = h
  <2>1. heard' = Append(heard, h) /\ heard \in Seq(Devices \X BOOLEAN)
    BY <1>0, <1>2 DEF TypeOK, h
  <2> QED
    BY <2>1, <1>3, AppendProperties, LenProperties
<1>5. left \in Nat /\ want \in Nat /\ want <= MaxData /\ MaxData \in Nat /\ left <= want
      /\ left = want - Len(heard) /\ want > 0
      /\ rx \in [Devices -> Nat] /\ \A x \in Devices : rx[x] <= want - left
  BY <1>0, <1>1, BusAssumption DEF TypeOK, Counted
<1>6. TypeOK'
  <2>1. left' \in 0 .. MaxData
    BY <1>1, <1>5
  <2>2. BusTypeOK'
    BY <1>0, <1>1 DEF TypeOK, BusTypeOK
  <2> QED
    BY <1>0, <1>1, <1>4, <2>1, <2>2 DEF TypeOK
<1>7. Placed' /\ Charge' /\ Noted' /\ Causes'
  BY <1>0, <1>1 DEF Placed, Charge, CardGone, Noted, Causes, Entering, Commanding, MovingData
<1>8. Counted'
  <2>1. left' <= want' /\ left' = want' - Len(heard') /\ want' > 0
    BY <1>1, <1>4, <1>5
  <2>2. ASSUME NEW x \in Devices PROVE rx'[x] <= want' - left'
    <3>1. rx'[x] = rx[x] /\ rx[x] \in Nat /\ rx[x] <= want - left
      BY <1>1, <1>5
    <3> QED
      BY <1>1, <1>5, <3>1
  <2> QED
    BY <1>1, <2>1, <2>2 DEF Counted
<1>9. Truthful' /\ Sending'
  BY <1>0, <1>1 DEF Truthful, Sending, Placed, Commanding
<1>10. Polls'
  BY <1>0, <1>1 DEF Polls
<1>11. Ready'
  BY <1>0, <1>1 DEF Ready, MovingData, Listening, Talking, Polled, Distinct, Steady
<1>12. Struck'
  BY <1>0, <1>1 DEF Struck, Effect, Distinct, Steady
<1>13. Reached'
  <2>1. ASSUME "lost" \notin upset PROVE RightByte(h)
    <3>1. cic /\ Talking /\ (op = "poll" => Polled)
      BY <1>1, <2>1, OursInData
    <3>2. Distinct => d = dev
      BY <3>1 DEF Talking, Talkers
    <3>3. op = "read" /\ d \in spe => dirty
      BY <1>0, <3>1 DEF Polls
    <3>4. op = "poll" /\ Steady /\ Distinct => d \in spe
      BY <3>1, <3>2 DEF Polled
    <3> QED
      BY <1>3, <3>2, <3>3, <3>4 DEF RightByte
  <2>2. ASSUME "lost" \notin upset, NEW i \in 1 .. Len(heard')
        PROVE  RightByte(heard'[i])
    <3>1. CASE i = Len(heard) + 1
      BY <1>4, <2>1, <2>2, <3>1
    <3>2. CASE i # Len(heard) + 1
      <4>1. i \in 1 .. Len(heard)
        BY <1>4, <2>2, <3>2
      <4>2. RightByte(heard[i])
        BY <1>0, <1>1, <2>2, <4>1 DEF Reached
      <4> QED
        BY <1>4, <4>1, <4>2
    <3> QED
      BY <3>1, <3>2
  <2>3. ASSUME NEW x, RightByte(x) PROVE RightByte(x)'
    BY <1>1, <2>3 DEF RightByte, Distinct, Steady
  <2> QED
    BY <1>1, <2>2, <2>3 DEF Reached, Reads, RightByte, Distinct, Steady
<1> QED
  BY <1>6, <1>7, <1>8, <1>9, <1>10, <1>11, <1>12, <1>13 DEF SequenceInv

------------------------------------------------------------------------------
(* Entering a call *)

\* Every operation's commands are a command string.
LEMMA HeadTyped ==
    ASSUME NEW o \in AllOps, NEW d \in Devices
    PROVE  Head488(o, d) \in Seq(Command)
<1>0. /\ d \in Members /\ Ctl \in Members /\ <<>> \in Seq(Command)
      /\ UNL \in Command /\ SPE \in Command /\ TCT \in Command
  <2>1. <<>> \in Seq(Command)
    OBVIOUS
  <2> QED
    BY <2>1, CommandTypes DEF Members
<1>1. /\ TalkAs(Ctl) \in Seq(Command) /\ ListenTo(Ctl) \in Seq(Command)
      /\ LAD(Pad[Ctl]) \in Command /\ TAD(Pad[d]) \in Command
  BY <1>0, AddressForms
<1>2. ASSUME NEW t \in Seq(Command)
      PROVE ListenRest(d, t) \in Seq(Command) /\ TalkRest(d, t) \in Seq(Command)
  BY <1>0, AddressForms
<1>3. CASE o = "write"
  <2>1. ListenRest(d, TalkAs(Ctl)) \in Seq(Command)
    BY <1>1, <1>2
  <2>2. Cons(UNL, ListenRest(d, TalkAs(Ctl))) \in Seq(Command)
    BY <1>0, <2>1, ConsFacts
  <2> QED
    BY <1>3, <2>2, HeadForms
<1>9. CASE o = "read"
  <2>1. TalkRest(d, ListenTo(Ctl)) \in Seq(Command)
    BY <1>1, <1>2
  <2>2. Cons(UNL, TalkRest(d, ListenTo(Ctl))) \in Seq(Command)
    BY <1>0, <2>1, ConsFacts
  <2> QED
    BY <1>9, <2>2, HeadForms
<1>4. CASE o = "poll"
  <2>1. Cons(SPE, TalkRest(d, <<>>)) \in Seq(Command)
    BY <1>0, <1>2, ConsFacts
  <2>2. Cons(LAD(Pad[Ctl]), Cons(SPE, TalkRest(d, <<>>))) \in Seq(Command)
    BY <1>1, <2>1, ConsFacts
  <2> QED
    BY <1>0, <1>4, <2>2, HeadForms, ConsFacts
<1>5. CASE o \in CmdOps
  <2> DEFINE x == <<Effect(o), 0>>
  <2>1. Effect(o) \in Addressed
    BY <1>5 DEF CmdOps, Effect, Addressed
  <2>2. x \in Command
    BY <2>1, CommandTypes
  <2>3. <<x>> \in Seq(Command)
    BY <2>2, Literals
  <2>4. Cons(UNL, ListenRest(d, <<x>>)) \in Seq(Command)
    BY <1>0, <1>2, <2>3, ConsFacts
  <2> QED
    BY <1>5, <2>4, HeadForms
<1>6. CASE o = "pass"
  <2>1. Cons(TCT, <<>>) \in Seq(Command)
    BY <1>0, ConsFacts
  <2> QED
    BY <1>1, <1>6, <2>1, HeadForms, ConsFacts
<1>7. CASE o \in {"dcl", "llo"}
  <2>1. Effect(o) \in Universal
    BY <1>7 DEF Effect, Universal
  <2>2. <<Effect(o), 0>> \in Command
    BY <2>1, CommandTypes
  <2> QED
    BY <1>0, <1>7, <2>2, HeadForms, ConsFacts
<1>8. CASE o = "ifc"
  BY <1>0, <1>8, HeadForms
<1> QED
  BY <1>3, <1>4, <1>5, <1>6, <1>7, <1>8, <1>9 DEF AllOps, BusOps

\* A call entered preserves the invariant.
LEMMA CallBegins == SequenceInv /\ Call => SequenceInv'
<1> SUFFICES ASSUME SequenceInv, Call PROVE SequenceInv'
  OBVIOUS
<1>0. TypeOK /\ Charge /\ Polls
  BY DEF SequenceInv
<1>1. PICK o \in Ops, d \in Devices, n \in 0 .. MaxData :
         (IF o = "poll" THEN n = 1 ELSE IF o = "read" THEN n > 0 ELSE o = "write" \/ n = 0)
            /\ Begin(o, d, n)
  BY DEF Call
<1>2. o \in AllOps /\ (o \in Reads => n > 0) /\ MaxData \in Nat
  BY <1>1, OpsAssumption, BusAssumption DEF Reads
<1>3. /\ pc = "idle" /\ op' = o /\ dev' = d /\ want' = n /\ left' = n
      /\ todo' = Head488(o, d) /\ tail' = FALSE
      /\ rx' = [x \in Devices |-> 0] /\ heard' = <<>> /\ hit' = {}
      /\ upset' = (IF d \in alive THEN {} ELSE {"power"}) \cup (IF card THEN {} ELSE {"pulled"})
      /\ \/ pc' = "gate" /\ rc' = "OK"
         \/ pc' = "idle" /\ rc' = "NOCARD" /\ ~present
      /\ UNCHANGED <<card, cic, atn, alive, listen, talk, lpas, tpas, spe, present, dirty>>
  BY <1>1 DEF Begin, busVars
<1>4. TypeOK'
  <2>1. BusTypeOK'
    BY <1>0, <1>3 DEF TypeOK, BusTypeOK
  <2>2. todo' \in Seq(Command)
    BY <1>2, <1>3, HeadTyped
  <2>3. rx' \in [Devices -> 0 .. MaxData]
    BY <1>2, <1>3
  <2>4. heard' \in Seq(Devices \X BOOLEAN)
    BY <1>3
  <2> QED
    BY <1>0, <1>2, <1>3, <2>1, <2>2, <2>3, <2>4 DEF TypeOK
<1>5. Placed'
  <2>1. o # "none"
    BY <1>2 DEF AllOps, BusOps, CmdOps
  <2>2. Head488(op, dev)' = Head488(o, d)
    BY <1>3
  <2> QED
    BY <1>3, <2>1, <2>2 DEF Placed, Entering, Commanding, MovingData
<1>6. Charge' /\ Noted'
  BY <1>0, <1>3 DEF Charge, CardGone, Noted
<1>7. Counted'
  <2>1. Len(heard') = 0
    BY <1>3
  <2> QED
    BY <1>2, <1>3, <2>1 DEF Counted
<1>8. Truthful' /\ Sending' /\ Ready'
  BY <1>3 DEF Truthful, Sending, Ready, MovingData
<1>9. Polls'
  BY <1>0, <1>3 DEF Polls
<1>10. Reached'
  <2>1. 1 .. Len(heard') = {}
    BY <1>3
  <2> QED
    BY <1>3, <2>1 DEF Reached
<1>11. Struck' /\ Causes'
  BY <1>0, <1>3 DEF Struck, Causes, Charge
<1> QED
  BY <1>4, <1>5, <1>6, <1>7, <1>8, <1>9, <1>10, <1>11 DEF SequenceInv

\* Entering with or without an interface clear preserves it.
LEMMA GatePassed == SequenceInv /\ Gate => SequenceInv'
<1> SUFFICES ASSUME SequenceInv, Gate PROVE SequenceInv'
  OBVIOUS
<1>0. /\ TypeOK /\ Placed /\ Charge /\ Noted /\ Counted /\ Polls /\ Reached /\ Struck /\ Causes
  BY DEF SequenceInv
<1>1. /\ pc = "gate"
      /\ UNCHANGED <<card, alive, hit, present, op, dev, want, todo, tail, left, rx, heard, upset, rc>>
  BY DEF Gate, callVars, progress, moved
<1>2. ~tail /\ rc = "OK" /\ todo = Head488(op, dev) /\ op # "none" /\ heard = <<>>
  BY <1>0, <1>1 DEF Placed, Entering, Commanding
<1>3. \/ /\ card /\ pc' = "ifc" /\ cic' = TRUE /\ atn' = TRUE /\ dirty' = FALSE
         /\ listen' = {} /\ talk' = {} /\ lpas' = {} /\ tpas' = {} /\ spe' = {}
      \/ /\ ~card /\ pc' = "ifc"
         /\ UNCHANGED <<listen, talk, lpas, tpas, spe, cic, atn, dirty>>
      \/ /\ op # "ifc" /\ IsCic /\ pc' = "cmd"
         /\ UNCHANGED <<listen, talk, lpas, tpas, spe, cic, atn, dirty>>
  BY DEF Gate, NeedsIfc, SendIfc, ClearBus, busVars
<1>4. TypeOK'
  <2>1. BusTypeOK'
    BY <1>0, <1>1, <1>3 DEF TypeOK, BusTypeOK
  <2> QED
    BY <1>0, <1>1, <1>3, <2>1 DEF TypeOK
<1>5. Placed'
  <2>1. Head488(op, dev)' = Head488(op, dev)
    BY <1>1
  <2> QED
    BY <1>1, <1>2, <1>3, <2>1 DEF Placed, Entering, Commanding, MovingData
<1>6. Charge'
  BY <1>0, <1>1, <1>3 DEF Charge, CardGone, IsCic
<1>7. Noted' /\ Counted' /\ Causes'
  BY <1>0, <1>1 DEF Noted, Counted, Causes
<1>8. Truthful' /\ Sending' /\ Ready'
  BY <1>1, <1>2, <1>3 DEF Truthful, Sending, Ready, MovingData
<1>9. Polls'
  BY <1>0, <1>1, <1>3 DEF Polls, Charge, CardGone
<1>10. Reached'
  <2>1. 1 .. Len(heard') = {}
    BY <1>1, <1>2
  <2> QED
    BY <1>0, <1>1, <2>1 DEF Reached, Distinct
<1>11. Struck'
  BY <1>0, <1>1, <1>3 DEF Struck, Distinct, Effect, Steady
<1> QED
  BY <1>4, <1>5, <1>6, <1>7, <1>8, <1>9, <1>10, <1>11 DEF SequenceInv

------------------------------------------------------------------------------
(* What happens from outside *)

\* What no event touches: the call's own state and what it did so far.
LEMMA CallKept ==
    ASSUME SequenceInv, UNCHANGED <<rest, dirty>>, upset \subseteq upset', card' => card,
           upset # {} => upset' # {}
    PROVE  /\ Placed' /\ Counted' /\ Truthful' /\ Reached' /\ Struck' /\ Causes'
           /\ Steady' => Steady
           /\ UNCHANGED <<hit, pc, op, dev, want, todo, tail, left, rc, rx, heard, dirty>>
<1>0. Placed /\ Counted /\ Truthful /\ Reached /\ Struck /\ Causes
  BY DEF SequenceInv
<1>1. UNCHANGED <<hit, pc, op, dev, want, todo, tail, left, rc, rx, heard, dirty>>
  BY DEF rest, callVars
<1>2. Steady' => Steady
  BY DEF Steady
<1>3. (Distinct' <=> Distinct) /\ Effect(op)' = Effect(op) /\ Head488(op, dev)' = Head488(op, dev)
  BY <1>1 DEF Distinct, Effect
<1>4. Placed'
  BY <1>0, <1>1, <1>3 DEF Placed, Entering, Commanding, MovingData
<1>5. Counted'
  BY <1>0, <1>1 DEF Counted
<1>6. Truthful'
  BY <1>0, <1>1 DEF Truthful, Finished
<1>7. Reached'
  <2>1. ASSUME NEW h, RightByte(h) PROVE RightByte(h)'
    BY <1>1, <1>2, <1>3, <2>1 DEF RightByte
  <2>2. "lost" \notin upset' => "lost" \notin upset
    OBVIOUS
  <2>3. ASSUME "lost" \notin upset', op \in Reads, NEW i \in 1 .. Len(heard) PROVE RightByte(heard[i])'
    <3>1. RightByte(heard[i])
      BY <1>0, <2>2, <2>3 DEF Reached
    <3> QED
      BY <1>1, <1>2, <1>3, <3>1 DEF RightByte
  <2> QED
    BY <1>0, <1>1, <1>3, <2>2, <2>3 DEF Reached
<1>8. Struck'
  BY <1>0, <1>1, <1>2, <1>3 DEF Struck
<1>9. Causes'
  BY <1>0, <1>1 DEF Causes
<1> QED
  BY <1>1, <1>2, <1>4, <1>5, <1>6, <1>7, <1>8, <1>9

\* Members that go, or come, without touching what the device was told.
LEMMA MembersKept ==
    ASSUME SequenceInv, UNCHANGED <<rest, dirty, present, card, cic, atn>>, upset \subseteq upset',
           listen' \subseteq listen, lpas' \subseteq lpas, talk' \subseteq talk, tpas' \subseteq tpas,
           talk' \cap tpas \subseteq tpas', spe' \subseteq spe, alive' \subseteq Devices,
           upset' \subseteq {"power", "lost", "pulled"},
           pc # "idle" => /\ dev \in alive => dev \in alive' \/ "power" \in upset'
                          /\ "power" \notin upset' => /\ dev \in listen => dev \in listen'
                                                      /\ dev \in lpas => dev \in lpas'
                                                      /\ dev \in spe => dev \in spe'
    PROVE  SequenceInv'
<1>0. TypeOK /\ Placed /\ Charge /\ Noted /\ Polls /\ Sending /\ Ready
  BY DEF SequenceInv
<1>1. /\ Placed' /\ Counted' /\ Truthful' /\ Reached' /\ Struck' /\ Causes'
      /\ Steady' => Steady
      /\ UNCHANGED <<hit, pc, op, dev, want, todo, tail, left, rc, rx, heard, dirty>>
  BY CallKept
<1>2. TypeOK'
  <2>1. BusTypeOK'
    BY <1>0, <1>1 DEF TypeOK, BusTypeOK
  <2> QED
    BY <1>0, <1>1, <2>1 DEF TypeOK
<1>3. Charge' /\ Noted'
  BY <1>0, <1>1 DEF Charge, CardGone, Noted
<1>4. Polls'
  <2>1. spe = {} => spe' = {}
    OBVIOUS
  <2> QED
    BY <1>0, <1>1, <2>1 DEF Polls
<1>5. CASE pc # "idle"
  <2>1. /\ WriteSent => WriteSent'
        /\ ReadSent => ReadSent'
        /\ PollSent => PollSent'
        /\ CmdSent => CmdSent'
        /\ PassSent => PassSent'
        /\ AllSent => AllSent'
        /\ Listening => Listening'
        /\ Talking => Talking'
        /\ Polled => Polled'
    BY <1>1, <1>5, Kept DEF Steady
  <2>2. Sending'
    BY <1>0, <1>1, <2>1 DEF Sending
  <2>3. Ready'
    BY <1>0, <1>1, <2>1 DEF Ready, MovingData
  <2> QED
    BY <1>1, <1>2, <1>3, <1>4, <2>2, <2>3 DEF SequenceInv
<1>6. CASE pc = "idle"
  <2>1. Sending' /\ Ready'
    BY <1>1, <1>6 DEF Sending, Ready, MovingData
  <2> QED
    BY <1>1, <1>2, <1>3, <1>4, <2>1 DEF SequenceInv
<1> QED
  BY <1>5, <1>6

\* Once the interface is not in charge, nothing is claimed of the bus.
LEMMA ChargeGone ==
    ASSUME SequenceInv, UNCHANGED <<rest, dirty>>, upset \subseteq upset',
           ~cic', card' => card, card' \in BOOLEAN, cic' \in BOOLEAN, atn' \in BOOLEAN,
           present' \in BOOLEAN, alive' = alive,
           ~card' => ~atn', ~present' => ~card',
           listen' \subseteq Members, talk' \subseteq Members, lpas' \subseteq Members,
           tpas' \subseteq Members, spe' \subseteq Devices,
           upset' \subseteq {"power", "lost", "pulled"},
           pc # "idle" => /\ card' => "lost" \in upset' \/ ~cic
                          /\ ~card' => "pulled" \in upset' \/ ~card
    PROVE  SequenceInv'
<1>0. TypeOK /\ Charge /\ Noted
  BY DEF SequenceInv
<1>1. /\ Placed' /\ Counted' /\ Truthful' /\ Reached' /\ Struck' /\ Causes'
      /\ UNCHANGED <<hit, pc, op, dev, want, todo, tail, left, rc, rx, heard, dirty>>
  BY CallKept
<1>2. TypeOK'
  <2>1. BusTypeOK'
    BY <1>0, <1>1 DEF TypeOK, BusTypeOK
  <2> QED
    BY <1>0, <1>1, <2>1 DEF TypeOK
<1>3. Charge' /\ Noted'
  BY <1>0, <1>1 DEF Charge, CardGone, Noted
<1>4. Polls' /\ Sending' /\ Ready'
  BY <1>1 DEF Polls, Sending, Ready
<1> QED
  BY <1>1, <1>2, <1>3, <1>4 DEF SequenceInv

\* An event during a call is noted, and nothing noted is forgotten.
LEMMA SpoilsMore ==
    ASSUME TypeOK, NEW e \in {"power", "lost", "pulled"}, Spoils(e)
    PROVE  /\ upset \subseteq upset' /\ upset' \subseteq {"power", "lost", "pulled"}
           /\ pc # "idle" => e \in upset'
BY DEF Spoils, TypeOK

\* Power, other controllers, and the card pulled preserve it.
LEMMA OutsideKeeps == SequenceInv /\ Outside => SequenceInv'
<1> SUFFICES ASSUME SequenceInv, Outside PROVE SequenceInv'
  OBVIOUS
<1>0. TypeOK /\ BusTypeOK /\ Charge
  BY DEF SequenceInv, TypeOK
<1>1. ASSUME NEW d \in Devices, PowerOff(d) \/ PowerOn(d),
             IF d = dev THEN Spoils("power") ELSE UNCHANGED upset,
             UNCHANGED <<rest, present, dirty>>
      PROVE  SequenceInv'
  <2>1. /\ upset \subseteq upset' /\ upset' \subseteq {"power", "lost", "pulled"}
        /\ pc # "idle" /\ d = dev => "power" \in upset'
    BY <1>0, <1>1, SpoilsMore DEF TypeOK
  <2>2. CASE PowerOff(d)
    <3>1. /\ alive' = alive \ {d}
          /\ listen' = listen \ {d} /\ talk' = talk \ {d} /\ spe' = spe \ {d}
          /\ lpas' = lpas \ {d} /\ tpas' = tpas \ {d}
          /\ UNCHANGED <<card, cic, atn>>
      BY <2>2 DEF PowerOff
    <3>2. UNCHANGED <<rest, dirty, present, card, cic, atn>>
      BY <1>1, <3>1
    <3>3. alive' \subseteq Devices
      BY <1>0, <3>1 DEF BusTypeOK
    <3> QED
      BY <2>1, <3>1, <3>2, <3>3, MembersKept
  <2>3. CASE PowerOn(d)
    <3>1. /\ alive' = alive \cup {d}
          /\ UNCHANGED <<card, cic, atn, listen, talk, lpas, tpas, spe>>
      BY <2>3 DEF PowerOn, busVars
    <3>2. UNCHANGED <<rest, dirty, present, card, cic, atn>>
      BY <1>1, <3>1
    <3>3. alive' \subseteq Devices
      BY <1>0, <3>1 DEF BusTypeOK
    <3> QED
      BY <2>1, <3>1, <3>2, <3>3, MembersKept
  <2> QED
    BY <1>1, <2>2, <2>3
<1>2. CASE LoseControl /\ Spoils("lost") /\ UNCHANGED <<rest, present, dirty>>
  <2>1. /\ card /\ cic' = FALSE /\ atn' \in BOOLEAN /\ card' = card /\ alive' = alive
        /\ listen' = {} /\ talk' = {} /\ lpas' = {} /\ tpas' = {} /\ spe' = {}
    BY <1>2 DEF LoseControl, ClearBus
  <2>2. /\ upset \subseteq upset' /\ upset' \subseteq {"power", "lost", "pulled"}
        /\ pc # "idle" => "lost" \in upset'
    BY <1>0, <1>2, SpoilsMore
  <2>3. present' \in BOOLEAN /\ card' \in BOOLEAN /\ cic' \in BOOLEAN /\ (~present' => ~card')
    BY <1>0, <1>2, <2>1 DEF TypeOK, BusTypeOK, Charge
  <2> QED
    BY <1>2, <2>1, <2>2, <2>3, ChargeGone
<1>3. CASE Foreign /\ UNCHANGED <<rest, present, upset, dirty>>
  <2>1. card /\ ~cic /\ atn' \in BOOLEAN /\ card' = card /\ cic' = cic /\ alive' = alive
    BY <1>3 DEF Foreign
  <2>2. PICK c : Apply(c)
    BY <1>3 DEF Foreign
  <2>3. /\ listen' \subseteq Members /\ talk' \subseteq Members
        /\ lpas' \subseteq Members /\ tpas' \subseteq Members /\ spe' \subseteq Devices
    BY <1>0, <2>2, ApplyTyped
  <2>4. /\ present' \in BOOLEAN /\ card' \in BOOLEAN /\ cic' \in BOOLEAN /\ (~present' => ~card')
        /\ upset' = upset /\ upset' \subseteq {"power", "lost", "pulled"}
    BY <1>0, <1>3, <2>1 DEF TypeOK, BusTypeOK, Charge
  <2> QED
    BY <1>3, <2>1, <2>3, <2>4, ChargeGone
<1>4. CASE Pull /\ Spoils("pulled") /\ UNCHANGED <<rest, present, dirty>>
  <2>1. /\ card' = FALSE /\ cic' = FALSE /\ atn' = FALSE /\ alive' = alive
        /\ UNCHANGED <<listen, talk, lpas, tpas, spe>>
    BY <1>4 DEF Pull, busVars
  <2>2. /\ upset \subseteq upset' /\ upset' \subseteq {"power", "lost", "pulled"}
        /\ pc # "idle" => "pulled" \in upset'
    BY <1>0, <1>4, SpoilsMore
  <2>3. present' \in BOOLEAN
    BY <1>0, <1>4 DEF TypeOK
  <2>4. /\ listen' \subseteq Members /\ talk' \subseteq Members
        /\ lpas' \subseteq Members /\ tpas' \subseteq Members /\ spe' \subseteq Devices
    BY <1>0, <2>1 DEF BusTypeOK
  <2> QED
    BY <1>4, <2>1, <2>2, <2>3, <2>4, ChargeGone
<1>5. CASE ~card /\ present' = FALSE /\ UNCHANGED <<bus, pc, callVars, progress, rc, dirty>>
  <2>1. /\ UNCHANGED <<rest, dirty>> /\ upset' = upset
        /\ UNCHANGED <<card, cic, atn, alive, listen, talk, lpas, tpas, spe>>
    BY <1>5 DEF bus, busVars, progress, moved, rest, callVars
  <2>2. /\ ~cic /\ ~atn /\ upset \subseteq {"power", "lost", "pulled"} /\ cic \in BOOLEAN
        /\ atn \in BOOLEAN /\ card \in BOOLEAN
        /\ listen \subseteq Members /\ talk \subseteq Members /\ lpas \subseteq Members
        /\ tpas \subseteq Members /\ spe \subseteq Devices
    BY <1>0, <1>5 DEF TypeOK, BusTypeOK, Charge, CardGone
  <2> QED
    BY <1>5, <2>1, <2>2, ChargeGone
<1> QED
  BY <1>1, <1>2, <1>3, <1>4, <1>5 DEF Outside

------------------------------------------------------------------------------
(* Theorems *)

\* Every step of the controller preserves it.
LEMMA ControllerKeeps == SequenceInv /\ Controller => SequenceInv'
  BY GatePassed, IfcAsked, IfcSeen, IfcLate, CommandsStarted, CommandsMayStart, CommandsLate,
     SendStep, CommandsDone, CommandsStop, StandbyAsked, StandbySeen, HandedOver, StandbyLate,
     ByteWritten, ByteRead, DataDone, RegainAsked, RegainSeen, RegainLate, TailStarted
  DEF Controller

\* It holds at the start.
LEMMA StartsWell == Init => SequenceInv
<1> SUFFICES ASSUME Init PROVE SequenceInv
  OBVIOUS
<1>1. /\ card = TRUE /\ cic = TRUE /\ atn = TRUE /\ alive \in SUBSET Devices
      /\ listen = {} /\ talk = {} /\ lpas = {} /\ tpas = {} /\ spe = {} /\ hit = {}
      /\ present = TRUE /\ pc = "idle" /\ op = "none" /\ dev \in Devices
      /\ todo = <<>> /\ tail = FALSE /\ left = 0 /\ want = 0 /\ rc = "OK"
      /\ rx = [d \in Devices |-> 0] /\ heard = <<>> /\ upset = {} /\ dirty = FALSE
  BY DEF Init, BusInit
<1>2. MaxData \in Nat
  BY BusAssumption
<1>3. TypeOK
  <2>1. BusTypeOK
    BY <1>1 DEF BusTypeOK
  <2>2. todo \in Seq(Command) /\ heard \in Seq(Devices \X BOOLEAN)
    BY <1>1
  <2>3. rx \in [Devices -> 0 .. MaxData]
    BY <1>1, <1>2
  <2> QED
    BY <1>1, <1>2, <2>1, <2>2, <2>3 DEF TypeOK
<1>4. Placed /\ Charge /\ Noted /\ Truthful /\ Polls /\ Sending /\ Ready /\ Causes
  BY <1>1 DEF Placed, Entering, Commanding, MovingData, Charge, CardGone, Noted, Truthful, Finished,
              Reads, Polls, Sending, Ready, Causes
<1>5. Counted /\ Reached
  BY <1>1 DEF Counted, Reached, Reads
<1>6. Struck
  BY <1>1 DEF Struck, CmdOps, BusOps
<1> QED
  BY <1>3, <1>4, <1>5, <1>6 DEF SequenceInv

\* The inductive invariant.
THEOREM SequencesCorrect == Spec => []SequenceInv
<1>1. Init => SequenceInv
  BY StartsWell
<1>2. SequenceInv /\ [Next]_vars => SequenceInv'
  <2> SUFFICES ASSUME SequenceInv, [Next]_vars PROVE SequenceInv'
    OBVIOUS
  <2>1. CASE Next
    BY <2>1, CallBegins, ControllerKeeps, OutsideKeeps DEF Next
  <2>2. CASE UNCHANGED vars
    <3>1. /\ UNCHANGED <<rest, dirty, present, card, cic, atn>>
          /\ UNCHANGED <<upset, listen, lpas, talk, tpas, spe, alive, pc, dev>>
      BY <2>2 DEF vars, busVars, callVars, rest
    <3>2. upset \subseteq {"power", "lost", "pulled"} /\ alive \subseteq Devices
      BY DEF SequenceInv, TypeOK, BusTypeOK
    <3> QED
      BY <3>1, <3>2, MembersKept
  <2> QED
    BY <2>1, <2>2
<1> QED
  BY <1>1, <1>2, PTL DEF Spec

\* Every variable keeps its type: command strings are of commands, counts within what was
\* asked, results within the driver's.
THEOREM SequenceTypes == Spec => []TypeOK
<1>1. SequenceInv => TypeOK
  BY DEF SequenceInv
<1> QED
  BY <1>1, SequencesCorrect, PTL

\* A call of any operation, for any devices at any addresses, reports success only of what was
\* done: gpib488_write, gpib488_read and gpib488_serial_poll never take registers that
\* read 0xFF, or a bus lost half way, for a transfer.
THEOREM SuccessIsDone == Spec => []OkMeansDone
<1>1. SequenceInv => OkMeansDone
  BY DEF SequenceInv, Truthful, Finished, Reads, OkMeansDone
<1> QED
  BY <1>1, SequencesCorrect, PTL

\* gpib488_serial_poll leaves devices answering polls only when it reports a failure.
THEOREM PollsEnd == Spec => []PollsAreEnded
<1>1. SequenceInv => PollsAreEnded
  BY DEF SequenceInv, Polls, PollsAreEnded
<1> QED
  BY <1>1, SequencesCorrect, PTL

\* The error a call reports names something that happened: control lost while it ran, a device
\* or a card gone.
THEOREM BlamesTruly == Spec => []ErrorsHaveCauses
<1>1. SequenceInv => ErrorsHaveCauses
  BY DEF SequenceInv, Causes, ErrorsHaveCauses
<1> QED
  BY <1>1, SequencesCorrect, PTL

\* With no two members at one address, gpib488_write sends its data to its device only, whatever
\* happened in earlier calls, and all of it when it succeeds.
THEOREM WritesReachTarget ==
    ASSUME Distinct PROVE Spec => []DataOnlyToTarget
<1>1. SequenceInv => DataOnlyToTarget
  <2> SUFFICES ASSUME SequenceInv, op = "write", "lost" \notin upset
               PROVE  /\ \A d \in Devices \ {dev} : rx[d] = 0
                      /\ pc = "idle" /\ rc = "OK" => rx[dev] = want
    BY DEF DataOnlyToTarget
  <2>1. \A d \in Devices : rx[d] = IF d = dev THEN want - left ELSE 0
    BY DEF SequenceInv, Reached
  <2>2. pc = "idle" /\ rc = "OK" => left = 0
    BY DEF SequenceInv, Truthful, Finished
  <2>3. dev \in Devices /\ want \in Nat
    BY BusAssumption DEF SequenceInv, TypeOK
  <2> QED
    BY <2>1, <2>2, <2>3
<1> QED
  BY <1>1, SequencesCorrect, PTL

\* With no two members at one address, what gpib488_read and gpib488_serial_poll hand on was sent
\* by their device.
THEOREM ReadsHearTarget ==
    ASSUME Distinct PROVE Spec => []ReadOnlyFromTarget
<1>1. SequenceInv => ReadOnlyFromTarget
  BY DEF SequenceInv, Reached, RightByte, Reads, Steady, ReadOnlyFromTarget
<1> QED
  BY <1>1, SequencesCorrect, PTL

\* With no two members at one address, a clear, a trigger or a local acts on its device only, and
\* did act when the call succeeds.
THEOREM CommandsReachTarget ==
    ASSUME Distinct PROVE Spec => []CommandOnlyTarget
<1>1. SequenceInv => CommandOnlyTarget
  BY DEF SequenceInv, Struck, Steady, CommandOnlyTarget
<1> QED
  BY <1>1, SequencesCorrect, PTL

------------------------------------------------------------------------------
(* The interface's own part: its address goes out with every command string,  *)
(* and by the time the data moves the interface has taken it.                 *)

\* Taking the first command off a string that ends in t takes it off what comes before t.
LEMMA TailBefore ==
    ASSUME NEW s \in Seq(Command), NEW t \in Seq(Command), s # <<>>
    PROVE  Tail(s \o t) = Tail(s) \o t /\ Tail(s) \in Seq(Command)
<1> DEFINE p == s \o t
           q == Tail(s) \o t
<1>1. /\ Tail(s) \in Seq(Command) /\ Len(Tail(s)) = Len(s) - 1
      /\ \A i \in 1 .. Len(s) - 1 : Tail(s)[i] = s[i + 1]
  BY HeadTailProperties
<1>2. Len(s) \in Nat /\ Len(t) \in Nat /\ Len(s) # 0
  BY EmptySeq, LenProperties
<1>3. /\ p \in Seq(Command) /\ Len(p) = Len(s) + Len(t)
      /\ \A i \in 1 .. Len(s) + Len(t) : p[i] = IF i <= Len(s) THEN s[i] ELSE t[i - Len(s)]
  BY ConcatProperties
<1>4. /\ q \in Seq(Command) /\ Len(q) = Len(Tail(s)) + Len(t)
      /\ \A i \in 1 .. Len(Tail(s)) + Len(t) :
            q[i] = IF i <= Len(Tail(s)) THEN Tail(s)[i] ELSE t[i - Len(Tail(s))]
  BY <1>1, ConcatProperties
<1> HIDE DEF p, q
<1>5. p # <<>>
  BY <1>2, <1>3, EmptySeq
<1>6. Tail(p) \in Seq(Command) /\ Len(Tail(p)) = Len(p) - 1
      /\ \A i \in 1 .. Len(Tail(p)) : Tail(p)[i] = p[i + 1]
  BY <1>3, <1>5, HeadTailProperties
<1>7. Len(Tail(p)) = Len(q)
  BY <1>1, <1>2, <1>3, <1>4, <1>6
<1>8. ASSUME NEW i \in 1 .. Len(Tail(p)) PROVE Tail(p)[i] = q[i]
  <2>1. Tail(p)[i] = p[i + 1] /\ i + 1 \in 1 .. Len(s) + Len(t) /\ i \in 1 .. Len(Tail(s)) + Len(t)
    BY <1>1, <1>2, <1>3, <1>6
  <2>2. CASE i <= Len(s) - 1
    <3>1. p[i + 1] = s[i + 1] /\ q[i] = Tail(s)[i] /\ Tail(s)[i] = s[i + 1]
      BY <1>1, <1>2, <1>3, <1>4, <2>1, <2>2
    <3> QED BY <2>1, <3>1
  <2>3. CASE ~ (i <= Len(s) - 1)
    <3>1. (i + 1) - Len(s) = i - Len(Tail(s))
      BY <1>1, <1>2
    <3>2. ~ (i + 1 <= Len(s)) /\ ~ (i <= Len(Tail(s)))
      BY <1>1, <1>2, <2>3
    <3>3. p[i + 1] = t[(i + 1) - Len(s)]
      BY <1>3, <2>1, <3>2
    <3>4. q[i] = t[i - Len(Tail(s))]
      BY <1>4, <2>1, <3>2
    <3> QED BY <2>1, <3>1, <3>3, <3>4
  <2> QED BY <2>2, <2>3
<1>9. Tail(p) = q
  BY <1>4, <1>6, <1>7, <1>8, SeqEqual
<1> QED BY <1>1, <1>9 DEF p, q

\* The interface is on the bus, at an address of its own.
LEMMA OwnAddress ==
    /\ Ctl \in Members
    /\ Sad[Ctl] = -1 => Ctl \in Simple(Pad[Ctl])
    /\ Sad[Ctl] # -1 => Ctl \in Extended(Pad[Ctl])
BY DEF Members, Simple, Extended, Up

\* A command byte of gpib488_write brings the interface nearer to talking.
LEMMA OwnTalkStep ==
    ASSUME OwnTalk, TypeOK, Noted, SendCommand PROVE OwnTalk'
<1>0. Ctl \in Members /\ <<>> \in Seq(Command) /\ TalkAs(Ctl) \in Seq(Command)
  BY SendFacts
<1>1. CASE \E s \in Seq(Command) : todo = s \o TalkAs(Ctl)
  <2>1. PICK s \in Seq(Command) : todo = s \o TalkAs(Ctl)
    BY <1>1
  <2>2. CASE s # <<>>
    <3>1. todo' = Tail(s) \o TalkAs(Ctl) /\ Tail(s) \in Seq(Command)
      BY <1>0, <2>1, <2>2, TailBefore, SendFacts
    <3> QED BY <3>1 DEF OwnTalk
  <2>3. CASE s = <<>>
    <3>1. TAD(Pad[Ctl]) \in Command /\ Secondary(Ctl) \in Seq(Command)
          /\ todo = Cons(TAD(Pad[Ctl]), Secondary(Ctl))
      BY <1>0, <2>1, <2>3, ConcatEmptySeq, AddressForms, SecondaryForms
    <3>2. Head(todo) = TAD(Pad[Ctl]) /\ todo' = Secondary(Ctl)
      BY <3>1, SendFacts, ConsFacts
    <3>3. talk' = Simple(Pad[Ctl]) \cup (talk \cap Extended(Pad[Ctl])) /\ tpas' = Extended(Pad[Ctl])
      BY <3>2, SendFacts, ApplyTalk
    <3>4. CASE Sad[Ctl] = -1
      BY <1>0, <3>2, <3>3, <3>4, OwnAddress, SecondaryForms DEF OwnTalk
    <3>5. CASE Sad[Ctl] # -1
      BY <1>0, <3>2, <3>3, <3>5, OwnAddress, SecondaryForms DEF OwnTalk
    <3> QED BY <3>4, <3>5
  <2> QED BY <2>2, <2>3
<1>2. CASE Ctl \in tpas /\ Sad[Ctl] # -1 /\ todo = Cons(SAD(Sad[Ctl]), <<>>)
  <2>1. Head(todo) = SAD(Sad[Ctl]) /\ todo' = <<>>
    BY <1>0, <1>2, SendFacts, ConsFacts, SecondaryForms
  <2>2. talk' = {m \in talk \cup tpas : m \in tpas => Sad[m] = Sad[Ctl]}
    BY <2>1, SendFacts, ApplySecondary
  <2> QED BY <1>2, <2>1, <2>2 DEF OwnTalk
<1>3. CASE Ctl \in talk /\ todo = <<>>
  BY <1>3, SendFacts
<1> QED BY <1>1, <1>2, <1>3 DEF OwnTalk

\* A command byte of gpib488_read brings it nearer to listening.
LEMMA OwnListenStep ==
    ASSUME OwnListen, TypeOK, Noted, SendCommand PROVE OwnListen'
<1>0. Ctl \in Members /\ <<>> \in Seq(Command) /\ ListenTo(Ctl) \in Seq(Command)
  BY SendFacts
<1>1. CASE \E s \in Seq(Command) : todo = s \o ListenTo(Ctl)
  <2>1. PICK s \in Seq(Command) : todo = s \o ListenTo(Ctl)
    BY <1>1
  <2>2. CASE s # <<>>
    <3>1. todo' = Tail(s) \o ListenTo(Ctl) /\ Tail(s) \in Seq(Command)
      BY <1>0, <2>1, <2>2, TailBefore, SendFacts
    <3> QED BY <3>1 DEF OwnListen
  <2>3. CASE s = <<>>
    <3>1. LAD(Pad[Ctl]) \in Command /\ Secondary(Ctl) \in Seq(Command)
          /\ todo = Cons(LAD(Pad[Ctl]), Secondary(Ctl))
      BY <1>0, <2>1, <2>3, ConcatEmptySeq, AddressForms, SecondaryForms
    <3>2. Head(todo) = LAD(Pad[Ctl]) /\ todo' = Secondary(Ctl)
      BY <3>1, SendFacts, ConsFacts
    <3>3. listen' = listen \cup Simple(Pad[Ctl]) /\ lpas' = Extended(Pad[Ctl])
      BY <3>2, SendFacts, ApplyListen
    <3>4. CASE Sad[Ctl] = -1
      BY <1>0, <3>2, <3>3, <3>4, OwnAddress, SecondaryForms DEF OwnListen
    <3>5. CASE Sad[Ctl] # -1
      BY <1>0, <3>2, <3>3, <3>5, OwnAddress, SecondaryForms DEF OwnListen
    <3> QED BY <3>4, <3>5
  <2> QED BY <2>2, <2>3
<1>2. CASE Ctl \in lpas /\ Sad[Ctl] # -1 /\ todo = Cons(SAD(Sad[Ctl]), <<>>)
  <2>1. Head(todo) = SAD(Sad[Ctl]) /\ todo' = <<>>
    BY <1>0, <1>2, SendFacts, ConsFacts, SecondaryForms
  <2>2. listen' = listen \cup {m \in lpas : Sad[m] = Sad[Ctl]}
    BY <2>1, SendFacts, ApplySecondary
  <2> QED BY <1>0, <1>2, <2>1, <2>2 DEF OwnListen
<1>3. CASE Ctl \in listen /\ todo = <<>>
  BY <1>3, SendFacts
<1> QED BY <1>1, <1>2, <1>3 DEF OwnListen

\* A command byte of gpib488_serial_poll makes it listen, and none after that stops it.
LEMMA OwnPollStep ==
    ASSUME OwnPoll, PollSent, Sad[Ctl] = -1, TypeOK, Noted, SendCommand PROVE OwnPoll'
<1> DEFINE r == TalkRest(dev, <<>>)
           l == LAD(Pad[Ctl])
<1>0. /\ UNL \in Command /\ SPE \in Command /\ l \in Command /\ r \in Seq(Command)
      /\ dev' = dev /\ dev \in Members /\ Ctl \in Members /\ <<>> \in Seq(Command)
  BY SendFacts, AddressForms, CommandTypes
<1>1. Cons(SPE, r) \in Seq(Command) /\ PollRest = Cons(l, Cons(SPE, r)) /\ PollRest' = PollRest
  BY <1>0, ConsFacts DEF PollRest
<1>2. PollRest \in Seq(Command)
  BY <1>0, <1>1, ConsFacts
<1>3. CASE todo = Cons(UNL, PollRest)
  <2>1. todo' = PollRest
    BY <1>0, <1>2, <1>3, SendFacts, ConsFacts
  <2> QED BY <1>1, <2>1 DEF OwnPoll
<1>4. CASE todo = PollRest
  <2>1. Head(todo) = l
    BY <1>0, <1>1, <1>4, ConsFacts
  <2>2. listen' = listen \cup Simple(Pad[Ctl])
    BY <2>1, SendFacts, ApplyListen
  <2> QED BY <2>2, OwnAddress DEF OwnPoll
<1>5. CASE Ctl \in listen /\ todo # Cons(UNL, PollRest) /\ todo # PollRest
  <2>1. todo = Cons(SPE, r) \/ TalkPart(<<>>) \/ todo = <<>>
    BY <1>1, <1>5 DEF PollSent
  <2>2. CASE todo = Cons(SPE, r)
    <3>1. Head(todo) = SPE
      BY <1>0, <2>2, ConsFacts
    <3> QED BY <1>5, <3>1, SendFacts, ApplySpe DEF OwnPoll
  <2>3. CASE todo = r
    <3>1. TAD(Pad[dev]) \in Command /\ Secondary(dev) \o <<>> \in Seq(Command)
      BY <1>0, AddressForms, SecondaryForms
    <3>2. Head(todo) = TAD(Pad[dev])
      BY <2>3, <3>1, ConsFacts DEF TalkRest
    <3> QED BY <1>5, <3>2, SendFacts, ApplyTalk DEF OwnPoll
  <2>4. CASE Sad[dev] # -1 /\ todo = Cons(SAD(Sad[dev]), <<>>)
    <3>1. Head(todo) = SAD(Sad[dev])
      BY <1>0, <2>4, ConsFacts, SecondaryForms
    <3> QED BY <1>5, <3>1, SendFacts, ApplySecondary DEF OwnPoll
  <2> QED BY <2>1, <2>2, <2>3, <2>4, SendFacts DEF TalkPart
<1> QED BY <1>3, <1>4, <1>5 DEF OwnPoll

\* Of a command string of which nothing was sent, its own part is to come.
LEMMA OwnToCome ==
    ASSUME dev \in Devices, todo = Head488(op, dev)
    PROVE  /\ op = "write" => \E s \in Seq(Command) : todo = s \o TalkAs(Ctl)
           /\ op = "read" => \E s \in Seq(Command) : todo = s \o ListenTo(Ctl)
           /\ op = "poll" => todo = Cons(UNL, PollRest)
<1>0. dev \in Members /\ Ctl \in Members /\ UNL \in Command /\ <<>> \in Seq(Command)
  <2>1. <<>> \in Seq(Command)
    OBVIOUS
  <2> QED BY <2>1, CommandTypes DEF Members
<1>1. /\ ListenTo(dev) \in Seq(Command) /\ TalkAs(dev) \in Seq(Command)
      /\ ListenTo(Ctl) \in Seq(Command) /\ TalkAs(Ctl) \in Seq(Command)
      /\ <<UNL>> \in Seq(Command)
  BY <1>0, AddressForms, Literals
<1>2. /\ <<UNL>> \o ListenTo(dev) \in Seq(Command) /\ <<UNL>> \o TalkAs(dev) \in Seq(Command)
  BY <1>1, ConcatProperties
<1>3. ASSUME op = "write" PROVE \E s \in Seq(Command) : todo = s \o TalkAs(Ctl)
  <2>1. todo = <<UNL>> \o (ListenTo(dev) \o TalkAs(Ctl))
    BY <1>3 DEF Head488, BuildAddress
  <2>2. todo = (<<UNL>> \o ListenTo(dev)) \o TalkAs(Ctl)
    BY <1>1, <2>1, ConcatAssociative, SMTT(20)
  <2> QED BY <1>2, <2>2
<1>4. ASSUME op = "read" PROVE \E s \in Seq(Command) : todo = s \o ListenTo(Ctl)
  <2>1. todo = <<UNL>> \o (TalkAs(dev) \o ListenTo(Ctl))
    BY <1>4 DEF Head488, BuildAddress
  <2>2. todo = (<<UNL>> \o TalkAs(dev)) \o ListenTo(Ctl)
    BY <1>1, <2>1, ConcatAssociative, SMTT(20)
  <2> QED BY <1>2, <2>2
<1>5. op = "poll" => todo = Cons(UNL, PollRest)
  BY HeadForms DEF PollRest
<1> QED BY <1>3, <1>4, <1>5

\* With its string sent, the interface has its part.
LEMMA OwnTaken ==
    ASSUME todo = <<>>, dev \in Devices
    PROVE  /\ OwnTalk => Ctl \in talk
           /\ OwnListen => Ctl \in listen
           /\ OwnPoll => Ctl \in listen
<1>0. dev \in Members /\ Ctl \in Members /\ UNL \in Command /\ SPE \in Command /\ <<>> \in Seq(Command)
  <2>1. <<>> \in Seq(Command)
    OBVIOUS
  <2> QED BY <2>1, CommandTypes DEF Members
<1>1. /\ TAD(Pad[Ctl]) \in Command /\ LAD(Pad[Ctl]) \in Command /\ Secondary(Ctl) \in Seq(Command)
      /\ TalkAs(Ctl) = Cons(TAD(Pad[Ctl]), Secondary(Ctl))
      /\ ListenTo(Ctl) = Cons(LAD(Pad[Ctl]), Secondary(Ctl))
      /\ TalkRest(dev, <<>>) \in Seq(Command)
  BY <1>0, AddressForms, SecondaryForms
<1>2. TalkAs(Ctl) \in Seq(Command) /\ TalkAs(Ctl) # <<>>
      /\ ListenTo(Ctl) \in Seq(Command) /\ ListenTo(Ctl) # <<>>
  BY <1>1, ConsFacts
<1>3. \A s \in Seq(Command) : s \o TalkAs(Ctl) # <<>> /\ s \o ListenTo(Ctl) # <<>>
  BY <1>2, ConcatEqualIffEmpty
<1>4. Sad[Ctl] # -1 => Cons(SAD(Sad[Ctl]), <<>>) # <<>>
  BY <1>0, SecondaryForms, ConsFacts
<1>5. Cons(SPE, TalkRest(dev, <<>>)) \in Seq(Command)
  BY <1>0, <1>1, ConsFacts
<1>6. PollRest \in Seq(Command) /\ PollRest # <<>>
  BY <1>1, <1>5, ConsFacts DEF PollRest
<1>7. Cons(UNL, PollRest) # <<>>
  BY <1>0, <1>6, ConsFacts
<1> QED BY <1>3, <1>4, <1>6, <1>7 DEF OwnTalk, OwnListen, OwnPoll

\* Nothing is claimed where no commands are being sent and no data is about to move.
LEMMA OwnElsewhere ==
    ASSUME pc' \notin {"send", "standby", "standbyWait", "data"} PROVE OwnInv'
BY DEF OwnInv, OwnSending, OwnReady, MovingData

\* Nor once another controller is in charge.
LEMMA OwnGone ==
    ASSUME ~cic' PROVE OwnInv'
BY DEF OwnInv, OwnSending, OwnReady

\* A step that takes nothing from the interface.
LEMMA OwnKept ==
    ASSUME OwnInv, UNCHANGED <<op, dev, todo, tail>>, cic' => cic,
           pc' = pc,
           Ctl \in talk => Ctl \in talk', Ctl \in tpas => Ctl \in tpas',
           Ctl \in listen => Ctl \in listen', Ctl \in lpas => Ctl \in lpas'
    PROVE  OwnInv'
<1>1. (OwnTalk => OwnTalk') /\ (OwnListen => OwnListen') /\ (OwnPoll => OwnPoll')
  BY DEF OwnTalk, OwnListen, OwnPoll, PollRest
<1>2. OwnSending'
  BY <1>1 DEF OwnInv, OwnSending
<1>3. OwnReady'
  BY DEF OwnInv, OwnReady, MovingData
<1> QED BY <1>2, <1>3 DEF OwnInv

\* A call on its way to the data keeps its part.
LEMMA OwnMovesOn ==
    ASSUME OwnInv, MovingData, pc' # "send", op' = op, cic' = cic, listen' = listen, talk' = talk
    PROVE  OwnInv'
<1>1. OwnSending'
  BY DEF OwnSending
<1>2. OwnReady'
  BY DEF OwnInv, OwnReady
<1> QED BY <1>1, <1>2 DEF OwnInv

\* Failed commands end the call or take control back.
LEMMA OwnFailed ==
    ASSUME NEW e, CommandsFail(e) PROVE OwnInv'
<1>1. pc' \in {"idle", "regain"}
  BY DEF CommandsFail, Leave, AfterCommandError
<1> QED BY <1>1, OwnElsewhere

\* A command string about to be sent has the interface's part in it.
LEMMA OwnStarts ==
    ASSUME SequenceInv, pc \in {"cmd", "cmdWait"}, Leave("send", rc), op' = op, dev' = dev
    PROVE  OwnInv'
<1>0. TypeOK /\ Placed
  BY DEF SequenceInv
<1>1. pc' = "send" /\ todo' = todo /\ (tail' <=> tail)
  BY <1>0 DEF Leave, TypeOK
<1>2. OwnReady'
  BY <1>1 DEF OwnReady, MovingData
<1>3. CASE ~tail
  <2>1. dev \in Devices /\ todo = Head488(op, dev)
    BY <1>0, <1>3 DEF Placed, TypeOK
  <2>2. /\ op' = "write" => OwnTalk'
        /\ op' = "read" => OwnListen'
        /\ op' = "poll" => OwnPoll'
    BY <1>1, <2>1, OwnToCome DEF OwnTalk, OwnListen, OwnPoll, PollRest
  <2> QED BY <1>2, <2>2 DEF OwnInv, OwnSending
<1>4. CASE tail
  BY <1>1, <1>2, <1>4 DEF OwnInv, OwnSending
<1> QED BY <1>3, <1>4

\* A command byte sent preserves the interface's part.
LEMMA OwnSends == SequenceInv /\ OwnInv /\ SendCommand => OwnInv'
<1> SUFFICES ASSUME SequenceInv, OwnInv, SendCommand PROVE OwnInv'
  OBVIOUS
<1>0. TypeOK /\ Noted /\ Sending /\ OwnSending
  BY DEF SequenceInv, OwnInv
<1>1. pc = "send" /\ cic /\ UNCHANGED <<pc, op, dev, tail, cic>>
  BY DEF SendCommand, callVars
<1>2. OwnReady'
  BY <1>1 DEF OwnReady, MovingData
<1>3. CASE tail
  BY <1>1, <1>2, <1>3 DEF OwnInv, OwnSending
<1>4. CASE ~tail
  <2>1. op = "write" => OwnTalk'
    BY <1>0, <1>1, <1>4, OwnTalkStep DEF OwnSending
  <2>2. op = "read" => OwnListen'
    BY <1>0, <1>1, <1>4, OwnListenStep DEF OwnSending
  <2>3. op = "poll" /\ Sad[Ctl] = -1 => OwnPoll'
    BY <1>0, <1>1, <1>4, OwnPollStep DEF OwnSending, Sending
  <2> QED BY <1>1, <1>2, <2>1, <2>2, <2>3 DEF OwnInv, OwnSending
<1> QED BY <1>3, <1>4

\* With the last one sent, the interface has taken its part.
LEMMA OwnArrives == SequenceInv /\ OwnInv /\ CommandsSent => OwnInv'
<1> SUFFICES ASSUME SequenceInv, OwnInv, CommandsSent PROVE OwnInv'
  OBVIOUS
<1>0. TypeOK /\ OwnSending /\ dev \in Devices
  BY DEF SequenceInv, OwnInv, TypeOK
<1>1. /\ pc = "send" /\ todo = <<>>
      /\ Leave(IF tail THEN "idle" ELSE AfterCommands(op), rc)
      /\ UNCHANGED <<cic, listen, talk, op>>
  BY DEF CommandsSent, bus, busVars, callVars
<1>2. CASE pc' = "idle"
  BY <1>2, OwnElsewhere
<1>3. CASE pc' # "idle"
  <2>1. ~tail /\ pc' = "standby"
    BY <1>1, <1>3 DEF Leave, AfterCommands
  <2>2. OwnSending'
    BY <2>1 DEF OwnSending
  <2>3. cic => /\ op = "write" => Ctl \in talk
               /\ op = "read" \/ (op = "poll" /\ Sad[Ctl] = -1) => Ctl \in listen
    BY <1>0, <1>1, <2>1, OwnTaken DEF OwnSending
  <2> QED BY <1>1, <2>2, <2>3 DEF OwnInv, OwnReady
<1> QED BY <1>2, <1>3

\* Every step of the controller preserves it.
LEMMA OwnControlled == SequenceInv /\ OwnInv /\ Controller => OwnInv'
<1> SUFFICES ASSUME SequenceInv, OwnInv, Controller PROVE OwnInv'
  OBVIOUS
<1>1. CASE Gate
  <2>1. pc' \in {"ifc", "cmd"}
    BY <1>1 DEF Gate
  <2> QED BY <2>1, OwnElsewhere
<1>2. CASE \/ Ask("ifc", "ifcWait", TRUE, Leave("idle", "NOTCIC"))
           \/ Saw("ifcWait", TRUE, AfterIfc)
           \/ Expires("ifcWait", TRUE, Leave("idle", "TIMEOUT"))
  <2>1. pc' \in {"ifcWait", "idle", "cmd"}
    BY <1>2 DEF Ask, Saw, Expires, Leave, AfterIfc
  <2> QED BY <2>1, OwnElsewhere
<1>3. CASE StartCommands
  <2>1. \/ CommandsFail("NOTCIC")
        \/ pc = "cmd" /\ Leave("send", rc) /\ op' = op /\ dev' = dev
        \/ pc' = "cmdWait"
    BY <1>3 DEF StartCommands, Leave, callVars
  <2> QED BY <2>1, OwnFailed, OwnStarts, OwnElsewhere
<1>4. CASE Saw("cmdWait", TRUE, "send")
  <2>1. pc = "cmdWait" /\ Leave("send", rc) /\ op' = op /\ dev' = dev
    BY <1>4 DEF Saw, callVars
  <2> QED BY <2>1, OwnStarts
<1>5. CASE Expires("cmdWait", TRUE, CommandsFail("TIMEOUT")) \/ CommandsCut
  <2>1. CommandsFail("TIMEOUT") \/ CommandsFail("NOLISTENER") \/ CommandsFail("EIO")
    BY <1>5 DEF Expires, CommandsCut
  <2> QED BY <2>1, OwnFailed
<1>6. CASE SendCommand \/ CommandsSent
  BY <1>6, OwnSends, OwnArrives
<1>7. CASE \/ Ask("standby", "standbyWait", FALSE, Leave(AfterCommandError(op), "NOTCIC"))
           \/ Saw("standbyWait", FALSE, AfterStandby)
           \/ Expires("standbyWait", FALSE, Leave(AfterCommandError(op), "TIMEOUT"))
  <2>1. /\ pc \in {"standby", "standbyWait"} /\ UNCHANGED <<op, cic, listen, talk>>
        /\ pc' \in {"idle", "regain", "standbyWait", "data"}
    BY <1>7 DEF Ask, Saw, Expires, Leave, AfterCommandError, AfterStandby, bus, busVars, callVars
  <2> QED BY <2>1, OwnMovesOn DEF MovingData
<1>8. CASE HandOver \/ DataEnds
  <2>1. pc' \in {"idle", "regain"}
    BY <1>8 DEF HandOver, DataEnds, Leave, AfterData
  <2> QED BY <2>1, OwnElsewhere
<1>9. CASE WriteByte \/ ReadByte
  <2>1. UNCHANGED <<op, dev, todo, tail, cic, pc, listen, talk, lpas, tpas>>
    BY <1>9 DEF WriteByte, ReadByte, bus, busVars, callVars
  <2> QED BY <2>1, OwnKept
<1>10. CASE \/ Ask("regain", "regainWait", TRUE, Leave(AfterRegain, RegainError))
            \/ Saw("regainWait", TRUE, AfterRegain)
            \/ Expires("regainWait", TRUE, Leave(AfterRegain, RegainError))
            \/ StartTail
  <2>1. pc' \in {"regainWait", "idle", "tail", "cmd"}
    BY <1>10 DEF Ask, Saw, Expires, Leave, AfterRegain, StartTail
  <2> QED BY <2>1, OwnElsewhere
<1> QED
  BY <1>1, <1>2, <1>3, <1>4, <1>5, <1>6, <1>7, <1>8, <1>9, <1>10 DEF Controller

\* So does what happens outside: a device switched off is not the interface.
LEMMA OwnOutside == SequenceInv /\ OwnInv /\ Outside => OwnInv'
<1> SUFFICES ASSUME SequenceInv, OwnInv, Outside PROVE OwnInv'
  OBVIOUS
<1>1. ASSUME NEW d \in Devices, PowerOff(d) \/ PowerOn(d), UNCHANGED <<rest, present, dirty>>
      PROVE  OwnInv'
  <2>1. d # Ctl
    BY BusAssumption
  <2>2. /\ UNCHANGED <<op, dev, todo, tail, pc, cic>>
        /\ \/ UNCHANGED <<listen, talk, lpas, tpas>>
           \/ listen' = listen \ {d} /\ talk' = talk \ {d} /\ lpas' = lpas \ {d} /\ tpas' = tpas \ {d}
    BY <1>1 DEF rest, callVars, PowerOff, PowerOn, busVars
  <2> QED BY <2>1, <2>2, OwnKept
<1>2. CASE LoseControl \/ Pull
  <2>1. cic' = FALSE
    BY <1>2 DEF LoseControl, Pull
  <2> QED BY <2>1, OwnGone
<1>3. CASE Foreign
  <2>1. ~cic'
    BY <1>3 DEF Foreign
  <2> QED BY <2>1, OwnGone
<1>4. CASE UNCHANGED <<bus, pc, callVars, progress, rc, dirty>>
  <2>1. UNCHANGED <<op, dev, todo, tail, pc, cic, listen, talk, lpas, tpas>>
    BY <1>4 DEF bus, busVars, callVars, progress
  <2> QED BY <2>1, OwnKept
<1> QED BY <1>1, <1>2, <1>3, <1>4 DEF Outside

\* By the time the data moves the interface itself is addressed, to talk in gpib488_write, to
\* listen in gpib488_read, whatever secondary address it has and whatever earlier calls left
\* behind; in gpib488_serial_poll, which does not send that address, as long as it has none.
THEOREM InterfaceAddressed ==
    Spec => [](op # "poll" \/ Sad[Ctl] = -1 => WeAreAddressed)
<1> DEFINE Addressing == op # "poll" \/ Sad[Ctl] = -1 => WeAreAddressed
<1>1. Init => OwnInv
  BY DEF Init, OwnInv, OwnSending, OwnReady, MovingData
<1>2. SequenceInv /\ OwnInv /\ [Next]_vars => OwnInv'
  <2> SUFFICES ASSUME SequenceInv, OwnInv, [Next]_vars PROVE OwnInv'
    OBVIOUS
  <2>1. CASE Call
    <3>1. pc' \in {"gate", "idle"}
      BY <2>1 DEF Call, Begin
    <3> QED BY <3>1, OwnElsewhere
  <2>2. CASE UNCHANGED vars
    <3>1. UNCHANGED <<op, dev, todo, tail, pc, cic, listen, talk, lpas, tpas>>
      BY <2>2 DEF vars, busVars, callVars
    <3> QED BY <3>1, OwnKept
  <2> QED BY <2>1, <2>2, OwnControlled, OwnOutside DEF Next
<1>3. SequenceInv /\ OwnInv => Addressing
  <2> SUFFICES ASSUME SequenceInv, OwnInv, op # "poll" \/ Sad[Ctl] = -1,
                      pc = "data", card, "lost" \notin upset
               PROVE  IF op = "write" THEN Ctl \in talk ELSE Ctl \in listen
    BY DEF WeAreAddressed
  <2>1. cic /\ op \in BusOps
    BY DEF SequenceInv, Charge, Placed
  <2> QED BY <2>1 DEF OwnInv, OwnReady, MovingData, BusOps
<1> QED
  BY <1>1, <1>2, <1>3, SequencesCorrect, PTL DEF Spec
==============================================================================
