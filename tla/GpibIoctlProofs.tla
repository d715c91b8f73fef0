--------------------------- MODULE GpibIoctlProofs ---------------------------
(* The driver's calls for any configurations and any order of loads, calls and  *)
(* removals: how the chip is left, and that the settings are those promised.    *)
EXTENDS GpibIoctl, TLAPS

Chips == [c : Shadow, r : Registers]

\* A chip that answers holds the AUXRA the driver has on record.
Recorded(x) == x.r.here => x.c.auxra = x.r.auxra

\* y runs with the settings of x, and stands to the bus as x does but for who is in charge;
\* the EOS flags of a chip whose record is not true may become those of the record.
Kept(x, y) ==
    /\ y \in Chips
    /\ y.r.here = x.r.here /\ y.r.sc = x.r.sc
    /\ y.c.timeout = x.c.timeout
    /\ y.r.eosr = x.r.eosr
    /\ y.r.adr0 = x.r.adr0 /\ y.r.adr1 = x.r.adr1 /\ y.r.speed = x.r.speed
    /\ Recorded(x) => Recorded(y) /\ y.r.auxra \cap EosFlags = x.r.auxra \cap EosFlags

LEMMA KeptItself == ASSUME NEW x \in Chips PROVE Kept(x, x)
  BY DEF Kept

LEMMA KeptOn ==
    ASSUME NEW x, NEW y, NEW z, Kept(x, y), Kept(y, z) PROVE Kept(x, z)
  BY DEF Kept

\* Taking charge of the bus keeps the settings.
LEMMA InterfaceClearKeeps ==
    ASSUME NEW x \in Chips PROVE Kept(x, InterfaceClear(x))
  BY DEF Kept, Recorded, InterfaceClear, Written, Chips, Registers

LEMMA SetAtnKeeps ==
    ASSUME NEW x \in Chips, NEW on \in BOOLEAN PROVE Kept(x, SetAtn(x, on))
  BY DEF Kept, Recorded, SetAtn, Written, Chips, Registers

LEMMA RemoteEnableKeeps ==
    ASSUME NEW x \in Chips, NEW on \in BOOLEAN PROVE Kept(x, RemoteEnable(x, on))
  BY DEF Kept, Recorded, RemoteEnable, Written, Chips, Registers

LEMMA PassedOnKeeps ==
    ASSUME NEW x \in Chips
    PROVE  Kept(x, PassOn(x))
  BY DEF Kept, Recorded, PassOn, Written, Chips, Registers

\* The handshake mode is put in beside the EOS flags of the record, which are the chip's.
LEMMA HandshakeModeKeeps ==
    ASSUME NEW x \in Chips PROVE Kept(x, SetHandshakeMode(x, "HLDE"))
<1> DEFINE bits == (x.c.auxra \ HandshakeModes) \cup {"HLDE"}
<1>1. x.c \in Shadow /\ x.r \in Registers
  BY DEF Chips
<1>2. x.c.auxra \in SUBSET (HandshakeModes \cup EosFlags)
  BY <1>1 DEF Shadow
<1>3. bits \in SUBSET (HandshakeModes \cup EosFlags)
  BY <1>2 DEF HandshakeModes
<1>4. bits \cap EosFlags = x.c.auxra \cap EosFlags
  BY <1>2 DEF HandshakeModes, EosFlags
<1> HIDE DEF bits
<1>5. SetHandshakeMode(x, "HLDE") =
        [c |-> [x.c EXCEPT !.auxra = bits], r |-> Written(x.r, [x.r EXCEPT !.auxra = bits])]
  BY DEF SetHandshakeMode, WriteAuxra, bits
<1> QED
  BY <1>1, <1>3, <1>4, <1>5 DEF Kept, Recorded, Written, Chips, Registers, Shadow

------------------------------------------------------------------------------
(* How a chip comes out of its reset, and of being initialised *)

\* A reset that works takes the chip off the bus and forgets all but REN and, in a chip
\* that keeps it, the system controller.
LEMMA ResetFacts ==
    ASSUME NEW x \in Chips, NEW k \in BOOLEAN
    PROVE  LET y == Reset(x, k) IN
           /\ y \in Chips /\ y.c = x.c /\ y.r.here = x.r.here
           /\ x.r.here => /\ y.r.pon /\ ~y.r.cic /\ ~y.r.atn
                          /\ (y.r.sc <=> k /\ x.r.sc) /\ y.r.ren = x.r.ren
<1> DEFINE kept == k /\ x.r.sc
           new  == [PowerUp EXCEPT !.sc = kept, !.ren = x.r.ren]
<1>1. x.c \in Shadow /\ x.r \in Registers /\ x = [c |-> x.c, r |-> x.r]
  BY DEF Chips
<1>2. x.r.ren \in BOOLEAN /\ x.r.here \in BOOLEAN
  BY <1>1 DEF Registers
<1>3. Reset(x, k) = [c |-> x.c, r |-> IF x.r.here THEN new ELSE x.r]
  BY <1>1 DEF Reset, Written
<1>4. kept \in BOOLEAN
  OBVIOUS
<1>5. PowerUp \in Registers
  BY DEF PowerUp, SlowT1, Speeds, Registers
<1> HIDE DEF kept
<1>6. new \in Registers
  BY <1>2, <1>4, <1>5 DEF Registers
<1>7. new.here = TRUE /\ new.pon /\ ~new.cic /\ ~new.atn /\ new.sc = kept /\ new.ren = x.r.ren
  BY <1>2, <1>4 DEF PowerUp
<1> HIDE DEF new
<1>8. kept <=> k /\ x.r.sc
  BY DEF kept
<1>9. CASE x.r.here
  <2>1. Reset(x, k) = [c |-> x.c, r |-> new]
    BY <1>3, <1>9
  <2>2. Reset(x, k) \in Chips
    BY <1>1, <1>6, <2>1 DEF Chips
  <2>3. (new.sc <=> k /\ x.r.sc)
    BY <1>7, <1>8
  <2>4. x.r.here = TRUE
    BY <1>2, <1>9
  <2>5. Reset(x, k).c = x.c /\ Reset(x, k).r = new
    BY <2>1
  <2> QED
    BY <1>7, <2>2, <2>3, <2>4, <2>5
<1>10. CASE ~x.r.here
  <2>1. Reset(x, k) = x
    BY <1>1, <1>3, <1>10
  <2> QED
    BY <1>10, <2>1
<1> QED
  BY <1>9, <1>10

------------------------------------------------------------------------------
(* The setters *)

\* y differs from x in settings alone.
Set(x, y) ==
    /\ y \in Chips /\ y.r.here = x.r.here /\ y.r.sc = x.r.sc
    /\ y.r.pon = x.r.pon /\ y.r.cic = x.r.cic /\ y.r.atn = x.r.atn /\ y.r.ren = x.r.ren

LEMMA SetAddressFacts ==
    ASSUME NEW x \in Chips, NEW pad \in 0 .. 30, NEW sad \in -1 .. 30
    PROVE  LET y == SetAddress(x, pad, sad) IN
           /\ Set(x, y)
           /\ y.c.timeout = x.c.timeout /\ y.c.t1 = x.c.t1 /\ y.c.auxra = x.c.auxra
           /\ y.r.auxra = x.r.auxra /\ y.r.eosr = x.r.eosr /\ y.r.speed = x.r.speed
           /\ x.r.here => y.r.adr0 = pad /\ y.r.adr1 = sad
<1> DEFINE admr == IF sad < 0 THEN 1 ELSE 2
           record == [x.c EXCEPT !.pad = pad, !.sad = sad]
           regs   == [x.r EXCEPT !.adr0 = pad, !.adr1 = sad, !.admr = admr]
<1>1. SetAddress(x, pad, sad) = [c |-> record, r |-> Written(x.r, regs)]
  BY DEF SetAddress
<1>2. x.c \in Shadow /\ x.r \in Registers
  BY DEF Chips
<1>3. admr \in 0 .. 2
  OBVIOUS
<1> HIDE DEF admr
<1>4. record \in Shadow /\ record.timeout = x.c.timeout /\ record.t1 = x.c.t1
        /\ record.auxra = x.c.auxra
  BY <1>2 DEF Shadow
<1>5. regs \in Registers
  BY <1>2, <1>3 DEF Registers
<1>6. /\ regs.here = x.r.here /\ regs.sc = x.r.sc /\ regs.pon = x.r.pon
      /\ regs.cic = x.r.cic /\ regs.atn = x.r.atn /\ regs.ren = x.r.ren
      /\ regs.auxra = x.r.auxra /\ regs.eosr = x.r.eosr /\ regs.speed = x.r.speed
      /\ regs.adr0 = pad /\ regs.adr1 = sad
  BY <1>2 DEF Registers
<1>7. Written(x.r, regs) = IF x.r.here THEN regs ELSE x.r
  BY DEF Written
<1> HIDE DEF regs, record
<1> QED
  BY <1>1, <1>2, <1>4, <1>5, <1>6, <1>7 DEF Set, Chips

LEMMA SetT1Facts ==
    ASSUME NEW x \in Chips, NEW ns \in Nat
    PROVE  LET y == SetT1(x, ns) IN
           /\ Set(x, y)
           /\ y.c.timeout = x.c.timeout /\ y.c.auxra = x.c.auxra
           /\ y.r.auxra = x.r.auxra /\ y.r.eosr = x.r.eosr
           /\ y.r.adr0 = x.r.adr0 /\ y.r.adr1 = x.r.adr1
           /\ x.r.here => y.r.speed = SpeedOf(ns)
<1> DEFINE tri  == ns <= 500
           ustd == ns > 500 /\ ns <= 1100
           speed == [tri |-> tri, ustd |-> ustd, mstd |-> ns <= 350]
           record == [x.c EXCEPT !.t1 = ns, !.tri = tri, !.ustd = ustd]
           regs   == [x.r EXCEPT !.speed = speed]
<1>1. SetT1(x, ns) = [c |-> record, r |-> Written(x.r, regs)]
  BY DEF SetT1
<1>2. x.c \in Shadow /\ x.r \in Registers
  BY DEF Chips
<1>3. speed \in Speeds /\ tri \in BOOLEAN /\ ustd \in BOOLEAN
  BY DEF Speeds
<1>8. speed = SpeedOf(ns)
  BY DEF SpeedOf
<1> HIDE DEF tri, ustd, speed
<1>4. record \in Shadow /\ record.timeout = x.c.timeout /\ record.auxra = x.c.auxra
  BY <1>2, <1>3 DEF Shadow
<1>5. regs \in Registers
  BY <1>2, <1>3 DEF Registers
<1>6. /\ regs.here = x.r.here /\ regs.sc = x.r.sc /\ regs.pon = x.r.pon
      /\ regs.cic = x.r.cic /\ regs.atn = x.r.atn /\ regs.ren = x.r.ren
      /\ regs.auxra = x.r.auxra /\ regs.eosr = x.r.eosr
      /\ regs.adr0 = x.r.adr0 /\ regs.adr1 = x.r.adr1 /\ regs.speed = speed
  BY <1>2 DEF Registers
<1>7. Written(x.r, regs) = IF x.r.here THEN regs ELSE x.r
  BY DEF Written
<1> HIDE DEF regs, record
<1> QED
  BY <1>1, <1>2, <1>4, <1>5, <1>6, <1>7, <1>8 DEF Set, Chips

LEMMA WriteAuxraFacts ==
    ASSUME NEW x \in Chips, NEW bits \in SUBSET (HandshakeModes \cup EosFlags)
    PROVE  LET y == WriteAuxra(x, bits) IN
           /\ Set(x, y) /\ Recorded(y) /\ y.c.timeout = x.c.timeout /\ y.c.t1 = x.c.t1
           /\ y.r.adr0 = x.r.adr0 /\ y.r.adr1 = x.r.adr1 /\ y.r.speed = x.r.speed
           /\ y.r.eosr = x.r.eosr /\ (x.r.here => y.r.auxra = bits)
<1>1. x.c \in Shadow /\ x.r \in Registers
  BY DEF Chips
<1> QED
  BY <1>1 DEF Set, Recorded, WriteAuxra, Written, Chips, Registers, Shadow

LEMMA SetTimeoutFacts ==
    ASSUME NEW x \in Chips, NEW ms \in Nat
    PROVE  LET y == SetTimeout(x, ms) IN
           y \in Chips /\ y.r = x.r /\ y.c = [x.c EXCEPT !.timeout = ms]
  BY DEF SetTimeout, Chips, Shadow

LEMMA SetEosFacts ==
    ASSUME NEW x \in Chips, NEW eos \in Nat, NEW flags \in SUBSET EosFlags
    PROVE  LET y == SetEos(x, eos, flags) IN
           /\ Set(x, y) /\ Recorded(y) /\ y.c.timeout = x.c.timeout
           /\ y.r.adr0 = x.r.adr0 /\ y.r.adr1 = x.r.adr1 /\ y.r.speed = x.r.speed
           /\ x.r.here => y.r.eosr = eos /\ y.r.auxra \cap EosFlags = flags
<1> DEFINE y    == [x EXCEPT !.r = Written(@, [x.r EXCEPT !.eosr = eos])]
           bits == (x.c.auxra \ EosFlags) \cup flags
<1>1. y \in Chips /\ Set(x, y) /\ y.c = x.c /\ y.r.adr0 = x.r.adr0 /\ y.r.adr1 = x.r.adr1
        /\ y.r.speed = x.r.speed /\ (x.r.here => y.r.eosr = eos)
  BY DEF Set, Written, Chips, Registers
<1>2. bits \in SUBSET (HandshakeModes \cup EosFlags)
  BY DEF Chips, Shadow
<1>3. bits \cap EosFlags = flags
  OBVIOUS
<1>4. SetEos(x, eos, flags) = WriteAuxra(y, bits)
  BY DEF SetEos
<1> HIDE DEF y, bits
<1> QED
  BY <1>1, <1>2, <1>3, <1>4, WriteAuxraFacts DEF Set

\* An initialised chip is system controller, with the address given and every other
\* setting at its default.
LEMMA OnlineFacts ==
    ASSUME NEW x \in Chips, NEW pad \in 0 .. 30
    PROVE  LET y == Online(x, pad) IN
           /\ y \in Chips /\ y.c.timeout = x.c.timeout /\ Recorded(y) /\ y.r.here = x.r.here
           /\ x.r.here => /\ y.r.sc /\ y.r.eosr = 0 /\ y.r.auxra \cap EosFlags = {}
                          /\ y.r.adr0 = pad /\ y.r.adr1 = -1 /\ y.r.speed = SpeedOf(x.c.t1)
<1> DEFINE a == WriteAuxra(x, {"HLDA"})
           slow == [a.r EXCEPT !.speed = SlowT1]
           b == [a EXCEPT !.c.tri = FALSE, !.c.ustd = FALSE, !.r = Written(@, slow)]
           d == SetAddress(b, pad, -1)
           on == [d.r EXCEPT !.eosr = 0, !.pon = FALSE]
           e == [d EXCEPT !.r = Written(@, on)]
           f == SetT1(e, e.c.t1)
           lead == [f.r EXCEPT !.sc = TRUE]
           y == [f EXCEPT !.r = Written(@, lead)]
<1>1. y = Online(x, pad)
  BY DEF Online
<1>2. {"HLDA"} \in SUBSET (HandshakeModes \cup EosFlags)
  BY DEF HandshakeModes
<1>3. {"HLDA"} \cap EosFlags = {}
  BY DEF EosFlags
<1>4. /\ a \in Chips /\ a.c.timeout = x.c.timeout /\ a.c.t1 = x.c.t1
      /\ a.r.here = x.r.here /\ Recorded(a) /\ (x.r.here => a.r.auxra = {"HLDA"})
  BY <1>2, WriteAuxraFacts DEF Set
<1> HIDE DEF a
<1>5. b \in Chips /\ b.c.timeout = a.c.timeout /\ b.c.t1 = a.c.t1 /\ b.c.auxra = a.c.auxra
        /\ b.r.here = a.r.here /\ b.r.auxra = a.r.auxra
  <2>1. a.c \in Shadow /\ a.r \in Registers /\ SlowT1 \in Speeds
    BY <1>4 DEF Chips, SlowT1, Speeds
  <2>2. slow \in Registers /\ slow.here = a.r.here /\ slow.auxra = a.r.auxra
    BY <2>1 DEF Registers
  <2>3. b.c = [a.c EXCEPT !.tri = FALSE, !.ustd = FALSE] /\ b.r = Written(a.r, slow)
    BY <1>4 DEF Chips
  <2>4. b \in [c : {b.c}, r : {b.r}]
    BY <1>4 DEF Chips
  <2> HIDE DEF slow, b
  <2>5. b.c \in Shadow /\ b.c.timeout = a.c.timeout /\ b.c.t1 = a.c.t1
          /\ b.c.auxra = a.c.auxra
    BY <2>1, <2>3 DEF Shadow
  <2>6. b.r \in Registers /\ b.r.here = a.r.here /\ b.r.auxra = a.r.auxra
    BY <2>1, <2>2, <2>3 DEF Written
  <2> QED
    BY <2>4, <2>5, <2>6 DEF Chips
<1> HIDE DEF slow, b
<1>6. /\ d \in Chips /\ d.c.timeout = b.c.timeout /\ d.c.t1 = b.c.t1 /\ d.c.auxra = b.c.auxra
      /\ d.r.here = b.r.here /\ d.r.auxra = b.r.auxra
      /\ b.r.here => d.r.adr0 = pad /\ d.r.adr1 = -1
  <2>1. -1 \in -1 .. 30
    OBVIOUS
  <2>2. /\ Set(b, d) /\ d.c.timeout = b.c.timeout /\ d.c.t1 = b.c.t1
        /\ d.c.auxra = b.c.auxra /\ d.r.auxra = b.r.auxra
        /\ b.r.here => d.r.adr0 = pad /\ d.r.adr1 = -1
    BY <1>5, <2>1, SetAddressFacts, ZenonT(30)
  <2> HIDE DEF d
  <2>3. d \in Chips /\ d.r.here = b.r.here
    BY <2>2 DEF Set
  <2> QED
    BY <2>2, <2>3
<1> HIDE DEF d
<1>7. e \in Chips /\ e.c = d.c /\ e.r.here = d.r.here /\ e.r.auxra = d.r.auxra
        /\ e.r.adr0 = d.r.adr0 /\ e.r.adr1 = d.r.adr1 /\ (d.r.here => e.r.eosr = 0)
  <2>1. d.r \in Registers
    BY <1>6 DEF Chips
  <2>2. on \in Registers /\ on.here = d.r.here /\ on.auxra = d.r.auxra
          /\ on.adr0 = d.r.adr0 /\ on.adr1 = d.r.adr1 /\ on.eosr = 0
    BY <2>1 DEF Registers
  <2> HIDE DEF on
  <2> QED
    BY <1>6, <2>1, <2>2 DEF Chips, Written
<1> HIDE DEF on, e
<1>8. e.c.t1 \in Nat /\ e.c.t1 = x.c.t1
  BY <1>4, <1>5, <1>6, <1>7 DEF Chips, Shadow
<1>9. /\ f \in Chips /\ f.c.timeout = e.c.timeout /\ f.c.auxra = e.c.auxra
      /\ f.r.here = e.r.here /\ f.r.auxra = e.r.auxra /\ f.r.eosr = e.r.eosr
      /\ f.r.adr0 = e.r.adr0 /\ f.r.adr1 = e.r.adr1
      /\ e.r.here => f.r.speed = SpeedOf(x.c.t1)
  BY <1>7, <1>8, SetT1Facts DEF Set
<1> HIDE DEF f
<1>10. /\ y \in Chips /\ y.c = f.c
       /\ y.r.here = f.r.here /\ y.r.auxra = f.r.auxra /\ y.r.eosr = f.r.eosr
       /\ y.r.adr0 = f.r.adr0 /\ y.r.adr1 = f.r.adr1 /\ y.r.speed = f.r.speed
       /\ f.r.here => y.r.sc
  <2>1. f.r \in Registers
    BY <1>9 DEF Chips
  <2>2. lead \in Registers /\ lead.here = f.r.here /\ lead.auxra = f.r.auxra
          /\ lead.eosr = f.r.eosr /\ lead.adr0 = f.r.adr0 /\ lead.adr1 = f.r.adr1
          /\ lead.speed = f.r.speed /\ lead.sc = TRUE
    BY <2>1 DEF Registers
  <2> HIDE DEF lead
  <2> QED
    BY <1>9, <2>1, <2>2 DEF Chips, Written
<1> HIDE DEF lead, y
<1> QED
  BY <1>1, <1>3, <1>4, <1>5, <1>6, <1>7, <1>9, <1>10 DEF Recorded

\* tnt_init fails just for a chip that is still system controller after the reset, and
\* such a chip stays off the bus.
LEMMA InitialiseFacts ==
    ASSUME NEW x \in Chips, NEW pad \in 0 .. 30, NEW k \in BOOLEAN
    PROVE  LET i == Initialise(x, pad, k)
               y == i.x
           IN  /\ i.ok \in BOOLEAN /\ y \in Chips
               /\ y.c.timeout = x.c.timeout /\ y.r.here = x.r.here
               /\ i.ok => Recorded(y)
               /\ i.ok /\ x.r.here =>
                     /\ y.r.sc /\ y.r.eosr = 0 /\ y.r.auxra \cap EosFlags = {}
                     /\ y.r.adr0 = pad /\ y.r.adr1 = -1 /\ y.r.speed = SpeedOf(x.c.t1)
               /\ ~i.ok /\ x.r.here => k /\ x.r.sc /\ y.r.pon /\ ~y.r.cic /\ ~y.r.atn
<1> DEFINE z == Reset(x, k)
<1>1. Initialise(x, pad, k) = [x |-> IF ProbeOk(z) THEN Online(z, pad) ELSE z, ok |-> ProbeOk(z)]
  BY DEF Initialise
<1>2. /\ z \in Chips /\ z.c = x.c /\ z.r.here = x.r.here
      /\ x.r.here => z.r.pon /\ ~z.r.cic /\ ~z.r.atn /\ (z.r.sc <=> k /\ x.r.sc)
  BY ResetFacts
<1> HIDE DEF z
<1>3. ProbeOk(z) \in BOOLEAN
  BY DEF ProbeOk
<1>4. CASE ProbeOk(z)
  <2>1. Initialise(x, pad, k).x = Online(z, pad)
    BY <1>1, <1>4
  <2>2. Initialise(x, pad, k).ok = TRUE
    BY <1>1, <1>3, <1>4
  <2>3. LET y == Online(z, pad) IN
        /\ y \in Chips /\ y.c.timeout = z.c.timeout /\ y.r.here = z.r.here /\ Recorded(y)
        /\ z.r.here => /\ y.r.sc /\ y.r.eosr = 0 /\ y.r.auxra \cap EosFlags = {}
                       /\ y.r.adr0 = pad /\ y.r.adr1 = -1 /\ y.r.speed = SpeedOf(z.c.t1)
    BY <1>2, OnlineFacts
  <2> QED
    BY <1>2, <2>1, <2>2, <2>3
<1>5. CASE ~ProbeOk(z)
  <2>1. Initialise(x, pad, k).x = z
    BY <1>1, <1>5
  <2>2. Initialise(x, pad, k).ok = FALSE
    BY <1>1, <1>3, <1>5
  <2>3. z.r.sc
    BY <1>5 DEF ProbeOk
  <2> QED
    BY <1>2, <2>1, <2>2, <2>3
<1> QED
  BY <1>4, <1>5

\* The four setters of SET_CONFIG one after the other: each leaves what the others set.
LEMMA AppliedFacts ==
    ASSUME NEW x \in Chips, NEW new \in Configs, InRange(new)
    PROVE  LET y == Applied(x, new) IN
           /\ Set(x, y) /\ Recorded(y) /\ y.c.timeout = new.timeout
           /\ x.r.here => /\ y.r.eosr = new.eos % 256 /\ y.r.auxra \cap EosFlags = new.flags
                          /\ y.r.adr0 = new.pad /\ y.r.adr1 = new.sad
                          /\ y.r.speed = SpeedOf(new.t1)
<1> DEFINE a == SetTimeout(x, new.timeout)
           b == SetT1(a, new.t1)
           d == SetAddress(b, new.pad, new.sad)
           y == SetEos(d, new.eos % 256, new.flags)
<1>1. /\ new.timeout \in Nat /\ new.t1 \in Nat /\ new.pad \in 0 .. 30 /\ new.sad \in -1 .. 30
      /\ new.eos \in Nat /\ new.flags \in SUBSET EosFlags
  BY IoctlAssumption DEF InRange
<1>2. new.eos % 256 \in Nat
  BY <1>1
<1>3. y = Applied(x, new)
  BY DEF Applied
<1>4. a \in Chips /\ a.r = x.r /\ a.c.timeout = new.timeout
  <2>1. a \in Chips /\ a.r = x.r /\ a.c = [x.c EXCEPT !.timeout = new.timeout]
    BY <1>1, SetTimeoutFacts
  <2> HIDE DEF a
  <2> QED
    BY <2>1 DEF Chips, Shadow
<1> HIDE DEF a
<1>5. /\ Set(a, b) /\ b.c.timeout = a.c.timeout
      /\ a.r.here => b.r.speed = SpeedOf(new.t1)
  BY <1>1, <1>4, SetT1Facts
<1> HIDE DEF b
<1>6. b \in Chips
  BY <1>5 DEF Set
<1>7. /\ Set(b, d) /\ d.c.timeout = b.c.timeout /\ d.r.speed = b.r.speed
      /\ b.r.here => d.r.adr0 = new.pad /\ d.r.adr1 = new.sad
  BY <1>1, <1>6, SetAddressFacts
<1> HIDE DEF d
<1>8. d \in Chips
  BY <1>7 DEF Set
<1>9. /\ Set(d, y) /\ Recorded(y) /\ y.c.timeout = d.c.timeout
      /\ y.r.adr0 = d.r.adr0 /\ y.r.adr1 = d.r.adr1 /\ y.r.speed = d.r.speed
      /\ d.r.here => y.r.eosr = new.eos % 256 /\ y.r.auxra \cap EosFlags = new.flags
  BY <1>1, <1>2, <1>8, SetEosFacts
<1> HIDE DEF y
<1>10. Set(x, y)
  BY <1>4, <1>5, <1>7, <1>9 DEF Set
<1>11. a.r.here = x.r.here /\ b.r.here = x.r.here /\ d.r.here = x.r.here
  BY <1>4, <1>5, <1>7 DEF Set
<1> QED
  BY <1>3, <1>4, <1>5, <1>7, <1>9, <1>10, <1>11

------------------------------------------------------------------------------
(* What the bus calls leave *)

LEMMA ClearKeeps ==
    ASSUME NEW x \in Chips PROVE Kept(x, Clear(x).x) /\ Clear(x).status \in Replies
  BY KeptItself, InterfaceClearKeeps DEF Clear, Replies

LEMMA EnsureCicKeeps ==
    ASSUME NEW x \in Chips PROVE Kept(x, EnsureCic(x).x) /\ EnsureCic(x).status \in Replies
  BY KeptItself, ClearKeeps DEF EnsureCic, Replies

\* Whatever a sequence did with ATN, the handshake mode and control, the settings are there.
LEMMA AfterSequenceKeeps ==
    ASSUME NEW x \in Chips, NEW k, NEW ok, NEW y \in AfterSequence(x, k, ok)
    PROVE  Kept(x, y)
<1> DEFINE Modes == {x} \cup (IF k \in {"read", "poll"} THEN {SetHandshakeMode(x, "HLDE")} ELSE {})
           moded == {SetAtn(m, on) : on \in BOOLEAN, m \in Modes}
<1>1. \A m \in Modes : Kept(x, m)
  BY KeptItself, HandshakeModeKeeps
<1>2. \A m \in moded : Kept(x, m)
  <2>1. ASSUME NEW m \in Modes, NEW on \in BOOLEAN PROVE Kept(x, SetAtn(m, on))
    <3>1. Kept(x, m) /\ m \in Chips
      BY <1>1 DEF Kept
    <3> QED
      BY <3>1, SetAtnKeeps, KeptOn
  <2> QED
    BY <2>1
<1>3. AfterSequence(x, k, ok) = IF k = "pass" /\ ok THEN {PassOn(m) : m \in moded} ELSE moded
  BY DEF AfterSequence
<1> HIDE DEF moded
<1>4. ASSUME NEW m \in moded PROVE Kept(x, PassOn(m))
  <2>1. Kept(x, m) /\ m \in Chips
    BY <1>2 DEF Kept
  <2>2. Kept(m, PassOn(m))
    BY <2>1, PassedOnKeeps
  <2> QED
    BY <2>1, <2>2, KeptOn
<1> QED
  BY <1>2, <1>3, <1>4

------------------------------------------------------------------------------
(* The invariant *)

New == [c |-> c', r |-> r']

Handles == (current # "closed" => up) /\ (chipOk => up)

\* A chip that works is system controller, and its record is true, unless registers were
\* written past the driver, which takes a card.
Working ==
    /\ raw => r.here
    /\ chipOk /\ r.here /\ ~raw => r.sc /\ Recorded(State)

IoctlInv == TypeOK /\ Handles /\ Working /\ ReadyUnlessProbedAgain /\ OffTheBus

LEMMA BringupFacts ==
    ASSUME NEW cfg \in Config, NEW regs \in Registers, keepsSC \in BOOLEAN, Bringup(cfg, regs)
    PROVE  /\ chipOk' \in BOOLEAN /\ c' \in Shadow /\ r' \in Registers
           /\ r'.here = regs.here /\ c'.timeout = cfg.timeout
           /\ chipOk' => Recorded(New)
           /\ chipOk' /\ regs.here =>
                 /\ r'.sc /\ r'.eosr = 0 /\ r'.auxra \cap EosFlags = {}
                 /\ r'.adr0 = cfg.pad /\ r'.adr1 = -1 /\ r'.speed = SlowT1
           /\ ~chipOk' /\ regs.here => keepsSC /\ regs.sc /\ r'.pon /\ ~r'.cic /\ ~r'.atn
<1> DEFINE given == [c |-> Bound, r |-> regs]
           reset == Reset(given, keepsSC)
           init  == Initialise(reset, cfg.pad, keepsSC)
           x     == SetTimeout(init.x, cfg.timeout)
<1>1. chipOk' = init.ok /\ ChipIs(IF init.ok THEN InterfaceClear(x) ELSE x)
  BY DEF Bringup
<1>2. cfg.pad \in 0 .. 30 /\ cfg.timeout \in Nat
  BY DEF Config
<1>3. given \in Chips /\ given.r = regs /\ given.c.t1 = 2000
  <2>1. Bound \in Shadow /\ Bound.t1 = 2000
    BY IoctlAssumption DEF Bound, Shadow, HandshakeModes
  <2> QED
    BY <2>1 DEF Chips
<1> HIDE DEF given
<1>4. /\ reset \in Chips /\ reset.c = given.c /\ reset.r.here = regs.here
      /\ regs.here => (reset.r.sc <=> keepsSC /\ regs.sc)
  BY <1>3, ResetFacts
<1> HIDE DEF reset
<1>5. /\ init.ok \in BOOLEAN /\ init.x \in Chips
      /\ init.x.c.timeout = reset.c.timeout /\ init.x.r.here = reset.r.here
      /\ init.ok => Recorded(init.x)
      /\ init.ok /\ reset.r.here =>
            /\ init.x.r.sc /\ init.x.r.eosr = 0 /\ init.x.r.auxra \cap EosFlags = {}
            /\ init.x.r.adr0 = cfg.pad /\ init.x.r.adr1 = -1
            /\ init.x.r.speed = SpeedOf(reset.c.t1)
      /\ ~init.ok /\ reset.r.here =>
            keepsSC /\ reset.r.sc /\ init.x.r.pon /\ ~init.x.r.cic /\ ~init.x.r.atn
  BY <1>2, <1>4, InitialiseFacts
<1> HIDE DEF init
<1>6. x \in Chips /\ x.r = init.x.r /\ x.c = [init.x.c EXCEPT !.timeout = cfg.timeout]
  BY <1>2, <1>5, SetTimeoutFacts
<1> HIDE DEF x
<1>7. x.c.timeout = cfg.timeout /\ x.c.auxra = init.x.c.auxra
  BY <1>5, <1>6 DEF Chips, Shadow
<1>8. SpeedOf(2000) = SlowT1
  <2> DEFINE ns == 2000
             tri == ns <= 500
             ustd == ns > 500 /\ ns <= 1100
             mstd == ns <= 350
  <2>1. tri = FALSE /\ ustd = FALSE /\ mstd = FALSE
    OBVIOUS
  <2>2. SpeedOf(ns) = [tri |-> tri, ustd |-> ustd, mstd |-> mstd]
    BY Zenon DEF SpeedOf
  <2> HIDE DEF tri, ustd, mstd
  <2> QED
    BY <2>1, <2>2 DEF SlowT1
<1>9. CASE init.ok
  <2>1. c' = InterfaceClear(x).c /\ r' = InterfaceClear(x).r /\ chipOk'
    BY <1>1, <1>9 DEF ChipIs
  <2>2. Kept(x, InterfaceClear(x)) /\ InterfaceClear(x) \in Chips
    BY <1>6, InterfaceClearKeeps DEF Kept
  <2>3. New = InterfaceClear(x)
    BY <2>1, <2>2 DEF New, Chips
  <2>4. Recorded(x)
    BY <1>5, <1>6, <1>7, <1>9 DEF Recorded
  <2> QED
    BY <1>3, <1>4, <1>5, <1>6, <1>7, <1>8, <1>9, <2>1, <2>2, <2>3, <2>4 DEF Kept, Chips
<1>10. CASE ~init.ok
  <2>1. c' = x.c /\ r' = x.r /\ ~chipOk' /\ chipOk' \in BOOLEAN
    BY <1>1, <1>5, <1>10 DEF ChipIs
  <2> QED
    BY <1>4, <1>5, <1>6, <1>7, <1>10, <2>1 DEF Chips
<1> QED
  BY <1>9, <1>10

\* What every call shares: it is made on an open handle of a loaded driver.
quiet == UNCHANGED <<up, card, keepsSC, present, config>>

\* The promise sees nothing, or settings that change after such a write.
Still    == UNCHANGED <<Asked, InEffect, Works, up, r.here, probes, raw>>
Promised == Still \/ Promise!Written

LEMMA StateFacts ==
    ASSUME TypeOK PROVE State \in Chips /\ State.c = c /\ State.r = r
  BY DEF TypeOK, State, Chips

\* Settings of a driver in a well typed state are settings the promise speaks of.
LEMMA AskedTyped ==
    ASSUME NEW cfg \in Config
    PROVE  SettingsOf(cfg.timeout, Eos(cfg.eos % 256, cfg.flags), cfg.pad,
                      <<cfg.sad, SpeedOf(cfg.t1)>>) \in Promise!Settings
<1>1. cfg.eos % 256 \in Nat
  BY DEF Config
<1>2. SpeedOf(cfg.t1) \in Speeds
  BY DEF SpeedOf, Speeds
<1>3. Eos(cfg.eos % 256, cfg.flags) \in Nat \X SUBSET EosFlags
  BY <1>1 DEF Eos, Config
<1>4. <<cfg.sad, SpeedOf(cfg.t1)>> \in (-1 .. 30) \X Speeds
  BY <1>2 DEF Config
<1> QED
  BY <1>3, <1>4 DEF SettingsOf, Config, Promise!Settings

\* So are those its chip runs with.
LEMMA InEffectTyped ==
    ASSUME NEW x \in Chips, NEW works
    PROVE  (IF works
            THEN SettingsOf(x.c.timeout, Eos(x.r.eosr, x.r.auxra \cap EosFlags), x.r.adr0,
                            <<x.r.adr1, x.r.speed>>)
            ELSE SettingsOf(DefaultTimeout, Eos(0, {}), 0, <<-1, SlowT1>>)) \in Promise!Settings
<1>1. /\ x.c.timeout \in Nat /\ x.r.eosr \in Nat /\ x.r.adr0 \in 0 .. 30
      /\ x.r.adr1 \in -1 .. 30 /\ x.r.speed \in Speeds
  BY DEF Chips, Shadow, Registers
<1>2. DefaultTimeout \in Nat /\ SlowT1 \in Speeds
  BY IoctlAssumption DEF SlowT1, Speeds
<1> QED
  BY <1>1, <1>2 DEF SettingsOf, Eos, Promise!Settings

\* The last three conjuncts of the invariant, and the settings, survive a call that keeps
\* the chip's part, and one that leaves the chip alone.
LEMMA KeptStep ==
    ASSUME IoctlInv, chipOk, quiet, UNCHANGED <<chipOk, past>>,
           NEW x, Kept(State, x), ChipIs(x)
    PROVE  /\ c' \in Shadow /\ r' \in Registers
           /\ Working' /\ ReadyUnlessProbedAgain' /\ OffTheBus' /\ Promised
<1>1. State \in Chips /\ State.c = c /\ State.r = r
  BY StateFacts DEF IoctlInv
<1>2. x \in Chips /\ c' = x.c /\ r' = x.r
  BY DEF Kept, ChipIs
<1>3. State' = x
  BY <1>2 DEF State, Chips
<1>4. c' \in Shadow /\ r' \in Registers
  BY <1>2 DEF Chips
<1>5. chipOk' /\ chipOk' = chipOk /\ raw' = raw /\ probes' = probes /\ up' = up
  BY DEF past, quiet
<1>6. r'.here = r.here /\ r'.sc = r.sc
  BY <1>1, <1>2 DEF Kept
<1>7. Working'
  BY <1>1, <1>3, <1>5, <1>6 DEF Working, IoctlInv, Kept
<1>8. ReadyUnlessProbedAgain' /\ OffTheBus'
  BY <1>5 DEF ReadyUnlessProbedAgain, OffTheBus
<1>9. Asked' = Asked
  BY DEF quiet, Asked
<1>10. Works' = Works
  BY <1>5, <1>6 DEF Works
<1>11. c'.timeout = c.timeout /\ r'.eosr = r.eosr
         /\ r'.adr0 = r.adr0 /\ r'.adr1 = r.adr1 /\ r'.speed = r.speed
  BY <1>1, <1>2 DEF Kept
<1>12. ASSUME ~raw PROVE Promised
  <2>1. Works => r'.auxra \cap EosFlags = r.auxra \cap EosFlags
    BY <1>1, <1>2, <1>12 DEF Works, Kept, Working, IoctlInv
  <2>2. InEffect' = InEffect
    BY <1>10, <1>11, <2>1 DEF InEffect
  <2>3. UNCHANGED <<Asked, InEffect, Works, r.here, up, probes, raw>>
    BY <1>5, <1>6, <1>9, <1>10, <2>2
  <2> QED
    BY <2>3 DEF Promised, Still
<1>13. ASSUME raw PROVE Promised
  <2>1. r.here /\ raw'
    BY <1>5, <1>13 DEF IoctlInv, Working
  <2>2. x.c = c' /\ x.r = r'
    BY <1>2
  <2>3. InEffect' = IF Works'
                    THEN SettingsOf(x.c.timeout, Eos(x.r.eosr, x.r.auxra \cap EosFlags), x.r.adr0,
                                    <<x.r.adr1, x.r.speed>>)
                    ELSE SettingsOf(DefaultTimeout, Eos(0, {}), 0, <<-1, SlowT1>>)
    BY <2>2 DEF InEffect
  <2>4. InEffect' \in Promise!Settings
    BY <1>2, <2>3, InEffectTyped
  <2>5. InEffect'.timeout = InEffect.timeout
    BY <1>10, <1>11 DEF InEffect, SettingsOf
  <2>6. UNCHANGED <<Asked, Works, up, r.here, probes>>
    BY <1>5, <1>6, <1>9, <1>10
  <2> QED
    BY <2>1, <2>4, <2>5, <2>6 DEF Promised, Promise!Written
<1> QED
  BY <1>4, <1>7, <1>8, <1>12, <1>13

LEMMA StillStep ==
    ASSUME IoctlInv, quiet, UNCHANGED <<chipOk, past, chip>>
    PROVE  Working' /\ ReadyUnlessProbedAgain' /\ OffTheBus' /\ Promised
<1>1. UNCHANGED <<up, card, keepsSC, present, config, chipOk, again, probes, raw, c, r>>
  BY DEF quiet, chip, past
<1>2. Working'
  BY <1>1 DEF Working, State, IoctlInv
<1>3. ReadyUnlessProbedAgain' /\ OffTheBus'
  BY <1>1 DEF ReadyUnlessProbedAgain, OffTheBus, IoctlInv
<1>4. Promised
  BY <1>1 DEF Promised, Still, Asked, InEffect, Works
<1> QED
  BY <1>2, <1>3, <1>4

\* One or the other.
Harmless ==
    /\ quiet /\ current # "closed" /\ current' # "closed" /\ UNCHANGED <<chipOk, past>>
    /\ current' \in {"closed", "none", "device"} /\ reply' \in Replies
    /\ UNCHANGED chip \/ (chipOk /\ \E x \in Chips : Kept(State, x) /\ ChipIs(x))

LEMMA HarmlessStep ==
    ASSUME IoctlInv, Harmless PROVE IoctlInv' /\ Promised
<1>1. Working' /\ ReadyUnlessProbedAgain' /\ OffTheBus' /\ Promised
        /\ c' \in Shadow /\ r' \in Registers
  <2>1. CASE UNCHANGED chip
    BY <2>1, StillStep DEF Harmless, IoctlInv, TypeOK, chip
  <2>2. CASE chipOk /\ \E x \in Chips : Kept(State, x) /\ ChipIs(x)
    BY <2>2, KeptStep DEF Harmless
  <2> QED
    BY <2>1, <2>2 DEF Harmless
<1>2. Handles'
  BY DEF Harmless, quiet, Handles, IoctlInv
<1>3. TypeOK'
  BY <1>1 DEF Harmless, quiet, IoctlInv, TypeOK, past
<1> QED
  BY <1>1, <1>2, <1>3 DEF IoctlInv

\* Every call but SET_CONFIG and PROBE is one of these.
LEMMA AnswerHarmless ==
    ASSUME IoctlInv, NEW a \in Replies, Answer(a) PROVE Harmless
  BY DEF Answer, called, unconfigured, Harmless, quiet, IoctlInv, TypeOK

LEMMA RefuseHarmless ==
    ASSUME IoctlInv, Refuse PROVE Harmless
  BY AnswerHarmless DEF Refuse, Replies

LEMMA DoneHarmless ==
    ASSUME IoctlInv, called, unconfigured, NEW status \in Replies, PutResult(status),
           UNCHANGED chip \/ (chipOk /\ \E x \in Chips : Kept(State, x) /\ ChipIs(x))
    PROVE  Harmless
  BY DEF called, unconfigured, Harmless, quiet, IoctlInv, TypeOK, PutResult, Replies

LEMMA CallsHarmless ==
    ASSUME IoctlInv,
           \/ SetDevice \/ Ifc \/ Ren \/ Atn \/ NoDevice \/ RawOut \/ Look \/ Info
           \/ \E k \in Transfers : BusCall(k)
    PROVE  Harmless
<1>1. State \in Chips
  BY StateFacts DEF IoctlInv
<1>2. NotReady \in Replies /\ {"ok", "failed", "small", "refused", "NOTSC", "NOTCIC"} \subseteq Replies
  BY DEF NotReady, Replies
<1>3. CASE SetDevice
  BY <1>2, <1>3, RefuseHarmless DEF SetDevice, called, Harmless, quiet, chip
<1>4. CASE Ifc
  <2>1. Clear(State).status \in Replies /\ Kept(State, Clear(State).x) /\ Clear(State).x \in Chips
    BY <1>1, ClearKeeps DEF Kept
  <2> QED
    BY <1>2, <1>4, <2>1, DoneHarmless DEF Ifc, Ready
<1>5. CASE Ren
  <2>1. \A on \in BOOLEAN : Kept(State, RemoteEnable(State, on)) /\ RemoteEnable(State, on) \in Chips
    BY <1>1, RemoteEnableKeeps DEF Kept
  <2> QED
    BY <1>2, <1>5, <2>1, DoneHarmless, RefuseHarmless DEF Ren, Ready
<1>6. CASE Atn
  <2>1. \A on \in BOOLEAN : Kept(State, SetAtn(State, on)) /\ SetAtn(State, on) \in Chips
    BY <1>1, SetAtnKeeps DEF Kept
  <2> QED
    BY <1>2, <1>6, <2>1, DoneHarmless, RefuseHarmless DEF Atn, Ready
<1>7. CASE NoDevice
  BY <1>2, <1>7, AnswerHarmless DEF NoDevice
<1>8. CASE RawOut
  BY <1>2, <1>8, AnswerHarmless DEF RawOut, Refuse
<1>9. CASE Look \/ Info
  BY <1>2, <1>9, AnswerHarmless DEF Look, Info, Refuse
<1>10. ASSUME NEW k \in Transfers, BusCall(k) PROVE Harmless
  <2>1. CASE Refuse
    BY <2>1, RefuseHarmless
  <2>2. CASE called /\ unconfigured /\ ~Ready /\ UNCHANGED chip /\ PutResult(NotReady)
    BY <1>2, <2>2, DoneHarmless
  <2>3. CASE /\ called /\ unconfigured /\ Ready
             /\ LET cic == EnsureCic(State) IN
                IF cic.status # "ok" THEN ChipIs(cic.x) /\ PutResult(cic.status)
                ELSE \E ok \in BOOLEAN : \E x \in AfterSequence(cic.x, k, ok) :
                        ChipIs(x) /\ PutResult(IF ok /\ r.here THEN "ok" ELSE "failed")
    <3> DEFINE cic == EnsureCic(State)
    <3>1. cic.status \in Replies /\ Kept(State, cic.x)
      BY <1>1, EnsureCicKeeps
    <3> HIDE DEF cic
    <3>2. cic.x \in Chips /\ chipOk
      BY <2>3, <3>1 DEF Kept, Ready
    <3>5. CASE cic.status # "ok"
      BY <2>3, <3>1, <3>2, <3>5, DoneHarmless DEF cic
    <3>6. CASE cic.status = "ok"
      <4>1. PICK ok \in BOOLEAN : \E x \in AfterSequence(cic.x, k, ok) :
                ChipIs(x) /\ PutResult(IF ok /\ r.here THEN "ok" ELSE "failed")
        BY <2>3, <3>6 DEF cic
      <4>2. PICK x \in AfterSequence(cic.x, k, ok) :
                ChipIs(x) /\ PutResult(IF ok /\ r.here THEN "ok" ELSE "failed")
        BY <4>1
      <4>3. Kept(State, x) /\ x \in Chips
        <5>1. Kept(cic.x, x)
          BY <3>2, AfterSequenceKeeps
        <5> QED
          BY <3>1, <5>1, KeptOn DEF Kept
      <4>4. (IF ok /\ r.here THEN "ok" ELSE "failed") \in Replies
        BY <1>2
      <4> QED
        BY <2>3, <3>2, <4>2, <4>3, <4>4, DoneHarmless
    <3> QED
      BY <3>5, <3>6
  <2> QED
    BY <1>10, <2>1, <2>2, <2>3 DEF BusCall
<1> QED
  BY <1>3, <1>4, <1>5, <1>6, <1>7, <1>8, <1>9, <1>10

------------------------------------------------------------------------------
(* What changes the settings *)

LEMMA InitialSettings ==
    /\ Initial \in Config
    /\ config = Initial => Asked = Promise!Default
    /\ config' = Initial => Asked' = Promise!Default
<1>1. Initial \in Config
  BY IoctlAssumption DEF Initial, Config
<1>2. SpeedOf(2000) = SlowT1
  <2> DEFINE ns == 2000
             tri == ns <= 500
             ustd == ns > 500 /\ ns <= 1100
             mstd == ns <= 350
  <2>1. tri = FALSE /\ ustd = FALSE /\ mstd = FALSE
    OBVIOUS
  <2>2. SpeedOf(ns) = [tri |-> tri, ustd |-> ustd, mstd |-> mstd]
    BY Zenon DEF SpeedOf
  <2> HIDE DEF tri, ustd, mstd
  <2> QED
    BY <2>1, <2>2 DEF SlowT1
<1>3. 0 % 256 = 0
  OBVIOUS
<1>4. SettingsOf(DefaultTimeout, Eos(0, {}), 0, <<-1, SlowT1>>) = Promise!Default
  BY DEF SettingsOf, Promise!Default
<1> QED
  BY <1>1, <1>2, <1>3, <1>4 DEF Asked, Initial

\* The settings of a driver that does not work are the default ones.
LEMMA IdleSettings ==
    /\ ~Works => InEffect = Promise!Default
    /\ ~Works' => InEffect' = Promise!Default
  BY DEF InEffect, SettingsOf, Promise!Default

\* SET_CONFIG asks for new settings, and a chip that works takes them all.
LEMMA ConfiguredStep ==
    ASSUME IoctlInv, NEW new \in Configs, InRange(new), called, config' = new,
           ChipIs(IF chipOk THEN Applied(State, new) ELSE State),
           reply' = "ok", UNCHANGED <<chipOk, past, current>>
    PROVE  IoctlInv' /\ Promise!PromiseNext
<1> DEFINE y == Applied(State, new)
<1>1. State \in Chips /\ State.c = c /\ State.r = r
  BY StateFacts DEF IoctlInv
<1>2. /\ Set(State, y) /\ Recorded(y) /\ y.c.timeout = new.timeout
      /\ r.here => /\ y.r.eosr = new.eos % 256 /\ y.r.auxra \cap EosFlags = new.flags
                   /\ y.r.adr0 = new.pad /\ y.r.adr1 = new.sad /\ y.r.speed = SpeedOf(new.t1)
  BY <1>1, AppliedFacts
<1> HIDE DEF y
<1>3. UNCHANGED <<up, card, keepsSC, present, chipOk, again, probes, raw, current>>
        /\ current # "closed"
  BY DEF called, past
<1>4. new \in Config
  BY IoctlAssumption DEF InRange, Config
<1>5. CASE chipOk
  <2>1. c' = y.c /\ r' = y.r /\ y \in Chips
    BY <1>2, <1>5 DEF ChipIs, Set, y
  <2>2. State' = y /\ c' \in Shadow /\ r' \in Registers
    BY <2>1 DEF State, Chips
  <2>3. r'.here = r.here /\ r'.sc = r.sc
    BY <1>1, <1>2, <2>1 DEF Set
  <2>4. TypeOK'
    BY <1>3, <1>4, <2>2 DEF IoctlInv, TypeOK, Replies
  <2>5. Handles' /\ ReadyUnlessProbedAgain' /\ OffTheBus'
    BY <1>3, <1>5 DEF IoctlInv, Handles, ReadyUnlessProbedAgain, OffTheBus
  <2>6. Working'
    BY <1>2, <1>3, <2>2, <2>3 DEF IoctlInv, Working
  <2>7. Works' = Works
    BY <1>3, <2>3 DEF Works
  <2>8. Asked' \in Promise!Settings
    BY <1>4, AskedTyped DEF Asked
  <2>9. InEffect' = IF Works THEN Asked' ELSE InEffect
    <3>1. CASE Works
      BY <1>2, <2>1, <2>7, <3>1 DEF Works, InEffect, Asked
    <3>2. CASE ~Works
      BY <2>7, <3>2, IdleSettings
    <3> QED
      BY <3>1, <3>2
  <2> QED
    BY <1>3, <2>3, <2>4, <2>5, <2>6, <2>7, <2>8, <2>9
    DEF IoctlInv, Promise!PromiseNext, Promise!Set, Promise!Apply
<1>6. CASE ~chipOk
  <2>1. c' = c /\ r' = r
    BY <1>1, <1>6 DEF ChipIs
  <2>4. TypeOK'
    BY <1>3, <1>4, <2>1 DEF IoctlInv, TypeOK, Replies
  <2>5. Handles' /\ ReadyUnlessProbedAgain' /\ OffTheBus' /\ Working'
    BY <1>3, <1>6, <2>1 DEF IoctlInv, Handles, ReadyUnlessProbedAgain, OffTheBus, Working
  <2>7. ~Works /\ ~Works'
    BY <1>3, <1>6 DEF Works
  <2>8. Asked' \in Promise!Settings
    BY <1>4, AskedTyped DEF Asked
  <2>9. InEffect' = InEffect /\ Works' = Works
    BY <2>7, IdleSettings DEF Works
  <2> QED
    BY <1>3, <2>1, <2>4, <2>5, <2>7, <2>8, <2>9
    DEF IoctlInv, Promise!PromiseNext, Promise!Set, Promise!Apply
<1> QED
  BY <1>5, <1>6

\* A chip is brought up anew: whether it works or not it is as the invariant says.
LEMMA BroughtUp ==
    ASSUME TypeOK, NEW cfg \in Config, NEW regs \in Registers, Bringup(cfg, regs),
           config' = cfg, UNCHANGED <<card, keepsSC>>, present' \in BOOLEAN,
           up', again' \in BOOLEAN, probes' \in BOOLEAN, raw' = FALSE,
           current' \in {"closed", "none", "device"},
           reply' \in Replies,
           keepsSC /\ regs.sc /\ regs.here => again'
    PROVE  /\ IoctlInv' /\ r'.here = regs.here
           /\ Works' \in BOOLEAN
           /\ Works' => /\ c'.timeout = cfg.timeout /\ r'.eosr = 0 /\ r'.auxra \cap EosFlags = {}
                        /\ r'.adr0 = cfg.pad /\ r'.adr1 = -1 /\ r'.speed = SlowT1
<1>1. /\ chipOk' \in BOOLEAN /\ c' \in Shadow /\ r' \in Registers
      /\ r'.here = regs.here /\ c'.timeout = cfg.timeout
      /\ chipOk' => Recorded(New)
      /\ chipOk' /\ regs.here =>
            /\ r'.sc /\ r'.eosr = 0 /\ r'.auxra \cap EosFlags = {}
            /\ r'.adr0 = cfg.pad /\ r'.adr1 = -1 /\ r'.speed = SlowT1
      /\ ~chipOk' /\ regs.here => keepsSC /\ regs.sc /\ r'.pon /\ ~r'.cic /\ ~r'.atn
  BY BringupFacts DEF TypeOK
<1>2. TypeOK'
  BY <1>1 DEF TypeOK
<1>3. Handles'
  BY DEF Handles
<1>4. Working'
  BY <1>1 DEF Working, New, State
<1>5. ReadyUnlessProbedAgain' /\ OffTheBus'
  BY <1>1 DEF ReadyUnlessProbedAgain, OffTheBus
<1>6. Works' \in BOOLEAN
  BY DEF Works
<1> QED
  BY <1>1, <1>2, <1>3, <1>4, <1>5, <1>6 DEF IoctlInv, Works

\* Of the settings a chip that is probed again has the address and the timeout.
LEMMA ProbeStep ==
    ASSUME IoctlInv, present, called, Bringup(config, r), again' = TRUE, probes' = ~probes,
           raw' = FALSE, reply' = "ok", UNCHANGED <<config, current>>
    PROVE  IoctlInv' /\ Promise!PromiseNext
<1>1. config \in Config /\ r \in Registers /\ TypeOK
  BY DEF IoctlInv, TypeOK
<1>2. /\ UNCHANGED <<card, keepsSC>> /\ present' \in BOOLEAN /\ up' /\ again' \in BOOLEAN
      /\ probes' \in BOOLEAN /\ probes' # probes /\ up' = up
      /\ current' \in {"closed", "none", "device"} /\ reply' \in Replies /\ again'
  BY DEF called, IoctlInv, TypeOK, Handles, Replies
<1>3. /\ IoctlInv' /\ r'.here = r.here
      /\ Works' \in BOOLEAN
      /\ Works' => /\ c'.timeout = config.timeout /\ r'.eosr = 0 /\ r'.auxra \cap EosFlags = {}
                   /\ r'.adr0 = config.pad /\ r'.adr1 = -1 /\ r'.speed = SlowT1
  BY <1>1, <1>2, BroughtUp
<1>4. Asked' = Asked
  BY DEF Asked
<1>5. Asked.pad = config.pad /\ Asked.timeout = config.timeout
  BY DEF Asked, SettingsOf
<1>6. InEffect' = IF Works'
                  THEN [timeout |-> Asked.timeout, eos |-> Eos(0, {}), pad |-> Asked.pad,
                        own |-> <<-1, SlowT1>>]
                  ELSE Promise!Default
  <2>1. CASE Works'
    <3>1. InEffect' = SettingsOf(config.timeout, Eos(0, {}), config.pad, <<-1, SlowT1>>)
      BY <1>3, <2>1 DEF InEffect
    <3> QED
      BY <1>5, <2>1, <3>1 DEF SettingsOf
  <2>2. CASE ~Works'
    BY <2>2, IdleSettings
  <2> QED
    BY <2>1, <2>2
<1> QED
  BY <1>2, <1>3, <1>4, <1>6 DEF Promise!PromiseNext, Promise!Probed, Promise!Reinitialise

\* A driver that is loaded starts from the defaults.
LEMMA LoadStep ==
    ASSUME IoctlInv, Load PROVE IoctlInv' /\ Promise!PromiseNext
<1>1. PICK regs \in Registers :
        /\ Bringup(Initial, regs) /\ again' \in BOOLEAN
        /\ keepsSC /\ regs.sc /\ regs.here => again'
  <2>1. CASE Bringup(Initial, PowerUp) /\ again' = FALSE
    <3>1. PowerUp \in Registers /\ PowerUp.sc = FALSE
      BY DEF PowerUp, SlowT1, Speeds, Registers
    <3> QED
      BY <2>1, <3>1
  <2>2. CASE r.here /\ Bringup(Initial, r) /\ UNCHANGED again
    <3>1. r \in Registers /\ again \in BOOLEAN
      BY DEF IoctlInv, TypeOK
    <3>2. ~chipOk
      BY DEF Load, IoctlInv, Handles
    <3>3. r.sc => again
      BY <2>2, <3>2 DEF IoctlInv, OffTheBus
    <3> QED
      BY <2>2, <3>1, <3>3
  <2> QED
    BY <2>1, <2>2 DEF Load
<1>2. Initial \in Config /\ Asked' = Promise!Default /\ TypeOK
  BY InitialSettings DEF Load, IoctlInv
<1>3. /\ UNCHANGED <<card, keepsSC>> /\ present' \in BOOLEAN /\ up' /\ config' = Initial
      /\ probes' \in BOOLEAN /\ probes' = probes /\ raw' = FALSE /\ up' # up
      /\ current' \in {"closed", "none", "device"} /\ reply' \in Replies
  BY DEF Load, IoctlInv, TypeOK, Replies
<1>4. /\ IoctlInv'
      /\ Works' \in BOOLEAN
      /\ Works' => /\ c'.timeout = Initial.timeout /\ r'.eosr = 0 /\ r'.auxra \cap EosFlags = {}
                   /\ r'.adr0 = Initial.pad /\ r'.adr1 = -1 /\ r'.speed = SlowT1
  BY <1>1, <1>2, <1>3, BroughtUp
<1>5. InEffect' = Promise!Default
  <2>1. CASE Works'
    <3>1. Initial.timeout = DefaultTimeout /\ Initial.pad = 0
      BY DEF Initial
    <3>2. InEffect' = SettingsOf(DefaultTimeout, Eos(0, {}), 0, <<-1, SlowT1>>)
      BY <1>4, <2>1, <3>1 DEF InEffect
    <3> QED
      BY <3>2 DEF SettingsOf, Promise!Default
  <2>2. CASE ~Works'
    BY <2>2, IdleSettings
  <2> QED
    BY <2>1, <2>2
<1> QED
  BY <1>2, <1>3, <1>4, <1>5 DEF Promise!PromiseNext, Promise!Turned, Promise!Renew

\* A driver that is unloaded lets go of REN, as it can while it is system controller, and
\* leaves a chip that does not work as it is.
LEMMA UnloadStep ==
    ASSUME IoctlInv, Unload PROVE IoctlInv' /\ Promise!PromiseNext
<1>1. State \in Chips /\ State.c = c /\ State.r = r /\ TypeOK
  BY StateFacts DEF IoctlInv
<1>2. c' = Bound /\ r' = (IF chipOk THEN Shutdown(State).r ELSE r) /\ ~chipOk' /\ ~up'
        /\ UNCHANGED <<card, keepsSC, current, again, probes, raw>> /\ config' = Initial
        /\ current = "closed" /\ present' = FALSE /\ chipOk' = FALSE /\ up' = FALSE
        /\ reply' = "none" /\ up
  BY DEF Unload, ChipIs, past
<1>3. Bound \in Shadow
  BY IoctlAssumption DEF Bound, Shadow, HandshakeModes
<1>4. /\ r' \in Registers
      /\ chipOk /\ r.here => r'.pon /\ ~r'.cic /\ ~r'.atn /\ ~r'.sc /\ (raw \/ ~r'.ren)
      /\ r'.here = r.here
  <2>1. CASE chipOk /\ r.here
    <3> DEFINE ren == r.ren /\ ~r.sc
               new == [PowerUp EXCEPT !.ren = ren, !.speed.mstd = r.speed.mstd]
    <3>1. Shutdown(State).r = new
      BY <1>1, <2>1 DEF Shutdown, Written, Chips
    <3>2. ren \in BOOLEAN /\ (raw \/ ren = FALSE)
      BY <1>1, <2>1 DEF IoctlInv, Working, TypeOK, Registers
    <3>3. r.speed.mstd \in BOOLEAN /\ r.here = TRUE
      BY <2>1, <1>1 DEF TypeOK, Registers, Speeds
    <3> HIDE DEF ren
    <3>4. PowerUp \in Registers
      BY DEF PowerUp, SlowT1, Speeds, Registers
    <3>5. new \in Registers
      BY <3>2, <3>3, <3>4 DEF Registers, Speeds
    <3>6. new.here = TRUE /\ new.pon /\ ~new.cic /\ ~new.atn /\ ~new.sc /\ (raw \/ ~new.ren)
      BY <3>2 DEF PowerUp
    <3> HIDE DEF new
    <3>7. r' = new
      BY <1>2, <2>1, <3>1
    <3> QED
      BY <3>3, <3>5, <3>6, <3>7
  <2>2. CASE chipOk /\ ~r.here
    <3>1. Shutdown(State).r = r
      BY <1>1, <2>2 DEF Shutdown, Written, Chips
    <3> QED
      BY <1>1, <1>2, <2>2, <3>1 DEF TypeOK
  <2>3. CASE ~chipOk
    BY <1>1, <1>2, <2>3 DEF TypeOK
  <2> QED
    BY <2>1, <2>2, <2>3
<1>5. ~chipOk => r' = r
  BY <1>2
<1>6. TypeOK'
  BY <1>1, <1>2, <1>3, <1>4, InitialSettings DEF TypeOK, Replies
<1>7. Handles' /\ Working' /\ ReadyUnlessProbedAgain'
  BY <1>2, <1>4 DEF Handles, Working, ReadyUnlessProbedAgain, IoctlInv
<1>8. OffTheBus'
  <2>1. CASE chipOk
    BY <1>2, <1>4, <2>1 DEF OffTheBus
  <2>2. CASE ~chipOk
    BY <1>2, <1>5, <2>2 DEF OffTheBus, IoctlInv
  <2> QED
    BY <2>1, <2>2
<1>9. Works' = FALSE /\ Asked' = Promise!Default
  BY <1>2, InitialSettings DEF Works
<1>10. InEffect' = Promise!Default
  BY <1>9, IdleSettings
<1> QED
  BY <1>2, <1>6, <1>7, <1>8, <1>9, <1>10
  DEF IoctlInv, Promise!PromiseNext, Promise!Turned, Promise!Renew

\* A card that is pulled takes its settings with it.
LEMMA PullStep ==
    ASSUME IoctlInv, Pull PROVE IoctlInv' /\ (Promise!PromiseNext \/ Promised)
<1>1. UNCHANGED <<up, keepsSC, present, chipOk, config, c, current, reply, probes>>
        /\ card' = FALSE /\ r' = Absent /\ again' = FALSE /\ raw' = FALSE
  BY DEF Pull, driver
<1>2. Absent \in Registers /\ Absent.here = FALSE
  <2>1. PowerUp \in Registers
    BY DEF PowerUp, SlowT1, Speeds, Registers
  <2> QED
    BY <2>1 DEF Absent, Registers
<1>3. TypeOK'
  BY <1>1, <1>2 DEF IoctlInv, TypeOK
<1>4. Handles' /\ Working' /\ ReadyUnlessProbedAgain' /\ OffTheBus'
  BY <1>1, <1>2 DEF IoctlInv, Handles, Working, ReadyUnlessProbedAgain, OffTheBus
<1>5. Asked' = Asked /\ Works' = FALSE
  BY <1>1, <1>2 DEF Asked, Works
<1>6. InEffect' = Promise!Default
  BY <1>5, IdleSettings
<1>7. CASE r.here
  BY <1>1, <1>2, <1>3, <1>4, <1>5, <1>6, <1>7 DEF IoctlInv, Promise!PromiseNext, Promise!Lost
<1>8. CASE ~r.here
  <2>1. r.here = FALSE /\ raw = FALSE
    BY <1>8 DEF IoctlInv, TypeOK, Registers, Working
  <2>2. Works = FALSE /\ InEffect = Promise!Default
    BY <2>1, IdleSettings DEF Works
  <2> QED
    BY <1>1, <1>2, <1>3, <1>4, <1>5, <1>6, <2>1, <2>2 DEF IoctlInv, Promised, Still
<1> QED
  BY <1>7, <1>8

\* What happens to the card, to the handle and on the bus beside.
LEMMA AsideStep ==
    ASSUME IoctlInv, Insert \/ Removed \/ OthersTakeControl \/ Open \/ Close
    PROVE  IoctlInv' /\ Promised
<1>1. CASE Insert \/ Removed \/ Open \/ Close
  <2>1. UNCHANGED <<up, keepsSC, chipOk, config, c, r, again, probes, raw>>
    BY <1>1 DEF Insert, Removed, Open, Close, driver, chip, past
  <2>2. TypeOK'
    BY <1>1, <2>1, ZenonT(30) DEF IoctlInv, TypeOK, Insert, Removed, Open, Close, driver, Replies
  <2>3. Handles'
    BY <1>1, <2>1 DEF IoctlInv, Handles, Insert, Removed, Open, Close
  <2>4. Working' /\ ReadyUnlessProbedAgain' /\ OffTheBus'
    BY <2>1 DEF IoctlInv, Working, State, ReadyUnlessProbedAgain, OffTheBus
  <2> QED
    BY <2>1, <2>2, <2>3, <2>4 DEF IoctlInv, Promised, Still, Asked, InEffect, Works
<1>2. CASE OthersTakeControl
  <2>1. /\ UNCHANGED <<up, card, keepsSC, present, chipOk, config, c, current, reply, again,
                       probes, raw>>
        /\ r.here /\ r.cic /\ r' = [r EXCEPT !.cic = FALSE, !.atn = FALSE] /\ r \in Registers
    BY <1>2 DEF OthersTakeControl, driver, IoctlInv, TypeOK, past
  <2>2. /\ r' \in Registers
        /\ r'.here = r.here /\ r'.sc = r.sc /\ r'.auxra = r.auxra
        /\ r'.eosr = r.eosr /\ r'.adr0 = r.adr0 /\ r'.adr1 = r.adr1 /\ r'.speed = r.speed
    BY <2>1 DEF Registers
  <2>3. chipOk \/ raw
    BY <2>1 DEF IoctlInv, OffTheBus
  <2>4. TypeOK' /\ Handles'
    BY <2>1, <2>2 DEF IoctlInv, TypeOK, Handles
  <2>5. Working'
    BY <2>1, <2>2 DEF IoctlInv, Working, State, Recorded
  <2>6. ReadyUnlessProbedAgain' /\ OffTheBus'
    BY <2>1, <2>2, <2>3 DEF ReadyUnlessProbedAgain, OffTheBus, IoctlInv
  <2>7. Works' = Works /\ Asked' = Asked
    BY <2>1, <2>2 DEF Works, Asked
  <2>8. InEffect' = InEffect
    BY <2>1, <2>2, <2>7 DEF InEffect
  <2> QED
    BY <2>1, <2>2, <2>4, <2>5, <2>6, <2>7, <2>8 DEF IoctlInv, Promised, Still
<1> QED
  BY <1>1, <1>2

\* A register write changes what the chip runs with, not what it is asked to.
LEMMA WriteRegisterStep ==
    ASSUME IoctlInv, WriteRegister PROVE IoctlInv' /\ Promised
<1>1. /\ UNCHANGED <<up, card, keepsSC, present, chipOk, config, c, current, again, probes>>
      /\ current # "closed" /\ reply' = "ok" /\ raw' = r.here
  BY DEF WriteRegister, called
<1>2. PICK new \in Raw : r' = Written(r, new)
  BY DEF WriteRegister
<1>3. new \in Registers /\ new.here = TRUE /\ r \in Registers /\ r.here \in BOOLEAN
  BY IoctlAssumption DEF IoctlInv, TypeOK, Registers
<1>4. r' \in Registers /\ r'.here = r.here
  BY <1>2, <1>3 DEF Written
<1>5. TypeOK'
  BY <1>1, <1>3, <1>4 DEF IoctlInv, TypeOK, Replies
<1>6. Handles' /\ Working' /\ ReadyUnlessProbedAgain'
  BY <1>1, <1>4 DEF IoctlInv, Handles, Working, ReadyUnlessProbedAgain
<1>7. OffTheBus'
  <2>1. r.here /\ ~chipOk => again
    BY <1>1 DEF IoctlInv, ReadyUnlessProbedAgain, Handles
  <2> QED
    BY <1>1, <1>4, <2>1 DEF OffTheBus
<1>8. Asked' = Asked /\ Works' = Works
  BY <1>1, <1>4 DEF Asked, Works
<1>9. CASE r.here
  <2>1. [c |-> c', r |-> r'] \in Chips
    BY <1>4, <1>5 DEF Chips, TypeOK
  <2>2. InEffect' \in Promise!Settings
    BY <2>1, InEffectTyped DEF InEffect
  <2>3. InEffect'.timeout = InEffect.timeout
    BY <1>1, <1>8 DEF InEffect, SettingsOf
  <2> QED
    BY <1>1, <1>4, <1>5, <1>6, <1>7, <1>8, <1>9, <2>2, <2>3
    DEF IoctlInv, Promised, Promise!Written
<1>10. CASE ~r.here
  <2>1. r' = r /\ raw' = raw
    BY <1>1, <1>2, <1>3, <1>10 DEF Written, IoctlInv, TypeOK, Working
  <2>2. InEffect' = InEffect
    BY <1>1, <1>8, <2>1 DEF InEffect
  <2> QED
    BY <1>1, <1>4, <1>5, <1>6, <1>7, <1>8, <2>1, <2>2 DEF IoctlInv, Promised, Still
<1> QED
  BY <1>9, <1>10

------------------------------------------------------------------------------
(* Theorems *)

LEMMA IoctlStep ==
    ASSUME IoctlInv, [Next]_vars
    PROVE  IoctlInv' /\ (Promise!PromiseNext \/ Promised)
<1>1. CASE Load
  BY <1>1, LoadStep
<1>2. CASE Unload
  BY <1>2, UnloadStep
<1>3. CASE Pull
  BY <1>3, PullStep
<1>4. CASE Insert \/ Removed \/ OthersTakeControl \/ Open \/ Close
  BY <1>4, AsideStep
<1>5. CASE Calls
  <2>1. CASE SetConfig
    BY <2>1, ConfiguredStep, RefuseHarmless, HarmlessStep DEF SetConfig
  <2>2. CASE Probe
    <3>1. CASE Answer("small")
      BY <3>1, AnswerHarmless, HarmlessStep DEF Replies
    <3>2. CASE Refuse
      BY <3>2, RefuseHarmless, HarmlessStep
    <3>3. CASE present /\ called /\ Bringup(config, r) /\ again' = TRUE
                 /\ probes' = ~probes /\ raw' = FALSE /\ reply' = "ok"
                 /\ UNCHANGED <<config, current>>
      BY <3>3, ProbeStep
    <3> QED
      BY <2>2, <3>1, <3>2, <3>3 DEF Probe
  <2>3. CASE \/ SetDevice \/ Ifc \/ Ren \/ Atn \/ NoDevice \/ RawOut \/ Look \/ Info
             \/ \E k \in Transfers : BusCall(k)
    BY <2>3, CallsHarmless, HarmlessStep
  <2>4. CASE WriteRegister
    BY <2>4, WriteRegisterStep
  <2> QED
    BY <1>5, <2>1, <2>2, <2>3, <2>4 DEF Calls
<1>6. CASE UNCHANGED vars
  <2>1. UNCHANGED <<up, card, keepsSC, present, chipOk, config, c, r, current, reply, again,
                    probes, raw>>
    BY <1>6 DEF vars, driver, chip, past
  <2>2. TypeOK' /\ Handles'
    BY <2>1 DEF IoctlInv, TypeOK, Handles
  <2>3. Working' /\ ReadyUnlessProbedAgain' /\ OffTheBus'
    BY <2>1 DEF IoctlInv, Working, State, ReadyUnlessProbedAgain, OffTheBus
  <2> QED
    BY <2>1, <2>2, <2>3 DEF IoctlInv, Promised, Still, Asked, InEffect, Works
<1> QED
  BY <1>1, <1>2, <1>3, <1>4, <1>5, <1>6 DEF Next

\* The start: a driver not loaded, and a card just powered.
LEMMA IoctlStart ==
    ASSUME Init PROVE IoctlInv /\ Promise!PromiseInit
<1>1. PowerUp \in Registers /\ PowerUp.pon /\ ~PowerUp.cic /\ ~PowerUp.atn /\ ~PowerUp.sc
        /\ ~PowerUp.ren
  BY DEF PowerUp, SlowT1, Speeds, Registers
<1>2. Bound \in Shadow
  BY IoctlAssumption DEF Bound, Shadow, HandshakeModes
<1>3. TypeOK
  BY <1>1, <1>2, InitialSettings DEF Init, TypeOK, Replies
<1>4. Handles /\ Working /\ ReadyUnlessProbedAgain /\ OffTheBus
  BY <1>1 DEF Init, Handles, Working, ReadyUnlessProbedAgain, OffTheBus
<1>5. Works = FALSE /\ Asked = Promise!Default
  BY InitialSettings DEF Init, Works
<1>6. InEffect = Promise!Default
  BY <1>5, IdleSettings
<1> QED
  BY <1>3, <1>4, <1>5, <1>6 DEF IoctlInv, Promise!PromiseInit, Promise!SettingsInit, Init

\* The inductive invariant: a working chip is system controller and holds the AUXRA on
\* record, the driver has a working chip or an open handle only while it is loaded, and the
\* three properties below hold.
THEOREM IoctlCorrect == Spec => []IoctlInv
<1>1. Init => IoctlInv
  BY IoctlStart
<1>2. IoctlInv /\ [Next]_vars => IoctlInv'
  BY IoctlStep
<1> QED
  BY <1>1, <1>2, PTL DEF Spec

\* The driver's configuration, its record of the chip and the registers keep to their types
\* whatever SET_CONFIG is asked for.
THEOREM IoctlTypes == Spec => []TypeOK
<1>1. IoctlInv => TypeOK
  BY DEF IoctlInv
<1> QED
  BY <1>1, IoctlCorrect, PTL

\* A driver loaded with a card in the socket works, after any history of loads, calls and
\* removals, but for the probe of a chip that keeps SC across a reset.
THEOREM WorksOnceLoaded == Spec => []ReadyUnlessProbedAgain
<1>1. IoctlInv => ReadyUnlessProbedAgain
  BY DEF IoctlInv
<1> QED
  BY <1>1, IoctlCorrect, PTL

\* However the driver was left, a chip it does not drive is off the bus, with REN let go.
THEOREM LeavesTheBus == Spec => []OffTheBus
<1>1. IoctlInv => OffTheBus
  BY DEF IoctlInv
<1> QED
  BY <1>1, IoctlCorrect, PTL

\* The registers the setters of the chip driver write implement the promise about settings
\* that IbApi builds on: all that SET_CONFIG asked for is in effect, until the chip is
\* initialised again or the driver loaded anew.
THEOREM SettingsPromised == Spec => ImplementsSettings
<1>1. Init => IoctlInv /\ Promise!PromiseInit
  BY IoctlStart
<1>2. IoctlInv /\ [Next]_vars => IoctlInv' /\ [Promise!PromiseNext]_(Promise!promiseVars)
  BY IoctlStep
  DEF Promised, Still, Promise!PromiseNext, Promise!promiseVars, Promise!driverVars
<1> QED
  BY <1>1, <1>2, PTL DEF Spec, ImplementsSettings, Promise!PromiseSpec
==============================================================================
