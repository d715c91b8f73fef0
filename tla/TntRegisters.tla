----------------------------- MODULE TntRegisters -----------------------------
(* How the chip driver sets the TNT4882 up: its record of the write-only        *)
(* registers (tnt_chip) and the registers themselves, changed side by side by    *)
(* tnt_bind, tnt_probe, tnt_init, the setters and tnt_shutdown.  What a write    *)
(* does to the chip is taken from the host tests' simulator.  A register write   *)
(* on a socket whose card is gone, or is back without having been configured,    *)
(* is lost and a read gives all ones.                                            *)
EXTENDS Integers

CONSTANT DefaultTimeout      \* TNT_DEFAULT_TIMEOUT_MS

HandshakeModes == {"HLDA", "HLDE"}                    \* two of the AUXRA bits
EosFlags == {"REOS", "BIN", "XEOS"}                   \* the other three

Speeds == [tri : BOOLEAN, ustd : BOOLEAN, mstd : BOOLEAN]     \* AUXRB, AUXRI, KEYREG
SlowT1 == [tri |-> FALSE, ustd |-> FALSE, mstd |-> FALSE]

\* tnt_chip keeps these; KEYREG is written and not kept.
Shadow == [pad : 0 .. 30, sad : -1 .. 30, auxra : SUBSET (HandshakeModes \cup EosFlags),
           tri : BOOLEAN, ustd : BOOLEAN, timeout : Nat, t1 : Nat]

\* adr1 is -1 while disabled.  admr 1 and 2 are the addressing modes; 0 is none.
Registers == [here : BOOLEAN, pon : BOOLEAN, sc : BOOLEAN, cic : BOOLEAN, atn : BOOLEAN,
              ren : BOOLEAN, adr0 : 0 .. 30, adr1 : -1 .. 30, admr : 0 .. 2, eosr : Nat,
              auxra : SUBSET (HandshakeModes \cup EosFlags), speed : Speeds]

\* A chip that was just powered.
PowerUp == [here |-> TRUE, pon |-> TRUE, sc |-> FALSE, cic |-> FALSE, atn |-> FALSE,
            ren |-> FALSE, adr0 |-> 0, adr1 |-> 0, admr |-> 0, eosr |-> 0,
            auxra |-> {}, speed |-> SlowT1]

\* What is read of a card that does not answer: system controller, in charge, ATN high.
Absent == [PowerUp EXCEPT !.here = FALSE, !.sc = TRUE, !.cic = TRUE]

\* The registers after a write that would make them new.
Written(r, new) == IF r.here THEN new ELSE r

\* tnt_bind
Bound == [pad |-> 0, sad |-> -1, auxra |-> {"HLDA"}, tri |-> FALSE, ustd |-> FALSE,
          timeout |-> DefaultTimeout, t1 |-> 2000]

------------------------------------------------------------------------------
(* Each operator below takes and gives the driver's record c and the registers r. *)

\* reset_sequence.  AUX_CR clears the core and takes it off the bus; REN is left, and SC
\* too if the chip keeps it across a reset.
Reset(x, keepsSC) ==
    [x EXCEPT !.r = Written(@, [PowerUp EXCEPT !.sc = keepsSC /\ x.r.sc, !.ren = x.r.ren])]

\* tnt_probe after the reset: the status registers have their reset values.
ProbeOk(x) == ~x.r.sc

SetAddress(x, pad, sad) ==
    IF pad > 30 \/ sad > 30 THEN x
    ELSE [c |-> [x.c EXCEPT !.pad = pad, !.sad = sad],
          r |-> Written(x.r, [x.r EXCEPT !.adr0 = pad, !.adr1 = sad,
                                         !.admr = IF sad < 0 THEN 1 ELSE 2])]

SetT1(x, ns) ==
    LET tri  == ns <= 500
        ustd == ns > 500 /\ ns <= 1100
    IN  [c |-> [x.c EXCEPT !.t1 = ns, !.tri = tri, !.ustd = ustd],
         r |-> Written(x.r, [x.r EXCEPT !.speed = [tri |-> tri, ustd |-> ustd, mstd |-> ns <= 350]])]

\* AUXRA is written from the record.
WriteAuxra(x, bits) ==
    [c |-> [x.c EXCEPT !.auxra = bits], r |-> Written(x.r, [x.r EXCEPT !.auxra = bits])]

SetEos(x, eos, flags) ==
    LET y == [x EXCEPT !.r = Written(@, [x.r EXCEPT !.eosr = eos])]
    IN  WriteAuxra(y, (x.c.auxra \ EosFlags) \cup flags)

\* Mutant: the mode replaces the whole register.
SetHandshakeModeAlone(x, mode) == WriteAuxra(x, {mode})

SetHandshakeMode(x, mode) == WriteAuxra(x, (x.c.auxra \ HandshakeModes) \cup {mode})

SetTimeout(x, ms) == [x EXCEPT !.c.timeout = ms]

\* The writes of tnt_init after its probe: defaults, address, on line, T1, system controller.
Online(x, pad) ==
    LET a == WriteAuxra(x, {"HLDA"})
        b == [a EXCEPT !.c.tri = FALSE, !.c.ustd = FALSE, !.r = Written(@, [a.r EXCEPT !.speed = SlowT1])]
        d == SetAddress(b, pad, -1)
        e == [d EXCEPT !.r = Written(@, [d.r EXCEPT !.eosr = 0, !.pon = FALSE])]
        f == SetT1(e, e.c.t1)
    IN  [f EXCEPT !.r = Written(@, [f.r EXCEPT !.sc = TRUE])]

\* tnt_init: a chip that fails the probe is left as the reset leaves it.
Initialise(x, pad, keepsSC) ==
    LET y == Reset(x, keepsSC)
    IN  [x |-> IF ProbeOk(y) THEN Online(y, pad) ELSE y, ok |-> ProbeOk(y)]

\* Mutant: SC goes first, and REN can no longer be let go.
ShutdownScFirst(x) == [x EXCEPT !.r = Written(@, [PowerUp EXCEPT !.ren = x.r.ren])]

\* tnt_shutdown: REN off, which only a system controller can do, SC off, then the reset.
\* KEYREG stays as it is.
Shutdown(x) ==
    [x EXCEPT !.r = Written(@, [PowerUp EXCEPT !.ren = x.r.ren /\ ~x.r.sc,
                                               !.speed.mstd = x.r.speed.mstd])]

\* tnt_interface_clear, tnt_take_control: in charge with ATN asserted; and what another
\* controller leaves of that.
InterfaceClear(x) == [x EXCEPT !.r = Written(@, [x.r EXCEPT !.cic = TRUE, !.atn = TRUE])]
SetAtn(x, on)     == [x EXCEPT !.r = Written(@, [x.r EXCEPT !.atn = on])]
PassOn(x) == [x EXCEPT !.r = Written(@, [x.r EXCEPT !.cic = FALSE, !.atn = FALSE])]
RemoteEnable(x, on) == [x EXCEPT !.r = Written(@, [x.r EXCEPT !.ren = on])]
==============================================================================
