------------------------------ MODULE GpibIoctl ------------------------------
(* The stream driver's calls as what they do to its configuration and to the    *)
(* chip's set-up.  Every call runs under the driver's lock, so that each is one  *)
(* step; what the bus makes of it is the subject of Gpib488, and who holds the    *)
(* lock, the window and the card that of GpibDriver.                             *)
EXTENDS TntRegisters

CONSTANTS
    Configs,     \* configurations SET_CONFIG is asked for, in range or not
    Raw          \* what the registers may be made to hold through IOCTL_GPIB_REGISTER

Config == [timeout : Nat, t1 : Nat, pad : 0 .. 30, sad : -1 .. 30, eos : Nat, flags : SUBSET EosFlags]

ASSUME IoctlAssumption ==
    /\ DefaultTimeout \in Nat \ {0}
    /\ Configs \subseteq [timeout : Nat, t1 : Nat, pad : Int, sad : Int, eos : Nat, flags : SUBSET EosFlags]
    /\ Raw \subseteq Registers /\ \A new \in Raw : new.here

VARIABLES
    up,        \* the driver is loaded
    card,      \* a card is in the socket
    keepsSC,   \* the chip stays system controller across a reset
    present,   \* card_present
    chipOk,    \* chip_ok
    config,    \* gpib_device.config
    c,         \* gpib_device.chip
    r,         \* the registers of the card
    current,   \* gpib_open.current of an open handle; "closed" without one
    reply,     \* how the last call was answered
    again,     \* history: IOCTL_GPIB_PROBE was obeyed since the card was powered
    probes,    \* history: an even or odd number of times
    raw        \* history: registers were written past the driver since its last bring-up

driver == <<present, chipOk, config>>
chip   == <<c, r>>
past   == <<again, probes, raw>>
vars   == <<up, card, keepsSC, driver, chip, current, reply, past>>

Initial == [timeout |-> DefaultTimeout, t1 |-> 2000, pad |-> 0, sad |-> -1, eos |-> 0, flags |-> {}]

\* "refused": bad or short input, "small": no room for the answer; the rest are statuses,
\* "failed" standing for those the bus gives.
Replies == {"none", "refused", "small", "ok", "NOCARD", "IO", "NOTCIC", "NOTSC", "failed"}

TypeOK ==
    /\ up \in BOOLEAN /\ card \in BOOLEAN /\ keepsSC \in BOOLEAN
    /\ present \in BOOLEAN /\ chipOk \in BOOLEAN
    /\ again \in BOOLEAN /\ probes \in BOOLEAN /\ raw \in BOOLEAN
    /\ config \in Config
    /\ c \in Shadow /\ r \in Registers
    /\ current \in {"closed", "none", "device"}
    /\ reply \in Replies

Init ==
    /\ up = FALSE /\ card = TRUE /\ keepsSC \in BOOLEAN
    /\ present = FALSE /\ chipOk = FALSE
    /\ again = FALSE /\ probes = FALSE /\ raw = FALSE
    /\ config = Initial /\ c = Bound /\ r = PowerUp
    /\ current = "closed" /\ reply = "none"

State == [c |-> c, r |-> r]
ChipIs(x) == c' = x.c /\ r' = x.r

------------------------------------------------------------------------------
(* Load and unload *)

\* chip_bringup, with config and registers as given: probe, initialise (which probes once
\* more), set the timeout, and take charge of the bus.  EOS, T1 and the secondary address
\* of the configuration are not passed on.
Bringup(cfg, regs) ==
    LET probed == Reset([c |-> Bound, r |-> regs], keepsSC)
        init   == Initialise(probed, cfg.pad, keepsSC)
        x      == SetTimeout(init.x, cfg.timeout)
    IN  /\ chipOk' = init.ok
        /\ ChipIs(IF init.ok THEN InterfaceClear(x) ELSE x)

\* GPB_Init.  Card Services resets the card's function: the chip may be as powered, or as
\* it was left.
Load ==
    /\ ~up /\ card /\ up' = TRUE
    /\ present' = TRUE /\ config' = Initial
    /\ \/ Bringup(Initial, PowerUp) /\ again' = FALSE
       \/ r.here /\ Bringup(Initial, r) /\ UNCHANGED again
    /\ reply' = "none" /\ raw' = FALSE
    /\ UNCHANGED <<card, keepsSC, current, probes>>

\* Mutant: a chip is shut down by the reset alone.
UnloadByReset ==
    /\ up /\ current = "closed" /\ up' = FALSE
    /\ ChipIs([c |-> Bound, r |-> IF chipOk THEN Reset(State, keepsSC).r ELSE r])
    /\ present' = FALSE /\ chipOk' = FALSE /\ config' = Initial
    /\ reply' = "none"
    /\ UNCHANGED <<card, keepsSC, current, past>>

\* GPB_Deinit: teardown leaves alone a chip that never came to work.
Unload ==
    /\ up /\ current = "closed" /\ up' = FALSE
    /\ ChipIs([c |-> Bound, r |-> IF chipOk THEN Shutdown(State).r ELSE r])
    /\ present' = FALSE /\ chipOk' = FALSE /\ config' = Initial
    /\ reply' = "none"
    /\ UNCHANGED <<card, keepsSC, current, past>>

------------------------------------------------------------------------------
(* The card *)

Pull ==
    /\ card /\ card' = FALSE /\ r' = Absent /\ again' = FALSE /\ raw' = FALSE
    /\ UNCHANGED <<up, keepsSC, driver, c, current, reply, probes>>

\* A card that is put back answers once the driver is loaded anew.
Insert ==
    /\ ~card /\ card' = TRUE
    /\ UNCHANGED <<up, keepsSC, driver, chip, current, reply, past>>

\* card_callback
Removed ==
    /\ up /\ ~card /\ present' = FALSE
    /\ UNCHANGED <<up, card, keepsSC, chipOk, config, chip, current, reply, past>>

\* Another controller takes charge of the bus, or drops ATN.
OthersTakeControl ==
    /\ r.here /\ r.cic
    /\ r' = [r EXCEPT !.cic = FALSE, !.atn = FALSE]
    /\ UNCHANGED <<up, card, keepsSC, driver, c, current, reply, past>>

------------------------------------------------------------------------------
(* Calls *)

Open ==
    /\ up /\ current = "closed" /\ current' = "none"
    /\ reply' = "none"
    /\ UNCHANGED <<up, card, keepsSC, driver, chip, past>>

Close ==
    /\ current # "closed" /\ current' = "closed"
    /\ reply' = "none"
    /\ UNCHANGED <<up, card, keepsSC, driver, chip, past>>

\* A call on the handle.
called == current # "closed" /\ UNCHANGED <<up, card, keepsSC, present>>
unconfigured == UNCHANGED <<chipOk, config, past, current>>

\* The call goes no further.
Answer(a) == called /\ unconfigured /\ UNCHANGED chip /\ reply' = a

\* The buffers fit, or the call is turned away before it does anything.
Refuse == Answer("refused")

\* put_result, after the work is done.
PutResult(status) == reply' \in {status, "small"}

\* IOCTL_GPIB_SET_DEVICE
SetDevice ==
    \/ called /\ current' = "device" /\ reply' = "ok" /\ UNCHANGED <<chipOk, config, past, chip>>
    \/ Refuse

\* Mutant: the range is not looked at.
InRangeAlways(new) == TRUE

InRange(new) == new.pad \in 0 .. 30 /\ new.sad \in -1 .. 30

\* The four setters of apply_config, in its order; EOS is cut to a byte.
Applied(x, new) ==
    SetEos(SetAddress(SetT1(SetTimeout(x, new.timeout), new.t1), new.pad, new.sad),
           new.eos % 256, new.flags)

\* IOCTL_GPIB_SET_CONFIG
SetConfig ==
    \/ \E new \in Configs :
          /\ InRange(new) /\ called
          /\ config' = new
          /\ ChipIs(IF chipOk THEN Applied(State, new) ELSE State)
          /\ reply' = "ok"
          /\ UNCHANGED <<chipOk, past, current>>
    \/ Refuse

\* check_ready
Ready == present /\ chipOk
NotReady == IF present THEN "IO" ELSE "NOCARD"

\* gpib_interface_clear of a chip that is ready: taking control of a card that does not
\* answer times out.
Clear(x) ==
    IF ~x.r.sc THEN [x |-> x, status |-> "NOTSC"]
    ELSE [x |-> InterfaceClear(x), status |-> IF x.r.here THEN "ok" ELSE "failed"]

\* IOCTL_GPIB_IFC
Ifc ==
    /\ called /\ unconfigured
    /\ IF Ready THEN LET done == Clear(State) IN ChipIs(done.x) /\ PutResult(done.status)
       ELSE UNCHANGED chip /\ PutResult(NotReady)

\* IOCTL_GPIB_REN
Ren ==
    \/ /\ called /\ unconfigured
       /\ IF ~Ready THEN UNCHANGED chip /\ PutResult(NotReady)
          ELSE IF ~r.sc THEN UNCHANGED chip /\ PutResult("NOTSC")
          ELSE PutResult("ok") /\ \E on \in BOOLEAN : ChipIs(RemoteEnable(State, on))
    \/ Refuse

\* IOCTL_GPIB_ATN
Atn ==
    \/ /\ called /\ unconfigured
       /\ IF ~Ready THEN UNCHANGED chip /\ PutResult(NotReady)
          ELSE IF ~r.cic THEN UNCHANGED chip /\ PutResult("NOTCIC")
          ELSE \E on \in BOOLEAN : ChipIs(SetAtn(State, on))
                 /\ PutResult(IF on /\ ~r.here THEN "failed" ELSE "ok")
    \/ Refuse

\* ensure_cic: in charge already, or by another interface clear.
EnsureCic(x) == IF x.r.cic THEN [x |-> x, status |-> "ok"] ELSE Clear(x)

Transfers == {"write", "read", "command", "poll", "pass"}

\* What the sequences of gpib488.c leave in the chip: ATN either way, the handshake mode
\* release_holdoff chose when something was read, and no control once it was passed on.
AfterSequence(x, k, ok) ==
    LET moded == {SetAtn(m, on) : on \in BOOLEAN,
                     m \in {x} \cup (IF k \in {"read", "poll"} THEN {SetHandshakeMode(x, "HLDE")} ELSE {})}
    IN  IF k = "pass" /\ ok THEN {PassOn(m) : m \in moded} ELSE moded

\* IOCTL_GPIB_WRITE and _READ, ReadFile and WriteFile, _COMMAND, _CLEAR, _TRIGGER, _LOCAL,
\* _LOCAL_LOCKOUT, _SERIAL_POLL and _PASS_CONTROL.
BusCall(k) ==
    \/ /\ called /\ unconfigured
       /\ IF ~Ready THEN UNCHANGED chip /\ PutResult(NotReady)
          ELSE LET cic == EnsureCic(State) IN
               IF cic.status # "ok" THEN ChipIs(cic.x) /\ PutResult(cic.status)
               ELSE \E ok \in BOOLEAN : \E x \in AfterSequence(cic.x, k, ok) :
                       ChipIs(x) /\ PutResult(IF ok /\ r.here THEN "ok" ELSE "failed")
    \/ Refuse

\* GPB_Read and GPB_Write have nobody to address before SET_DEVICE.
NoDevice == current = "none" /\ Answer("failed")

\* IOCTL_GPIB_RAW_OUT: a transfer of the chip without the sequence around it.
RawOut ==
    \/ Answer(IF ~Ready THEN NotReady ELSE IF r.here THEN "ok" ELSE "failed")
    \/ Ready /\ Answer("failed")
    \/ Refuse

\* IOCTL_GPIB_PROBE
Probe ==
    \/ Answer("small")
    \/ ~present /\ Refuse
    \/ /\ present /\ called
       /\ Bringup(config, r)
       /\ again' = TRUE /\ probes' = ~probes /\ raw' = FALSE /\ reply' = "ok"
       /\ UNCHANGED <<config, current>>

\* IOCTL_GPIB_REGISTER to write: any register, whatever the driver has on record.
WriteRegister ==
    /\ present /\ called /\ reply' = "ok"
    /\ \E new \in Raw : r' = Written(r, new)
    /\ raw' = r.here
    /\ UNCHANGED <<chipOk, config, c, current, again, probes>>

\* IOCTL_GPIB_LINES, _SNAPSHOT and, to read, _REGISTER look at the card; _GET_INFO and _CIS
\* do not.
Look == Refuse \/ (present /\ Answer("ok"))
Info == Answer("ok") \/ Answer("small")

Calls ==
    \/ SetDevice \/ SetConfig \/ Ifc \/ Ren \/ Atn \/ NoDevice \/ RawOut \/ Probe \/ WriteRegister
    \/ Look \/ Info
    \/ \E k \in Transfers : BusCall(k)

Next ==
    \/ Load \/ Unload \/ Open \/ Close \/ Calls
    \/ Pull \/ Insert \/ Removed \/ OthersTakeControl

Spec == Init /\ [][Next]_vars
------------------------------------------------------------------------------
(* Properties *)

\* A driver that was loaded with a card in the socket works, however often it was loaded and
\* unloaded before and whatever the bus was left doing, unless it was made to probe a chip
\* that stays system controller across the reset: the self-test takes that for a failure.
ReadyUnlessProbedAgain == up /\ r.here /\ ~chipOk => keepsSC /\ again

\* A chip nobody drives is off the bus: it is off line, does not hold ATN and, unless that
\* self-test failed, neither REN nor the part of the system controller.  What was written to
\* it past the driver is undone when the driver lets go of a working chip, but for REN, which
\* takes a system controller.
OffTheBus ==
    r.here /\ ~chipOk =>
        /\ again \/ ~r.sc
        /\ raw \/ (r.pon /\ ~r.cic /\ ~r.atn /\ (again \/ ~r.ren))

Eos(byte, flags) == <<byte, flags>>
SpeedOf(ns) == [tri |-> ns <= 500, ustd |-> ns > 500 /\ ns <= 1100, mstd |-> ns <= 350]

SettingsOf(timeout, eos, pad, own) == [timeout |-> timeout, eos |-> eos, pad |-> pad, own |-> own]

\* The settings asked for, and those the chip runs with.
Works    == chipOk /\ r.here
Asked    == SettingsOf(config.timeout, Eos(config.eos % 256, config.flags), config.pad,
                       <<config.sad, SpeedOf(config.t1)>>)
InEffect == IF Works
            THEN SettingsOf(c.timeout, Eos(r.eosr, r.auxra \cap EosFlags), r.adr0, <<r.adr1, r.speed>>)
            ELSE SettingsOf(DefaultTimeout, Eos(0, {}), 0, <<-1, SlowT1>>)

Promise == INSTANCE SettingsPromise WITH
    Timeouts <- Nat, EosModes <- Nat \X SUBSET EosFlags, NoEos <- Eos(0, {}),
    Owns <- (-1 .. 30) \X Speeds, DefaultOwn <- <<-1, SlowT1>>, Pads <- 0 .. 30, DefaultPad <- 0,
    config <- Asked, chip <- InEffect, chipOk <- Works, here <- r.here

\* What SET_CONFIG asked for is what the registers hold, all of it, until the driver obeys
\* IOCTL_GPIB_PROBE, is loaded anew or loses the card; after a probe it is the primary address
\* and the timeout alone.  No transfer, no other call and no change of the bus alters any of
\* it, but for registers written past the driver.
ImplementsSettings == Promise!PromiseSpec
==============================================================================
