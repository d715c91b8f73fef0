------------------------------- MODULE GpibBus -------------------------------
(* The bus as the controller's sequences see it: who is addressed to listen   *)
(* and to talk, who answers with its status byte, what a command byte does to *)
(* them, and what can happen to the bus from outside.  Commands follow the    *)
(* simulator's devices; secondary addresses, which the simulator ignores,     *)
(* follow IEEE 488.1 extended addressing, the mode tnt_set_address selects.   *)
EXTENDS Integers, Sequences

CONSTANTS
    Devices,   \* the instruments
    Ctl,       \* this interface
    Pad, Sad,  \* addresses of the devices and of the interface; Sad -1 for none
    MaxData    \* bytes of the longest message

Members == Devices \cup {Ctl}

ASSUME BusAssumption ==
    /\ Ctl \notin Devices
    /\ Pad \in [Members -> 0 .. 30]
    /\ Sad \in [Members -> -1 .. 30]
    /\ MaxData \in Nat

VARIABLES
    card,      \* the card is in its socket; a pulled card reads 0xFF everywhere
    cic,       \* this interface is controller in charge
    atn,       \* ATN is asserted, by this interface or by whoever is in charge
    alive,     \* devices switched on
    listen,    \* members addressed to listen
    talk,      \* members addressed to talk
    lpas,      \* members that heard their primary listen address, awaiting the secondary
    tpas,      \* the same for talk
    spe,       \* devices that answer as talker with their status byte
    hit        \* history: the SDC, GET, GTL, DCL and LLO this call made devices act on

busVars == <<listen, talk, lpas, tpas, spe>>

UNL == <<"UNL", 0>>
UNT == <<"UNT", 0>>
SPE == <<"SPE", 0>>
SPD == <<"SPD", 0>>
TCT == <<"TCT", 0>>
LAD(p) == <<"LAD", p>>
TAD(p) == <<"TAD", p>>
SAD(s) == <<"SAD", s>>

Addressed == {"SDC", "GET", "GTL"}      \* obeyed by listeners
Universal == {"DCL", "LLO"}             \* obeyed by everyone

Command == ({"UNL", "UNT", "SPE", "SPD", "TCT"} \cup Addressed \cup Universal) \X {0}
             \cup {"LAD", "TAD", "SAD"} \X (0 .. 30)

BusTypeOK ==
    /\ card \in BOOLEAN /\ cic \in BOOLEAN /\ atn \in BOOLEAN
    /\ alive \subseteq Devices
    /\ listen \subseteq Members /\ talk \subseteq Members
    /\ lpas \subseteq Members /\ tpas \subseteq Members
    /\ spe \subseteq Devices
    /\ hit \subseteq Devices \X (Addressed \cup Universal)

BusInit ==
    /\ card = TRUE /\ cic = TRUE /\ atn = TRUE       \* chip_bringup sent IFC
    /\ alive \in SUBSET Devices
    /\ listen = {} /\ talk = {} /\ lpas = {} /\ tpas = {} /\ spe = {}
    /\ hit = {}

------------------------------------------------------------------------------
(* Command bytes *)

Up == alive \cup {Ctl}
Simple(p)   == {m \in Up : Pad[m] = p /\ Sad[m] = -1}
Extended(p) == {m \in Up : Pad[m] = p /\ Sad[m] # -1}

ListenAfter(c) ==
    CASE c = UNL        -> {}
      [] c[1] = "LAD"   -> listen \cup Simple(c[2])
      [] c[1] = "SAD"   -> listen \cup {m \in lpas : Sad[m] = c[2]}
      [] OTHER          -> listen

\* A talk address silences whoever else was talking.
TalkAfter(c) ==
    CASE c = UNT        -> {}
      [] c[1] = "TAD"   -> Simple(c[2]) \cup (talk \cap Extended(c[2]))
      [] c[1] = "SAD"   -> {m \in talk \cup tpas : m \in tpas => Sad[m] = c[2]}
      [] OTHER          -> talk

\* A secondary address counts only right after its primary.
PrimaryAfter(kind, waiting, c) ==
    CASE c[1] = kind    -> Extended(c[2])
      [] c[1] = "SAD"   -> waiting
      [] OTHER          -> {}

SpeAfter(c) == IF c = SPE THEN alive ELSE IF c = SPD THEN {} ELSE spe

HitBy(c) ==
    IF c[1] \in Addressed THEN (listen \cap alive) \X {c[1]}
    ELSE IF c[1] \in Universal THEN alive \X {c[1]}
    ELSE {}

\* Every member that is up takes command byte c.
Apply(c) ==
    /\ listen' = ListenAfter(c)
    /\ talk' = TalkAfter(c)
    /\ lpas' = PrimaryAfter("LAD", lpas, c)
    /\ tpas' = PrimaryAfter("TAD", tpas, c)
    /\ spe' = SpeAfter(c)

\* IFC: nobody is addressed and nobody answers a poll.
ClearBus == listen' = {} /\ talk' = {} /\ lpas' = {} /\ tpas' = {} /\ spe' = {}

\* ADSR.CIC as the driver reads it, true of a pulled card as well.
IsCic == cic \/ ~card

Listeners == listen \cap alive
Talkers   == talk \cap alive

------------------------------------------------------------------------------
(* What happens to the bus from outside *)

\* A device is switched off, and comes back addressed to nothing.
PowerOff(d) ==
    /\ d \in alive
    /\ alive' = alive \ {d}
    /\ listen' = listen \ {d} /\ talk' = talk \ {d} /\ spe' = spe \ {d}
    /\ lpas' = lpas \ {d} /\ tpas' = tpas \ {d}
    /\ UNCHANGED <<card, cic, atn>>

PowerOn(d) ==
    /\ d \in Devices \ alive
    /\ alive' = alive \cup {d}
    /\ UNCHANGED <<card, cic, atn, busVars>>

\* Another system controller resets the bus and takes charge of it.
LoseControl ==
    /\ card /\ cic
    /\ cic' = FALSE /\ atn' \in BOOLEAN
    /\ ClearBus
    /\ UNCHANGED <<card, alive>>

\* Another controller in charge addresses a device or starts a poll.
Foreign ==
    /\ card /\ ~cic
    /\ \E d \in Devices : \E c \in {LAD(Pad[d]), TAD(Pad[d]), SPE, UNL} : Apply(c)
    /\ atn' \in BOOLEAN
    /\ UNCHANGED <<card, cic, alive>>

\* The card leaves its socket, for good: a card put back is a new driver instance.
Pull ==
    /\ card
    /\ card' = FALSE /\ cic' = FALSE /\ atn' = FALSE
    /\ UNCHANGED <<alive, busVars>>
==============================================================================
