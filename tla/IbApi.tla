-------------------------------- MODULE IbApi --------------------------------
(* The NI-488.2 style calls of ib.c, in one or several processes, over the one *)
(* driver they share.  A transfer is three IOCTLs, GET_INFO, SET_CONFIG and    *)
(* the transfer itself, each atomic under the driver's lock, none of them tied *)
(* to the next.                                                                *)
EXTENDS DriverSettings

CONSTANTS
    Procs,       \* processes that use the API, single-threaded
    MaxDevices,  \* IB_MAX_DEVICES: descriptors 1 .. MaxDevices - 1
    Calls,       \* the calls made
    Boards,      \* who may call ibconfig_board
    Probers      \* who may have the driver probe the chip again (++rst, gpibtest probe)

ASSUME ApiAssumption ==
    MaxDevices \in Nat \ {0, 1} /\ Boards \subseteq Procs /\ Probers \subseteq Procs

Slots == 1 .. MaxDevices - 1
Configured == {"ibrd", "ibwrt", "ibrsp"}               \* apply the descriptor's settings first
AddressOnly == {"ibclr", "ibtrg", "ibloc", "ibpct"}    \* go straight to their IOCTL
DeviceCalls == Configured \cup AddressOnly

ASSUME CallsAssumption == Calls \subseteq DeviceCalls \cup {"board"}

VARIABLES
    handle,    \* [Procs -> "none", "open", or "dead" once the driver was unloaded]
    device,    \* [Procs -> the descriptor table]
    pc,        \* [Procs -> stage of the call]
    fn, ud,    \* [Procs -> the call and its descriptor]
    c,         \* [Procs -> the configuration being changed]
    ibsta, iberr,
    board,     \* history: own addresses and T1 last asked for
    ran        \* history: [Procs -> what the last bus operation wanted and ran with]

apiVars == <<driverVars, handle, device, pc, fn, ud, c, ibsta, iberr, board, ran>>

Unused  == [used |-> FALSE, timeout |-> DefaultTimeout, eos |-> NoEos]
NoRun == [fn |-> "none", want |-> Unused, used |-> Default]

Errors == {"none", "EDVR", "EARG", "ETAB", "ENEB", "EABO", "ENOL", "ECIC", "ESAC", "EBUS"}

Descriptor == [used : BOOLEAN, timeout : Timeouts, eos : EosModes]
Transfer   == [fn : DeviceCalls \cup {"board", "none"}, want : Descriptor, used : Settings]

TypeOK ==
    /\ SettingsOK
    /\ handle \in [Procs -> {"none", "open", "dead"}]
    /\ device \in [Procs -> [Slots -> Descriptor]]
    /\ pc \in [Procs -> {"idle", "info", "set", "run"}]
    /\ fn \in [Procs -> DeviceCalls \cup {"board"}] /\ ud \in [Procs -> Slots]
    /\ c \in [Procs -> Settings]
    /\ ibsta \in [Procs -> SUBSET {"ERR", "TIMO", "END", "CMPL"}]
    /\ iberr \in [Procs -> Errors]
    /\ board \in [pad : Pads, own : Owns]
    /\ ran \in [Procs -> Transfer]

DefaultBoard == [pad |-> DefaultPad, own |-> DefaultOwn]

ApiInit ==
    /\ SettingsInit
    /\ board = DefaultBoard
    /\ handle = [p \in Procs |-> "none"]
    /\ device = [p \in Procs |-> [s \in Slots |-> Unused]]
    /\ pc = [p \in Procs |-> "idle"]
    /\ fn = [p \in Procs |-> "board"] /\ ud = [p \in Procs |-> 1]
    /\ c = [p \in Procs |-> Default]
    /\ ibsta = [p \in Procs |-> {}] /\ iberr = [p \in Procs |-> "none"]
    /\ ran = [p \in Procs |-> NoRun]

------------------------------------------------------------------------------
(* Status *)

Report(p, bits, err) ==
    /\ ibsta' = [ibsta EXCEPT ![p] = bits \cup {"CMPL"}]
    /\ iberr' = [iberr EXCEPT ![p] = err]

Fail(p, err) == Report(p, {"ERR"}, err)
Succeed(p)   == Report(p, {}, "none")

\* What a driver status is called.
MapStatus(st) ==
    CASE st = "TIMEOUT"    -> "EABO"
      [] st = "NOLISTENER" -> "ENOL"
      [] st = "NOTCIC"     -> "ECIC"
      [] st = "NOTSC"      -> "ESAC"
      [] st = "INVAL"      -> "EARG"
      [] st = "NOCARD"     -> "ENEB"
      [] OTHER             -> "EBUS"

------------------------------------------------------------------------------
(* Calls that stay in the process *)

inProcess == <<driverVars, pc, fn, ud, c, board>>

Forget(p) == ran' = [ran EXCEPT ![p] = NoRun]

\* The driver is opened once per process; a handle that died is kept.
OpenDriver(p) ==
    IF handle[p] = "none" THEN handle' = [handle EXCEPT ![p] = "open"] ELSE UNCHANGED handle

NoDriver(p) == handle[p] = "none" /\ Fail(p, "ENEB") /\ UNCHANGED handle

IbFindBoard(p) ==
    /\ pc[p] = "idle"
    /\ NoDriver(p) \/ (OpenDriver(p) /\ Succeed(p))
    /\ Forget(p) /\ UNCHANGED <<inProcess, device>>

Free(p) == {s \in Slots : ~device[p][s].used}

IbDev(p, tmo, eos) ==
    /\ pc[p] = "idle"
    /\ \/ NoDriver(p) /\ UNCHANGED device
       \/ OpenDriver(p) /\ Free(p) = {} /\ Fail(p, "ETAB") /\ UNCHANGED device
       \/ OpenDriver(p) /\ Free(p) # {} /\
          LET s == CHOOSE x \in Free(p) : \A y \in Free(p) : x <= y IN
            /\ device' = [device EXCEPT ![p][s] = [used |-> TRUE, timeout |-> tmo, eos |-> eos]]
            /\ Succeed(p)
    /\ Forget(p) /\ UNCHANGED inProcess

\* ibonl(ud, 0), ibtmo, ibtmo_ms and ibeos: the descriptor becomes d.
Change(p, s, d) ==
    /\ pc[p] = "idle"
    /\ IF device[p][s].used
       THEN device' = [device EXCEPT ![p][s] = d] /\ Succeed(p)
       ELSE Fail(p, "EARG") /\ UNCHANGED device
    /\ Forget(p) /\ UNCHANGED <<inProcess, handle>>

IbOnl(p, s)      == Change(p, s, Unused)
IbTmo(p, s, tmo) == Change(p, s, [device[p][s] EXCEPT !.timeout = tmo])
IbEos(p, s, eos) == Change(p, s, [device[p][s] EXCEPT !.eos = eos])

------------------------------------------------------------------------------
(* Calls that reach the driver *)

\* The IOCTL never reached a driver.
Lost(p) ==
    /\ handle[p] # "open"
    /\ Fail(p, "EDVR")
    /\ pc' = [pc EXCEPT ![p] = "idle"]
    /\ UNCHANGED <<driverVars, handle, device, fn, ud, c, board, ran>>

IbConfigBoard(p, new) ==
    /\ p \in Boards /\ pc[p] = "idle" /\ new.eos = NoEos
    /\ \/ Lost(p)
       \/ /\ handle[p] = "open"
          /\ Apply(new) /\ Succeed(p)
          /\ board' = [pad |-> new.pad, own |-> new.own]
          /\ UNCHANGED <<handle, device, pc, fn, ud, c, ran>>

Probe(p) ==
    /\ p \in Probers /\ pc[p] = "idle" /\ handle[p] = "open"
    /\ Reinitialise
    /\ UNCHANGED <<handle, device, pc, fn, ud, c, ibsta, iberr, board, ran>>

\* A device call looks up its descriptor first; a board call has none.
Start(p, f, s) ==
    /\ pc[p] = "idle"
    /\ IF f = "board" \/ device[p][s].used
       THEN /\ pc' = [pc EXCEPT ![p] = IF f \in Configured THEN "info" ELSE "run"]
            /\ fn' = [fn EXCEPT ![p] = f] /\ ud' = [ud EXCEPT ![p] = s]
            /\ UNCHANGED <<ibsta, iberr>>
       ELSE Fail(p, "EARG") /\ UNCHANGED <<pc, fn, ud>>
    /\ Forget(p) /\ UNCHANGED <<driverVars, handle, device, c, board>>

GetInfo(p) ==
    /\ pc[p] = "info" /\ handle[p] = "open"
    /\ c' = [c EXCEPT ![p] = config]
    /\ pc' = [pc EXCEPT ![p] = "set"]
    /\ UNCHANGED <<driverVars, handle, device, fn, ud, ibsta, iberr, board, ran>>

\* Mutant: what GET_INFO said is not kept.
MergedFromScratch(p) ==
    [Default EXCEPT !.timeout = device[p][ud[p]].timeout, !.eos = device[p][ud[p]].eos]

\* Mutant: the EOS mode of the last call stays.
MergedTimeoutOnly(p) ==
    [c[p] EXCEPT !.timeout = device[p][ud[p]].timeout]

\* The configuration with the descriptor's timeout and EOS put in.
Merged(p) ==
    [c[p] EXCEPT !.timeout = device[p][ud[p]].timeout, !.eos = device[p][ud[p]].eos]

SetConfig(p) ==
    /\ pc[p] = "set" /\ handle[p] = "open"
    /\ Apply(Merged(p))
    /\ c' = [c EXCEPT ![p] = Default]
    /\ pc' = [pc EXCEPT ![p] = "run"]
    /\ UNCHANGED <<handle, device, fn, ud, ibsta, iberr, board, ran>>

\* What the driver may answer: without a timeout it does not time out.
Answers ==
    {"NOCARD"} \cup
    IF ~chipOk THEN {"IO"}
    ELSE {"OK", "NOLISTENER", "NOTCIC", "NOTSC", "INVAL"}
            \cup (IF chip.timeout = 0 THEN {} ELSE {"TIMEOUT"})

\* Only ibrd marks a timeout in ibsta as well.
Outcome(p, st) ==
    IF st = "OK" THEN \E end \in BOOLEAN :
            (end => fn[p] = "ibrd") /\ Report(p, IF end THEN {"END"} ELSE {}, "none")
    ELSE Report(p, {"ERR"} \cup IF st = "TIMEOUT" /\ fn[p] = "ibrd" THEN {"TIMO"} ELSE {},
                MapStatus(st))

Run(p) ==
    /\ pc[p] = "run" /\ handle[p] = "open"
    /\ \E st \in Answers : Outcome(p, st)
    /\ ran' = [ran EXCEPT ![p] =
          IF chipOk THEN [fn |-> fn[p], want |-> device[p][ud[p]], used |-> chip] ELSE NoRun]
    /\ pc' = [pc EXCEPT ![p] = "idle"]
    /\ UNCHANGED <<driverVars, handle, device, fn, ud, c, board>>

\* No memory for the driver's copy of the data.
NoMemory(p) ==
    /\ pc[p] = "run" /\ fn[p] \in {"ibrd", "ibwrt"}
    /\ Fail(p, "EDVR")
    /\ pc' = [pc EXCEPT ![p] = "idle"]
    /\ UNCHANGED <<driverVars, handle, device, fn, ud, c, board, ran>>

Dropped(p) == pc[p] # "idle" /\ Lost(p)

\* The card is taken out and put back: a new driver instance, which the old handles do
\* not reach.
Reload ==
    /\ Renew
    /\ board' = DefaultBoard
    /\ handle' = [p \in Procs |-> IF handle[p] = "open" THEN "dead" ELSE handle[p]]
    /\ UNCHANGED <<device, pc, fn, ud, c, ibsta, iberr, ran>>

Process(p) ==
    \/ IbFindBoard(p)
    \/ \E tmo \in Timeouts, eos \in EosModes : IbDev(p, tmo, eos)
    \/ \E s \in Slots : \/ IbOnl(p, s)
                        \/ \E tmo \in Timeouts : IbTmo(p, s, tmo)
                        \/ \E eos \in EosModes : IbEos(p, s, eos)
                        \/ \E f \in Calls : Start(p, f, s)
    \/ \E new \in Settings : IbConfigBoard(p, new)
    \/ Probe(p)
    \/ GetInfo(p) \/ SetConfig(p) \/ Run(p) \/ NoMemory(p) \/ Dropped(p)

ApiNext == Reload \/ \E p \in Procs : Process(p)

ApiSpec == ApiInit /\ [][ApiNext]_apiVars
------------------------------------------------------------------------------
(* Properties *)

\* A read, a write or a serial poll runs with its own descriptor's timeout and EOS mode,
\* whatever was done through other descriptors, to the board or to the chip before.
TransfersUseOwnSettings ==
    \A p \in Procs : ran[p].fn \in Configured =>
        /\ ran[p].used.timeout = ran[p].want.timeout
        /\ ran[p].used.eos = ran[p].want.eos

\* Every device call keeps to the exact timeout set for its descriptor.
CallsUseOwnTimeout ==
    \A p \in Procs : ran[p].fn \in DeviceCalls => ran[p].used.timeout = ran[p].want.timeout

\* The interface's own addresses and T1 stay what ibconfig_board last asked for: the calls
\* that change the timeout and the EOS mode write them back unharmed.
BoardKept == config.pad = board.pad /\ config.own = board.own
==============================================================================
