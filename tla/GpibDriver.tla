------------------------------ MODULE GpibDriver ------------------------------
(* The stream driver's life: device.exe loads it when the card is inserted,   *)
(* applications call it on their own threads under one critical section, Card *)
(* Services tells it of removals from a thread of its own, and device.exe     *)
(* unloads it.  Card Services and device.exe are external: any request may be *)
(* refused, a client that has been deregistered is not called back, and no    *)
(* call is made before GPB_Init returned or while GPB_Deinit runs.            *)
EXTENDS Integers

CONSTANTS
    Apps,        \* application threads
    MaxPulls     \* bound: how often the card is pulled

ASSUME DriverAssumption == MaxPulls \in Nat /\ "none" \notin Apps /\ "loader" \notin Apps

Resources == {"table", "client", "wide", "window", "config"}   \* had from Card Services
Fields == {"table", "client", "window", "config", "map"}       \* set in gpib_device

\* What a call with a handle wants of the card: the bus, the bus with the registers logged
\* when it fails, a new self-test, the registers, new settings, or nothing.
Controls == {"bus", "write", "probe", "registers", "settings", "info"}
Kinds == Controls \cup {"open", "close"}

VARIABLES
    card,      \* the card is in its socket
    pulls,     \* removals so far
    chip,      \* "off", "on" as system controller, or "half": on line but not that
    held,      \* what Card Services holds for this driver
    fields,    \* fields of gpib_device that are set
    present,   \* card_present
    chipOk,    \* chip_ok
    load,      \* where GPB_Init or GPB_Deinit is; "up" between them
    lock,      \* who is in the critical section
    app,       \* [Apps -> stage of the call]
    kind,      \* [Apps -> what it wants]
    opens,     \* opens of gpib_device
    handles,   \* threads with an open handle
    events,    \* removals Card Services has yet to tell
    cb         \* the callback found the socket empty and is about to note it

cardVars == <<card, pulls, chip>>
csVars   == <<events, cb>>
appVars  == <<app, kind, opens, handles>>
devVars  == <<held, fields, present, chipOk>>
vars     == <<cardVars, csVars, appVars, devVars, load, lock>>

LoadStages == {"none", "socket", "bind", "register", "capture", "pick", "wide", "unwide", "narrow",
               "map", "configure", "bringup", "up",
               "shutdown", "unconfigure", "release", "deregister", "unbind", "free"}

TypeOK ==
    /\ card \in BOOLEAN /\ pulls \in 0 .. MaxPulls /\ chip \in {"off", "half", "on"}
    /\ held \subseteq Resources /\ fields \subseteq Fields
    /\ present \in BOOLEAN /\ chipOk \in BOOLEAN
    /\ load \in LoadStages
    /\ lock \in Apps \cup {"none", "loader"}
    /\ app \in [Apps -> {"out", "wait", "in", "touch", "leave"}]
    /\ kind \in [Apps -> Kinds]
    /\ opens \in Nat /\ handles \subseteq Apps
    /\ events \in 0 .. MaxPulls
    /\ cb \in BOOLEAN

Init ==
    /\ card \in BOOLEAN /\ pulls = 0 /\ chip = "off"
    /\ held = {} /\ fields = {} /\ present = FALSE /\ chipOk = FALSE
    /\ load = "none" /\ lock = "none"
    /\ app = [t \in Apps |-> "out"] /\ kind = [t \in Apps |-> "info"]
    /\ opens = 0 /\ handles = {}
    /\ events = 0 /\ cb = FALSE

------------------------------------------------------------------------------
(* GPB_Init: bringup *)

GpbInit ==
    /\ load = "none" /\ card
    /\ load' = "socket"
    /\ fields' = {} /\ present' = FALSE /\ chipOk' = FALSE /\ opens' = 0
    /\ UNCHANGED <<cardVars, csVars, app, kind, handles, held, lock>>

\* One request of bringup is granted; r is what Card Services now holds, f the field set.
Granted(here, next, r, f) ==
    /\ load = here /\ load' = next
    /\ held' = held \cup r /\ fields' = fields \cup f
    /\ UNCHANGED <<cardVars, csVars, appVars, chipOk, lock>>

\* goto fail
Refused(here) ==
    /\ load = here /\ load' = "shutdown"
    /\ UNCHANGED <<cardVars, csVars, appVars, devVars, lock>>

\* card_present is set before the client can be called back.
Register ==
    /\ Granted("register", "capture", {"client"}, {"client"})
    /\ present' = TRUE

\* cis_capture_socket
Capture ==
    /\ load = "capture" /\ load' = "pick"
    /\ UNCHANGED <<cardVars, csVars, appVars, devVars, lock>>

\* Mutant: the 16-bit window is kept.
ReleaseWideOmitted ==
    /\ Granted("unwide", "narrow", {}, {})
    /\ UNCHANGED present

\* The 16-bit window was only asked for to see whether it is granted.
ReleaseWide ==
    /\ load = "unwide" /\ load' = "narrow"
    /\ held' = held \ {"wide"}
    /\ UNCHANGED <<cardVars, csVars, appVars, fields, present, chipOk, lock>>

RefusedWide ==
    /\ load = "wide" /\ load' = "narrow"
    /\ UNCHANGED <<cardVars, csVars, appVars, devVars, lock>>

\* chip_bringup: a pulled card and one whose self-test fails stay off; one that does not
\* become system controller is on line all the same.
ChipBringup ==
    /\ chip' \in IF card THEN {"off", "half", "on"} ELSE {"off"}
    /\ chipOk' = (chip' = "on")

\* Mutant: the card is marked present once the load is done.
BringupAnnouncing ==
    /\ load = "bringup" /\ load' = "up"
    /\ ChipBringup
    /\ present' = TRUE
    /\ UNCHANGED <<card, pulls, csVars, appVars, held, fields, lock>>

Bringup ==
    /\ load = "bringup" /\ load' = "up"
    /\ ChipBringup
    /\ UNCHANGED <<card, pulls, csVars, appVars, held, fields, present, lock>>

LoadStep ==
    \/ GpbInit
    \/ Granted("socket", "bind", {}, {}) /\ UNCHANGED present
    \/ Granted("bind", "register", {"table"}, {"table"}) /\ UNCHANGED present
    \/ Register
    \/ Capture
    \/ Granted("pick", "wide", {}, {}) /\ UNCHANGED present
    \/ Granted("wide", "unwide", {"wide"}, {}) /\ UNCHANGED present
    \/ RefusedWide
    \/ ReleaseWide
    \/ Granted("narrow", "map", {"window"}, {"window"}) /\ UNCHANGED present
    \/ Granted("map", "configure", {}, {"map"}) /\ UNCHANGED present
    \/ card /\ Granted("configure", "bringup", {"config"}, {"config"}) /\ UNCHANGED present
    \/ Bringup
    \/ \E here \in {"socket", "bind", "register", "pick", "narrow", "map", "configure"} :
          Refused(here)

------------------------------------------------------------------------------
(* teardown, for a load that failed and for GPB_Deinit *)

\* device.exe unloads the driver once no call is in progress.
GpbDeinit ==
    /\ load = "up" /\ load' = "shutdown"
    /\ \A t \in Apps : app[t] = "out"
    /\ lock = "none" /\ lock' = "loader"
    /\ UNCHANGED <<cardVars, csVars, appVars, devVars>>

Shutdown ==
    /\ load = "shutdown" /\ load' = "unconfigure"
    /\ chip' = IF chipOk THEN "off" ELSE chip
    /\ chipOk' = FALSE
    /\ UNCHANGED <<card, pulls, csVars, appVars, held, fields, present, lock>>

\* Release what the field says is held, and clear the field.
Release(here, next, r) ==
    /\ load = here /\ load' = next
    /\ held' = IF r \in fields THEN held \ {r} ELSE held
    /\ fields' = fields \ {r}
    /\ UNCHANGED <<cardVars, appVars, present, chipOk, lock>>

\* Deregistering waits for a callback under way; what was not told yet never is.
Deregister ==
    /\ ~cb \/ "client" \notin fields
    /\ Release("deregister", "unbind", "client")
    /\ events' = 0 /\ UNCHANGED cb

\* Mutant: the window goes before the configuration that uses it.
TeardownSwapped ==
    \/ Shutdown
    \/ Release("unconfigure", "release", "window") /\ UNCHANGED csVars
    \/ Release("release", "deregister", "config") /\ UNCHANGED csVars
    \/ Deregister
    \/ Release("unbind", "free", "table") /\ UNCHANGED csVars

Teardown ==
    \/ Shutdown
    \/ Release("unconfigure", "release", "config") /\ UNCHANGED csVars
    \/ Release("release", "deregister", "window") /\ UNCHANGED csVars
    \/ Deregister
    \/ Release("unbind", "free", "table") /\ UNCHANGED csVars

\* The structure and its lock are given back; handles to a driver that is gone are dead.
Free ==
    /\ load = "free" /\ load' = "none"
    /\ fields' = {} /\ present' = FALSE /\ opens' = 0
    /\ handles' = {}
    /\ lock' = IF lock = "loader" THEN "none" ELSE lock
    /\ UNCHANGED <<cardVars, csVars, app, kind, held, chipOk>>

------------------------------------------------------------------------------
(* Calls *)

\* A thread opens the driver before it makes another call; an open that finds no memory
\* for its handle changes nothing.
Call(t, k) ==
    /\ load = "up" /\ app[t] = "out"
    /\ k = "open" <=> t \notin handles
    /\ app' = [app EXCEPT ![t] = "wait"] /\ kind' = [kind EXCEPT ![t] = k]
    /\ UNCHANGED <<cardVars, csVars, devVars, load, lock, opens, handles>>

\* Mutant: the call does not take the lock.
EnterUnlocked(t) ==
    /\ app[t] = "wait"
    /\ lock' = t
    /\ app' = [app EXCEPT ![t] = "in"]
    /\ UNCHANGED <<cardVars, csVars, devVars, load, kind, opens, handles>>

Enter(t) ==
    /\ app[t] = "wait" /\ lock = "none"
    /\ lock' = t
    /\ app' = [app EXCEPT ![t] = "in"]
    /\ UNCHANGED <<cardVars, csVars, devVars, load, kind, opens, handles>>

\* check_ready
Ready == present /\ chipOk

\* Who goes on to the registers: a write that fails does, to log them.
Touches(k) ==
    CASE k = "bus"                   -> Ready
      [] k = "write"                 -> TRUE
      [] k \in {"probe", "registers"} -> present
      [] k = "settings"              -> chipOk
      [] k = "info"                  -> FALSE

Check(t) ==
    /\ app[t] = "in" /\ kind[t] \in Controls
    /\ app' = [app EXCEPT ![t] = IF Touches(kind[t]) THEN "touch" ELSE "leave"]
    /\ UNCHANGED <<cardVars, csVars, devVars, load, lock, kind, opens, handles>>

\* Mutant: only the close counts.
OpenUncounted(t) ==
    /\ app[t] = "in" /\ kind[t] = "open"
    /\ handles' = handles \cup {t}
    /\ app' = [app EXCEPT ![t] = "leave"]
    /\ UNCHANGED <<cardVars, csVars, devVars, load, lock, kind, opens>>

Open(t) ==
    /\ app[t] = "in" /\ kind[t] = "open"
    /\ opens' = opens + 1 /\ handles' = handles \cup {t}
    /\ app' = [app EXCEPT ![t] = "leave"]
    /\ UNCHANGED <<cardVars, csVars, devVars, load, lock, kind>>

Close(t) ==
    /\ app[t] = "in" /\ kind[t] = "close"
    /\ opens' = opens - 1 /\ handles' = handles \ {t}
    /\ app' = [app EXCEPT ![t] = "leave"]
    /\ UNCHANGED <<cardVars, csVars, devVars, load, lock, kind>>

Touch(t) ==
    /\ app[t] = "touch"
    /\ app' = [app EXCEPT ![t] = "leave"]
    /\ IF kind[t] = "probe" THEN ChipBringup ELSE UNCHANGED <<chip, chipOk>>
    /\ UNCHANGED <<card, pulls, csVars, held, fields, present, load, lock, kind, opens, handles>>

\* Mutant: the lock is kept.
LeaveLocked(t) ==
    /\ app[t] = "leave"
    /\ app' = [app EXCEPT ![t] = "out"] /\ kind' = [kind EXCEPT ![t] = "info"]
    /\ UNCHANGED <<cardVars, csVars, devVars, load, lock, opens, handles>>

Leave(t) ==
    /\ app[t] = "leave"
    /\ app' = [app EXCEPT ![t] = "out"] /\ kind' = [kind EXCEPT ![t] = "info"]
    /\ lock' = "none"
    /\ UNCHANGED <<cardVars, csVars, devVars, load, opens, handles>>

------------------------------------------------------------------------------
(* The socket and card_callback *)

Pull ==
    /\ card /\ pulls < MaxPulls
    /\ card' = FALSE /\ chip' = "off" /\ pulls' = pulls + 1
    /\ events' = IF "client" \in held THEN events + 1 ELSE events
    /\ UNCHANGED <<cb, appVars, devVars, load, lock>>

Insert ==
    /\ ~card /\ card' = TRUE
    /\ UNCHANGED <<pulls, chip, csVars, appVars, devVars, load, lock>>

\* A removal counts only if the socket is still empty.
CallbackLooks ==
    /\ events > 0 /\ ~cb
    /\ events' = events - 1 /\ cb' = ~card
    /\ UNCHANGED <<cardVars, appVars, devVars, load, lock>>

\* Mutant: the removal is logged and not noted.
CallbackNotesNothing ==
    /\ cb /\ cb' = FALSE
    /\ UNCHANGED <<cardVars, events, appVars, devVars, load, lock>>

CallbackNotes ==
    /\ cb /\ cb' = FALSE
    /\ present' = FALSE
    /\ UNCHANGED <<cardVars, events, appVars, held, fields, chipOk, load, lock>>

Loader == LoadStep \/ Teardown \/ Free
Caller(t) == Enter(t) \/ Check(t) \/ Open(t) \/ Close(t) \/ Touch(t) \/ Leave(t)
Callback == CallbackLooks \/ CallbackNotes

Next ==
    \/ Loader \/ GpbDeinit
    \/ \E t \in Apps : Caller(t) \/ \E k \in Kinds : Call(t, k)
    \/ Callback
    \/ Pull \/ Insert

Spec == Init /\ [][Next]_vars

\* Threads run on and Card Services delivers its events.
FairSpec ==
    /\ Spec
    /\ WF_vars(Teardown \/ Free) /\ WF_vars(Callback)
    /\ \A t \in Apps : /\ WF_vars(Check(t) \/ Open(t) \/ Close(t) \/ Touch(t) \/ Leave(t))
                       /\ SF_vars(Enter(t))
------------------------------------------------------------------------------
(* Properties *)

\* Whatever request of the load was refused, and after every unload, Card Services
\* holds nothing for a driver that is gone.
NothingLeaks == load = "none" => held = {}

\* What others rest on is never released under them: the configuration goes before the
\* window, both before the client, the client before the table of calls, and the chip is
\* shut down first.
ReleasedInOrder ==
    [][\A r \in held \ held' :
          /\ r = "config" => ~chipOk
          /\ r = "window" => "config" \notin held
          /\ r = "client" => held \cap {"config", "wide", "window"} = {}
          /\ r = "table" => held = {"table"}]_vars

\* Threads at the card's registers.
Touching ==
    {t \in Apps : app[t] = "touch"}
       \cup (IF load = "bringup" \/ (load = "shutdown" /\ chipOk) THEN {"loader"} ELSE {})

\* Registers are reached by one thread at a time, and only while the window is mapped and
\* the card configured.
RegistersSafe ==
    /\ \A s, t \in Touching : s = t
    /\ Touching # {} => {"window", "config"} \subseteq held /\ "map" \in fields

\* Once the callback has been told that the card is gone, the driver knows it: nothing
\* in the load or in a call marks the card present again.
RemovalKnown ==
    load = "up" /\ ~card /\ events = 0 /\ ~cb => ~present

\* An unloaded driver does not leave the chip on the bus as system controller.
BusReleased == load = "none" => chip # "on"

\* A removal is noticed, or the driver unloaded, unless a card is back before anyone looks.
RemovalNoticed == load = "up" /\ ~card ~> ~present \/ load # "up" \/ card

\* A call that was made returns, whoever else is calling and whatever the card does.
DriverReturns == \A t \in Apps : app[t] # "out" ~> app[t] = "out"
==============================================================================
