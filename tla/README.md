# A verification project for jornada-gpib

jornada-gpib drives a National Instruments PCMCIA-GPIB card (TNT4882C chip) from a
Windows CE 2.11 handheld: a chip driver that polls a FIFO, IEEE 488 controller sequences on
top of it, a stream driver with IOCTLs, an NI-488.2 style API, and a TCP gateway that speaks
the Prologix command language. This directory holds TLA+ models of it, the TLC
configurations that check them, and TLAPS proofs. Source paths below are relative to the
repository root (`src/gpib/...`, `tests/host/...`).

## 1. Inventory

| Component | State it keeps | Operations | Hard behaviour | What makes it correct |
|---|---|---|---|---|
| Chip driver, transfers (`src/gpib/tnt4882.c`) | accumulated ISR1, handshake mode, timeout; the call's counters | `tnt_write`, `tnt_command`, `tnt_read` | the chip moves bytes between any two register accesses; ISR1 clears on reading; a transfer can be abandoned at any byte | counts and END flags match what crossed the bus; nothing stale leaks from one call into the next; calls return |
| Chip driver, bus management (same file) | shadow of the auxiliary registers | probe, init, shutdown, address, EOS, T1, IFC, REN, take control, standby | waits with deadlines; control can be lost | ATN is what the caller was told it is |
| Chip and device (`tests/host/sim_tnt4882.c`) | FIFO, counter, GO/HALT, holdoff, device addressing | engine, register reads and writes | runs concurrently with the driver | (the environment of the driver) |
| Controller sequences (`src/gpib/gpib488.c`) | none of its own; the bus keeps addressing and serial poll mode | write, read, clear, trigger, local, lockout, serial poll, pass control, IFC | a sequence stops half way; control is lost; the card is pulled and every register reads 0xFF | only the addressed device is reached; success is true; the bus is left quiet and out of serial poll mode |
| Stream driver (`src/gpib/drv_ce.c`) | device record, lock, open count, configuration, card presence | Init, Deinit, Open, Close, Read, Write, IOControl, removal callback | callers on several threads; removal at any time; bring-up failing at any step | resources released once; calls serialised; status after removal |
| NI-488.2 API (`src/gpibapi/ib.c`) | descriptor table, `ibsta`/`iberr`/`ibcnt`, per-device settings | `ibdev`, `ibonl`, `ibwrt`, `ibrd`, `ibrsp`, settings | settings go through the driver's one configuration in separate IOCTLs; several processes | a transfer uses its own descriptor's settings |
| Gateway (`src/gpibsrv/gpibsrv.c`) | target address, modes, sockets, stop flag | line parser, controller commands, accept loop, quit | two threads; silent clients; quit while a transfer runs | every line does one thing; the server stops; a silent client is dropped |
| Terminal, tools (`gpibterm`, `gpibtest`, `nettest`, `hello`) | window controls | one API call per command | none | (user interface) |
| CIS and PnP id (`cis.c`, `pnpid.c`), runtime (`src/rt`) | none | pure functions | numeric edges, buffers that are too small | equal to a reference definition |
| Install, log, build tools | files, registry | straight-line I/O | none | not modelled |

Interaction: an application calls the API; the API issues IOCTLs; the driver takes its lock,
makes sure it is controller in charge (`ensure_cic`), and runs one controller sequence; the
sequence sends command bytes through `tnt_command`, releases ATN, moves data with
`tnt_write`/`tnt_read`, and takes control back. There are no interrupts: the caller's thread
polls. Card Services calls the removal callback on a thread of its own and without the lock.

`PROJECT.json` lists the hazards of each part with their lines and the properties aimed at
them.

## 2. Modules

| Module | Models |
|---|---|
| `ByteTransfer` | what a transfer call promises: bytes cross the bus one at a time, a call may return at any time, its result fits what moved |
| `TntChip` | the chip's FIFO engine and one device |
| `TntTransfer` | `tnt_transfer_out` and `tnt_read` against `TntChip` |
| `MCTntTransfer` | values of the constants for TLC |
| `TntProgress` | adds a history of when the last byte moved, for one claim of a header comment |
| `TntTransferProofs` | proofs about `TntTransfer`, the refinement of `ByteTransfer` included |
| `GpibBus` | who is addressed, what a command byte does to every device, outside events |
| `Gpib488` | the sequences of `gpib488.c`, entered through `ensure_cic` |
| `Gpib488Inv` | the inductive invariant of `Gpib488` |
| `Gpib488Proofs` | proofs about `Gpib488`: command strings byte by byte, then every step |
| `GpibDriver` | the stream driver's life: load, calls from several threads, removal, unload |
| `GpibDriverProofs` | proofs about `GpibDriver` |
| `TntRegisters` | how the chip driver sets the chip up: its shadow registers and the chip's own |
| `DriverSettings` | what the stream driver promises about its one configuration |
| `SettingsPromise` | the same, with what each of its changes is tied to |
| `GpibIoctl` | the stream driver's calls: configuration, handles, chip set-up; implements `SettingsPromise` |
| `GpibIoctlProofs` | proofs about `GpibIoctl` |
| `IbApi` | the NI-488.2 style calls of one or several processes, over `DriverSettings` |
| `IbApiProofs` | proofs about `IbApi` |
| `PrologixLine` | the gateway's line parser |
| `PrologixProofs` | proofs about `PrologixLine` |
| `Gateway` | the gateway's server thread and the window that stops it |
| `GatewayProofs` | proofs about `Gateway` |
| `RtRoutines`, `CardRoutines` | the runtime's and the card's routines as operators |
| `RtCalls`, `CardCalls` | one call of one of them, and what it promises |
| `RoutineProofs` | proofs about `RtCalls` and `CardCalls` |
| `MCRoutines` | values of the constants, and the line parser, the API and the routines side by side in one run |
| `MCCard` | values of the constants for the identifier of cards with long names |
| `MCGpib488`, `MCGpibDriver`, `MCGpibIoctl`, `MCIbApi`, `MCGateway` | values of the constants for TLC |

The layers meet at what one promises the next. `TntTransfer` is shown to implement
`ByteTransfer` (run `transfer`), and the data phase of `Gpib488` moves its bytes exactly as it allows: one byte
per step, an end at any moment. `Gpib488` is one call under the driver's lock, which
`GpibDriver` shows to be held by one thread at a time. `IbApi` takes each IOCTL as one step for
the same reason, and takes what an IOCTL does to the settings from `DriverSettings`, which
`GpibIoctl` is shown to implement with the chip's registers (`SettingsPromise`). A line of `PrologixLine` is one job of `Gateway`, and a job is a list of the
calls `IbApi` models.

### TntChip and TntTransfer

The simulator that the host tests link against is the repository's description of the chip.
It moves as many bytes as it can at each register access; `TntChip` makes each byte a step
(`BusOut`, `BusIn`, `BusRefused`) that may fall between any two steps of the driver, as in
the hardware. `cnt` counts up to zero modulo `CountSpan` (2^32 in 32-bit mode), so `set_count`
and `remaining_count` are `Negated`. `Toggle` switches the device on and off the bus, `Load`
gives it something to say.

The driver's program counter names the point between two register accesses whose order
matters. Everything before GO is one step, because the halted engine cannot move.

| Step | Code |
|---|---|
| `StartWrite` | reset FIFO, CFG, counter, poll and forget ERR, GO (358-370) |
| `QueueByte`, `QueueFull`, `PollOut("queuePoll", ...)` | the queueing loop (371-387) |
| `CheckDone`, `PollOut("donePoll", ...)` | the DONE loop (388-399) |
| `StopOut`, `ReturnWrite` | STOP, then the count read back (400-404) |
| `StartRead` | release the holdoff, reset FIFO, CFG, counter, poll and forget END, GO (450-457) |
| `DrainByte`, `DrainReturns` | `drain_fifo` and the restart of the deadline (458-464) |
| `PollIn` | status, END, deadline (465-475) |
| `EndDrained`, `LastPoll` | the drain after END, the look at END with a full buffer (466-482) |
| `ReturnRead` | STOP, forget END, hold off after a timeout (483-489) |

`seen` is `c->isr1`. `waited` is the time since the deadline was started, as far as
`Timeout`; `Tick` advances it. `taken`, `heard` and `refused` are histories of the call, used
by the properties only.

### GpibBus and Gpib488

`GpibBus` keeps the addressed state of every member of the bus, the interface included.
`Apply` is the effect of one command byte on all of them. The simulator ignores secondary
addresses; here they follow IEEE 488.1 extended addressing, which is the mode
`tnt_set_address` puts the chip in, so that part is marked external.

`Gpib488` runs one call at a time (the driver's lock): `Begin` is `check_ready`, `Gate` is
`ensure_cic`, `StartCommands`/`SendCommand`/`CommandsSent`/`CommandsCut` are `tnt_command` and
`gpib_send_commands`, `Ask`/`Saw`/`Expires` are `tnt_take_control`, `tnt_go_to_standby` and
`wait_atn`, `WriteByte`/`ReadByte`/`DataEnds` the data transfer, `StartTail` the SPD and UNT
that end a serial poll. `Outside` may interfere between any two steps: a device is switched
off or on, another system controller resets the bus, another controller that has charge
addresses devices, the card is pulled, the removal callback runs.

A pulled card is modelled by what its registers read, 0xFF: controller in charge, ATN not
asserted (`NATN` set), FIFO ready and not empty, DONE, ERR, END, counter one byte short. This
is an assumption about the socket, not about the code. A pulled card does not come back: a
new card is a new driver instance.

### GpibDriver

`load` is where `GPB_Init` or `GPB_Deinit` is; each request to Card Services is a step that is
granted (`Granted`) or refused (`Refused`, the `goto fail`), and `teardown` is a sequence of
steps that follows the fields of `gpib_device`, for a failed load and for `GPB_Deinit` alike.
`held` is what Card Services really holds; the properties compare it with what the fields let
`teardown` release. `ReleaseWide` is the 16-bit window that `request_window` asks for, keeps no
record of, and gives back. `opens` is `d->opens`; `handles` are the
threads that have a handle open.

| Step | Code (`drv_ce.c`) |
|---|---|
| `GpbInit`, `Granted(...)`, `Register`, `Capture`, `ReleaseWide`, `Bringup` | `bringup` and its helpers (116-348) |
| `Refused` | `fail:` (349-353) |
| `Shutdown`, `Release`, `Deregister`, `Free` | `teardown`, the end of `GPB_Deinit` (276-295, 376-379) |
| `Enter`, `Leave` | the critical section of the entry points (899-912) |
| `Open`, `Close` | `GPB_Open`, `GPB_Close` and the count of handles (382-415) |
| `Check`, `Touch` | `check_ready` and the handlers, reduced to whether they go on to the registers (417-896) |
| `CallbackLooks`, `CallbackNotes` | `card_callback` (95-113): it asks for the socket's state, then writes `card_present` without the lock |

External, and assumed: device.exe makes no call before `GPB_Init` returned and unloads the
driver when no call is in progress; Card Services may refuse any request, refuses to configure
an empty socket, waits in deregistration for a callback that is under way, and does not call a
client that has been deregistered.

### TntRegisters, DriverSettings and GpibIoctl

`TntRegisters` has the chip driver's record `c` (`tnt_chip`) and the registers `r` side by side;
`tnt_probe`, `tnt_init`, the setters and `tnt_shutdown` are operators on the pair. `GpibIoctl`
makes each call of the stream driver one step: `SetConfig` with its checks and `apply_config`,
`ResetBus`, the transfers, explicit ATN and REN, `Probe`, a handle's opening, default device and
closing, and the load and unload around them. A card may be pulled at any time (writes to its
registers are lost, reads give all ones) and another controller may take the bus. Whether a real
chip stays system controller across its reset is not known from the source, so `keepsSC` is
either. `DriverSettings` is the same from outside: `Apply` sets what is asked for and what
the chip runs with, `Reinitialise` keeps the primary address and the timeout only.
`SettingsPromise` says when each may happen: a configuration that is set, a probe the driver obeys
(`probes`), a load or an unload (`up`), a card that is lost (`here`), and registers written past
the driver (`raw`). `probes` is even or odd, so that a probe is a change of state the promise sees.

| Step | Code (`drv_ce.c`) |
|---|---|
| `Load`, `Bringup` | `GPB_Init`, `bringup`, `chip_bringup` as far as they set up (239-258, 297-365) |
| `Unload` | `teardown` (276-281) |
| `Open`, `Close`, `SetDevice`, `NoDevice` | the handle and its default device (382-415, 428-461, 793-798) |
| `SetConfig`, `Applied` | its checks and `apply_config` (512-521, 779-792) |
| `Ifc`, `Ren`, `Atn`, `Probe`, `RawOut` | the calls on the interface itself (612-636, 718-749, 799-817, 877-889) |
| `BusCall` | the calls on the bus: `EnsureCic`, then what the sequence leaves of ATN, control and the shadow (260-274, 554-610, 820-870) |
| `WriteRegister` | `IOCTL_GPIB_REGISTER` to write: the chip holds something the driver has no record of (638-660) |
| `Look`, `Info`, `Refuse` | calls that only report, and bad parameters |

### IbApi

A transfer (`ibrd`, `ibwrt`, `ibrsp`) is `Start`, `GetInfo`, `SetConfig`, `Run`: three IOCTLs,
each one step because of the driver's lock, with anything another process does in between.
`config` is `gpib_device.config`, `chip` what the chip runs with, both as in `DriverSettings`. `Reload` is the card taken
out and put back: a new driver that the old handles do not reach. `ran` records what the last
bus operation of a process wanted and what it ran with.

### PrologixLine and Gateway

`PrologixLine` has the loop of `serve_client` byte by byte. Its reference looks at the whole
stream at once, as sets of positions: an ESC escapes (`Escapes`) when it stands at an even
distance from the start of its run of ESCs; a line ends (`Ends`) at a terminator that is not
escaped; its text is what is neither. `HandlesItsLines` says that the lines handled are those.
`Gateway` has the
server thread (`Listen` to `CloseListener`), with a line as the list of ib calls it makes
and the answers it sends
(`Jobs`), of which any may fail, and `WinMain` (`WindowCloses`, `CloseClient`,
`CloseListenerToo`, `Joined`, `Terminate`). Winsock is external: closing a socket fails the
call that waits on it. A send waits while its client reads nothing and the buffers are full
(`full`, `Stalled`); `ReadingChanges` leaves it to the client when that is.

### Routines

`RtRoutines` computes on words of `Width` bits what the code computes on 32: division in SH-3
divide steps (`divide.s`), `memmove` in both directions, the bounded copy, the formatter with its
parsing of flags and width (`Parsed`), the deadline. The loops are functions of the number of turns taken (`Steps`, `memmove`, `digits`,
`Produced`, `PutAll`), so that a proof can follow them turn by turn. `CardRoutines` walks the
tuples of a CIS, packs them, computes Windows' identifier and picks the I/O window. Tuples are
bytes; the CRC register is the set of its bits that are one, so that the code's exclusive or is
the symmetric difference (`Xor`) and a right shift lowers the members (`Shifted`). `RtCalls` and
`CardCalls` call any of them on any input of a grid. Their references say the result without the
loops: quotients by `\div`, a formatted number by what it reads back as (`ReadsBack`)
and by the flags and width C reads in its marks (`Asked`), the tuples
kept by which are left out (`CaptureOf`), a name by the places between the NULs (`Place`,
`Name`), the CRC by a register fed bit after bit (`SerialCrc`), the identifier by the first tuple
that names the card (`IdentifierOf`).

## 3. Runs

| Run | Question | Bounds |
|---|---|---|
| `transfer` | do the results of write and read calls match the bus, over any sequence of calls; does driver plus chip implement `ByteTransfer`; does every call return with a timeout set | FIFO of 2, counter modulo 8, buffers up to 4 bytes of which 4 exceed `MaxTransfer`, messages with END at the end, in the middle and absent, timeout 1 tick |
| `patient` | does every call return without a timeout, given a willing device | timeout 0 |
| `progress` | is a timeout only reported when nothing moved (violated) | timeout 2 |
| `sequences` | do the bus operations reach only their device, report the truth, leave the bus usable and return | 2 devices, one with a secondary address, 1 data byte, one operation of each kind of command string |
| `own_secondary` | is the interface addressed in the data phase when it has a secondary address (violated) | 2 devices |
| `setup` | does the driver keep the settings it promises in the chip's registers, is an undriven chip off the bus, does a load that finds a card work | configurations at both sides of each threshold of T1 and each limit, with and without EOS, timeout and secondary address; two contents of registers written past the driver; one handle |
| `driver` | is what a load acquired released once and in order, are the registers safe, is a removal noticed, does every call return | 2 application threads, 2 removals |
| `api_addressed` | does every device call keep to its descriptor's timeout (violated) | as the API in `lines`, `ibclr` only |
| `lines` | are the lines handled those of the stream, however `recv` cuts it; do the routines give what their references give; does a transfer of the API run with its own descriptor's settings, and does the board keep its own | 6 bytes of 5 sorts, lines of 3, `recv` of 2, a second connection; words of 5 bits, 4 bytes of memory, buffers of 0 to 12 and, for the identifier, of 25 and 26, formats of up to 3 parts, CISes of up to 4 tuples; 1 process with 2 descriptors, 2 timeouts, 2 EOS modes, 2 own addresses |
| `lines_escaped` | is escaped data never a command (violated) | the same streams |
| `card_named` | is a buffer too small for the identifier refused (violated) | the driver's limits and buffer divided by four, names of up to their limits |
| `gateway` | are descriptors given back, the next client served, the gateway stopped when asked to | 2 clients of 2 lines, idle limit 2, 1 descriptor, 1 full read per job |

Why these bounds are enough. A FIFO of 2 with messages of 3 passes through empty, partly
full, full, and full again while the bus drains it; the counter wraps and ends at 0; a buffer
that is exactly filled by the END byte, one that is too short, and one that is longer than the
message all occur. One tick of timeout is enough for the deadline to pass between any two
steps. Two devices are enough to have a wrong one; one data byte is enough to reach it
(`Gpib488Proofs` removes both bounds). Of the operations that send the same kind of command
string one is enough for TLC; the proofs have them all. Words of 5 bits have every case of sign
and carry, and dividing them takes several steps. Two
threads are enough to contend for the lock, and the second removal finds a driver that was told
of the first; `GpibDriverProofs` removes the bound for the safety properties. Two descriptors
and two values of each setting are enough for a stale one. Six bytes hold an escape that is cut
off by `recv`, a line longer than three bytes, a command with text and a line after it. With
one descriptor a single one that is not given back fills the table. Four tuples are one more
than the walk takes; the capture's buffer is exactly filled by some two of them and too short for
others, and some identifiers just fit theirs.

What the runs say of the code:

- `SentExact`, `OutFaithful`, `NoListenerReal`, `ReadLossless`, `EndExact`,
  `QuietBetweenCalls` hold: the order of STOP and the reading of the counter, the FIFO reset,
  the forgetting of old status bits, the second drain after END and the last poll with a full
  buffer are each needed (each has a mutant that breaks the property).
- `DataOnlyToTarget`, `ReadOnlyFromTarget`, `CommandOnlyTarget`: wherever an earlier sequence
  stopped, the next one addresses its device and nobody else.
- `OkMeansDone`: a card pulled at any point never turns into a success, because control
  cannot be taken back from registers that read 0xFF.
- `PollsAreEnded`: devices stay in serial poll mode only after a poll that reported an error;
  until the next successful poll or interface clear a read can then return a status byte as
  data, which `ReadOnlyFromTarget` allows in that case only.
- `ErrorsHaveCauses`: "not controller in charge" is only reported when control was lost during
  the call, since `ensure_cic` takes back control lost before; no call says that nobody
  listened while its device was there.
- `ImplementsSettings`: what `SET_CONFIG` asked for is in the registers until the driver obeys
  `IOCTL_GPIB_PROBE`, is loaded anew or loses its card; after a probe only the primary address and
  the timeout are: `chip_bringup` restores no EOS mode, secondary address or T1. A register written
  by `IOCTL_GPIB_REGISTER` changes what the chip runs with, and until the next bring-up any call may
  write the driver's own record over it, or part of it.
- `ReadyUnlessProbedAgain`, `OffTheBus`: a load works however the driver was used before, unless
  it was made to probe a chip that stays system controller across the reset, which the
  self-test takes for a failure; that chip is also the one that is not given back fully.
  Registers written past the driver are undone by an unload, but for REN of a chip that was made to
  drop the part of the system controller.
- `DivisionExact`, `BuffersExact`, `DeadlineExact`, `CardDescribed`: the routines do what C, or
  Windows' identifier, asks for at every edge of the grid: the most negative word, a buffer of
  one, overlapping moves, a clock that wraps, a CIS that ends in the midst of a name.
  Of the identifier `CardDescribed` asks for this only in a buffer that holds it; see `card_named`
  below for the others.
- `NothingLeaks`, `ReleasedInOrder`: a load that is refused anything, at any
  step, leaves nothing behind and takes nothing from under its user. A chip that came on line
  without becoming system controller is not shut down, which `BusReleased` (proved only) leaves
  room for.
- `RemovalKnown`, `RemovalNoticed`: a removal becomes known although the callback writes
  `card_present` without the lock, also when it falls in the load, because `bringup` sets the
  flag before the client is registered. A card put back before the callback asks is taken for
  the old one.
- `TransfersUseOwnSettings`, `BoardKept` hold for one process. With two (`Procs <- {p1, p2}`)
  TLC finds `TransfersUseOwnSettings` violated: another process's `SetConfig` comes between
  this one's and its transfer. The code and its documents promise nothing there, so it is not
  a run.
- `HandlesItsLines`: cuts by `recv`, escapes at a cut, overlong lines and what a former client
  left unfinished change nothing.
- `StopsWhenAsked`, `TerminatedOnlyBusy`: the gateway stops whoever asks and whatever the
  server thread does. The thread is terminated only in the midst of an instrument call, or for a
  client that came after the window had looked for one.
- `NextClientServed`: a silent client is dropped and the next one served, as long as no client leaves
  its answers unread for ever (`[]<>~Stalled`). Without that (`QueueMoves`) TLC finds it violated: the
  comment in `serve_client` says that a client whose socket never closes "cannot wedge the
  single-client server forever", but one that has stopped reading too holds it in `send_all`, which
  has no time limit and is not under the idle ticks.

Disagreements found:

- `progress`: the loop that waits for DONE never restarts its deadline, so a write whose last
  bytes leave the FIFO slowly times out although bytes moved; `include/gpib/tnt4882.h` calls
  that status "no progress within the timeout".
- `own_secondary`: `gpib_serial_poll` sends the interface's primary listen address without its
  secondary one. With a secondary address configured the interface is never a listener and
  the poll cannot return its byte.
- `api_addressed`: `ibclr`, `ibtrg`, `ibloc` and `ibpct` do not apply the descriptor's settings
  and run with the timeout of whichever call was last, none included.
- `lines_escaped`: escapes are resolved before a line is classified, so data that begins with
  two escaped plus signs (`ESC + ESC +`) is run as a controller command.
- `card_named`: `include/gpib/pnpid.h` says that rendering the identifier returns "0 if out is too
  small". The code does so below 8 characters and cuts the identifier otherwise, its CRC with it;
  the names a card may have do not fit the driver's own buffer together.

## 4. Fairness

`FairSpec` of `TntTransfer`: weak fairness of the driver's steps (the caller's thread keeps
running; the loops yield and are scheduled again) and of the clock. Nothing is assumed of the
device. `WillingSpec`, used with no timeout, adds that a byte that can cross the bus does, and
that the talker goes on talking; the properties themselves ask for a device that stays on the
bus from some time on. `FairSpec` of `Gpib488`: weak fairness of the controller's steps, the
expiry of a deadline among them; this assumes a timeout is set, since with none the driver is
documented to wait for ever.

`FairSpec` of `GpibDriver`: weak fairness of teardown, of the callback (Card Services delivers
its events) and of a call past the lock, and strong fairness of `Enter`: the critical section
is handed on and no thread is passed over for ever. Nothing is assumed of the load: Card
Services may take any time over a request. `FairSpec` of `Gateway`: weak fairness of the server
thread, of the last steps of `WinMain` and of the end of its wait (`Terminate`), and a posted
`WM_CLOSE` arrives; strong fairness of `Send`: TCP delivers to a client that reads now and then. Calls on the
instrument return because of the driver's timeout (run `sequences`, property `CallsReturn`);
nothing is assumed of the clients, but in `NextClientServed`, which supposes that none leaves its
answers unread for ever.

## 5. Proofs

`TntTransferProofs` proves `TypeCorrect` (the type invariant, for every FIFO depth, counter
span, set of buffers, maximum and timeout), with `QueueBound`, that `queued` never passes the
length of the buffer, as the strengthening it needs.

It proves the safety properties of run `transfer` for every value of the constants as well. None of them is inductive: each speaks of a finished call. The inductive invariant
`TransferInv` says where every byte is while a call runs:

- `OutChip`, `OutPosition`: the bytes taken followed by the bytes in the FIFO are a prefix of
  the caller's buffer of length `queued`; the counter is minus the bytes still to go, modulo
  its span; EOI was sent with the last one only.
- `OutRefusal`: the engine halts, and ERR is in ISR1 or in `c->isr1`, exactly when a byte of
  this call was refused; so no ERR can be seen that was not raised in this call.
- `InChip`, `InPosition`: the bytes handed over followed by those in the FIFO are what was
  heard; END has been heard exactly when its flag is pending or seen, and then the talker is
  held off, so the END byte is the last one heard.
- `IdleInv`: a finished call left the engine stopped, the talker held off, and the results as
  the properties state them.

The assumptions are those named in the modules: `ChipAssumption` and `TransferAssumption`
(the longest transfer is shorter than the counter's span, which `TNT_MAX_TRANSFER` ensures).
TLC checked `TransferInv` on the small instance before it was proved.

From the same invariant it proves `ImplementsPromise`, that driver and chip together implement
`ByteTransfer`: a call begins as a call, `BusOut` and `BusIn` are its bytes, `ReturnWrite` and
`ReturnRead` are its returns with results that fit what moved, and every other step of the
driver, the chip and the environment is a stutter. What the promise calls running and what the
program counter says are tied by `StillRunning`; that a write hands no data to its caller
(`WriteAnswersNothing`) is an invariant the mapping needs besides.

`GpibDriverProofs` proves every safety property of run `driver` for any number of threads and
removals: `DriverTypes`, `NoLeak`, `BusFree`, `SafeRegisters`, `KnownRemoval`, and the action
property `InOrder`. The invariant `DriverInv` adds to the types what each part of the driver
relies on: the fields record what is held (`Recorded`), how much is held at each point of a
load and no longer held at each point of a teardown (`Gained`, `Given`), `chip_ok` is true
whenever the chip is system controller and only while the driver is up (`ChipKnown`), calls are
made between load and unload and the one past the lock holds it (`Locking`), a removal the
driver does not know of is still to be told (`Told`), and `opens` counts the open handles (`Counted`),
of which there is none outside the driver's life (`Unopened`). The argument needs no bound on the
removals but their count, and one assumption, `DriverAssumption`: no thread is called "none" or
"loader". TLC checked the parts of `DriverInv` as invariants before they were proved.

`Gpib488Proofs` proves the properties of run `sequences` for any devices at any addresses, any
number of data bytes and all operations: `SequenceTypes`, `SuccessIsDone`, `PollsEnd` and
`BlamesTruly` without further assumption, and `WritesReachTarget`, `ReadsHearTarget` and
`CommandsReachTarget` under `Distinct`: no member of the bus answers to the addresses of
another (a device without a secondary address shares its primary with nobody). Without it they
are false, and the code does not check it: it is the user's duty. The invariant `SequenceInv`
(`Gpib488Inv`) has four kinds of conjuncts:

- where a call may stand: `Placed` (which operation at which point, and that nothing of its
  command string was sent before the string begins), `Counted`, `Truthful` (a result that is
  still "OK" past the data is one in truth), `Causes`;
- what is noted of the environment: `Charge` (control lost since the call began was put down as
  lost), `Noted` (a device that is off, a card that is out);
- `Sending`: for every operation, each possible rest of the command string goes with what the
  part already sent has done. Before UNL nothing is known; after it nobody listens; between a
  primary and a secondary listen address those that wait share the device's primary; after the
  last address the device listens and nobody else (`ListenPart`, `TalkPart` and their kin).
  The first lemmas of `Gpib488Proofs` show that each byte leads from one rest to the next. Nothing is claimed once
  control is lost;
- what that gives in the data phase (`Ready`) and in what the call did (`Reached`, `Struck`,
  `Polls`).

The outside events need two lemmas: `MembersKept` (members that drop out do not spoil what was
sent, unless it was the device, which is noted) and `ChargeGone` (nothing is claimed of a bus
that is not ours). TLC checked `SequenceInv` with three layouts of addresses before it was
proved.

`InterfaceAddressed` says the same of the interface itself, without `Distinct`: by the time the data
moves it is addressed to talk in a write and to listen in a read, whatever its addresses, and
to listen in a serial poll as long as it has no secondary address. So the finding of run
`own_secondary`, where `PollHead` leaves that address out, is the only case in which
`WeAreAddressed` fails. The invariant `OwnInv` follows the interface's own address through the
command string: still to come, half given, or taken (`OwnTalk`, `OwnListen`, `OwnPoll`); it is
inductive together with `SequenceInv`, and TLC checked it with and without a secondary
address of the interface before it was proved.

`GpibIoctlProofs` proves the properties of run `setup` for every set of configurations:
`IoctlTypes`, `WorksOnceLoaded` (`ReadyUnlessProbedAgain`), `LeavesTheBus` (`OffTheBus`), and
`SettingsPromised`, the step simulation of `SettingsPromise`: every step leaves the settings asked
for and those in the registers alone, unless it is one of those the promise names. The invariant `IoctlInv` adds to
types and properties that a handle is open, and the chip works, only while the driver is up
(`Handles`, `Working`), and that a working chip whose registers nobody wrote past the driver is system
controller and holds in AUXRA what the driver's shadow of that register says. The latter is what the simulation needs: the handshake
mode and the EOS flags share AUXRA, and each setter writes the other's bits from the shadow.

`IbApiProofs` proves `ApiTypes` for any number of processes and descriptors; `BoardSafe`
(`BoardKept`) for one process, or for any number of which none sets the board up; and
`OwnSettings` (`TransfersUseOwnSettings`) for one process with any number of descriptors and any
settings. The assumption `Alone` cannot be dropped: see above. The invariants tie what a
process read with `GET_CONFIG` to what the driver has between two of its IOCTLs.

`GatewayProofs` proves the safety properties of run `gateway` for any number of clients,
lines, descriptors and any idle limit: `GatewayTypes`, `LinesGiveBack` (`DescriptorsReturned`),
`WokenInTime` (`TerminatedOnlyBusy`). The invariant `GatewayInv` says that descriptors in use are
those of the job that is run (`Balanced`), that a served client has its socket where the server
thread is with it (`Served`), and that the window's thread closed what it looked for (`Woken`).

`PrologixProofs` proves `HandlesEveryLine` (`HandlesItsLines`) for any stream, any cuts of it by
`recv`, any lengths and any number of connections. The invariant `LineInv` says of the bytes
taken so far: the escape is pending exactly when the next byte would be escaped, `line` is the
text since the last end as far as it fits, and the lines handled are those the reference finds in
that prefix (`Follows`). The lemmas that carry it say what one more byte does to the reference:
to the escapes (`EscapesStep`, by the parity of a run of ESCs), the ends, the text and the lines
(`EndsStep`, `TextStep`, `LinesStep`), and that the lines already there are not changed
(`LineKept`). No line is longer than `LineMax`, so the array `line[LINE_MAX]` is not
overrun.

`RoutineProofs` proves what the runtime's routines promise, for words of every width:

- `DividesExactly` (`DivisionExact`), for every dividend and divisor. The SH-3 divide step is
  non-restoring: after k steps (`Divided`) the remainder register holds the partial remainder, or
  that minus the divisor when Q says so, and the number register holds the part of the dividend
  still to come over the k quotient bits so far. `Div1Step` shows that Q and T follow the
  carry; `QuotientExact` reads the invariant at k = `Width`. Signs and remainders follow from it.
- `ExpiresOnTime` (`DeadlineExact`), for every start, timeout and clock: differences of words are
  exact modulo `Span`, and the sign of the difference is right as long as it is less than half of it.
- `FillsBuffersExactly` (`BuffersExact`), for every memory, text, format and buffer. For
  `memmove` the invariant is that the bytes moved so far are in place and those still to be read
  were not overwritten, which holds in the order the code takes because of the comparison of the
  two addresses (`MoveStep`). For the formatter: the sink holds what fits of the characters put so
  far (`Sunk`); after each turn of `digits` the value is what is left times the power of the base plus
  what the figures so far are worth, and no figure is more than needed (`Rendered`); the figures,
  sign and padding of a number can be told apart again (`LaidOut`). It supposes more than four bits
  a word, since the bases are words too.
- `FiguresFit`: no number, in base 10 or 16, has more figures than the twelve bytes of
  `emit_number`'s array, for words of up to 36 bits. The code does not check it.

and what the card's routines promise, for every contents of a card (tuples of up to 255 bytes, as
many as there are), every limit and every size of buffer:

- `DescribesTheCard` (`CardDescribed`) is the two that follow together.
- `KeepsWhatTheCardSays` (`CardKept`): the gaps of the capture are the tuples `Fits` refused, and
  with those the packing of the reference is the loop's, tuple by tuple (`CapturePacks`); the
  numbers are those of the latest tuple that has them (`CaptureNumbers`); `FirstWindow` does the
  same for the configuration entries.
- `IdentifiesAsWindowsDoes` (`CardIdentified`). The CRC: a turn of the register is linear
  (`TurnLinear`), so eight bits fed one by one come to eight turns of the register with the byte
  in it (`SerialTurns`), and the eight turns of a sum are the sum of the entries of its two
  nibbles and of the register's high byte, which only moves down (`TableLinear`, `TableHigh`);
  the entry for a nibble of ones is off by the bit of Windows' slip (`TableTypo`, `ByteExact`).
  The names: after every byte the text is what prints of the bytes so far, each place at its rank
  (`Lists`, `KeptByteLists`), and the places are those the NULs say (`StringsNamed`). The
  identifier: after k tuples the names are those of the first VERS_1 that has some, if it is among
  them (`NamesFirst`), and the CRC is the running one of the reference (`CrcFollows`); writing
  piece by piece with a cut after each is writing once and cutting (`CutAppend`).

They rest on `CardAssumption` (the limits are numbers, the three counts not 0) and on the types of
what Card Services hands over (`CardCallsAssumption`: a tuple's length is a byte, its link).

The installed provers cannot use induction theorems that take a predicate, so `RoutineProofs` derives
induction over the members of a set, and the existence of functions defined by recursion
(`Recursion`), from the well-foundedness of the numbers, and follows each loop with those.

Only model-checked: liveness and fairness, which are out of this prover's reach, and with them
`CallsReturn`, `RemovalNoticed`, `NextClientServed` and their like. Every safety invariant of a
passing run is also a theorem.

## 6. Plan

1. Done: `TntChip`, `TntTransfer`, `ByteTransfer`, their proofs.
2. Done: `GpibBus`, `Gpib488`, checked and its safety properties proved.
3. Done: `GpibDriver`, checked and its safety properties proved.
4. Done: `IbApi`, `PrologixLine`, `Gateway`, checked; `IbApi` and `Gateway` proved.
5. Done: `TntRegisters`, `GpibIoctl` and the refinement of `SettingsPromise`, checked and proved;
   the routines of the card, checked and proved.
6. Done: the refinement of `ByteTransfer`, `PrologixLine` and the routines of the runtime, proved.
   Also the interface's own addressing (`InterfaceAddressed`).
7. Left, models: what a caller's own command string (`GPIB_CMD`) does to the devices; the API's
   addresses and counts.

## 7. Not modelled

- What a register written by `IOCTL_GPIB_REGISTER` does to the bus: written at will, the chip may
  send anything. `GpibIoctl` has what it does to the settings and to a chip that is let go.
- Parallel poll: nothing calls it. Addresses out of range are rejected before anything is sent.
- The decoding of register offsets in the simulator and the waiting for T1: the models name the
  registers.
- What a pulled card reads (all ones) is an assumption about the socket; so is what the chip
  keeps across its reset, which the models leave open.
- `memcpy`, `memset`, `memcmp`, the string lengths and comparisons of the runtime: one loop each.
- The copying of parameters between processes, `ibcnt`, logging and wording.
- The user interfaces (`gpibterm`, `gpibtest`, `nettest`, `hello`), installation, registry, the
  log file and the build tools: straight-line calls without state of their own.

`PROJECT.json` lists each with the reason.
