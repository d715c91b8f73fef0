----------------------------- MODULE DriverSettings -----------------------------
(* What the stream driver promises about its one configuration: the settings   *)
(* it keeps (gpib_device.config), those its chip runs with, and the three      *)
(* things that change them.  IbApi uses these actions as its driver; GpibIoctl  *)
(* is shown to implement them with the chip's registers.                       *)
EXTENDS Integers

CONSTANTS
    Timeouts,    \* timeouts in use; 0 is none
    EosModes,    \* EOS byte and mode in use
    NoEos,       \* EOS off
    Owns,        \* secondary addresses and T1 times of the interface
    DefaultOwn,  \* those a fresh chip has
    Pads,        \* primary addresses of the interface
    DefaultPad,
    DefaultTimeout

ASSUME SettingsAssumption ==
    /\ Timeouts \subseteq Nat /\ DefaultTimeout \in Timeouts \ {0}
    /\ NoEos \in EosModes /\ DefaultOwn \in Owns /\ DefaultPad \in Pads

VARIABLES
    config,    \* gpib_device.config
    chip,      \* what tnt_chip and the registers run with; Default while they do not
    chipOk     \* the chip is initialised

driverVars == <<config, chip, chipOk>>

Settings == [timeout : Timeouts, eos : EosModes, pad : Pads, own : Owns]

Default == [timeout |-> DefaultTimeout, eos |-> NoEos, pad |-> DefaultPad, own |-> DefaultOwn]

SettingsOK == config \in Settings /\ chip \in Settings /\ chipOk \in BOOLEAN

SettingsInit == config = Default /\ chip = Default /\ chipOk \in BOOLEAN

\* apply_config
Apply(new) ==
    /\ config' = new
    /\ chip' = IF chipOk THEN new ELSE chip
    /\ UNCHANGED chipOk

\* chip_bringup: of the configuration only the primary address and the timeout
\* reach a chip that is initialised again.
Reinitialise ==
    /\ chipOk' \in BOOLEAN
    /\ chip' = IF chipOk'
               THEN [timeout |-> config.timeout, eos |-> NoEos, pad |-> config.pad,
                     own |-> DefaultOwn]
               ELSE Default
    /\ UNCHANGED config

\* The driver is unloaded, or loaded anew.
Renew == config' = Default /\ chip' = Default /\ chipOk' \in BOOLEAN

SettingsNext == (config' \in Settings /\ Apply(config')) \/ Reinitialise \/ Renew

SettingsSpec == SettingsInit /\ [][SettingsNext]_driverVars
==============================================================================
