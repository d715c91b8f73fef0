---------------------------- MODULE SettingsPromise ----------------------------
(* When each of the changes of DriverSettings may come about: a configuration    *)
(* stays in effect until the driver is made to probe its chip, is loaded anew,   *)
(* loses its card, or somebody writes the registers past it.                     *)
EXTENDS DriverSettings

VARIABLES
    up,        \* the driver is loaded
    here,      \* the card answers
    probes,    \* IOCTL_GPIB_PROBE was obeyed: even or odd
    raw        \* the registers were written past the driver

promiseVars == <<driverVars, up, here, probes, raw>>

PromiseInit == SettingsInit /\ raw = FALSE

Set ==
    /\ config' \in Settings /\ Apply(config')
    /\ UNCHANGED <<up, here, probes, raw>>

Probed ==
    /\ probes' # probes /\ Reinitialise
    /\ raw' = FALSE /\ UNCHANGED <<up, here>>

Turned ==
    /\ up' # up /\ Renew
    /\ (raw' => raw) /\ UNCHANGED probes

Lost ==
    /\ here /\ ~here'
    /\ chipOk' = FALSE /\ chip' = Default
    /\ raw' = FALSE /\ UNCHANGED <<config, up, probes>>

\* The driver knows nothing of such a write; its timeout is not in the chip.
Written ==
    /\ here /\ raw'
    /\ chip' \in Settings /\ chip'.timeout = chip.timeout
    /\ UNCHANGED <<config, chipOk, up, here, probes>>

PromiseNext == Set \/ Probed \/ Turned \/ Lost \/ Written

PromiseSpec == PromiseInit /\ [][PromiseNext]_promiseVars
==============================================================================
