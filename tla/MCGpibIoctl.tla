----------------------------- MODULE MCGpibIoctl -----------------------------
(* The driver's calls for TLC: a configuration of each speed of T1 and on both  *)
(* sides of its limits, with and without a secondary address, EOS and timeout;   *)
(* and configurations just out of range.                                        *)
EXTENDS GpibIoctl

Asks(timeouts, t1s, pads, sads, eos) ==
    {[timeout |-> t, t1 |-> n, pad |-> p, sad |-> s, eos |-> e[1], flags |-> e[2]] :
        t \in timeouts, n \in t1s, p \in pads, s \in sads, e \in eos}

MCConfigs ==
    Asks({0}, {350, 351, 500, 501, 1100, 1101}, {5}, {-1}, {<<10, {"REOS"}>>})
       \cup Asks({0, 3000}, {500}, {5}, {-1, 30}, {<<10, {"REOS"}>>})
       \cup Asks({0}, {2000}, {0, 30, 31}, {0}, {<<266, {"BIN", "XEOS"}>>})
       \cup Asks({0}, {2000}, {-1, 0}, {-2, 31}, {<<0, {}>>})

\* On line with settings nobody asked for and REN on; and off line as system controller.
MCRaw ==
    {[PowerUp EXCEPT !.pon = FALSE, !.cic = TRUE, !.ren = TRUE, !.adr0 = 7, !.auxra = {"XEOS"}],
     [PowerUp EXCEPT !.sc = TRUE]}
==============================================================================
