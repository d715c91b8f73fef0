-------------------------------- MODULE MCCard --------------------------------
(* The identifier of cards with long names in the driver's own buffer, for TLC;  *)
(* the limits of the names and the buffer are a quarter of those of pnpid.h.     *)
EXTENDS CardCalls

\* A VERS_1 tuple of two names of the letter A.
VersOf(manf, prod) ==
    [code |-> CISTPL_VERS_1, fails |-> FALSE,
     data |-> <<4, 1>> \o [k \in 1 .. manf |-> 65] \o <<0>> \o [k \in 1 .. prod |-> 65] \o <<0>>]

MCCises == {<<VersOf(manf, prod)>> : manf \in {0, 4, 28}, prod \in {0, 6, 7, 16}}
===============================================================================
