----------------------------- MODULE TntProgress -----------------------------
(* TntTransfer with a clock of its own that measures how long nothing has      *)
(* crossed the bus, to compare the timeout of tnt_transfer_out with what       *)
(* tnt4882.h says TNT_ETIMEOUT means.                                          *)
EXTENDS MCTntTransfer

VARIABLE quiet      \* ms since the call began or a byte last crossed, as far as Timeout

ProgressInit == Init /\ quiet = 0

ProgressNext ==
    /\ Next
    /\ quiet' = IF Call \/ taken' # taken \/ heard' # heard THEN 0
                ELSE IF waited' = waited + 1 /\ quiet < Timeout THEN quiet + 1
                ELSE quiet

ProgressSpec == ProgressInit /\ [][ProgressNext]_<<vars, quiet>>

\* TNT_ETIMEOUT is "no progress within the timeout" (tnt4882.h:223): a write decides to
\* give up only when the whole timeout has passed without a byte being accepted.
\* A byte accepted in the very millisecond of the decision is excused.
TimeoutMeansNoProgress ==
    [][op = "write" /\ rc # "TIMEOUT" /\ rc' = "TIMEOUT" => quiet = 0 \/ quiet >= Timeout]_<<vars, quiet>>
==============================================================================
