---------------------------- MODULE MCTntTransfer ----------------------------
(* TntTransfer on a small instance. *)
EXTENDS TntTransfer

CONSTANTS a, b

\* Up to one byte more than a transfer may have, so that TNT_EINVAL happens; the
\* FIFO holds fewer bytes than the longest message, so that the queue loop waits.
MCBuffers == {<<>>, <<a>>, <<b, a>>, <<a, b, a>>, <<a, b, a, b>>}

Plain(v) == [val |-> v, end |-> FALSE]
Last(v)  == [val |-> v, end |-> TRUE]

\* A reply with EOI, one with an EOS byte in the middle, and one that never ends.
MCMessages == {<<Plain(b), Last(a)>>, <<Last(a), Plain(b), Last(b)>>,
               <<Plain(a), Plain(b), Plain(b)>>}
==============================================================================
