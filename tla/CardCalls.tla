------------------------------- MODULE CardCalls -------------------------------
(* One call of one routine of CardRoutines, on any of its inputs, and what the    *)
(* driver learns of the card, said of the card's contents as a whole.             *)
EXTENDS CardRoutines, FiniteSets

CONSTANTS
    Cises,       \* contents of a card's CIS
    Crcs,        \* values of the running CRC
    Tables,      \* configuration entries of a card
    Sizes        \* sizes of the identifier's buffer

\* A tuple's length is a byte, its link.
Tuple == {t \in [code : Octet, fails : BOOLEAN, data : Seq(Octet)] : Len(t.data) \in Octet}

Entry == [entries : Nat, length : Nat, lines : Nat, present : BOOLEAN, iface : Nat]

ASSUME CardCallsAssumption ==
    /\ Cises \subseteq Seq(Tuple)
    /\ Crcs \subseteq SUBSET Register
    /\ Tables \subseteq Seq(Entry)
    /\ Sizes \subseteq Nat

VARIABLES
    asked,       \* the routine called and its arguments
    told         \* what it gave; empty before

cardVars == <<asked, told>>

NothingAsked == asked = <<"none">> /\ told = <<>>

CardInit ==
    /\ told = <<>>
    /\ \/ \E crc \in Crcs, byte \in Octet : asked = <<"crc", crc, byte>>
       \/ \E cis \in Cises : asked = <<"capture", cis>>
       \/ \E cis \in Cises, size \in Sizes : asked = <<"identify", cis, size>>
       \/ \E cft \in Tables : asked = <<"window", cft>>

Reading ==
    CASE asked[1] = "crc"      -> <<pnpid_crc16(asked[2], <<asked[3]>>)>>
      [] asked[1] = "capture"  -> <<cis_capture_socket(asked[2])>>
      [] asked[1] = "identify" -> <<identifier(asked[2], asked[3])>>
      [] asked[1] = "window"   -> <<pick_io_window(asked[2])>>

Tell == asked # <<"none">> /\ told = <<>> /\ told' = Reading /\ UNCHANGED asked

CardSpec == CardInit /\ [][Tell]_cardVars

Told(op) == asked[1] = op /\ told # <<>>
------------------------------------------------------------------------------
(* Properties *)

\* The latest of a set of positions; 0 if there is none.
Latest(S) == IF S = {} THEN 0 ELSE CHOOSE k \in S : \A j \in S : j <= k

\* The tuples but for those at gaps, packed: how much of it there is after each tuple.
Packed(seen, gaps) ==
    LET P[k \in 0 .. Len(seen)] ==
            IF k = 0 THEN <<>>
            ELSE IF k \in gaps THEN P[k - 1]
            ELSE P[k - 1] \o (<<seen[k].code, Len(seen[k].data)>> \o seen[k].data)
    IN  P

\* What the driver keeps of the tuples seen: all of them, in order, but for those that did not
\* fit behind the ones kept before; the numbers of the last tuple that has them.
CaptureOf(cap, seen) ==
    LET manf == Latest({k \in 1 .. Len(seen) : seen[k].code = CISTPL_MANFID /\ Len(seen[k].data) >= 4})
        func == Latest({k \in 1 .. Len(seen) : seen[k].code = CISTPL_FUNCID /\ Len(seen[k].data) >= 1})
    IN  /\ cap.tuples = Len(seen)
        /\ \E gaps \in SUBSET (1 .. Len(seen)) :
              LET packed == Packed(seen, gaps) IN
              /\ cap.raw = packed[Len(seen)]
              /\ \A k \in 1 .. Len(seen) :
                    k \in gaps <=> Len(packed[k - 1]) + 2 + Len(seen[k].data) > CaptureMax
        /\ <<cap.manufacturer, cap.card>> =
              IF manf = 0 THEN <<0, 0>>
              ELSE LET d == seen[manf].data IN <<d[1] + 256 * d[2], d[3] + 256 * d[4]>>
        /\ cap.function = IF func = 0 THEN 0 ELSE seen[func].data[1]

\* What the driver keeps of a card is what the card says: the raw tuples are the tuples of
\* the walk, packed, within the buffer, and none is left out that fits; the I/O window is that
\* of the first configuration entry with room.
CardKept ==
    /\ Told("capture") =>
          LET seen == Walked(asked[2]) IN
          /\ Len(seen) <= MaxTuples
          /\ Len(told[1].raw) <= CaptureMax
          /\ CaptureOf(told[1], seen)
    /\ Told("window") =>
          told = <<Earliest({k \in 1 .. Len(asked[2]) : Offers(asked[2][k]) >= WindowBytes})>>

\* A bit into the register: where it differs from the one that leaves the polynomial is added.
Fed(c, bit) == IF (0 \in c) # bit THEN Xor(Shifted(c, 1), CRC_POLY_REFLECTED) ELSE Shifted(c, 1)

\* The CRC of a byte, bit by bit.  Windows slips where byte and register give a high nibble of
\* ones.
SerialCrc(crc, byte) ==
    LET C[bit \in 0 .. 8] == IF bit = 0 THEN crc ELSE Fed(C[bit - 1], bit - 1 \in Bits(byte))
    IN  Xor(IF 4 .. 7 \subseteq Xor(Bits(byte), crc) THEN {9} ELSE {}, C[8])

SerialCrcs(crc, data) ==
    LET C[k \in 0 .. Len(data)] == IF k = 0 THEN crc ELSE SerialCrc(C[k - 1], data[k])
    IN  C[Len(data)]

\* A VERS_1 tuple is two bytes and strings that end in NULs: where its n-th string is, how
\* much of the tuple goes up to the end of the second, and the n-th string made presentable
\* and cut.
NulsBefore(data, k) == Cardinality({j \in 3 .. k - 1 : data[j] = 0})
Place(data, n) == {k \in 3 .. Len(data) : data[k] # 0 /\ NulsBefore(data, k) = n - 1}
Named(data) == Cardinality({k \in 1 .. Len(data) : NulsBefore(data, k) < 2})
Name(data, n, max) ==
    LET own  == {k \in Place(data, n) : data[k] \in 32 .. 126}
        Nth(j) == CHOOSE k \in own : Cardinality({m \in own : m <= k}) = j
    IN  [j \in 1 .. IF Cardinality(own) < max THEN Cardinality(own) ELSE max |-> Presented(data[Nth(j)])]

\* The identifier of the tuples seen.  The first VERS_1 of some length names the card, and the
\* CRC is that of the tuples Windows takes into it, one after the other.
IdentifierOf(seen) ==
    LET first == Earliest({k \in 1 .. Len(seen) : seen[k].code = CISTPL_VERS_1 /\ Len(seen[k].data) > 4})
        names == IF first = 0 THEN <<>> ELSE seen[first].data
        Covered(k) ==
            IF k = first THEN SubSeq(names, 1, Named(names))
            ELSE IF \/ seen[k].code \in WholeInCrc
                    \/ seen[k].code = CISTPL_VERS_1 /\ first # 0 /\ first < k THEN seen[k].data
            ELSE <<>>
        C[k \in 0 .. Len(seen)] == IF k = 0 THEN {} ELSE SerialCrcs(C[k - 1], Covered(k))
        manf == Name(names, 1, ManfMax)
        prod == Name(names, 2, ProdMax)
    IN  (IF manf = <<>> THEN Unknown ELSE IF prod = <<>> THEN manf ELSE manf \o Hyphen \o prod)
           \o Hyphen \o HexDigits(C[Len(seen)])

\* The driver identifies the card as Windows does: the nibble tables give the CRC of a serial
\* register but for Windows' one slip, and an identifier that has room is made of the names
\* and the CRC of the tuples seen and ends with a NUL.  No buffer is written past its end.
CardIdentified ==
    /\ Told("crc") => told = <<SerialCrc(asked[2], asked[3])>>
    /\ Told("identify") =>
          LET full == IdentifierOf(Walked(asked[2]))
              cap  == asked[3]
          IN  /\ cap >= 8 /\ Len(full) < cap => told = <<full \o <<0>>>>
              /\ Len(told[1]) <= cap

\* A buffer too small for the card's identifier is refused, as pnpid.h says; a name cut short
\* is not taken for the card's.
SmallBufferRefused ==
    Told("identify") /\ Len(IdentifierOf(Walked(asked[2]))) >= asked[3] => told = <<<<>>>>

\* What the driver learns of a card is what the card says: what it keeps of it, and the
\* identifier device.exe knows it by.
CardDescribed == CardKept /\ CardIdentified
==============================================================================
