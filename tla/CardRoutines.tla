----------------------------- MODULE CardRoutines -----------------------------
(* What the driver reads off the card while it is loaded: the tuples of its CIS,  *)
(* kept and decoded, the Plug and Play identifier Windows CE makes of them, and    *)
(* the I/O window.  A tuple is a code and its bytes; the walk may fail at any.     *)
EXTENDS Integers, Sequences

CONSTANTS
    MaxTuples,     \* CIS_MAX_TUPLES
    CaptureMax,    \* CIS_CAPTURE_MAX
    ManfMax,       \* PNPID_MANF_MAX
    ProdMax        \* PNPID_PROD_MAX

ASSUME CardAssumption ==
    /\ {MaxTuples, ManfMax, ProdMax} \subseteq Nat \ {0}
    /\ CaptureMax \in Nat

Octet == 0 .. 255

\* The tuple codes the code tells apart.
CISTPL_DEVICE        == 1
CISTPL_VERS_1        == 21
CISTPL_CONFIG        == 26
CISTPL_CFTABLE_ENTRY == 27
CISTPL_MANFID        == 32
CISTPL_FUNCID        == 33
CISTPL_END           == 255

\* The least of a set of positions; 0 if there is none.
Earliest(S) == IF S = {} THEN 0 ELSE CHOOSE k \in S : \A j \in S : k <= j

Cut(s, n) == SubSeq(s, 1, IF Len(s) < n THEN Len(s) ELSE n)

------------------------------------------------------------------------------
(* cis.c *)

Nothing == [tuples |-> 0, raw |-> <<>>, manufacturer |-> 0, card |-> 0, function |-> 0]

\* Mutant: the two bytes of the header are forgotten.
FitsWithoutHeader(raw, data) == Len(raw) + Len(data) <= CaptureMax

Fits(raw, data) == Len(raw) + 2 + Len(data) <= CaptureMax

\* capture_raw: a tuple with no room left is passed over, later ones may still fit.
capture_raw(cap, t) ==
    IF Fits(cap.raw, t.data)
    THEN [cap EXCEPT !.raw = @ \o (<<t.code, Len(t.data)>> \o t.data)] ELSE cap

\* decode, what it keeps: little-endian words.
decode(cap, t) ==
    LET d == t.data IN
    CASE t.code = CISTPL_MANFID /\ Len(d) >= 4 ->
            [cap EXCEPT !.manufacturer = d[1] + 256 * d[2], !.card = d[3] + 256 * d[4]]
      [] t.code = CISTPL_FUNCID /\ Len(d) >= 1 -> [cap EXCEPT !.function = d[1]]
      [] OTHER -> cap

\* The tuples the walk comes to see: up to the first that cannot be read, the end tuple or
\* the limit.
Walked(cis) ==
    LET stop == Earliest({k \in 1 .. Len(cis) : \/ cis[k].fails
                                                \/ k > MaxTuples
                                                \/ k > 1 /\ cis[k - 1].code = CISTPL_END})
    IN  SubSeq(cis, 1, IF stop = 0 THEN Len(cis) ELSE stop - 1)

cis_capture_socket(cis) ==
    LET seen == Walked(cis)
        C[k \in 0 .. Len(seen)] ==
            IF k = 0 THEN Nothing
            ELSE [decode(capture_raw(C[k - 1], seen[k]), seen[k]) EXCEPT !.tuples = @ + 1]
    IN  C[Len(seen)]

------------------------------------------------------------------------------
(* pnpid.c; the CRC register is the set of its bits that are one *)

Register == 0 .. 15

Bits(byte) == {i \in 0 .. 7 : (byte \div (2 ^ i)) % 2 = 1}

Xor(a, b) == (a \ b) \cup (b \ a)
Shifted(c, n) == {i \in Register : i + n \in c}

CRC_POLY_REFLECTED == {0, 13, 15}           \* 0xA001
CRC_HIGH_NIBBLE_TYPO_VALUE == {9, 10, 14}   \* 0x4600

\* One bit out of the register; the polynomial is added if the bit is one.
Turn(c) == IF 0 \in c THEN Xor(Shifted(c, 1), CRC_POLY_REFLECTED) ELSE Shifted(c, 1)

crc_table_entry(index) ==
    LET C[bit \in 0 .. 8] == IF bit = 0 THEN index ELSE Turn(C[bit - 1]) IN C[8]

\* One byte by nibbles; the entry for a high nibble of ones is that of Windows.
crc_byte(crc, byte) ==
    LET tmp  == Xor(Bits(byte), crc \cap 0 .. 7)
        high == IF 4 .. 7 \subseteq tmp THEN CRC_HIGH_NIBBLE_TYPO_VALUE
                ELSE crc_table_entry(tmp \cap 4 .. 7)
    IN  Xor(Xor(Shifted(crc, 8), crc_table_entry(tmp \cap 0 .. 3)), high)

pnpid_crc16(crc, data) ==
    LET C[k \in 0 .. Len(data)] == IF k = 0 THEN crc ELSE crc_byte(C[k - 1], data[k])
    IN  C[Len(data)]

\* What of a name is shown, and how: spaces and commas become underscores; what else does not
\* print goes.
Printable == 33 .. 126
Presented(byte) == IF byte \in {32, 44} THEN 95 ELSE byte
KeptByte(text, byte, max) ==
    IF byte \in {32} \cup Printable /\ Len(text) < max THEN Append(text, Presented(byte)) ELSE text

\* copy_filtered of what follows the first at bytes: the text, and how many bytes it took,
\* its NUL included.
copy_filtered(data, at, max) ==
    LET len  == Len(data) - at
        nul  == Earliest({k \in 1 .. len : data[at + k] = 0})
        stop == IF nul = 0 THEN len ELSE nul - 1
        T[k \in 0 .. stop] == IF k = 0 THEN <<>> ELSE KeptByte(T[k - 1], data[at + k], max)
    IN  [text |-> T[stop], used |-> IF nul = 0 THEN len ELSE nul]

pnpid_begin == [crc |-> {}, manufacturer |-> <<>>, product |-> <<>>, have_vers1 |-> FALSE]

\* The first VERS_1 of some length names the card; the CRC takes it up to the second name.
add_vers1(b, data) ==
    LET manf == copy_filtered(data, 2, ManfMax)
        prod == IF 2 + manf.used < Len(data) THEN copy_filtered(data, 2 + manf.used, ProdMax)
                ELSE [text |-> <<>>, used |-> 0]
    IN  IF Len(data) <= 4 THEN b
        ELSE [crc |-> pnpid_crc16(b.crc, SubSeq(data, 1, 2 + manf.used + prod.used)),
              manufacturer |-> manf.text, product |-> prod.text, have_vers1 |-> TRUE]

\* Tuples whose bytes are taken whole.
WholeInCrc == {CISTPL_DEVICE, CISTPL_CONFIG, CISTPL_CFTABLE_ENTRY, CISTPL_MANFID}

pnpid_add_tuple(b, t) ==
    IF t.code = CISTPL_VERS_1 /\ ~b.have_vers1 THEN add_vers1(b, t.data)
    ELSE IF t.code \in WholeInCrc \cup {CISTPL_VERS_1}
         THEN [b EXCEPT !.crc = pnpid_crc16(@, t.data)] ELSE b

Hyphen == <<45>>
Unknown ==                       \* "UNKNOWN_MANUFACTURER"
    <<85, 78, 75, 78, 79, 87, 78, 95, 77, 65, 78, 85, 70, 65, 67, 84, 85, 82, 69, 82>>

\* The four figures of the CRC, the top one first.
HexDigits(crc) ==
    [k \in 1 .. 4 |->
        LET figure == CHOOSE v \in 0 .. 15 : Bits(v) = {i \in 0 .. 3 : i + 4 * (4 - k) \in crc}
        IN  IF figure < 10 THEN 48 + figure ELSE 55 + figure]

append(out, cap, s) == Cut(out \o s, cap - 1)

\* pnpid_finish; a NUL follows.
pnpid_finish(b, cap) ==
    LET name == IF b.manufacturer = <<>> THEN append(<<>>, cap, Unknown)
                ELSE IF b.product = <<>> THEN append(<<>>, cap, b.manufacturer)
                ELSE append(append(append(<<>>, cap, b.manufacturer), cap, Hyphen), cap, b.product)
    IN  IF cap < 8 THEN <<>> ELSE append(append(name, cap, Hyphen), cap, HexDigits(b.crc)) \o <<0>>

\* The identifier cis_capture_socket makes along the walk.
identifier(cis, cap) ==
    LET seen == Walked(cis)
        B[k \in 0 .. Len(seen)] ==
            IF k = 0 THEN pnpid_begin ELSE pnpid_add_tuple(B[k - 1], seen[k])
    IN  pnpid_finish(B[Len(seen)], cap)

------------------------------------------------------------------------------
(* pick_io_window of drv_ce.c *)

WindowBytes == 32            \* GPIB_WINDOW_BYTES

\* Length of the window an entry offers: its first range, or by its address lines alone if
\* it is an I/O interface or says nothing of its interface; 0 if it offers none.
Offers(e) ==
    IF e.entries > 0 THEN e.length
    ELSE IF e.lines \in 1 .. 15 /\ (~e.present \/ e.iface = 1) THEN 2 ^ e.lines ELSE 0

\* The first entry that offers enough; 0 is none.
Best(best, k, e) == IF best = 0 /\ Offers(e) >= WindowBytes THEN k ELSE best

pick_io_window(cft) ==
    LET P[k \in 0 .. Len(cft)] == IF k = 0 THEN 0 ELSE Best(P[k - 1], k, cft[k]) IN P[Len(cft)]
==============================================================================
