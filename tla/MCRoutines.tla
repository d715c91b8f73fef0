------------------------------ MODULE MCRoutines ------------------------------
(* The gateway's stream of bytes, a process with the API, or one call of a       *)
(* runtime or card routine, for TLC.                                             *)
EXTENDS PrologixLine, MCIbApi, RtCalls, CardCalls

VARIABLE part    \* which of the four it is; the others stand still

\* The value the host tests have for "123456789" (test_pnpid.c).
ASSUME CrcCheckValue ==
    pnpid_crc16({}, [k \in 1 .. 9 |-> 48 + k]) = {bit \in Register : (22844 \div (2 ^ bit)) % 2 = 1}

MCInit ==
    /\ Init /\ ApiInit
    /\ \/ part = "line" /\ NoCall /\ NothingAsked /\ ~chipOk
       \/ part = "api"  /\ NoCall /\ NothingAsked
       \/ part = "rt"   /\ RtInit /\ NothingAsked /\ ~chipOk
       \/ part = "card" /\ NoCall /\ CardInit /\ ~chipOk

MCNext ==
    /\ \/ part = "line" /\ Next /\ UNCHANGED <<apiVars, rtVars, cardVars>>
       \/ part = "api" /\ ApiNext /\ UNCHANGED <<vars, rtVars, cardVars>>
       \/ part = "rt" /\ Return /\ UNCHANGED <<vars, apiVars, cardVars>>
       \/ part = "card" /\ Tell /\ UNCHANGED <<vars, apiVars, rtVars>>
    /\ UNCHANGED part

MCSpec == MCInit /\ [][MCNext]_<<vars, apiVars, rtVars, cardVars, part>>

MCLetters == {"a", "b", "wide", "q"}
MCTexts == {<<>>, <<"a">>, <<"a", "b">>, <<"a", "b", "wide">>}

Plain(ch) == [conv |-> "literal", arg |-> 0, text |-> <<ch>>, marks |-> <<>>]

NumberMarks ==
    {<<>>, <<"2">>, <<"4">>, <<"-">>, <<"-", "4">>, <<"0">>, <<"0", "3">>, <<"0", "-", "4">>,
     <<"-", "0", "-", "2">>, <<"0", "0", "4", "l">>, <<"l">>, <<"1", "0">>}
TextMarks == {<<>>, <<"3">>, <<"-", "3">>, <<"-", "l">>}

Conversions ==
    [conv : {"d", "u"}, arg : {0, 7, 10, 15, 16, 23, 31}, text : {<<>>}, marks : NumberMarks]
       \cup [conv : {"x"}, arg : {0, 9, 10, 16, 31}, text : {<<>>}, marks : NumberMarks]
       \cup [conv : {"s", "c"}, arg : {0}, text : MCTexts \ {<<>>}, marks : TextMarks]
       \cup [conv : {"p"}, arg : {0, 26}, text : {<<>>}, marks : {<<>>}]
       \cup [conv : {"%", "q", "end"}, arg : {0}, text : {<<>>}, marks : {<<>>, <<"0", "8">>}]

\* A format that breaks off ends there.
Whole == {f \in Conversions : f.conv # "end"}
Few ==
    {f \in Conversions : f.conv \notin {"u", "x"} /\ f.arg \in {0, 23, 26}
                           /\ f.marks \in {<<>>, <<"4">>, <<"0", "3">>}}

MCFormats ==
    {<<>>} \cup {<<f>> : f \in Conversions} \cup {<<Plain("a"), f, Plain("wide")>> : f \in Whole}
       \cup {<<f, g>> : f \in Few \cap Whole, g \in Few}

\* Tuples of a real card's kinds: names that end in a NUL or do not, are empty or cut.
Tuples ==
    [code : {CISTPL_VERS_1}, fails : {FALSE},
     data : {<<4, 1, 65, 32, 0, 66, 0, 255>>, <<4, 1, 65, 66, 67, 0, 68, 44, 7>>, <<4, 1, 65, 0, 0>>,
             <<4, 1, 0, 66, 0>>, <<4, 1, 65, 0>>, <<4, 1, 65, 67, 127>>}]
       \cup [code : {CISTPL_MANFID}, fails : {FALSE}, data : {<<11, 1, 130, 72>>, <<11, 1>>}]
       \cup [code : {CISTPL_FUNCID}, fails : {FALSE}, data : {<<>>, <<9>>}]
       \cup [code : {CISTPL_DEVICE}, fails : BOOLEAN, data : {<<0, 0, 255>>}]
       \cup [code : {CISTPL_END}, fails : {FALSE}, data : {<<>>}]

MCCises == SeqOf(Tuples, 3) \cup {<<t, t, t, u>> : t, u \in Tuples}

MCCrcs == {{}, {0}, {8}, 0 .. 7, Register, {bit \in Register : bit % 2 = 0},
     {bit \in Register : bit % 2 = 1}}

Entries ==
    [entries : {0, 1}, length : {31, 32}, lines : {0, 4, 5, 16}, present : BOOLEAN, iface : {0, 1}]

MCTables == SeqOf(Entries, 2)
==============================================================================
