---------------------------- MODULE GatewayProofs ----------------------------
(* What holds of gpibsrv for any number of connections and descriptors, lines of *)
(* any length of answer, and any idle limit.                                     *)
EXTENDS Gateway, TLAPS

\* What a line still does with a descriptor in hand, and with none.
Holding == {<<"ibwrt", "ibonl">>, <<"ibrd", "ibonl">>, <<"ibcall", "ibonl">>,
            <<"ibcall", "ibonl", "send">>, <<"ibonl">>, <<"ibonl", "send">>,
            <<"send", "ibonl">>, <<"send", "ibrd", "ibonl">>,
            <<"ibwrt", "ibonl", "ibdev", "ibrd", "ibonl">>,
            <<"ibonl", "ibdev", "ibrd", "ibonl">>}
Empty == {<<"ibdev", "ibwrt", "ibonl">>, <<"ibdev", "ibrd", "ibonl">>,
          <<"ibdev", "ibcall", "ibonl">>, <<"ibdev", "ibcall", "ibonl", "send">>,
          <<"ibdev", "ibwrt", "ibonl", "ibdev", "ibrd", "ibonl">>, <<"ibcall">>,
          <<"ibcall", "send">>, <<"send">>, <<"quit">>, <<>>}

LEMMA JobsEmpty == Jobs \subseteq Empty
  BY DEF Jobs, Empty, Write, Read, Query, Device, Poll, Board, Lines, Quit, Settings, Ask

LEMMA ShortJobs ==
    ASSUME NEW j \in Empty \cup Holding PROVE Len(j) <= 6
<1>1. Len(<<"ibwrt", "ibonl">>) <= 6
  OBVIOUS
<1>2. Len(<<"ibrd", "ibonl">>) <= 6
  OBVIOUS
<1>3. Len(<<"ibcall", "ibonl">>) <= 6
  OBVIOUS
<1>4. Len(<<"ibcall", "ibonl", "send">>) <= 6
  OBVIOUS
<1>5. Len(<<"ibonl">>) <= 6
  OBVIOUS
<1>6. Len(<<"ibonl", "send">>) <= 6
  OBVIOUS
<1>7. Len(<<"send", "ibonl">>) <= 6
  OBVIOUS
<1>8. Len(<<"send", "ibrd", "ibonl">>) <= 6
  OBVIOUS
<1>9. Len(<<"ibwrt", "ibonl", "ibdev", "ibrd", "ibonl">>) <= 6
  OBVIOUS
<1>10. Len(<<"ibonl", "ibdev", "ibrd", "ibonl">>) <= 6
  OBVIOUS
<1>11. Len(<<"ibdev", "ibwrt", "ibonl">>) <= 6
  OBVIOUS
<1>12. Len(<<"ibdev", "ibrd", "ibonl">>) <= 6
  OBVIOUS
<1>13. Len(<<"ibdev", "ibcall", "ibonl">>) <= 6
  OBVIOUS
<1>14. Len(<<"ibdev", "ibcall", "ibonl", "send">>) <= 6
  OBVIOUS
<1>15. Len(<<"ibdev", "ibwrt", "ibonl", "ibdev", "ibrd", "ibonl">>) <= 6
  OBVIOUS
<1>16. Len(<<"ibcall">>) <= 6
  OBVIOUS
<1>17. Len(<<"ibcall", "send">>) <= 6
  OBVIOUS
<1>18. Len(<<"send">>) <= 6
  OBVIOUS
<1>19. Len(<<"quit">>) <= 6
  OBVIOUS
<1>20. Len(<<>>) <= 6
  OBVIOUS
<1> QED
  BY <1>1, <1>2, <1>3, <1>4, <1>5, <1>6, <1>7, <1>8, <1>9, <1>10,
     <1>11, <1>12, <1>13, <1>14, <1>15, <1>16, <1>17, <1>18, <1>19, <1>20
  DEF Empty, Holding

\* Without a descriptor a line takes one, or makes a call that needs none and goes on, or
\* sends its answer.
LEMMA EmptyHead ==
    ASSUME NEW j \in Empty, j # <<>>
    PROVE  \/ Head(j) = "ibdev" /\ Tail(j) \in Holding
           \/ Head(j) \in {"ibcall", "quit", "send"} /\ Tail(j) \in Empty
<1>1. CASE j = <<"ibdev", "ibwrt", "ibonl">>
  <2>1. Head(j) = "ibdev" /\ Tail(j) = <<"ibwrt", "ibonl">>
    BY <1>1
  <2> QED
    BY <2>1 DEF Holding, Empty
<1>2. CASE j = <<"ibdev", "ibrd", "ibonl">>
  <2>1. Head(j) = "ibdev" /\ Tail(j) = <<"ibrd", "ibonl">>
    BY <1>2
  <2> QED
    BY <2>1 DEF Holding, Empty
<1>3. CASE j = <<"ibdev", "ibcall", "ibonl">>
  <2>1. Head(j) = "ibdev" /\ Tail(j) = <<"ibcall", "ibonl">>
    BY <1>3
  <2> QED
    BY <2>1 DEF Holding, Empty
<1>4. CASE j = <<"ibdev", "ibcall", "ibonl", "send">>
  <2>1. Head(j) = "ibdev" /\ Tail(j) = <<"ibcall", "ibonl", "send">>
    BY <1>4
  <2> QED
    BY <2>1 DEF Holding, Empty
<1>5. CASE j = <<"ibdev", "ibwrt", "ibonl", "ibdev", "ibrd", "ibonl">>
  <2>1. Head(j) = "ibdev" /\ Tail(j) = <<"ibwrt", "ibonl", "ibdev", "ibrd", "ibonl">>
    BY <1>5
  <2> QED
    BY <2>1 DEF Holding, Empty
<1>6. CASE j = <<"ibcall">>
  <2>1. Head(j) = "ibcall" /\ Tail(j) = <<>>
    BY <1>6
  <2> QED
    BY <2>1 DEF Holding, Empty
<1>7. CASE j = <<"ibcall", "send">>
  <2>1. Head(j) = "ibcall" /\ Tail(j) = <<"send">>
    BY <1>7
  <2> QED
    BY <2>1 DEF Holding, Empty
<1>8. CASE j = <<"send">>
  <2>1. Head(j) = "send" /\ Tail(j) = <<>>
    BY <1>8
  <2> QED
    BY <2>1 DEF Holding, Empty
<1>9. CASE j = <<"quit">>
  <2>1. Head(j) = "quit" /\ Tail(j) = <<>>
    BY <1>9
  <2> QED
    BY <2>1 DEF Holding, Empty
<1> QED
  BY <1>1, <1>2, <1>3, <1>4, <1>5, <1>6, <1>7, <1>8, <1>9 DEF Empty

\* With one it gives it back, or makes a call and goes on with it; a read is the last call but
\* for that.
LEMMA HoldingHead ==
    ASSUME NEW j \in Holding
    PROVE  /\ j # <<>>
           /\ \/ Head(j) = "ibonl" /\ Tail(j) \in Empty
              \/ Head(j) \in {"ibwrt", "ibcall", "send"} /\ Tail(j) \in Holding
              \/ Head(j) = "ibrd" /\ j = <<"ibrd", "ibonl">> /\ Tail(j) = <<"ibonl">>
<1>1. CASE j = <<"ibwrt", "ibonl">>
  <2>1. j # <<>> /\ Head(j) = "ibwrt" /\ Tail(j) = <<"ibonl">>
    BY <1>1
  <2> QED
    BY <2>1 DEF Holding, Empty
<1>2. CASE j = <<"ibrd", "ibonl">>
  <2>1. j # <<>> /\ Head(j) = "ibrd" /\ Tail(j) = <<"ibonl">>
    BY <1>2
  <2> QED
    BY <1>2, <2>1 DEF Holding, Empty
<1>3. CASE j = <<"ibcall", "ibonl">>
  <2>1. j # <<>> /\ Head(j) = "ibcall" /\ Tail(j) = <<"ibonl">>
    BY <1>3
  <2> QED
    BY <2>1 DEF Holding, Empty
<1>4. CASE j = <<"ibcall", "ibonl", "send">>
  <2>1. j # <<>> /\ Head(j) = "ibcall" /\ Tail(j) = <<"ibonl", "send">>
    BY <1>4
  <2> QED
    BY <2>1 DEF Holding, Empty
<1>5. CASE j = <<"ibonl">>
  <2>1. j # <<>> /\ Head(j) = "ibonl" /\ Tail(j) = <<>>
    BY <1>5
  <2> QED
    BY <2>1 DEF Holding, Empty
<1>6. CASE j = <<"ibonl", "send">>
  <2>1. j # <<>> /\ Head(j) = "ibonl" /\ Tail(j) = <<"send">>
    BY <1>6
  <2> QED
    BY <2>1 DEF Holding, Empty
<1>7. CASE j = <<"send", "ibonl">>
  <2>1. j # <<>> /\ Head(j) = "send" /\ Tail(j) = <<"ibonl">>
    BY <1>7
  <2> QED
    BY <2>1 DEF Holding, Empty
<1>8. CASE j = <<"send", "ibrd", "ibonl">>
  <2>1. j # <<>> /\ Head(j) = "send" /\ Tail(j) = <<"ibrd", "ibonl">>
    BY <1>8
  <2> QED
    BY <2>1 DEF Holding, Empty
<1>9. CASE j = <<"ibwrt", "ibonl", "ibdev", "ibrd", "ibonl">>
  <2>1. j # <<>> /\ Head(j) = "ibwrt" /\ Tail(j) = <<"ibonl", "ibdev", "ibrd", "ibonl">>
    BY <1>9
  <2> QED
    BY <2>1 DEF Holding, Empty
<1>10. CASE j = <<"ibonl", "ibdev", "ibrd", "ibonl">>
  <2>1. j # <<>> /\ Head(j) = "ibonl" /\ Tail(j) = <<"ibdev", "ibrd", "ibonl">>
    BY <1>10
  <2> QED
    BY <2>1 DEF Holding, Empty
<1> QED
  BY <1>1, <1>2, <1>3, <1>4, <1>5, <1>6, <1>7, <1>8, <1>9, <1>10 DEF Holding

LEMMA JobFacts ==
    /\ <<>> \in Empty
    /\ {<<"ibonl">>, <<"ibrd", "ibonl">>, <<"send", "ibonl">>, <<"send", "ibrd", "ibonl">>}
          \subseteq Holding
BY DEF Empty, Holding

------------------------------------------------------------------------------
(* The invariant *)

\* A line holds one descriptor or none, as its remaining calls expect.
Balanced ==
    /\ job \in Empty \cup Holding /\ descriptors \in {0, 1}
    /\ srv # "killed" =>
          (job \in Empty /\ descriptors = 0) \/ (srv = "exec" /\ job \in Holding /\ descriptors = 1)

\* Whom the server thread serves, and what WinMain sees of that.
Served ==
    /\ srv \in {"accepted", "recv", "exec", "drop", "forget"} => serving \in Clients
    /\ srv \in {"start", "check", "accept"} => serving = "none"
    /\ srv \in {"recv", "exec", "drop"} => client = serving

\* Lines to come are lines that were sent, and the idle limit is not reached unnoticed.
Counted ==
    /\ IF serving \in Clients THEN inbox <= lines[serving] ELSE inbox = 0
    /\ srv \in {"recv", "exec"} => ticks < IdleLimit

\* Once WinMain has closed the client's socket, the server thread is not left waiting on it.
Woken ==
    /\ killed # "no" => srv = "killed"
    /\ main \in {"listener", "wait", "ended"} /\ srv \in {"recv", "exec"} =>
          late \/ conn[serving] = "closed"
    /\ TerminatedOnlyBusy

GatewayInv == TypeOK /\ Balanced /\ Served /\ Counted /\ Woken

\* The steps of a client leave the server thread where it is.
LEMMA ClientStep ==
    ASSUME GatewayInv, NEW x \in Clients, Connect(x) \/ SendLine(x) \/ HangUp(x)
    PROVE  GatewayInv'
<1> USE DEF GatewayInv
<1>1. UNCHANGED <<srv, serving, ticks, batch, job, blocks, descriptors, client, stop, close,
                  main, killed, late>>
  BY DEF Connect, SendLine, HangUp, srvVars, jobVars, mainVars
<1>2. Balanced' /\ Served'
  BY <1>1 DEF Balanced, Served
<1>3. CASE Connect(x)
  <2>1. conn' = [conn EXCEPT ![x] = "queued"] /\ conn[x] = "away"
          /\ UNCHANGED <<hung, lines, inbox, full, listener>>
    BY <1>3 DEF Connect
  <2>2. TypeOK'
    BY <1>1, <2>1 DEF TypeOK
  <2>3. Counted' /\ Woken'
    BY <1>1, <2>1 DEF Counted, Woken, TypeOK, TerminatedOnlyBusy
  <2> QED
    BY <1>2, <2>2, <2>3
<1>4. CASE SendLine(x)
  <2>1. serving = x /\ lines[x] < MaxLines /\ inbox' = inbox + 1
          /\ lines' = [lines EXCEPT ![x] = lines[x] + 1] /\ UNCHANGED <<conn, hung, full, listener>>
    BY <1>4 DEF SendLine
  <2>2. inbox <= lines[x] /\ lines[x] \in 0 .. MaxLines /\ inbox \in 0 .. MaxLines
    BY <2>1 DEF Counted, TypeOK
  <2>3. lines'[x] = lines[x] + 1 /\ lines' \in [Clients -> 0 .. MaxLines]
    BY <2>1, <2>2, GatewayAssumption DEF TypeOK
  <2>4. inbox' \in 0 .. MaxLines /\ inbox' <= lines'[x]
    BY <2>1, <2>2, <2>3, GatewayAssumption
  <2>5. TypeOK'
    BY <1>1, <2>1, <2>3, <2>4 DEF TypeOK
  <2>6. Counted'
    BY <1>1, <2>1, <2>4 DEF Counted
  <2>7. Woken'
    BY <1>1, <2>1 DEF Woken, TerminatedOnlyBusy
  <2> QED
    BY <1>2, <2>5, <2>6, <2>7
<1>5. CASE HangUp(x)
  <2>1. hung' = hung \cup {x} /\ UNCHANGED <<conn, lines, inbox, full, listener>>
    BY <1>5 DEF HangUp
  <2>2. TypeOK'
    BY <1>1, <2>1 DEF TypeOK
  <2>3. Counted' /\ Woken'
    BY <1>1, <2>1 DEF Counted, Woken, TerminatedOnlyBusy
  <2> QED
    BY <1>2, <2>2, <2>3
<1> QED
  BY <1>3, <1>4, <1>5

\* A call of a line keeps the descriptors and the rest of the line in balance, failed or not.
LEMMA ExecuteStep ==
    ASSUME GatewayInv, Execute PROVE GatewayInv'
<1> USE DEF GatewayInv
<1>1. /\ srv = "exec" /\ job # <<>>
      /\ UNCHANGED <<conn, hung, lines, inbox, full, srv, serving, ticks, batch, listener, client,
                     main, killed, late>>
  BY DEF Execute, netVars, mainVars
<1>2. Served' /\ Counted' /\ Woken'
  BY <1>1 DEF Served, Counted, Woken, TerminatedOnlyBusy
<1>3. stop' \in BOOLEAN /\ close' \in BOOLEAN
  BY DEF Execute, Quitting, TypeOK
<1>4. blocks' \in 0 .. MaxBlocks
  BY GatewayAssumption DEF Execute, TypeOK
<1>5. Balanced'
  <2>1. CASE job \in Empty /\ descriptors = 0
    <3>1. \/ Head(job) = "ibdev" /\ Tail(job) \in Holding
          \/ Head(job) \in {"ibcall", "quit", "send"} /\ Tail(job) \in Empty
      BY <1>1, <2>1, EmptyHead
    <3>2. AfterFailure(Head(job)) = Tail(job)
      BY <2>1 DEF AfterFailure
    <3>3. \/ job' = Tail(job) /\ descriptors' = 1 /\ Head(job) = "ibdev"
          \/ job' = Tail(job) /\ descriptors' = 0 /\ Head(job) # "ibdev"
          \/ job' = <<>> /\ descriptors' = 0
      BY <2>1, <3>1, <3>2 DEF Execute
    <3> QED
      BY <1>1, <3>1, <3>3, JobFacts DEF Balanced
  <2>2. CASE job \in Holding /\ descriptors = 1
    <3>1. \/ Head(job) = "ibonl" /\ Tail(job) \in Empty
          \/ Head(job) \in {"ibwrt", "ibcall", "send"} /\ Tail(job) \in Holding
          \/ Head(job) = "ibrd" /\ job = <<"ibrd", "ibonl">> /\ Tail(job) = <<"ibonl">>
      BY <2>2, HoldingHead
    <3>2. AfterFailure(Head(job)) = <<"ibonl">>
      BY <2>2 DEF AfterFailure
    <3>3. CASE Head(job) = "ibrd"
      <4>1. job = <<"ibrd", "ibonl">> /\ Tail(job) = <<"ibonl">>
        BY <3>1, <3>3
      <4>2. /\ \/ job' = Tail(job) \/ job' = <<"send", "ibonl">>
               \/ job' = <<"send", "ibrd", "ibonl">>
            /\ descriptors' = 1
        <5> HIDE DEF Holding
        <5> QED BY <2>2, <3>3 DEF Execute
      <4>3. job' \in Holding
        BY <4>1, <4>2, JobFacts
      <4> QED
        BY <1>1, <4>2, <4>3 DEF Balanced
    <3>4. CASE Head(job) # "ibrd"
      <4>1. \/ job' = Tail(job) /\ descriptors' = 0 /\ Head(job) = "ibonl"
            \/ job' = Tail(job) /\ descriptors' = 1 /\ Head(job) # "ibonl"
            \/ job' = <<"ibonl">> /\ descriptors' = 1
        BY <2>2, <3>1, <3>2, <3>4 DEF Execute
      <4> QED
        BY <1>1, <2>2, <3>1, <3>4, <4>1, JobFacts DEF Balanced
    <3> QED
      BY <3>3, <3>4
  <2> QED
    BY <1>1, <2>1, <2>2 DEF Balanced
<1>6. Len(job') <= 6 /\ descriptors' \in 0 .. MaxDevices - 1
  BY <1>5, ShortJobs, GatewayAssumption DEF Balanced
<1>7. TypeOK'
  BY <1>1, <1>3, <1>4, <1>6 DEF TypeOK
<1> QED
  BY <1>2, <1>5, <1>7

\* An answer that went out, or could not, leaves the balance as it was.
LEMMA SendStep ==
    ASSUME GatewayInv, Send PROVE GatewayInv'
<1> USE DEF GatewayInv
<1>1. /\ srv = "exec" /\ job # <<>> /\ Head(job) = "send" /\ job' = Tail(job)
      /\ UNCHANGED <<conn, hung, lines, inbox, full, srv, serving, ticks, batch, blocks,
                     descriptors, listener, client, stop, close, main, killed, late>>
  BY DEF Send, netVars, mainVars
<1>2. Served' /\ Counted' /\ Woken'
  BY <1>1 DEF Served, Counted, Woken, TerminatedOnlyBusy
<1>3. CASE job \in Empty /\ descriptors = 0
  <2>1. job' \in Empty
    BY <1>1, <1>3, EmptyHead
  <2> QED
    BY <1>1, <1>2, <1>3, <2>1, ShortJobs DEF Balanced, TypeOK
<1>4. CASE job \in Holding /\ descriptors = 1
  <2>1. job' \in Holding
    BY <1>1, <1>4, HoldingHead
  <2> QED
    BY <1>1, <1>2, <1>4, <2>1, ShortJobs DEF Balanced, TypeOK
<1> QED
  BY <1>1, <1>3, <1>4 DEF Balanced

\* The client reads on or no longer.
LEMMA ReadingStep ==
    ASSUME GatewayInv, ReadingChanges PROVE GatewayInv'
<1>1. /\ full' = ~full
      /\ UNCHANGED <<conn, hung, lines, inbox, srv, serving, ticks, batch, job, blocks,
                     descriptors, listener, client, stop, close, main, killed, late>>
  BY DEF ReadingChanges, srvVars, jobVars, mainVars
<1>2. full' \in BOOLEAN
  BY <1>1
<1>3. TypeOK'
  BY <1>1, <1>2 DEF GatewayInv, TypeOK
<1> QED
  BY <1>1, <1>3
  DEF GatewayInv, Balanced, Served, Counted, Woken, TerminatedOnlyBusy

LEMMA ServerStep ==
    ASSUME GatewayInv, Server PROVE GatewayInv'
<1> USE DEF GatewayInv
<1>1. CASE Listen
  <2>1. srv = "start" /\ srv' \in {"check", "ended"} /\ listener' \in {"none", "open", "closed"}
          /\ UNCHANGED <<conn, hung, lines, inbox, full, serving, ticks, batch, job, blocks,
                         descriptors, client, stop, close, main, killed, late>>
    BY <1>1 DEF Listen, netVars, jobVars, mainVars
  <2> QED
    BY <2>1 DEF TypeOK, Balanced, Served, Counted, Woken, TerminatedOnlyBusy
<1>2. CASE CheckStop
  <2>1. srv = "check" /\ srv' \in {"close", "accept"}
          /\ UNCHANGED <<conn, hung, lines, inbox, full, serving, ticks, batch, job, blocks,
                         descriptors, listener, client, stop, close, main, killed, late>>
    BY <1>2 DEF CheckStop, netVars, jobVars, mainVars
  <2> QED
    BY <2>1 DEF TypeOK, Balanced, Served, Counted, Woken, TerminatedOnlyBusy
<1>3. CASE Accept
  <2>1. srv = "accept"
          /\ UNCHANGED <<hung, lines, inbox, full, ticks, batch, job, blocks, descriptors, listener,
                         client, stop, close, main, killed, late>>
    BY <1>3 DEF Accept, jobVars, mainVars
  <2>2. CASE srv' = "close" /\ UNCHANGED <<conn, serving>>
    BY <2>1, <2>2 DEF TypeOK, Balanced, Served, Counted, Woken, TerminatedOnlyBusy
  <2>3. ASSUME NEW x \in Clients, conn' = [conn EXCEPT ![x] = "open"], serving' = x,
               srv' = "accepted"
        PROVE  GatewayInv'
    <3>1. inbox = 0 /\ lines[x] \in Nat
      BY <2>1, GatewayAssumption DEF Served, Counted, TypeOK
    <3> QED
      BY <2>1, <2>3, <3>1 DEF TypeOK, Balanced, Served, Counted, Woken, TerminatedOnlyBusy
  <2> QED
    BY <1>3, <2>1, <2>2, <2>3 DEF Accept
<1>4. CASE Announce
  <2>1. srv = "accepted" /\ srv' = "recv" /\ client' = serving /\ ticks' = 0 /\ inbox' = 0
          /\ late' = (main \notin {"loop", "client"})
          /\ UNCHANGED <<conn, hung, lines, full, serving, batch, job, blocks, descriptors,
                         listener, stop, close, main, killed>>
    BY <1>4 DEF Announce, jobVars
  <2>2. killed = "no" /\ serving \in Clients
    BY <2>1 DEF Woken, Served
  <2>3. TypeOK'
    BY <2>1, <2>2, GatewayAssumption DEF TypeOK
  <2>4. Balanced' /\ Served'
    BY <2>1, <2>2 DEF Balanced, Served
  <2>5. Counted'
    BY <2>1, <2>2, GatewayAssumption DEF Counted, TypeOK
  <2>6. Woken'
    BY <2>1, <2>2 DEF Woken, TerminatedOnlyBusy
  <2> QED
    BY <2>3, <2>4, <2>5, <2>6
<1>5. CASE Recv
  <2>1. srv = "recv"
          /\ UNCHANGED <<conn, hung, lines, full, serving, descriptors, listener, client, stop,
                         close, main, killed, late>>
    BY <1>5 DEF Recv, mainVars
  <2>2. ASSUME NEW n \in 1 .. inbox, srv' = "exec", inbox' = inbox - n, batch' = n - 1,
               ticks' = 0, blocks' = 0, job' \in Jobs
        PROVE  GatewayInv'
    <3>1. job' \in Empty /\ Len(job') <= 6
      BY <2>2, JobsEmpty, ShortJobs
    <3>2. inbox' \in 0 .. MaxLines /\ batch' \in 0 .. MaxLines /\ inbox' <= inbox
      BY <2>2, GatewayAssumption DEF TypeOK
    <3>3. TypeOK'
      BY <2>1, <2>2, <3>1, <3>2, GatewayAssumption DEF TypeOK
    <3>4. Balanced' /\ Served'
      BY <2>1, <2>2, <3>1 DEF Balanced, Served
    <3>5. Counted'
      <4>1. serving \in Clients /\ lines[serving] \in 0 .. MaxLines /\ inbox <= lines[serving]
        BY <2>1 DEF Served, Counted, TypeOK
      <4>2. inbox' <= lines'[serving']
        BY <2>1, <3>2, <4>1, GatewayAssumption DEF TypeOK
      <4> QED
        BY <2>1, <2>2, <4>1, <4>2, GatewayAssumption DEF Counted
    <3>6. Woken'
      BY <2>1, <2>2 DEF Woken, TerminatedOnlyBusy
    <3> QED
      BY <3>3, <3>4, <3>5, <3>6
  <2>3. CASE srv' = "drop" /\ UNCHANGED <<inbox, batch, ticks, blocks, job>>
    BY <2>1, <2>3 DEF TypeOK, Balanced, Served, Counted, Woken, TerminatedOnlyBusy
  <2> QED
    BY <1>5, <2>2, <2>3 DEF Recv
<1>6. CASE Tick
  <2>1. srv = "recv"
          /\ UNCHANGED <<conn, hung, lines, inbox, full, serving, batch, job, blocks, descriptors,
                         listener, client, stop, close, main, killed, late>>
    BY <1>6 DEF Tick, Quiet, netVars, jobVars, mainVars
  <2>2. ticks \in 0 .. IdleLimit /\ ticks < IdleLimit
    BY <2>1 DEF TypeOK, Counted
  <2>3. \/ srv' = "drop" /\ ticks' \in 0 .. IdleLimit
        \/ srv' = "recv" /\ ticks' \in 0 .. IdleLimit /\ ticks' < IdleLimit
    BY <1>6, <2>2, GatewayAssumption DEF Tick
  <2> QED
    BY <2>1, <2>3 DEF TypeOK, Balanced, Served, Counted, Woken, TerminatedOnlyBusy
<1>7. CASE Execute
  BY <1>7, ExecuteStep
<1>8. CASE LineDone
  <2>1. srv = "exec" /\ job = <<>>
          /\ UNCHANGED <<conn, hung, lines, inbox, full, serving, ticks, descriptors, listener,
                         client, stop, close, main, killed, late>>
    BY <1>8 DEF LineDone, netVars, mainVars
  <2>2. <<>> \notin Holding
    BY DEF Holding
  <2>3. descriptors = 0
    BY <2>1, <2>2 DEF Balanced
  <2>4. CASE job' \in Jobs /\ batch' = batch - 1 /\ blocks' = 0 /\ UNCHANGED srv /\ batch > 0
    <3>1. job' \in Empty /\ Len(job') <= 6
      BY <2>4, JobsEmpty, ShortJobs
    <3>2. batch' \in 0 .. MaxLines
      BY <2>4, GatewayAssumption DEF TypeOK
    <3>3. TypeOK'
      BY <2>1, <2>4, <3>1, <3>2, GatewayAssumption DEF TypeOK
    <3> QED
      BY <2>1, <2>3, <2>4, <3>1, <3>3
      DEF Balanced, Served, Counted, Woken, TerminatedOnlyBusy
  <2>5. CASE srv' \in {"drop", "recv"} /\ UNCHANGED <<job, batch, blocks>>
    BY <2>1, <2>3, <2>5, JobFacts
    DEF TypeOK, Balanced, Served, Counted, Woken, TerminatedOnlyBusy
  <2> QED
    BY <1>8, <2>4, <2>5 DEF LineDone
<1>9. CASE Drop
  <2>1. srv = "drop" /\ srv' = "forget" /\ conn' = [conn EXCEPT ![serving] = "closed"]
          /\ UNCHANGED <<hung, lines, inbox, full, serving, ticks, batch, job, blocks, descriptors,
                         listener, client, stop, close, main, killed, late>>
    BY <1>9 DEF Drop, jobVars, mainVars
  <2>2. conn' \in [Clients -> {"away", "queued", "open", "closed"}]
    BY <2>1 DEF TypeOK
  <2> QED
    BY <2>1, <2>2 DEF TypeOK, Balanced, Served, Counted, Woken, TerminatedOnlyBusy
<1>10. CASE Forget
  <2>1. srv = "forget" /\ srv' = "check" /\ client' = "none" /\ serving' = "none" /\ inbox' = 0
          /\ full' = FALSE
          /\ UNCHANGED <<conn, hung, lines, ticks, batch, job, blocks, descriptors,
                         listener, stop, close, main, killed, late>>
    BY <1>10 DEF Forget, jobVars, mainVars
  <2>2. TypeOK'
    <3>1. 0 \in 0 .. MaxLines
      BY GatewayAssumption
    <3> QED
      BY <2>1, <3>1, ZenonT(30) DEF TypeOK
  <2>3. Balanced' /\ Served'
    BY <2>1 DEF Balanced, Served
  <2>4. Counted' /\ Woken'
    BY <2>1, GatewayAssumption DEF Counted, Woken, TerminatedOnlyBusy
  <2> QED
    BY <2>2, <2>3, <2>4
<1>11. CASE CloseListener
  <2>1. srv = "close" /\ srv' = "ended" /\ listener' = "closed"
          /\ UNCHANGED <<conn, hung, lines, inbox, full, serving, ticks, batch, job, blocks,
                         descriptors, client, stop, close, main, killed, late>>
    BY <1>11 DEF CloseListener, netVars, jobVars, mainVars
  <2> QED
    BY <2>1 DEF TypeOK, Balanced, Served, Counted, Woken, TerminatedOnlyBusy
<1>12. CASE Send
  BY <1>12, SendStep
<1> QED
  BY <1>1, <1>2, <1>3, <1>4, <1>5, <1>6, <1>7, <1>8, <1>9, <1>10, <1>11, <1>12 DEF Server

LEMMA WindowStep ==
    ASSUME GatewayInv, WindowCloses \/ Closing \/ Terminate PROVE GatewayInv'
<1> USE DEF GatewayInv
<1>1. CASE WindowCloses
  <2>1. main = "loop" /\ main' = "client" /\ stop' = TRUE /\ close' = FALSE
          /\ UNCHANGED <<conn, hung, lines, inbox, full, srv, serving, ticks, batch, job, blocks,
                         descriptors, listener, client, killed, late>>
    BY <1>1 DEF WindowCloses, netVars, srvVars, jobVars
  <2>2. TypeOK'
    BY <2>1, ZenonT(30) DEF TypeOK
  <2>3. Balanced' /\ Served' /\ Counted'
    BY <2>1 DEF Balanced, Served, Counted
  <2>4. Woken'
    BY <2>1 DEF Woken, TerminatedOnlyBusy
  <2> QED
    BY <2>2, <2>3, <2>4
<1>2. CASE CloseClient
  <2>1. main = "client" /\ main' = "listener"
          /\ conn' = (IF client # "none" THEN [conn EXCEPT ![client] = "closed"] ELSE conn)
          /\ UNCHANGED <<hung, lines, inbox, full, srv, serving, ticks, batch, job, blocks,
                         descriptors, listener, client, stop, close, killed, late>>
    BY <1>2 DEF CloseClient, srvVars, jobVars
  <2>2. conn' \in [Clients -> {"away", "queued", "open", "closed"}]
    BY <2>1 DEF TypeOK
  <2>3. srv \in {"recv", "exec"} => conn'[serving] = "closed"
    <3> SUFFICES ASSUME srv \in {"recv", "exec"} PROVE conn'[serving] = "closed"
      OBVIOUS
    <3>1. client = serving /\ serving \in Clients /\ client # "none"
      BY GatewayAssumption DEF Served
    <3> QED
      BY <2>1, <3>1 DEF TypeOK
  <2>4. TypeOK'
    BY <2>1, <2>2 DEF TypeOK
  <2>5. Balanced' /\ Served' /\ Counted'
    BY <2>1 DEF Balanced, Served, Counted
  <2>6. Woken'
    BY <2>1, <2>3 DEF Woken, TerminatedOnlyBusy
  <2> QED
    BY <2>4, <2>5, <2>6
<1>3. CASE CloseListenerToo
  <2>1. main = "listener" /\ main' = "wait" /\ listener' \in {"none", "open", "closed"}
          /\ UNCHANGED <<conn, hung, lines, inbox, full, srv, serving, ticks, batch, job, blocks,
                         descriptors, client, stop, close, killed, late>>
    BY <1>3 DEF CloseListenerToo, netVars, srvVars, jobVars, TypeOK
  <2> QED
    BY <2>1 DEF TypeOK, Balanced, Served, Counted, Woken, TerminatedOnlyBusy
<1>4. CASE Joined
  <2>1. main = "wait" /\ main' = "ended"
          /\ UNCHANGED <<conn, hung, lines, inbox, full, srv, serving, ticks, batch, job, blocks,
                         descriptors, listener, client, stop, close, killed, late>>
    BY <1>4 DEF Joined, netVars, srvVars, jobVars
  <2> QED
    BY <2>1 DEF TypeOK, Balanced, Served, Counted, Woken, TerminatedOnlyBusy
<1>5. CASE Terminate
  <2>1. main = "wait" /\ srv' = "killed" /\ killed' \in {"recv", "send", "ibcall"}
          /\ UNCHANGED <<conn, hung, lines, inbox, full, serving, ticks, batch, job, blocks,
                         descriptors, listener, client, stop, close, main, late>>
    BY <1>5 DEF Terminate, netVars, jobVars
  <2>2. killed' \in {"recv", "send"} => srv \in {"recv", "exec"} /\ conn[serving] = "open"
    BY <1>5 DEF Terminate, Quiet, Stalled
  <2>3. killed' \in {"recv", "send"} => late
    BY <2>1, <2>2 DEF Woken
  <2> QED
    BY <2>1, <2>3 DEF TypeOK, Balanced, Served, Counted, Woken, TerminatedOnlyBusy
<1> QED
  BY <1>1, <1>2, <1>3, <1>4, <1>5 DEF Closing

------------------------------------------------------------------------------
(* Theorems *)

\* The inductive invariant of the gateway's two threads.
THEOREM GatewayCorrect == Spec => []GatewayInv
<1>1. Init => GatewayInv
  <2> SUFFICES ASSUME Init PROVE GatewayInv
    OBVIOUS
  <2>1. TypeOK
    <3>1. Len(<<>>) <= 6
      OBVIOUS
    <3>2. 0 \in 0 .. MaxLines /\ 0 \in 0 .. IdleLimit /\ 0 \in 0 .. MaxBlocks
            /\ 0 \in 0 .. MaxDevices - 1
      BY GatewayAssumption
    <3>3. /\ conn \in [Clients -> {"away", "queued", "open", "closed"}]
          /\ lines \in [Clients -> 0 .. MaxLines]
      BY <3>2 DEF Init
    <3> QED
      BY <3>1, <3>2, <3>3 DEF Init, TypeOK
  <2>2. Balanced /\ Served /\ Woken
    BY JobFacts DEF Init, Balanced, Served, Woken, TerminatedOnlyBusy
  <2>3. Counted
    BY GatewayAssumption DEF Init, Counted
  <2> QED
    BY <2>1, <2>2, <2>3 DEF GatewayInv
<1>2. GatewayInv /\ [Next]_vars => GatewayInv'
  <2> SUFFICES ASSUME GatewayInv, [Next]_vars PROVE GatewayInv'
    OBVIOUS
  <2>1. CASE UNCHANGED vars
    BY <2>1 DEF vars, netVars, srvVars, jobVars, mainVars, GatewayInv, TypeOK, Balanced, Served,
                Counted, Woken, TerminatedOnlyBusy
  <2> QED
    BY <2>1, ClientStep, ReadingStep, ServerStep, WindowStep DEF Next
<1> QED
  BY <1>1, <1>2, PTL DEF Spec

\* The threads' state keeps to its types for any number of connections and of lines.
THEOREM GatewayTypes == Spec => []TypeOK
<1>1. GatewayInv => TypeOK
  BY DEF GatewayInv
<1> QED
  BY <1>1, GatewayCorrect, PTL

\* However many descriptors ib.c has and whatever call of whatever line fails, between two
\* lines none is in use.
THEOREM LinesGiveBack == Spec => []DescriptorsReturned
<1>1. GatewayInv => DescriptorsReturned
  BY DEF GatewayInv, Balanced, DescriptorsReturned
<1> QED
  BY <1>1, GatewayCorrect, PTL

\* For any number of clients and any idle limit, a server thread is terminated in recv or
\* send only when its client came in after the window's thread had looked for one.
THEOREM WokenInTime == Spec => []TerminatedOnlyBusy
<1>1. GatewayInv => TerminatedOnlyBusy
  BY DEF GatewayInv, Woken
<1> QED
  BY <1>1, GatewayCorrect, PTL
==============================================================================
