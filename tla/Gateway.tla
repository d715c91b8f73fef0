------------------------------- MODULE Gateway -------------------------------
(* gpibsrv: a server thread serves one TCP client after the other and runs     *)
(* their lines on the instrument; the window's thread stops it.  How bytes     *)
(* become lines is PrologixLine; here a line is the list of ib calls it makes  *)
(* and answers it sends.  Winsock is external: a socket that is closed fails   *)
(* whoever waits on it, and a send waits for a client that does not read.      *)
EXTENDS Integers, Sequences

CONSTANTS
    Clients,     \* connections
    IdleLimit,   \* IDLE_LIMIT
    MaxDevices,  \* IB_MAX_DEVICES
    MaxLines,    \* bound: lines of one connection
    MaxBlocks    \* bound: reads the instrument answers in full before END, per line

ASSUME GatewayAssumption ==
    /\ IdleLimit \in Nat \ {0} /\ MaxDevices \in Nat \ {0, 1}
    /\ MaxLines \in Nat /\ MaxBlocks \in Nat
    /\ "none" \notin Clients

VARIABLES
    conn,       \* [Clients -> "away", "queued", "open" or "closed"]
    hung,       \* clients that closed their end
    lines,      \* [Clients -> lines sent]
    inbox,      \* lines of the client being served that recv has yet to return
    full,       \* the client being served reads no answers, and no buffer takes more
    srv,        \* where the server thread is
    serving,    \* the client in serve_client
    ticks,      \* idle_ticks
    batch,      \* lines of the last recv still to be handled
    job,        \* ib calls the line still makes and answers it still sends
    blocks,     \* full reads in this job
    descriptors,\* descriptors of ib.c in use
    listener,   \* gw.listener: "none", "open", "closed" but not forgotten
    client,     \* gw.client
    stop,       \* gw.stop
    close,      \* WM_CLOSE is posted
    main,       \* where WinMain is
    killed,     \* where the server thread was when it was terminated
    late        \* history: the client came after WinMain had looked at gw.client

netVars == <<conn, hung, lines, inbox, full>>
jobVars == <<batch, job, blocks, descriptors>>
srvVars == <<srv, serving, ticks, jobVars>>
mainVars == <<main, killed, late>>
vars == <<netVars, srvVars, listener, client, stop, close, mainVars>>

\* The ib calls of a line and its answer, by what it is; data read are sent as they come.
Write    == <<"ibdev", "ibwrt", "ibonl">>
Read     == <<"ibdev", "ibrd", "ibonl">>
Query    == <<"ibdev", "ibwrt", "ibonl", "ibdev", "ibrd", "ibonl">>   \* ends in "?", auto mode
Device   == <<"ibdev", "ibcall", "ibonl">>   \* ++clr, ++trg, ++loc
Poll     == <<"ibdev", "ibcall", "ibonl", "send">>   \* ++spoll
Board    == <<"ibcall">>              \* ++ifc, ++llo, ++rst
Lines    == <<"ibcall", "send">>      \* ++srq, ++lines
Quit     == <<"quit">>
Settings == <<>>                      \* ++addr, ++eos and the like with a value
Ask      == <<"send">>                \* without one; ++ver, ++help
Jobs     == {Write, Read, Query, Device, Poll, Board, Lines, Quit, Settings, Ask}

TypeOK ==
    /\ conn \in [Clients -> {"away", "queued", "open", "closed"}]
    /\ hung \subseteq Clients
    /\ lines \in [Clients -> 0 .. MaxLines]
    /\ inbox \in 0 .. MaxLines /\ batch \in 0 .. MaxLines /\ full \in BOOLEAN
    /\ srv \in {"start", "check", "accept", "accepted", "recv", "exec", "drop", "forget",
                "close", "ended", "killed"}
    /\ serving \in Clients \cup {"none"} /\ client \in Clients \cup {"none"}
    /\ ticks \in 0 .. IdleLimit
    /\ Len(job) <= 6 /\ blocks \in 0 .. MaxBlocks
    /\ descriptors \in 0 .. MaxDevices - 1
    /\ listener \in {"none", "open", "closed"}
    /\ stop \in BOOLEAN /\ close \in BOOLEAN /\ late \in BOOLEAN
    /\ main \in {"loop", "client", "listener", "wait", "ended"}
    /\ killed \in {"no", "ibcall", "recv", "send"}

Init ==
    /\ conn = [x \in Clients |-> "away"] /\ hung = {}
    /\ lines = [x \in Clients |-> 0] /\ inbox = 0 /\ batch = 0 /\ full = FALSE
    /\ srv \in {"start", "ended"}       \* "ended": CreateThread failed
    /\ serving = "none" /\ ticks = 0 /\ job = <<>> /\ blocks = 0
    /\ descriptors = 0
    /\ listener = "none" /\ client = "none"
    /\ stop = FALSE /\ close = FALSE
    /\ main = "loop" /\ killed = "no" /\ late = FALSE

------------------------------------------------------------------------------
(* Clients *)

Connect(x) ==
    /\ conn[x] = "away" /\ listener = "open"
    /\ conn' = [conn EXCEPT ![x] = "queued"]
    /\ UNCHANGED <<hung, lines, inbox, full, srvVars, listener, client, stop, close, mainVars>>

SendLine(x) ==
    /\ conn[x] = "open" /\ serving = x /\ x \notin hung
    /\ lines[x] < MaxLines
    /\ inbox' = inbox + 1 /\ lines' = [lines EXCEPT ![x] = lines[x] + 1]
    /\ UNCHANGED <<conn, hung, full, srvVars, listener, client, stop, close, mainVars>>

HangUp(x) ==
    /\ conn[x] \in {"queued", "open"}
    /\ hung' = hung \cup {x}
    /\ UNCHANGED <<conn, lines, inbox, full, srvVars, listener, client, stop, close, mainVars>>

\* The client leaves its answers unread, and how much the buffers take is left open; or it
\* reads on.
ReadingChanges ==
    /\ srv \in {"recv", "exec"} /\ conn[serving] = "open" /\ serving \notin hung
    /\ full' = ~full
    /\ UNCHANGED <<conn, hung, lines, inbox, srvVars, listener, client, stop, close, mainVars>>

------------------------------------------------------------------------------
(* server_thread *)

Listen ==
    /\ srv = "start"
    /\ \/ listener' = "open" /\ srv' = "check"
       \/ listener' \in {"none", "closed"} /\ srv' = "ended"      \* socket, bind or listen failed
    /\ UNCHANGED <<netVars, serving, ticks, jobVars, client, stop, close, mainVars>>

CheckStop ==
    /\ srv = "check"
    /\ srv' = IF stop THEN "close" ELSE "accept"
    /\ UNCHANGED <<netVars, serving, ticks, jobVars, listener, client, stop, close, mainVars>>

Accept ==
    /\ srv = "accept"
    /\ \/ /\ listener = "closed" /\ srv' = "close"
          /\ UNCHANGED <<conn, serving>>
       \/ \E x \in Clients :
             /\ listener = "open" /\ conn[x] = "queued"
             /\ conn' = [conn EXCEPT ![x] = "open"]
             /\ serving' = x /\ srv' = "accepted"
    /\ UNCHANGED <<hung, lines, inbox, full, ticks, jobVars, listener, client, stop, close,
                   mainVars>>

\* gw.client is set for WinMain to close.
Announce ==
    /\ srv = "accepted" /\ srv' = "recv"
    /\ client' = serving /\ ticks' = 0 /\ inbox' = 0
    /\ late' = (main \notin {"loop", "client"})
    /\ UNCHANGED <<conn, hung, lines, full, serving, jobVars, listener, stop, close, main, killed>>

\* recv returns lines, the end of the connection, or an error.
Recv ==
    /\ srv = "recv"
    /\ IF inbox > 0 /\ conn[serving] = "open"
       THEN \E n \in 1 .. inbox :
            /\ srv' = "exec" /\ inbox' = inbox - n /\ batch' = n - 1
            /\ ticks' = 0 /\ blocks' = 0
            /\ job' \in Jobs
       ELSE /\ conn[serving] = "closed" \/ serving \in hung
            /\ srv' = "drop"
            /\ UNCHANGED <<inbox, batch, ticks, blocks, job>>
    /\ UNCHANGED <<conn, hung, lines, full, serving, descriptors, listener, client, stop, close,
                   mainVars>>

\* recv has nothing for RECV_TIMEOUT_MS.
Quiet == srv = "recv" /\ inbox = 0 /\ conn[serving] = "open" /\ serving \notin hung

\* Mutant: a client may be silent for ever.
TickForgiving ==
    /\ Quiet
    /\ srv' = IF stop THEN "drop" ELSE "recv"
    /\ UNCHANGED <<netVars, serving, ticks, jobVars, listener, client, stop, close, mainVars>>

Tick ==
    /\ Quiet
    /\ IF stop THEN srv' = "drop" /\ UNCHANGED ticks
       ELSE /\ ticks' = ticks + 1
            /\ srv' = IF ticks' >= IdleLimit THEN "drop" ELSE "recv"
    /\ UNCHANGED <<netVars, serving, jobVars, listener, client, stop, close, mainVars>>

\* Mutant: a failed write forgets its descriptor.
AfterFailureLeaking(call) ==
    IF call = "ibwrt" THEN <<>> ELSE IF descriptors > 0 THEN <<"ibonl">> ELSE Tail(job)

\* What is left of the job when a call failed: the descriptor is given back, and what could
\* not be written or polled is not answered; a call on the board is not looked at.
AfterFailure(call) == IF descriptors > 0 THEN <<"ibonl">> ELSE Tail(job)

\* Mutant: the window is not told.
QuittingMute == stop' = TRUE /\ UNCHANGED close

\* ++quit
Quitting == stop' = TRUE /\ close' = TRUE

\* A call on the instrument, under the driver's timeout.
Execute ==
    /\ srv = "exec" /\ job # <<>>
    /\ LET call == Head(job) IN
       \/ /\ call = "ibdev" /\ descriptors < MaxDevices - 1
          /\ descriptors' = descriptors + 1 /\ job' = Tail(job)
          /\ UNCHANGED <<blocks, stop, close>>
       \/ /\ call = "ibdev"
          /\ job' = <<>> /\ UNCHANGED <<descriptors, blocks, stop, close>>
       \/ /\ call = "ibonl"
          /\ descriptors' = descriptors - 1 /\ job' = Tail(job)
          /\ UNCHANGED <<blocks, stop, close>>
       \/ /\ call \in {"ibwrt", "ibcall"}
          /\ job' = Tail(job) \/ job' = AfterFailure(call)
          /\ UNCHANGED <<descriptors, blocks, stop, close>>
       \/ /\ call = "ibrd"                            \* END or a failure, with data or without
          /\ job' = Tail(job) \/ job' = <<"send", "ibonl">>
          /\ UNCHANGED <<descriptors, blocks, stop, close>>
       \/ /\ call = "ibrd" /\ blocks < MaxBlocks      \* a full buffer: read on
          /\ blocks' = blocks + 1 /\ job' = <<"send", "ibrd", "ibonl">>
          /\ UNCHANGED <<descriptors, stop, close>>
       \/ /\ call = "quit"
          /\ Quitting /\ job' = <<>>
          /\ UNCHANGED <<descriptors, blocks>>
    /\ UNCHANGED <<netVars, srv, serving, ticks, batch, listener, client, mainVars>>

\* A send to a client that is there and reads nothing does not return.
Stalled ==
    /\ srv = "exec" /\ job # <<>> /\ Head(job) = "send"
    /\ full /\ conn[serving] = "open" /\ serving \notin hung

\* send_all: the job goes on, whether or not the answer went out.
Send ==
    /\ srv = "exec" /\ job # <<>> /\ Head(job) = "send"
    /\ ~Stalled
    /\ job' = Tail(job)
    /\ UNCHANGED <<netVars, srv, serving, ticks, batch, blocks, descriptors, listener, client,
                   stop, close, mainVars>>

\* The stop flag is looked at when every line of this recv was handled.
LineDone ==
    /\ srv = "exec" /\ job = <<>>
    /\ IF batch > 0
       THEN job' \in Jobs /\ batch' = batch - 1 /\ blocks' = 0 /\ UNCHANGED srv
       ELSE srv' = (IF stop THEN "drop" ELSE "recv") /\ UNCHANGED <<job, batch, blocks>>
    /\ UNCHANGED <<netVars, serving, ticks, descriptors, listener, client, stop, close, mainVars>>

\* closesocket, then gw.client is forgotten.
Drop ==
    /\ srv = "drop" /\ srv' = "forget"
    /\ conn' = [conn EXCEPT ![serving] = "closed"]
    /\ UNCHANGED <<hung, lines, inbox, full, serving, ticks, jobVars, listener, client, stop, close,
                   mainVars>>

Forget ==
    /\ srv = "forget" /\ srv' = "check"
    /\ client' = "none" /\ serving' = "none" /\ inbox' = 0 /\ full' = FALSE
    /\ UNCHANGED <<conn, hung, lines, ticks, jobVars, listener, stop, close, mainVars>>

CloseListener ==
    /\ srv = "close" /\ srv' = "ended"
    /\ listener' = "closed"
    /\ UNCHANGED <<netVars, serving, ticks, jobVars, client, stop, close, mainVars>>

------------------------------------------------------------------------------
(* WinMain *)

\* The button, the window's close box, or WM_CLOSE ends the message loop.
WindowCloses ==
    /\ main = "loop"
    /\ main' = "client" /\ stop' = TRUE /\ close' = FALSE
    /\ UNCHANGED <<netVars, srvVars, listener, client, killed, late>>

\* Mutant: the client's socket is left to the server thread.
CloseClientOmitted ==
    /\ main = "client" /\ main' = "listener"
    /\ UNCHANGED <<netVars, srvVars, listener, client, stop, close, killed, late>>

CloseClient ==
    /\ main = "client" /\ main' = "listener"
    /\ conn' = IF client # "none" THEN [conn EXCEPT ![client] = "closed"] ELSE conn
    /\ UNCHANGED <<hung, lines, inbox, full, srvVars, listener, client, stop, close, killed, late>>

CloseListenerToo ==
    /\ main = "listener" /\ main' = "wait"
    /\ listener' = IF listener = "open" THEN "closed" ELSE listener
    /\ UNCHANGED <<netVars, srvVars, client, stop, close, killed, late>>

Joined ==
    /\ main = "wait" /\ srv \in {"ended", "killed"}
    /\ main' = "ended"
    /\ UNCHANGED <<netVars, srvVars, listener, client, stop, close, killed, late>>

\* What the server thread can be held up by for longer than WinMain waits for it.
InInstrument == srv = "exec" /\ job # <<>> /\ Head(job) \in {"ibwrt", "ibrd", "ibcall"}

\* A second passes: TerminateThread.
Terminate ==
    /\ main = "wait"
    /\ InInstrument \/ Quiet \/ Stalled
    /\ srv' = "killed"
    /\ killed' = IF Quiet THEN "recv" ELSE IF Stalled THEN "send" ELSE "ibcall"
    /\ UNCHANGED <<netVars, serving, ticks, jobVars, listener, client, stop, close, main, late>>

------------------------------------------------------------------------------

Server == Listen \/ CheckStop \/ Accept \/ Announce \/ Recv \/ Tick \/ Execute \/ Send \/ LineDone
             \/ Drop \/ Forget \/ CloseListener

Closing == CloseClient \/ CloseListenerToo \/ Joined

Next ==
    \/ main # "ended" /\ (Server \/ \E x \in Clients : Connect(x) \/ SendLine(x) \/ HangUp(x))
    \/ main # "ended" /\ ReadingChanges
    \/ WindowCloses \/ Closing \/ Terminate

Spec == Init /\ [][Next]_vars

\* Both threads run on, calls on the instrument return, a posted message arrives, WinMain's
\* wait ends, and a client that reads again and again takes its answer.
FairSpec ==
    /\ Spec
    /\ WF_vars(main # "ended" /\ Server)
    /\ SF_vars(main # "ended" /\ Send)
    /\ WF_vars(Closing) /\ WF_vars(close /\ WindowCloses) /\ WF_vars(Terminate)
------------------------------------------------------------------------------
(* Properties *)

\* Whatever call of a line fails, the next line finds every descriptor free: a client that
\* works on for days never meets a full table.
DescriptorsReturned ==
    srv \in {"recv", "drop", "forget", "check", "accept", "close", "ended"} => descriptors = 0

\* A server thread that merely waits for a client, to send or to read, is not terminated,
\* for closing its socket has woken it, unless that client came in while the window closed.
TerminatedOnlyBusy == killed \in {"recv", "send"} => late

\* A client in the queue is served in the end, or the gateway stops: no other client can hold
\* the only place for ever.
QueueMoves ==
    \A x \in Clients : conn[x] = "queued" ~> conn[x] # "queued" \/ main # "loop" \/ srv = "ended"

\* That is so as long as no client leaves its answers unread for ever: one that fell silent
\* without closing its connection does not keep the only place.
NextClientServed == []<>~Stalled => QueueMoves

\* Once asked to stop, by the window or by ++quit, the gateway ends.
StopsWhenAsked == stop ~> main = "ended"
==============================================================================
