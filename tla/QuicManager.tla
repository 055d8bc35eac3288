----------------------------- MODULE QuicManager ----------------------------
(***************************************************************************)
(* The embedded QUIC endpoint, responder/quichs.go: the NFQUEUE loop hands  *)
(* it the datagrams of claimed flows, quic-go reads them from the packet    *)
(* connection and writes its answers back through inject, which looks up    *)
(* the address the client had probed.  quic-go itself is external: one      *)
(* goroutine reads until the transport closes, others write to the clients  *)
(* that were heard.                                                         *)
(***************************************************************************)
EXTENDS PacketConn, FiniteSets

CONSTANTS
    Clients,          \* client addresses; a datagram is its sender
    Servers,          \* the server's own addresses
    MaxClaimedFlows,  \* 4096
    Reader,           \* quic-go's read loop
    Writers,          \* quic-go's sending goroutines
    NoClient

ASSUME QuicManagerAssumption ==
    /\ Packets = Clients /\ Readers = {Reader}
    /\ MaxClaimedFlows \in Nat \ {0}
    /\ MaxSets = 2           \* Transport.Close sets the deadline twice
    /\ NoClient \notin Clients

VARIABLES
    srcByCli,  \* client -> the server address it probed
    nfqueue,   \* the client whose datagram the NFQUEUE loop is about to push
    writer,    \* the client each writer is about to inject an answer for
    heard,     \* the clients whose datagrams quic-go has read
    looping,   \* quic-go's read loop runs
    closing,   \* how far quicManager.Close is
    evicted,   \* history: clients that lost their entry
    lost       \* history: clients an answer could not be sent to

managerVars == <<srcByCli, nfqueue, writer, heard, looping, closing, evicted, lost>>
vars == <<connVars, managerVars>>

Phases == {"open", "listener", "transport", "waiting", "conn", "closed"}

Init ==
    /\ ConnInit
    /\ srcByCli = [c \in {} |-> c]
    /\ nfqueue = NoClient
    /\ writer = [w \in Writers |-> NoClient]
    /\ heard = {}
    /\ looping = TRUE
    /\ closing = "open"
    /\ evicted = {}
    /\ lost = {}

-----------------------------------------------------------------------------
Claimed == DOMAIN srcByCli

\* Mutant: one flow too many.
Full_OffByOne(c) == c \notin Claimed /\ Cardinality(Claimed) > MaxClaimedFlows

Full(c) == c \notin Claimed /\ Cardinality(Claimed) >= MaxClaimedFlows

\* Mutant: at capacity the new flow is not entered, but its datagram is pushed.
Handle_NotEntered(c, s) ==
    /\ nfqueue = NoClient
    /\ nfqueue' = c
    /\ srcByCli' = IF Full(c) THEN srcByCli
                   ELSE [k \in Claimed \cup {c} |-> IF k = c THEN s ELSE srcByCli[k]]
    /\ UNCHANGED connVars
    /\ UNCHANGED <<writer, heard, looping, closing, evicted, lost>>

\* handle: enter the flow, at capacity in place of an arbitrary other one.
Handle(c, s) ==
    /\ nfqueue = NoClient
    /\ nfqueue' = c
    /\ \E gone \in IF Full(c) THEN {{k} : k \in Claimed} ELSE {{}} :
        /\ srcByCli' = [k \in (Claimed \ gone) \cup {c} |-> IF k = c THEN s ELSE srcByCli[k]]
        /\ evicted' = evicted \cup gone
    /\ UNCHANGED connVars
    /\ UNCHANGED <<writer, heard, looping, closing, lost>>

\* ... and push the datagram; the flow may have been entered long before.
HandlePush ==
    /\ nfqueue # NoClient
    /\ Push(nfqueue)
    /\ nfqueue' = NoClient
    /\ UNCHANGED <<srcByCli, writer, heard, looping, closing, evicted, lost>>

\* quic-go's read loop: it reads again after a datagram and after a deadline
\* that was not meant to end it.
Loop ==
    /\ looping /\ read[Reader].at = "out"
    /\ IF read[Reader].result = "closed" \/ (read[Reader].result = "timeout" /\ closing # "open")
       THEN looping' = FALSE /\ UNCHANGED connVars
       ELSE looping' = looping /\ ReadFrom(Reader)
    /\ UNCHANGED <<srcByCli, nfqueue, writer, heard, closing, evicted, lost>>

Reading ==
    /\ \/ /\ \/ Take(Reader) \/ DeadlineChanged(Reader)
             \/ SeesClose(Reader) \/ TimerFires(Reader)
          /\ UNCHANGED heard
       \/ Receive(Reader) /\ heard' = heard \cup {Head(inbound)}
    /\ UNCHANGED <<srcByCli, nfqueue, writer, looping, closing, evicted, lost>>

\* WriteTo, up to inject; after Close it returns net.ErrClosed.
WriteTo(w, c) ==
    /\ writer[w] = NoClient /\ c \in heard
    /\ ~ closed
    /\ writer' = [writer EXCEPT ![w] = c]
    /\ UNCHANGED <<connVars, srcByCli, nfqueue, heard, looping, closing, evicted, lost>>

\* inject: "no server IP for client" if the flow has no entry.
Inject(w) ==
    /\ writer[w] # NoClient
    /\ lost' = IF writer[w] \in Claimed THEN lost ELSE lost \cup {writer[w]}
    /\ writer' = [writer EXCEPT ![w] = NoClient]
    /\ UNCHANGED <<connVars, srcByCli, nfqueue, heard, looping, closing, evicted>>

-----------------------------------------------------------------------------
(* quicManager.Close, on the goroutine of runQueue *)

ClosePhase(from, to) == closing = from /\ closing' = to

CloseRest == UNCHANGED <<srcByCli, nfqueue, writer, heard, looping, evicted, lost>>

\* cancel and ln.Close
CloseListener == ClosePhase("open", "listener") /\ CloseRest /\ UNCHANGED connVars

\* tr.Close sets the read deadline to now, waits for the read loop, and clears
\* the deadline.
CloseTransport == ClosePhase("listener", "waiting") /\ SetReadDeadline(now) /\ CloseRest

TransportClosed ==
    /\ ~ looping
    /\ ClosePhase("waiting", "conn")
    /\ SetReadDeadline(NoDeadline)
    /\ CloseRest

CloseConn == ClosePhase("conn", "closed") /\ Close /\ CloseRest

CloseStep == CloseTransport \/ TransportClosed \/ CloseConn

-----------------------------------------------------------------------------
Next ==
    \/ \E c \in Clients, s \in Servers : Handle(c, s)
    \/ HandlePush
    \/ Loop \/ Reading
    \/ \E w \in Writers : Inject(w) \/ \E c \in Clients : WriteTo(w, c)
    \/ CloseListener \/ CloseStep
    \/ Tick /\ UNCHANGED managerVars

\* Goroutines that can run do.  A select takes any of its ready cases with
\* equal chance, so a timer that stays ready is taken in the end.
Fairness ==
    /\ WF_vars(HandlePush) /\ WF_vars(Loop) /\ WF_vars(Reading)
    /\ SF_vars(Reading /\ TimerFires(Reader))
    /\ WF_vars(CloseStep)

Spec == Init /\ [][Next]_vars /\ Fairness

-----------------------------------------------------------------------------
TypeOK ==
    /\ ConnTypeOK
    /\ Claimed \subseteq Clients /\ \A c \in Claimed : srcByCli[c] \in Servers
    /\ nfqueue \in Clients \cup {NoClient}
    /\ writer \in [Writers -> Clients \cup {NoClient}]
    /\ heard \subseteq Clients /\ evicted \subseteq Clients /\ lost \subseteq Clients
    /\ looping \in BOOLEAN
    /\ closing \in Phases

\* The table stays bounded under a flood of first packets (maxClaimedFlows).
FlowsBounded == Cardinality(Claimed) <= MaxClaimedFlows

\* inject has a source address for every client quic-go answers, unless the
\* flood evicted it: no answer overtakes the entry of its flow.
OnlyEvictedLost == lost \subseteq evicted

\* quicManager.Close returns: the read loop is woken however it waits and
\* however many datagrams still arrive.
CloseReturns == closing = "listener" ~> closing = "closed"

\* The NFQUEUE loop is never blocked by the endpoint (the comment of push).
NeverBlocks == nfqueue # NoClient ~> nfqueue = NoClient
=============================================================================
