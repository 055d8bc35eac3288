----------------------------- MODULE PacketConn -----------------------------
(***************************************************************************)
(* The virtual packet connection of the probe responder,                    *)
(* responder/quicconn.go: a bounded queue of datagrams, a read deadline that *)
(* may change while a reader waits, and Close.                              *)
(*                                                                         *)
(* A mutex section is one action, and so is a select.  ReadFrom is two:     *)
(* it takes the deadline and deadlineCh under the mutex, then waits.        *)
(***************************************************************************)
EXTENDS Naturals, Sequences

CONSTANTS
    Readers,     \* goroutines that call ReadFrom
    Packets,     \* datagrams
    Capacity,    \* of the channel `inbound' (256)
    NoDeadline,  \* the zero time.Time
    MaxTime,     \* bound: of the clock
    MaxSets      \* bound: of the calls of SetReadDeadline

ASSUME PacketConnAssumption ==
    /\ Capacity \in Nat \ {0}
    /\ MaxTime \in Nat /\ MaxSets \in Nat
    /\ NoDeadline \notin Nat

VARIABLES
    inbound,   \* the channel of datagrams
    closed,    \* the channel `closed' is closed
    deadline,  \* c.deadline
    chan,      \* c.deadlineCh is the channel number `chan'; the ones before are closed
    now,       \* the clock
    read       \* the ReadFrom of each reader: where it is and what it took

connVars == <<inbound, closed, deadline, chan, now, read>>

Times == {NoDeadline} \cup (0 .. MaxTime)

Outside == [at |-> "out", dl |-> NoDeadline, dch |-> 0, result |-> "none"]

ConnInit ==
    /\ inbound = <<>>
    /\ closed = FALSE
    /\ deadline = NoDeadline
    /\ chan = 0
    /\ now = 0
    /\ read = [r \in Readers |-> Outside]

Returned(result) == [Outside EXCEPT !.result = result]

-----------------------------------------------------------------------------
\* Mutant: push waits for room.
Push_Blocking(p) ==
    /\ Len(inbound) < Capacity
    /\ inbound' = Append(inbound, p)
    /\ UNCHANGED <<closed, deadline, chan, now, read>>

\* Mutant: the queue has no bound.
Push_Unbounded(p) ==
    /\ Len(inbound) <= Capacity
    /\ inbound' = Append(inbound, p)
    /\ UNCHANGED <<closed, deadline, chan, now, read>>

\* push: a select with a default.  When both cases are ready, after Close with
\* room in the queue, either is taken.
Push(p) ==
    /\ \/ closed /\ UNCHANGED inbound
       \/ Len(inbound) < Capacity /\ inbound' = Append(inbound, p)
       \/ ~ closed /\ Len(inbound) = Capacity /\ UNCHANGED inbound
    /\ UNCHANGED <<closed, deadline, chan, now, read>>

\* ReadFrom is called.
ReadFrom(r) ==
    /\ read[r].at = "out"
    /\ read' = [read EXCEPT ![r] = [Outside EXCEPT !.at = "top"]]
    /\ UNCHANGED <<inbound, closed, deadline, chan, now>>

\* Mutant: the loop takes the deadline again but not the channel.
Take_DeadlineOnly(r) ==
    /\ read[r].at = "top"
    /\ read' = [read EXCEPT ![r].at = "select", ![r].dl = deadline]
    /\ UNCHANGED <<inbound, closed, deadline, chan, now>>

\* The top of its loop: deadline and channel are taken together, the timer set.
Take(r) ==
    /\ read[r].at = "top"
    /\ read' = [read EXCEPT ![r].at = "select", ![r].dl = deadline, ![r].dch = chan]
    /\ UNCHANGED <<inbound, closed, deadline, chan, now>>

Return(r, result) ==
    /\ read[r].at = "select"
    /\ read' = [read EXCEPT ![r] = Returned(result)]
    /\ UNCHANGED <<closed, deadline, chan, now>>

\* The cases of its select.
SeesClose(r) == closed /\ Return(r, "closed") /\ UNCHANGED inbound

TimerFires(r) ==
    /\ read[r].dl # NoDeadline
    /\ now >= read[r].dl
    /\ Return(r, "timeout")
    /\ UNCHANGED inbound

DeadlineChanged(r) ==
    /\ read[r].at = "select"
    /\ read[r].dch < chan
    /\ read' = [read EXCEPT ![r].at = "top"]
    /\ UNCHANGED <<inbound, closed, deadline, chan, now>>

Receive(r) ==
    /\ inbound # <<>>
    /\ Return(r, "packet")
    /\ inbound' = Tail(inbound)

Close ==
    /\ closed' = TRUE
    /\ UNCHANGED <<inbound, deadline, chan, now, read>>

\* Mutant: a blocked ReadFrom is not woken.
SetReadDeadline_NoWake(t) ==
    /\ chan < MaxSets
    /\ deadline' = t
    /\ UNCHANGED <<inbound, closed, chan, now, read>>

\* SetReadDeadline closes the channel and makes a new one.
SetReadDeadline(t) ==
    /\ chan < MaxSets
    /\ deadline' = t
    /\ chan' = chan + 1
    /\ UNCHANGED <<inbound, closed, now, read>>

Tick ==
    /\ now < MaxTime
    /\ now' = now + 1
    /\ UNCHANGED <<inbound, closed, deadline, chan, read>>

ReadStep(r) == Take(r) \/ SeesClose(r) \/ TimerFires(r) \/ DeadlineChanged(r) \/ Receive(r)

ConnNext ==
    \/ \E p \in Packets : Push(p)
    \/ \E r \in Readers : ReadFrom(r) \/ ReadStep(r)
    \/ \E t \in Times : SetReadDeadline(t)
    \/ Close \/ Tick

ConnSpec == ConnInit /\ [][ConnNext]_connVars

\* A goroutine that can run does.
FairConnSpec == ConnSpec /\ \A r \in Readers : WF_connVars(ReadStep(r))

-----------------------------------------------------------------------------
ConnTypeOK ==
    /\ inbound \in Seq(Packets) /\ Len(inbound) <= Capacity
    /\ closed \in BOOLEAN
    /\ deadline \in Times
    /\ chan \in 0 .. MaxSets
    /\ now \in 0 .. MaxTime
    /\ read \in [Readers -> [at: {"out", "top", "select"}, dl: Times, dch: 0 .. MaxSets,
                             result: {"none", "packet", "closed", "timeout"}]]

\* A reader that waits on the current deadlineCh waits for the current
\* deadline: no SetReadDeadline gets lost between the two.
NoLostWakeup ==
    \A r \in Readers : read[r].at = "select" =>
        \/ read[r].dch < chan
        \/ read[r].dch = chan /\ read[r].dl = deadline

Expired == deadline # NoDeadline /\ now >= deadline

\* No reader waits for ever while it has a reason to return: a datagram, an
\* expired deadline, or Close.
NeverStuck ==
    \A r \in Readers :
        ~ <>[](read[r].at # "out" /\ (inbound # <<>> \/ Expired \/ closed))

\* What the comment of push says: it drops datagrams after Close.
DropsAfterClose == [][closed => Len(inbound') <= Len(inbound)]_connVars
=============================================================================
