-------------------------- MODULE QuicManagerProofs -------------------------
(***************************************************************************)
(* The flow table of the QUIC endpoint, for any number of clients, writers  *)
(* and entries: it stays bounded, and an answer finds the address of its    *)
(* flow unless the flow was evicted.  Before it, the packet connection      *)
(* below the table: what its readers wait for, for any number of readers,   *)
(* datagrams and calls of SetReadDeadline.                                  *)
(***************************************************************************)
EXTENDS QuicManager, TLAPS, FiniteSetTheorems

-----------------------------------------------------------------------------
(* The packet connection *)

\* The record a reader keeps while it is in ReadFrom.
ReadRecord == [at: {"out", "top", "select"}, dl: Times, dch: 0 .. MaxSets,
               result: {"none", "packet", "closed", "timeout"}]

(* push keeps the queue within its capacity (quicconn.go, push). *)
LEMMA PushType ==
    ASSUME ConnTypeOK, NEW p \in Packets, Push(p)
    PROVE  ConnTypeOK'
<1> USE PacketConnAssumption
<1>1. CASE UNCHANGED inbound
  BY <1>1 DEF ConnTypeOK, Push
<1>2. CASE Len(inbound) < Capacity /\ inbound' = Append(inbound, p)
  <2>1. inbound' \in Seq(Packets) /\ Len(inbound') = Len(inbound) + 1
    BY <1>2 DEF ConnTypeOK
  <2>2. Len(inbound) \in Nat
    BY DEF ConnTypeOK
  <2> QED BY <1>2, <2>1, <2>2 DEF ConnTypeOK, Push
<1> QED BY <1>1, <1>2 DEF Push

(* Every step of ReadFrom keeps the types (quicconn.go, ReadFrom). *)
LEMMA ReadType ==
    ASSUME ConnTypeOK, NEW r \in Readers, ReadFrom(r) \/ ReadStep(r)
    PROVE  ConnTypeOK'
<1> USE PacketConnAssumption
<1> NoDeadline \in Times /\ 0 \in 0 .. MaxSets /\ read[r] \in ReadRecord
  BY DEF Times, ConnTypeOK, ReadRecord
<1> SUFFICES /\ inbound' \in Seq(Packets) /\ Len(inbound') <= Capacity
             /\ read' \in [Readers -> ReadRecord]
             /\ UNCHANGED <<closed, deadline, chan, now>>
  BY DEF ConnTypeOK, ReadRecord
<1> read \in [Readers -> ReadRecord]
  BY DEF ConnTypeOK, ReadRecord
<1>1. CASE ReadFrom(r)
  BY <1>1 DEF ReadFrom, ConnTypeOK, Outside, ReadRecord
<1>2. CASE Take(r)
  BY <1>2 DEF Take, ConnTypeOK, ReadRecord
<1>3. CASE SeesClose(r)
  BY <1>3 DEF SeesClose, Return, Returned, Outside, ConnTypeOK, ReadRecord
<1>4. CASE TimerFires(r)
  BY <1>4 DEF TimerFires, Return, Returned, Outside, ConnTypeOK, ReadRecord
<1>5. CASE DeadlineChanged(r)
  BY <1>5 DEF DeadlineChanged, ConnTypeOK, ReadRecord
<1>6. CASE Receive(r)
  <2>1. inbound' \in Seq(Packets) /\ Len(inbound') = Len(inbound) - 1
    BY <1>6 DEF Receive, ConnTypeOK
  <2>2. Len(inbound) \in Nat
    BY DEF ConnTypeOK
  <2>3. Len(inbound') <= Capacity
    BY <2>1, <2>2 DEF ConnTypeOK
  <2>4. read' \in [Readers -> ReadRecord] /\ UNCHANGED <<closed, deadline, chan, now>>
    BY <1>6 DEF Receive, Return, Returned, Outside, ReadRecord
  <2> QED BY <2>1, <2>3, <2>4
<1> QED BY <1>1, <1>2, <1>3, <1>4, <1>5, <1>6 DEF ReadStep

(* A new deadline keeps the types (quicconn.go, SetReadDeadline). *)
LEMMA SetType ==
    ASSUME ConnTypeOK, NEW t \in Times, SetReadDeadline(t)
    PROVE  ConnTypeOK'
BY PacketConnAssumption DEF ConnTypeOK, SetReadDeadline

(* Every step of the connection keeps the types. *)
LEMMA TypeStep == ConnTypeOK /\ [ConnNext]_connVars => ConnTypeOK'
<1> USE PacketConnAssumption
<1> SUFFICES ASSUME ConnTypeOK, [ConnNext]_connVars PROVE ConnTypeOK'
  OBVIOUS
<1>1. CASE UNCHANGED connVars
  BY <1>1 DEF ConnTypeOK, connVars
<1>2. CASE Close
  BY <1>2 DEF ConnTypeOK, Close
<1>3. CASE Tick
  BY <1>3 DEF ConnTypeOK, Tick
<1> QED BY <1>1, <1>2, <1>3, PushType, ReadType, SetType DEF ConnNext

(* A new connection has the types (quicconn.go, newPacketConn). *)
LEMMA InitType == ConnInit => ConnTypeOK
<1> SUFFICES ASSUME ConnInit PROVE ConnTypeOK
  OBVIOUS
<1> USE PacketConnAssumption DEF ConnInit
<1>1. inbound \in Seq(Packets) /\ Len(inbound) <= Capacity
  OBVIOUS
<1>2. Outside \in ReadRecord
  BY DEF Outside, ReadRecord, Times
<1>3. read \in [Readers -> ReadRecord]
  BY <1>2
<1>4. closed \in BOOLEAN
  BY Zenon
<1>5. deadline \in Times
  BY DEF Times
<1>6. chan \in 0 .. MaxSets /\ now \in 0 .. MaxTime
  OBVIOUS
<1> QED BY <1>1, <1>3, <1>4, <1>5, <1>6, Zenon DEF ConnTypeOK, ReadRecord

(* The connection of quicconn.go is well formed in every reachable state, and *)
(* its queue never holds more than its capacity.                              *)
THEOREM ConnTypeCorrect == ConnSpec => []ConnTypeOK
BY InitType, TypeStep, PTL DEF ConnSpec

-----------------------------------------------------------------------------
(* A step of ReadFrom leaves the other readers alone and keeps the pair it    *)
(* took together: the deadline and the channel that announces a newer one.    *)
LEMMA ReadKeepsPair ==
    ASSUME ConnTypeOK, NoLostWakeup, NEW r \in Readers, ReadFrom(r) \/ ReadStep(r)
    PROVE  NoLostWakeup'
<1> SUFFICES ASSUME NEW q \in Readers, read'[q].at = "select"
             PROVE  \/ read'[q].dch < chan'
                    \/ read'[q].dch = chan' /\ read'[q].dl = deadline'
  BY DEF NoLostWakeup
<1>0. UNCHANGED <<chan, deadline>>
  BY DEF ReadFrom, ReadStep, Take, SeesClose, TimerFires, DeadlineChanged, Receive, Return
<1> read \in [Readers -> ReadRecord]
  BY DEF ConnTypeOK, ReadRecord
<1>1. CASE q # r
  <2>1. read'[q] = read[q]
    BY <1>1 DEF ReadFrom, ReadStep, Take, SeesClose, TimerFires, DeadlineChanged,
                Receive, Return
  <2> QED BY <1>0, <2>1 DEF NoLostWakeup
<1>2. CASE q = r
  <2>1. CASE Take(r)
    BY <1>2, <2>1 DEF Take, ReadRecord
  <2>2. CASE ReadFrom(r)
    BY <1>2, <2>2 DEF ReadFrom, Outside
  <2>3. CASE DeadlineChanged(r)
    BY <1>2, <2>3 DEF DeadlineChanged, ReadRecord
  <2>4. CASE SeesClose(r) \/ TimerFires(r) \/ Receive(r)
    BY <1>2, <2>4 DEF SeesClose, TimerFires, Receive, Return, Returned, Outside
  <2> QED BY <2>1, <2>2, <2>3, <2>4 DEF ReadStep
<1> QED BY <1>1, <1>2

(* Every step keeps the pairs of the waiting readers. *)
LEMMA PairStep ==
    ConnTypeOK /\ NoLostWakeup /\ [ConnNext]_connVars => NoLostWakeup'
<1> SUFFICES ASSUME ConnTypeOK, NoLostWakeup, [ConnNext]_connVars PROVE NoLostWakeup'
  OBVIOUS
<1>1. ASSUME UNCHANGED <<chan, deadline, read>> PROVE NoLostWakeup'
  BY <1>1 DEF NoLostWakeup
<1>2. ASSUME NEW t \in Times, SetReadDeadline(t) PROVE NoLostWakeup'
  BY <1>2, PacketConnAssumption DEF SetReadDeadline, NoLostWakeup, ConnTypeOK
<1>3. CASE UNCHANGED connVars \/ Close \/ Tick \/ \E p \in Packets : Push(p)
  BY <1>1, <1>3 DEF connVars, Close, Tick, Push
<1> QED BY <1>2, <1>3, ReadKeepsPair DEF ConnNext

(* No call of SetReadDeadline is lost on a reader that is about to wait: the  *)
(* mutex makes deadline and deadlineCh one pair (quicconn.go, ReadFrom).      *)
THEOREM NoWakeupLost == ConnSpec => []NoLostWakeup
<1>1. ConnInit => NoLostWakeup
  BY DEF ConnInit, NoLostWakeup, Outside
<1> QED BY <1>1, ConnTypeCorrect, PairStep, PTL DEF ConnSpec

-----------------------------------------------------------------------------
(* The flow table *)

\* Entered by handle, whether or not evicted since.
Tracked == Claimed \cup evicted

\* A datagram's client is tracked wherever the datagram is: about to be pushed,
\* queued, read, or being answered.
PipelineTracked ==
    /\ nfqueue # NoClient => nfqueue \in Tracked
    /\ \A i \in 1 .. Len(inbound) : inbound[i] \in Tracked
    /\ heard \subseteq Tracked
    /\ \A w \in Writers : writer[w] # NoClient => writer[w] \in heard

TableBounded == IsFiniteSet(Claimed) /\ FlowsBounded

FlowInv == inbound \in Seq(Clients) /\ PipelineTracked /\ OnlyEvictedLost /\ TableBounded

-----------------------------------------------------------------------------
(* An entry more makes a table larger by one at most.                         *)
LEMMA OneMore ==
    ASSUME NEW S, IsFiniteSet(S), NEW x
    PROVE  /\ IsFiniteSet(S \cup {x})
           /\ Cardinality(S \cup {x}) \in Nat
           /\ Cardinality(S \cup {x}) <= Cardinality(S) + 1
<1>1. Cardinality(S) \in Nat
  BY FS_CardinalityType
<1>2. CASE x \in S
  <2>1. S \cup {x} = S
    BY <1>2
  <2>2. Cardinality(S) <= Cardinality(S) + 1
    BY <1>1
  <2> QED BY <1>1, <2>1, <2>2, Zenon
<1>3. CASE x \notin S
  <2>1. IsFiniteSet(S \cup {x}) /\ Cardinality(S \cup {x}) = Cardinality(S) + 1
    BY <1>3, FS_AddElement
  <2> QED BY <1>1, <2>1
<1> QED BY <1>2, <1>3

(* At capacity a new flow replaces another one, so the table stays bounded    *)
(* (quichs.go, handle).                                                       *)
LEMMA HandleBounded ==
    ASSUME TableBounded, NEW c \in Clients, NEW s \in Servers, Handle(c, s)
    PROVE  TableBounded'
<1> USE QuicManagerAssumption
<1> PICK gone \in IF Full(c) THEN {{k} : k \in Claimed} ELSE {{}} :
        Claimed' = (Claimed \ gone) \cup {c}
  BY DEF Handle, Claimed
<1>0. /\ IsFiniteSet(Claimed) /\ Cardinality(Claimed) \in Nat
      /\ Cardinality(Claimed) <= MaxClaimedFlows
  BY FS_CardinalityType DEF TableBounded, FlowsBounded
<1>1. SUFFICES ASSUME NEW T, T = (Claimed \ gone) \cup {c}
               PROVE  IsFiniteSet(T) /\ Cardinality(T) <= MaxClaimedFlows
  BY Zenon DEF TableBounded, FlowsBounded
<1>2. CASE Full(c)
  <2>1. PICK k \in Claimed : gone = {k}
    BY <1>2
  <2>2. /\ IsFiniteSet(Claimed \ {k})
        /\ Cardinality(Claimed \ {k}) = Cardinality(Claimed) - 1
    BY <1>0, FS_RemoveElement
  <2>3. /\ IsFiniteSet((Claimed \ {k}) \cup {c})
        /\ Cardinality((Claimed \ {k}) \cup {c}) \in Nat
        /\ Cardinality((Claimed \ {k}) \cup {c}) <= Cardinality(Claimed \ {k}) + 1
    BY <2>2, OneMore
  <2>4. Cardinality((Claimed \ {k}) \cup {c}) <= MaxClaimedFlows
    BY <1>0, <2>2, <2>3
  <2> QED BY <1>1, <2>1, <2>3, <2>4, Zenon
<1>3. CASE c \in Claimed
  <2>1. gone = {}
    BY <1>3 DEF Full
  <2>2. T = Claimed
    BY <1>1, <1>3, <2>1
  <2> QED BY <1>0, <2>2, Zenon
<1>4. CASE ~ Full(c) /\ c \notin Claimed
  <2>1. T = Claimed \cup {c}
    BY <1>1, <1>4
  <2>2. Cardinality(Claimed) < MaxClaimedFlows
    BY <1>0, <1>4 DEF Full
  <2>3. /\ IsFiniteSet(Claimed \cup {c})
        /\ Cardinality(Claimed \cup {c}) \in Nat
        /\ Cardinality(Claimed \cup {c}) <= Cardinality(Claimed) + 1
    BY <1>0, OneMore
  <2>4. Cardinality(Claimed \cup {c}) <= MaxClaimedFlows
    BY <1>0, <2>2, <2>3
  <2> QED BY <2>1, <2>3, <2>4, Zenon
<1> QED BY <1>2, <1>3, <1>4

(* handle forgets no flow that it does not note as evicted (quichs.go).       *)
LEMMA HandleTracks ==
    ASSUME NEW c \in Clients, NEW s \in Servers, Handle(c, s)
    PROVE  Tracked \subseteq Tracked' /\ c \in Tracked' /\ evicted \subseteq evicted'
<1> PICK gone \in IF Full(c) THEN {{k} : k \in Claimed} ELSE {{}} :
        Claimed' = (Claimed \ gone) \cup {c} /\ evicted' = evicted \cup gone
  BY DEF Handle, Claimed
<1> QED BY DEF Tracked

(* handle keeps the invariant (quichs.go). *)
LEMMA HandleStep ==
    ASSUME FlowInv, NEW c \in Clients, NEW s \in Servers, Handle(c, s)
    PROVE  FlowInv'
<1>1. TableBounded'
  BY HandleBounded DEF FlowInv
<1>2. UNCHANGED <<inbound, writer, heard, lost>> /\ nfqueue' = c
  BY DEF Handle, connVars
<1>3. PipelineTracked'
  BY <1>2, HandleTracks DEF FlowInv, PipelineTracked
<1>4. OnlyEvictedLost'
  BY <1>2, HandleTracks DEF FlowInv, OnlyEvictedLost
<1> QED BY <1>1, <1>2, <1>3, <1>4 DEF FlowInv

(* push queues the datagram of a tracked flow, or drops it (quicconn.go).     *)
LEMMA PushStep ==
    ASSUME FlowInv, TypeOK, HandlePush
    PROVE  FlowInv'
<1>1. UNCHANGED <<srcByCli, writer, heard, evicted, lost>> /\ nfqueue' = NoClient
  BY DEF HandlePush
<1>2. nfqueue \in Clients /\ nfqueue \in Tracked
  BY DEF HandlePush, TypeOK, FlowInv, PipelineTracked
<1>3. \/ inbound' = inbound
      \/ inbound' = Append(inbound, nfqueue)
  BY DEF HandlePush, Push
<1>4. inbound' \in Seq(Clients) /\ \A i \in 1 .. Len(inbound') : inbound'[i] \in Tracked
  BY <1>2, <1>3 DEF FlowInv, PipelineTracked
<1> QED BY <1>1, <1>4 DEF FlowInv, PipelineTracked, Tracked, Claimed, OnlyEvictedLost,
               TableBounded, FlowsBounded

(* quic-go hears only of tracked flows (quicconn.go, ReadFrom).               *)
LEMMA ReadingStep ==
    ASSUME FlowInv, Reading
    PROVE  FlowInv'
<1>1. UNCHANGED <<srcByCli, nfqueue, writer, evicted, lost>>
  BY DEF Reading
<1>2. \/ inbound' = inbound /\ heard' = heard
      \/ inbound # <<>> /\ inbound' = Tail(inbound) /\ heard' = heard \cup {Head(inbound)}
  BY DEF Reading, Take, SeesClose, TimerFires, DeadlineChanged, Receive
<1>3. /\ inbound' \in Seq(Clients)
      /\ \A i \in 1 .. Len(inbound') : inbound'[i] \in Tracked
      /\ heard \subseteq heard' /\ heard' \subseteq Tracked
  BY <1>2 DEF FlowInv, PipelineTracked
<1> QED BY <1>1, <1>3 DEF FlowInv, PipelineTracked, Tracked, Claimed, OnlyEvictedLost,
               TableBounded, FlowsBounded

(* quic-go answers only a client it heard (quicconn.go, WriteTo).             *)
LEMMA WriteToStep ==
    ASSUME FlowInv, NEW w \in Writers, NEW c \in Clients, WriteTo(w, c),
           writer \in [Writers -> Clients \cup {NoClient}]
    PROVE  FlowInv'
<1>1. UNCHANGED <<inbound, srcByCli, nfqueue, heard, evicted, lost>>
  BY DEF WriteTo, connVars
<1>2. c \in heard /\ writer' = [writer EXCEPT ![w] = c]
  BY DEF WriteTo
<1>3. \A v \in Writers : writer'[v] # NoClient => writer'[v] \in heard
  BY <1>2 DEF FlowInv, PipelineTracked
<1> QED BY <1>1, <1>3 DEF FlowInv, PipelineTracked, Tracked, Claimed, OnlyEvictedLost,
               TableBounded, FlowsBounded

(* An answer that finds no entry belongs to an evicted flow (quichs.go,       *)
(* inject).                                                                   *)
LEMMA InjectStep ==
    ASSUME FlowInv, NEW w \in Writers, Inject(w),
           writer \in [Writers -> Clients \cup {NoClient}]
    PROVE  FlowInv'
<1>1. UNCHANGED <<inbound, srcByCli, nfqueue, heard, evicted>>
  BY DEF Inject, connVars
<1>2. writer[w] \in Tracked
  BY DEF Inject, FlowInv, PipelineTracked
<1>3. OnlyEvictedLost'
  BY <1>1, <1>2 DEF Inject, FlowInv, OnlyEvictedLost, Tracked
<1>4. writer' = [writer EXCEPT ![w] = NoClient]
  BY DEF Inject
<1>5. \A v \in Writers : writer'[v] # NoClient => writer'[v] \in heard
  BY <1>4 DEF FlowInv, PipelineTracked
<1> QED BY <1>1, <1>3, <1>5 DEF FlowInv, PipelineTracked, Tracked, Claimed,
               TableBounded, FlowsBounded

\* The steps that touch neither the table nor a datagram.
Untouched == UNCHANGED <<inbound, srcByCli, nfqueue, writer, heard, evicted, lost>>

(* The other steps keep the invariant, as it does not mention what they change. *)
LEMMA UntouchedStep == FlowInv /\ Untouched => FlowInv'
BY DEF Untouched, FlowInv, PipelineTracked, Tracked, Claimed, OnlyEvictedLost,
       TableBounded, FlowsBounded

(* The loop, Close and the clock touch neither the table nor a datagram. *)
LEMMA Leaves ==
    Loop \/ CloseListener \/ CloseStep \/ (Tick /\ UNCHANGED managerVars) \/ UNCHANGED vars
        => Untouched
BY DEF Loop, ReadFrom, CloseListener, CloseStep, CloseTransport, TransportClosed, CloseConn,
       ClosePhase, CloseRest, SetReadDeadline, Close, Tick, managerVars, connVars, vars, Untouched

(* Every step keeps the invariant. *)
LEMMA FlowStep == FlowInv /\ TypeOK /\ [Next]_vars => FlowInv'
<1> SUFFICES ASSUME FlowInv, TypeOK, [Next]_vars PROVE FlowInv'
  OBVIOUS
<1>1. writer \in [Writers -> Clients \cup {NoClient}]
  BY DEF TypeOK
<1>2. ASSUME NEW c \in Clients, NEW s \in Servers, Handle(c, s) PROVE FlowInv'
  BY <1>2, HandleStep
<1>3. CASE HandlePush
  BY <1>3, PushStep
<1>4. CASE Reading
  BY <1>4, ReadingStep
<1>5. ASSUME NEW w \in Writers, Inject(w) PROVE FlowInv'
  BY <1>1, <1>5, InjectStep
<1>6. ASSUME NEW w \in Writers, NEW c \in Clients, WriteTo(w, c) PROVE FlowInv'
  BY <1>1, <1>6, WriteToStep
<1>7. CASE Untouched
  BY <1>7, UntouchedStep
<1> QED BY <1>2, <1>3, <1>4, <1>5, <1>6, <1>7, Leaves DEF Next

-----------------------------------------------------------------------------
(* The packet connection is well formed whatever the manager does with it     *)
(* (quicconn.go).                                                             *)
LEMMA ConnTypeStep == TypeOK /\ [Next]_vars => ConnTypeOK'
<1> USE PacketConnAssumption, QuicManagerAssumption
<1> SUFFICES ASSUME TypeOK, [Next]_vars PROVE ConnTypeOK'
  OBVIOUS
<1>1. ConnTypeOK
  BY DEF TypeOK
<1>2. Reader \in Readers /\ now \in Times /\ NoDeadline \in Times
  BY <1>1 DEF ConnTypeOK, Times
<1>3. CASE UNCHANGED connVars
  BY <1>1, <1>3, TypeStep
<1>4. CASE HandlePush
  BY <1>1, <1>4, PushType DEF HandlePush, TypeOK
<1>5. CASE Loop \/ Reading
  BY <1>1, <1>2, <1>3, <1>5, ReadType DEF Loop, Reading, ReadStep
<1>6. CASE CloseStep
  <2>1. CASE CloseTransport \/ TransportClosed
    BY <1>1, <1>2, <2>1, SetType DEF CloseTransport, TransportClosed
  <2>2. CASE CloseConn
    BY <1>1, <2>2 DEF CloseConn, Close, ConnTypeOK
  <2> QED BY <1>6, <2>1, <2>2 DEF CloseStep
<1>7. CASE Tick
  BY <1>1, <1>7 DEF Tick, ConnTypeOK
<1> QED BY <1>3, <1>4, <1>5, <1>6, <1>7
        DEF Next, Handle, Inject, WriteTo, CloseListener, vars

(* Every step of the manager keeps the types. *)
LEMMA ManagerTypeStep == TypeOK /\ [Next]_vars => TypeOK'
<1> USE QuicManagerAssumption
<1> SUFFICES ASSUME TypeOK, [Next]_vars PROVE TypeOK'
  OBVIOUS
<1>0. ConnTypeOK'
  BY ConnTypeStep
<1>1. ASSUME NEW c \in Clients, NEW s \in Servers, Handle(c, s) PROVE TypeOK'
  <2>1. PICK gone \in IF Full(c) THEN {{k} : k \in Claimed} ELSE {{}} :
          /\ srcByCli' = [k \in (Claimed \ gone) \cup {c} |-> IF k = c THEN s ELSE srcByCli[k]]
          /\ evicted' = evicted \cup gone
    BY <1>1 DEF Handle
  <2>2. gone \subseteq Clients
    BY DEF TypeOK
  <2>3. /\ Claimed' \subseteq Clients
        /\ \A k \in Claimed' : srcByCli'[k] \in Servers
    BY <2>1 DEF TypeOK, Claimed
  <2> QED BY <1>0, <1>1, <2>1, <2>2, <2>3 DEF Handle, TypeOK
<1>2. CASE HandlePush
  BY <1>0, <1>2 DEF HandlePush, TypeOK, Claimed
<1>3. CASE Loop
  BY <1>0, <1>3 DEF Loop, TypeOK, Claimed
<1>4. CASE Reading
  <2>1. heard' \subseteq Clients
    <3>1. CASE Receive(Reader)
      BY <1>4, <3>1 DEF Reading, Receive, TypeOK, ConnTypeOK
    <3> QED BY <1>4, <3>1 DEF Reading, TypeOK
  <2> QED BY <1>0, <1>4, <2>1 DEF Reading, TypeOK, Claimed
<1>5. ASSUME NEW w \in Writers, Inject(w) PROVE TypeOK'
  BY <1>0, <1>5 DEF Inject, TypeOK, Claimed
<1>6. ASSUME NEW w \in Writers, NEW c \in Clients, WriteTo(w, c) PROVE TypeOK'
  BY <1>0, <1>6 DEF WriteTo, TypeOK, Claimed
<1>7. CASE CloseListener \/ CloseStep
  BY <1>0, <1>7 DEF CloseListener, CloseStep, CloseTransport, TransportClosed, CloseConn,
                    ClosePhase, CloseRest, TypeOK, Claimed, Phases
<1>8. CASE (Tick /\ UNCHANGED managerVars) \/ UNCHANGED vars
  BY <1>0, <1>8 DEF vars, managerVars, TypeOK, Claimed
<1> QED BY <1>1, <1>2, <1>3, <1>4, <1>5, <1>6, <1>7, <1>8 DEF Next

(* Queue, table and goroutines of the endpoint are well formed in every       *)
(* reachable state (quicconn.go, quichs.go).                                  *)
THEOREM QuicTypeCorrect == Spec => []TypeOK
<1>1. Init => TypeOK
  BY InitType DEF Init, TypeOK, Claimed, Phases
<1> QED BY <1>1, ManagerTypeStep, PTL DEF Spec

(* The invariant holds in every reachable state. *)
LEMMA FlowInvariant == Spec => []FlowInv
<1>1. Init => FlowInv
  <2> SUFFICES ASSUME Init PROVE FlowInv
    OBVIOUS
  <2>1. Claimed = {} /\ inbound = <<>> /\ nfqueue = NoClient /\ heard = {} /\ lost = {}
    BY DEF Init, ConnInit, Claimed
  <2>2. Cardinality({}) = 0 /\ IsFiniteSet({})
    BY FS_EmptySet
  <2>3. 0 <= MaxClaimedFlows
    BY QuicManagerAssumption
  <2>4. TableBounded
    BY <2>1, <2>2, <2>3, Zenon DEF TableBounded, FlowsBounded
  <2>5. PipelineTracked /\ OnlyEvictedLost
    BY <2>1 DEF Init, PipelineTracked, OnlyEvictedLost
  <2>6. inbound \in Seq(Clients)
    BY <2>1
  <2> QED BY <2>4, <2>5, <2>6 DEF FlowInv
<1> QED BY <1>1, QuicTypeCorrect, FlowStep, PTL DEF Spec

(* However many first packets arrive, the table of claimed flows stays within *)
(* maxClaimedFlows (quichs.go, handle).                                       *)
THEOREM FlowsStayBounded == Spec => []FlowsBounded
<1>1. FlowInv => FlowsBounded
  BY DEF FlowInv, TableBounded
<1> QED BY <1>1, FlowInvariant, PTL

(* Whatever the NFQUEUE loop and quic-go's goroutines interleave, an answer   *)
(* that finds no server address belongs to an evicted flow (quichs.go,        *)
(* handle and inject).                                                        *)
THEOREM AnswersFindTheirFlow == Spec => []OnlyEvictedLost
<1>1. FlowInv => OnlyEvictedLost
  BY DEF FlowInv
<1> QED BY <1>1, FlowInvariant, PTL
=============================================================================
