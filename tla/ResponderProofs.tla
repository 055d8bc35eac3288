--------------------------- MODULE ResponderProofs ---------------------------
(***************************************************************************)
(* For any environment, settings, datagrams, flows and leftover rules:      *)
(* Responder keeps its types, the responder runs behind the rules it needs, *)
(* a claimed flow does not slip past it if the protocol is typed in lower   *)
(* case, and, as long as S1 to H4 stay as they are, a datagram that is      *)
(* genuine is accepted.                                                     *)
(***************************************************************************)
EXTENDS Responder, TLAPS

USE DEF NoRules, NewFlow, Off, Idle

-----------------------------------------------------------------------------
(* Types *)

LEMMA Bounds ==
    MaxTries \in Nat /\ MaxQueueLen \in Nat /\ MaxEvents \in Nat
BY ResponderAssumption

LEMMA EventOK ==
    ASSUME events \in 0 .. MaxEvents, Event
    PROVE  events' \in 0 .. MaxEvents
BY Bounds DEF Event

\* What queue, flows and fate are members of.
Entries == [flow: Flows, data: Datagrams]
FlowOK(g) == g \in [Flows -> [est: BOOLEAN, mark: BOOLEAN]]
QueueOK(q) == q \in Seq(Entries) /\ Len(q) <= MaxQueueLen
FateOK(x) == x \in [genuine: BOOLEAN, kept: BOOLEAN,
                    by: {"none", "claim", "verdict", "full", "passed"},
                    to: {"none", "wg0", "nowhere"}]

LEMMA TrafficParts ==
    TrafficOK <=> /\ FlowOK(flows) /\ QueueOK(queue) /\ FateOK(fate)
                  /\ connected \in BOOLEAN /\ events \in 0 .. MaxEvents
BY DEF TrafficOK, FlowOK, QueueOK, FateOK, Entries

LEMMA EmptyFits ==
    QueueOK(<<>>)
<1>1. <<>> \in Seq(Entries) /\ Len(<<>>) = 0
    OBVIOUS
<1>. QED
    BY <1>1, Bounds DEF QueueOK

LEMMA TailFits ==
    ASSUME NEW q, QueueOK(q), q # <<>>
    PROVE  Head(q) \in Entries /\ QueueOK(Tail(q))
<1>1. q \in Seq(Entries) /\ Len(q) \in Nat /\ Len(q) <= MaxQueueLen
    BY DEF QueueOK
<1>2. Head(q) \in Entries /\ Tail(q) \in Seq(Entries) /\ Len(Tail(q)) = Len(q) - 1
    BY <1>1
<1>. QED
    BY <1>1, <1>2, Bounds DEF QueueOK

LEMMA AppendFits ==
    ASSUME NEW q, QueueOK(q), Len(q) < MaxQueueLen, NEW e \in Entries
    PROVE  QueueOK(Append(q, e))
<1>1. q \in Seq(Entries) /\ Len(q) \in Nat
    BY DEF QueueOK
<1>2. Append(q, e) \in Seq(Entries) /\ Len(Append(q, e)) = Len(q) + 1
    BY <1>1
<1>. QED
    BY <1>1, <1>2, Bounds DEF QueueOK

LEMMA TypeInit ==
    Init => ResponderTypeOK
<1>. SUFFICES ASSUME Init PROVE ResponderTypeOK
    OBVIOUS
<1>1. TunnelOK
    BY DEF Init, TunnelOK, Settings
<1>2. SupOK
    BY ResponderAssumption DEF Init, SupOK
<1>3. RespOK
    BY DEF Init, RespOK
<1>4. TrafficOK
    <2>1. FlowOK(flows)
        BY DEF Init, FlowOK
    <2>2. QueueOK(queue)
        BY EmptyFits DEF Init
    <2>3. FateOK(fate)
        BY DEF Init, FateOK
    <2>4. connected = FALSE /\ events = 0
        BY DEF Init
    <2>5. 0 \in 0 .. MaxEvents
        BY Bounds
    <2>. QED
        BY <2>1, <2>2, <2>3, <2>4, <2>5, TrafficParts
<1>. QED
    BY <1>1, <1>2, <1>3, <1>4 DEF ResponderTypeOK

LEMMA TunnelStep ==
    ASSUME TunnelOK, [Next]_vars
    PROVE  TunnelOK'
<1>. USE DEF TunnelOK
<1>1. CASE UNCHANGED tunnel
    BY <1>1 DEF tunnel
<1>2. CASE NodeStep
    BY <1>2 DEF NodeStep, OpenConf, WriteConf, Up, StartContainer, tunnel
<1>3. ASSUME NEW c \in Edits, SaveSettings(c)
      PROVE  TunnelOK'
    BY <1>3 DEF SaveSettings, Settings
<1>4. CASE ContainerEnds
    BY <1>4 DEF ContainerEnds
<1>5. Supervise \/ Respond \/ ClientSends \/ InsertFails \/ ResponderDies \/ Probe
        \/ (\E f \in Flows : FlowExpires(f)) \/ UNCHANGED vars => UNCHANGED tunnel
    BY DEF Supervise, WaitForWg0, FlushLeftovers, Flush, InsertNewRule, InsertClaimRule,
           Insert, StartResponder, ResponderGone, Respond, ReadConfig, Attach, Verdict,
           ClientSends, InsertFails, ResponderDies, Probe, Arrives, FlowExpires, vars
<1>. QED
    BY <1>1, <1>2, <1>3, <1>4, <1>5 DEF Next, Happens

LEMMA SupStep ==
    ASSUME SupOK, [Next]_vars
    PROVE  SupOK'
<1>. USE ResponderAssumption DEF SupOK
<1>1. CASE WaitForWg0
    BY <1>1 DEF WaitForWg0
<1>2. CASE FlushLeftovers \/ ResponderGone
    BY <1>2 DEF FlushLeftovers, ResponderGone, Flush
<1>3. CASE InsertNewRule
    BY <1>3 DEF InsertNewRule, Insert
<1>4. CASE InsertClaimRule
    BY <1>4 DEF InsertClaimRule, Insert
<1>5. CASE StartResponder \/ InsertFails
    BY <1>5 DEF StartResponder, InsertFails, Goto
<1>6. CASE ContainerEnds \/ StartContainer
    BY <1>6 DEF ContainerEnds, StartContainer
<1>7. OpenConf \/ WriteConf \/ Up \/ Respond \/ ClientSends \/ ResponderDies \/ Probe
        \/ (\E c \in Edits : SaveSettings(c))
        \/ (\E f \in Flows : FlowExpires(f)) \/ UNCHANGED vars => UNCHANGED <<sup, rules>>
    BY DEF OpenConf, WriteConf, Up, Respond, ReadConfig, Attach, Verdict, ClientSends,
           ResponderDies, Probe, Arrives, SaveSettings, FlowExpires, vars
<1>. QED
    BY <1>1, <1>2, <1>3, <1>4, <1>5, <1>6, <1>7 DEF Next, NodeStep, Supervise, Happens

LEMMA RespStep ==
    ASSUME TunnelOK, RespOK, [Next]_vars
    PROVE  RespOK'
<1>. USE DEF RespOK
<1>1. CASE StartResponder
    BY <1>1 DEF StartResponder
<1>2. CASE ReadConfig
    <2>1. conf \notin {Null, Torn} => conf \in Settings
        BY DEF TunnelOK
    <2>. QED
        BY <1>2, <2>1 DEF ReadConfig
<1>3. CASE Attach
    BY <1>3 DEF Attach
<1>4. CASE ResponderDies
    BY <1>4 DEF ResponderDies
<1>5. CASE ContainerEnds
    BY <1>5 DEF ContainerEnds
<1>6. NodeStep \/ WaitForWg0 \/ FlushLeftovers \/ InsertNewRule \/ InsertClaimRule
        \/ ResponderGone \/ Verdict \/ ClientSends \/ InsertFails \/ Probe
        \/ (\E c \in Edits : SaveSettings(c))
        \/ (\E f \in Flows : FlowExpires(f)) \/ UNCHANGED vars => UNCHANGED resp
    BY DEF NodeStep, OpenConf, WriteConf, Up, StartContainer, WaitForWg0, FlushLeftovers,
           Flush, InsertNewRule, InsertClaimRule, Insert, ResponderGone, Verdict,
           ClientSends, InsertFails, Probe, Arrives, SaveSettings, FlowExpires, vars
<1>7. Settings' = Settings
    BY DEF Settings
<1>. QED
    BY <1>1, <1>2, <1>3, <1>4, <1>5, <1>6, <1>7 DEF Next, Supervise, Respond, Happens

LEMMA DecidedOK ==
    ASSUME TrafficOK, NEW f \in Flows, NEW d,
           NEW by \in {"none", "claim", "verdict", "full", "passed"},
           NEW to \in {"none", "wg0", "nowhere"}, Decided(f, d, by, to)
    PROVE  FateOK(fate') /\ connected' \in BOOLEAN
<1>1. Genuine(d) \in BOOLEAN
    BY DEF Genuine, ClassifyAwgPacket
<1>2. (Serving /\ flows[f].mark) \in BOOLEAN
    BY DEF TrafficOK, Serving
<1>3. (connected \/ (to = "wg0" /\ Reaches(f, d))) \in BOOLEAN
    BY DEF TrafficOK
<1>. QED
    BY <1>1, <1>2, <1>3 DEF Decided, FateOK

LEMMA ArrivesOK ==
    ASSUME TrafficOK, NEW f \in Flows, NEW d \in Datagrams, Arrives(f, d)
    PROVE  FlowOK(flows') /\ QueueOK(queue') /\ FateOK(fate') /\ connected' \in BOOLEAN
<1>. FlowOK(flows) /\ QueueOK(queue) /\ FateOK(fate) /\ connected \in BOOLEAN
    BY TrafficParts
<1>1. CASE /\ Len(queue) < MaxQueueLen /\ queue' = Append(queue, [flow |-> f, data |-> d])
           /\ UNCHANGED <<flows, fate, connected>>
    <2>1. [flow |-> f, data |-> d] \in Entries
        BY DEF Entries
    <2>. QED
        BY <1>1, <2>1, AppendFits
<1>2. CASE Decided(f, d, "full", "nowhere") /\ UNCHANGED <<queue, flows>>
    BY <1>2, DecidedOK
<1>3. CASE /\ Decided(f, d, "passed", "wg0") /\ UNCHANGED queue
           /\ flows' = [flows EXCEPT ![f].est = @ \/ Reaches(f, d)]
    <2>1. (flows[f].est \/ Reaches(f, d)) \in BOOLEAN
        OBVIOUS
    <2>2. FlowOK(flows')
        BY <1>3, <2>1 DEF FlowOK
    <2>. QED
        BY <1>3, <2>2, DecidedOK
<1>. QED
    BY <1>1, <1>2, <1>3 DEF Arrives

LEMMA VerdictOK ==
    ASSUME TrafficOK, Verdict
    PROVE  TrafficOK'
<1>. DEFINE f == Head(queue).flow
            d == Head(queue).data
            v == Decide(d, resp.params, env.protocol, env.handshake)
<1>1. f \in Flows /\ d \in Datagrams /\ QueueOK(queue')
    <2>1. queue # <<>> /\ queue' = Tail(queue)
        BY DEF Verdict
    <2>2. Head(queue) \in Entries /\ QueueOK(queue')
        BY <2>1, TrafficParts, TailFits
    <2>. QED
        BY <2>2 DEF Entries
<1>3. \E by \in {"claim", "verdict"}, to \in {"wg0", "nowhere"} : Decided(f, d, by, to)
    BY DEF Verdict
<1>4. FateOK(fate') /\ connected' \in BOOLEAN
    <2>. HIDE DEF f, d
    <2>. QED
        BY <1>1, <1>3, DecidedOK
<1>5. FlowOK(flows')
    <2>1. flows' = [flows EXCEPT
                ![f] = [est  |-> @.est \/ IF v = "accept" THEN Reaches(f, d) ELSE env.raw,
                        mark |-> @.mark \/ v = "claim"]]
        BY DEF Verdict
    <2>2. /\ (flows[f].est \/ IF v = "accept" THEN Reaches(f, d) ELSE env.raw) \in BOOLEAN
          /\ (flows[f].mark \/ v = "claim") \in BOOLEAN
        OBVIOUS
    <2>3. FlowOK(flows)
        BY TrafficParts
    <2>. HIDE DEF f, d, v
    <2>. QED
        BY <1>1, <2>1, <2>2, <2>3 DEF FlowOK
<1>6. events' = events
    BY DEF Verdict
<1>. QED
    BY <1>1, <1>4, <1>5, <1>6, TrafficParts DEF FlowOK, QueueOK, FateOK, Entries, TrafficOK

\* The parts after a step make TrafficOK after it.
LEMMA PartsAfter ==
    ASSUME FlowOK(flows'), QueueOK(queue'), FateOK(fate'), connected' \in BOOLEAN,
           events' \in 0 .. MaxEvents
    PROVE  TrafficOK'
BY DEF TrafficOK, FlowOK, QueueOK, FateOK, Entries

LEMMA TrafficStep ==
    ASSUME TrafficOK, [Next]_vars
    PROVE  TrafficOK'
<1>. FlowOK(flows) /\ QueueOK(queue) /\ FateOK(fate) /\ connected \in BOOLEAN
     /\ events \in 0 .. MaxEvents
    BY TrafficParts
<1>0. FlowOK([f \in Flows |-> NewFlow]) /\ QueueOK(<<>>) /\ FALSE \in BOOLEAN
    BY EmptyFits DEF FlowOK
<1>1. CASE Verdict
    BY <1>1, VerdictOK
<1>2. ASSUME NEW f \in Flows, NEW d \in Datagrams, Arrives(f, d), Event \/ UNCHANGED events
      PROVE  TrafficOK'
    <2>1. events' \in 0 .. MaxEvents
        BY <1>2, EventOK
    <2>. QED
        BY <1>2, <2>1, ArrivesOK, PartsAfter
<1>3. CASE ClientSends \/ Probe
    <2>1. Client \in Flows
        BY ResponderAssumption
    <2>2. PICK f \in Flows, d \in Datagrams : Arrives(f, d) /\ (Event \/ UNCHANGED events)
        BY <1>3, <2>1 DEF ClientSends, Probe
    <2>. QED
        BY <1>2, <2>2
<1>4. ASSUME NEW c \in Edits, SaveSettings(c)
      PROVE  TrafficOK'
    <2>1. /\ Event /\ connected' = FALSE /\ fate' = fate
          /\ flows' = flows \/ flows' = [f \in Flows |-> NewFlow]
          /\ queue' = queue \/ queue' = <<>>
        BY <1>4 DEF SaveSettings
    <2>. QED
        BY <1>0, <2>1, EventOK, PartsAfter
<1>5. CASE ContainerEnds
    <2>1. /\ Event /\ connected' = FALSE /\ fate' = fate /\ queue' = <<>>
          /\ flows' = flows \/ flows' = [f \in Flows |-> NewFlow]
        BY <1>5 DEF ContainerEnds
    <2>. QED
        BY <1>0, <2>1, EventOK, PartsAfter
<1>6. CASE ResponderDies
    <2>1. Event /\ queue' = <<>> /\ UNCHANGED <<flows, fate, connected>>
        BY <1>6 DEF ResponderDies
    <2>. QED
        BY <1>0, <2>1, EventOK, PartsAfter
<1>7. CASE InsertFails
    <2>1. Event /\ UNCHANGED <<flows, queue, fate, connected>>
        BY <1>7 DEF InsertFails, traffic
    <2>. QED
        BY <2>1, EventOK, PartsAfter
<1>8. ASSUME NEW f \in Flows, FlowExpires(f)
      PROVE  TrafficOK'
    <2>1. Event /\ UNCHANGED <<queue, fate, connected>>
        BY <1>8 DEF FlowExpires
    <2>2. FlowOK(flows')
        BY <1>8 DEF FlowExpires, FlowOK
    <2>. QED
        BY <2>1, <2>2, EventOK, PartsAfter
<1>9. NodeStep \/ Supervise \/ ReadConfig \/ Attach \/ UNCHANGED vars
        => UNCHANGED <<traffic, events>>
    BY DEF NodeStep, OpenConf, WriteConf, Up, StartContainer, Supervise, WaitForWg0,
           FlushLeftovers, Flush, InsertNewRule, InsertClaimRule, Insert, StartResponder,
           ResponderGone, ReadConfig, Attach, vars
<1>10. CASE UNCHANGED <<traffic, events>>
    BY <1>10, PartsAfter DEF traffic
<1>. QED
    BY <1>1, <1>3, <1>4, <1>5, <1>6, <1>7, <1>8, <1>9, <1>10 DEF Next, Respond, Happens

\* The environment, the settings, the rules, the responder, the flows and the
\* queue are well formed in every reachable state.
THEOREM ResponderTypeCorrect == Spec => []ResponderTypeOK
<1>1. ResponderTypeOK /\ [Next]_vars => ResponderTypeOK'
    BY TunnelStep, SupStep, RespStep, TrafficStep DEF ResponderTypeOK
<1>. QED
    BY TypeInit, <1>1, PTL DEF Spec

-----------------------------------------------------------------------------
(* The rules *)

\* Where run_responder is says which rules there are; the responder lives only
\* while it is waited for.
RulesInv ==
    /\ sup.at = "new" => rules = NoRules
    /\ sup.at = "claim" => ClaimRule /\ rules = [new |-> 1, claim |-> 0]
    /\ sup.at \in {"start", "waitpid"} => rules = Wanted
    /\ resp.at \in {"starting", "loaded", "serving"} => sup.at = "waitpid"
    /\ node = "down" => sup.at = "none"

LEMMA EnvStays ==
    ASSUME [Next]_vars
    PROVE  env' = env
BY DEF Next, NodeStep, OpenConf, WriteConf, Up, StartContainer, Supervise, WaitForWg0,
       FlushLeftovers, Flush, InsertNewRule, InsertClaimRule, Insert, StartResponder,
       ResponderGone, Respond, ReadConfig, Attach, Verdict, ClientSends, Happens,
       SaveSettings, ContainerEnds, InsertFails, ResponderDies, Probe, Arrives,
       FlowExpires, vars, tunnel

LEMMA CountNew ==
    ASSUME NEW r, NEW s, r = [new |-> 0, claim |-> 0], s = [r EXCEPT !["new"] = @ + 1]
    PROVE  s = [new |-> 1, claim |-> 0]
<1>1. s \in [new: Nat, claim: Nat]
    OBVIOUS
<1>2. s.new = 1
    OBVIOUS
<1>3. s.claim = 0
    OBVIOUS
<1>. QED
    BY <1>1, <1>2, <1>3

LEMMA CountClaim ==
    ASSUME NEW r, NEW s, r = [new |-> 1, claim |-> 0], s = [r EXCEPT !["claim"] = @ + 1]
    PROVE  s = [new |-> 1, claim |-> 1]
<1>1. s \in [new: Nat, claim: Nat]
    OBVIOUS
<1>2. s.new = 1
    OBVIOUS
<1>3. s.claim = 1
    OBVIOUS
<1>. QED
    BY <1>1, <1>2, <1>3

LEMMA RulesStep ==
    ASSUME SupOK, RulesInv, [Next]_vars
    PROVE  RulesInv'
<1>. USE DEF RulesInv
<1>1. ClaimRule' = ClaimRule /\ Wanted' = Wanted
    BY EnvStays DEF ClaimRule, Wanted
<1>a. ASSUME NEW x, sup' = [sup EXCEPT !.at = x]
      PROVE  sup'.at = x
    BY <1>a DEF SupOK
<1>2. CASE WaitForWg0
    <2>1. sup'.at \in {"wait", "flush"} /\ sup.at = "wait" /\ UNCHANGED <<resp, node>>
        BY <1>2 DEF WaitForWg0, SupOK, tunnel
    <2>. QED
        BY <2>1
<1>3. CASE FlushLeftovers
    <2>1. sup.at = "flush" /\ sup'.at = "new" /\ rules' = NoRules /\ UNCHANGED <<resp, node>>
        BY <1>3, <1>a DEF FlushLeftovers, Flush, tunnel
    <2>. QED
        BY <2>1
<1>4. CASE ResponderGone
    <2>1. resp.at = "dead" /\ sup'.at = "none" /\ UNCHANGED <<resp, node>>
        BY <1>4, <1>a DEF ResponderGone, Flush, tunnel
    <2>. QED
        BY <2>1
<1>5. CASE InsertNewRule
    <2>1. /\ sup.at = "new" /\ rules' = [rules EXCEPT !["new"] = @ + 1]
          /\ sup'.at = IF ClaimRule THEN "claim" ELSE "start"
          /\ UNCHANGED <<resp, node>>
        BY <1>5, <1>a DEF InsertNewRule, Insert, tunnel
    <2>2. rules' = [new |-> 1, claim |-> 0]
        BY <2>1, CountNew
    <2>3. CASE ClaimRule
        BY <1>1, <2>1, <2>2, <2>3
    <2>4. CASE ~ ClaimRule
        <3>1. rules' = Wanted'
            <4>1. Wanted = [new |-> 1, claim |-> 0]
                BY <2>4 DEF Wanted
            <4>. QED
                BY <1>1, <2>2, <4>1
        <3>. QED
            BY <2>1, <2>4, <3>1
    <2>. QED
        BY <2>3, <2>4
<1>6. CASE InsertClaimRule
    <2>1. /\ sup.at = "claim" /\ rules' = [rules EXCEPT !["claim"] = @ + 1]
          /\ sup'.at = "start" /\ UNCHANGED <<resp, node>>
        BY <1>6, <1>a DEF InsertClaimRule, Insert, tunnel
    <2>2. rules' = [new |-> 1, claim |-> 1] /\ ClaimRule
        BY <2>1, CountClaim
    <2>3. rules' = Wanted'
        <3>1. Wanted = [new |-> 1, claim |-> 1]
            BY <2>2 DEF Wanted
        <3>. QED
            BY <1>1, <2>2, <3>1
    <2>. QED
        BY <2>1, <2>3
<1>7. CASE StartResponder
    <2>1. sup.at = "start" /\ sup'.at = "waitpid" /\ UNCHANGED <<rules, node>>
        BY <1>7, <1>a DEF StartResponder, Goto, tunnel
    <2>. QED
        BY <1>1, <2>1
<1>8. CASE InsertFails
    <2>1. sup.at \in {"new", "claim"} /\ sup'.at = "none" /\ UNCHANGED <<resp, node>>
        BY <1>8, <1>a DEF InsertFails, tunnel
    <2>. QED
        BY <2>1
<1>9. CASE ContainerEnds
    <2>1. sup'.at = "none" /\ resp'.at = "off"
        BY <1>9 DEF ContainerEnds
    <2>. QED
        BY <2>1
<1>10. CASE StartContainer
    <2>1. node = "down" /\ node' = "open" /\ sup'.at = "wait" /\ UNCHANGED resp
        BY <1>10 DEF StartContainer
    <2>. QED
        BY <2>1
<1>11. CASE ReadConfig \/ Attach \/ ResponderDies
    <2>1. resp.at \in {"starting", "loaded", "serving"} /\ UNCHANGED <<sup, rules, node>>
        BY <1>11 DEF ReadConfig, Attach, ResponderDies, tunnel
    <2>. QED
        BY <1>1, <2>1
<1>12. CASE OpenConf \/ WriteConf \/ Up \/ Verdict \/ ClientSends \/ Probe
        \/ (\E c \in Edits : SaveSettings(c))
        \/ (\E f \in Flows : FlowExpires(f)) \/ UNCHANGED vars
    <2>1. UNCHANGED <<sup, rules, resp>> /\ (node' = "down" => node = "down")
        BY <1>12 DEF OpenConf, WriteConf, Up, Verdict, ClientSends, Probe, Arrives,
                     SaveSettings, FlowExpires, vars, tunnel
    <2>. QED
        BY <1>1, <2>1
<1>. QED
    BY <1>2, <1>3, <1>4, <1>5, <1>6, <1>7, <1>8, <1>9, <1>10, <1>11, <1>12
       DEF Next, NodeStep, Supervise, Respond, Happens

LEMMA RulesInvStays == Spec => []RulesInv
<1>1. Init => RulesInv
    BY DEF Init, RulesInv
<1>2. ResponderTypeOK /\ RulesInv /\ [Next]_vars => RulesInv'
    BY RulesStep DEF ResponderTypeOK
<1>. QED
    BY ResponderTypeCorrect, <1>1, <1>2, PTL DEF Spec

\* The responder never runs behind other rules than those of its environment.
THEOREM RulesStayExact == Spec => []RulesExact
<1>1. RulesInv => RulesExact
    BY DEF RulesInv, RulesExact
<1>. QED
    BY RulesInvStays, <1>1, PTL
-----------------------------------------------------------------------------
(* Genuine datagrams *)

\* Administrators leave S1 to S4 and H1 to H4 as they are.
StableParams == \A c \in Edits : c.awg = Stored.awg

LEMMA RealStep ==
    ASSUME StableParams, TunnelOK, RespOK, RealAccepted, [Next]_vars
    PROVE  RealAccepted'
<1>. USE DEF RealAccepted
<1>1. CASE Verdict
    <2>. DEFINE f == Head(queue).flow
                d == Head(queue).data
                v == Decide(d, resp.params, env.protocol, env.handshake)
    <2>1. resp.params = Stored.awg
        BY <1>1 DEF Verdict, Serving, RespOK, Settings, StableParams
    <2>2. Genuine(d) => v = "accept"
        <3>1. wg0 # Null => wg0.awg = Stored.awg
            BY DEF TunnelOK, Settings, StableParams
        <3>. QED
            BY <2>1, <3>1 DEF Genuine, Decide
    <2>3. Decided(f, d, IF v = "claim" THEN "claim" ELSE "verdict",
                        IF v = "answer" THEN "nowhere" ELSE "wg0")
        BY <1>1 DEF Verdict
    <2>. HIDE DEF f, d, v
    <2>. QED
        BY <2>2, <2>3 DEF Decided
<1>2. ASSUME NEW f, NEW d, Arrives(f, d)
      PROVE  RealAccepted'
    <2>1. fate' = fate \/ fate'.by \in {"full", "passed"}
        BY <1>2 DEF Arrives, Decided
    <2>. QED
        BY <2>1
<1>3. CASE ClientSends \/ Probe
    BY <1>2, <1>3 DEF ClientSends, Probe
<1>4. NodeStep \/ Supervise \/ ReadConfig \/ Attach \/ ContainerEnds \/ InsertFails
        \/ ResponderDies \/ (\E c \in Edits : SaveSettings(c))
        \/ (\E f \in Flows : FlowExpires(f)) \/ UNCHANGED vars => fate' = fate
    BY DEF NodeStep, OpenConf, WriteConf, Up, StartContainer, Supervise, WaitForWg0,
           FlushLeftovers, Flush, InsertNewRule, InsertClaimRule, Insert, StartResponder,
           ResponderGone, ReadConfig, Attach, ContainerEnds, InsertFails, ResponderDies,
           SaveSettings, FlowExpires, vars, traffic
<1>. QED
    BY <1>1, <1>3, <1>4 DEF Next, Respond, Happens

\* As long as S1 to H4 stay what they were at the first start, the responder
\* accepts every datagram that is genuine under the parameters in force, and
\* claims the flow of none, whatever they resemble.
THEOREM RealStaysAccepted ==
    ASSUME StableParams
    PROVE  Spec => []RealAccepted
<1>1. Init => RealAccepted
    BY DEF Init, RealAccepted
<1>2. ResponderTypeOK /\ RealAccepted /\ [Next]_vars => RealAccepted'
    BY RealStep DEF ResponderTypeOK
<1>. QED
    BY ResponderTypeCorrect, <1>1, <1>2, PTL DEF Spec

-----------------------------------------------------------------------------
(* Claimed flows *)

\* A flow is claimed, and a datagram queued, only while the rules name the port
\* wg0 listens to; and a flow is claimed only if there is a rule for it.
ClaimInv ==
    /\ queue # <<>> => settings.port = WgPort
    /\ \A f \in Flows : flows[f].mark => ClaimRule /\ settings.port = WgPort

\* IMITATE_PROTOCOL is typed in lower case, as the README has it (README.md:147).
ProtocolInLowerCase == \A e \in Envs : "protocol" \notin e.upper

LEMMA ClaimRuleStays ==
    ASSUME [Next]_vars
    PROVE  ClaimRule' = ClaimRule
BY EnvStays DEF ClaimRule

LEMMA VerdictClaims ==
    ASSUME ProtocolInLowerCase, TunnelOK, TrafficOK, ClaimInv, Verdict
    PROVE  \A f \in Flows : flows'[f].mark => ClaimRule /\ settings.port = WgPort
<1>. DEFINE g == Head(queue).flow
            d == Head(queue).data
            v == Decide(d, resp.params, env.protocol, env.handshake)
<1>1. settings.port = WgPort
    BY DEF Verdict, ClaimInv
<1>2. v = "claim" => ClaimRule
    BY DEF Decide, Serve, ClaimRule, TunnelOK, ProtocolInLowerCase
<1>3. flows' = [flows EXCEPT
            ![g] = [est  |-> @.est \/ IF v = "accept" THEN Reaches(g, d) ELSE env.raw,
                    mark |-> @.mark \/ v = "claim"]]
    BY DEF Verdict
<1>. HIDE DEF g, d, v
<1>. QED
    BY <1>1, <1>2, <1>3 DEF TrafficOK, ClaimInv

LEMMA ClaimStep ==
    ASSUME ProtocolInLowerCase, TunnelOK, TrafficOK, ClaimInv, [Next]_vars
    PROVE  ClaimInv'
<1>. FlowOK(flows)
    BY TrafficParts
<1>. USE ClaimRuleStays
<1>1. CASE Verdict
    <2>1. queue # <<>> /\ UNCHANGED settings
        BY <1>1 DEF Verdict, tunnel
    <2>. QED
        BY <1>1, <2>1, VerdictClaims DEF ClaimInv
<1>2. ASSUME NEW f \in Flows, NEW d \in Datagrams, Arrives(f, d)
      PROVE  ClaimInv'
    <2>1. settings' = settings /\ (queue' = queue \/ settings.port = WgPort)
        BY <1>2 DEF Arrives, Queued, tunnel
    <2>2. flows' = flows \/ flows' = [flows EXCEPT ![f].est = @ \/ Reaches(f, d)]
        BY <1>2 DEF Arrives
    <2>3. \A g \in Flows : flows'[g].mark = flows[g].mark
        BY <2>2 DEF FlowOK
    <2>. QED
        BY <2>1, <2>3 DEF ClaimInv
<1>3. CASE ClientSends \/ Probe
    BY <1>2, <1>3, ResponderAssumption DEF ClientSends, Probe
<1>4. ASSUME NEW c \in Edits, SaveSettings(c)
      PROVE  ClaimInv'
    <2>1. CASE c.port = settings.port
        BY <1>4, <2>1 DEF SaveSettings, ClaimInv
    <2>2. CASE c.port # settings.port
        BY <1>4, <2>2 DEF SaveSettings, ClaimInv
    <2>. QED
        BY <2>1, <2>2
<1>5. CASE ContainerEnds
    <2>1. /\ queue' = <<>> /\ UNCHANGED settings
          /\ flows' = flows \/ flows' = [f \in Flows |-> NewFlow]
        BY <1>5 DEF ContainerEnds
    <2>. QED
        BY <2>1 DEF ClaimInv
<1>6. CASE ResponderDies
    BY <1>6 DEF ResponderDies, ClaimInv, tunnel
<1>7. ASSUME NEW f \in Flows, FlowExpires(f)
      PROVE  ClaimInv'
    <2>1. \A g \in Flows : flows'[g].mark => flows[g].mark
        BY <1>7 DEF FlowExpires, FlowOK
    <2>. QED
        BY <1>7, <2>1 DEF FlowExpires, ClaimInv, tunnel
<1>8. NodeStep \/ Supervise \/ ReadConfig \/ Attach \/ InsertFails \/ UNCHANGED vars
        => UNCHANGED <<settings, flows, queue>>
    BY DEF NodeStep, OpenConf, WriteConf, Up, StartContainer, Supervise, WaitForWg0,
           FlushLeftovers, Flush, InsertNewRule, InsertClaimRule, Insert, StartResponder,
           ResponderGone, ReadConfig, Attach, InsertFails, vars, traffic, tunnel
<1>9. CASE UNCHANGED <<settings, flows, queue>>
    BY <1>9 DEF ClaimInv
<1>. QED
    BY <1>1, <1>3, <1>4, <1>5, <1>6, <1>7, <1>8, <1>9 DEF Next, Respond, Happens

LEMMA StaysStep ==
    ASSUME RulesInv, ClaimInv, ClaimedStays, [Next]_vars
    PROVE  ClaimedStays'
<1>. USE DEF ClaimedStays
<1>1. CASE Verdict
    BY <1>1 DEF Verdict, Decided
<1>2. ASSUME NEW f \in Flows, NEW d, Arrives(f, d)
      PROVE  ClaimedStays'
    <2>1. CASE fate' = fate \/ fate'.by = "full"
        BY <2>1
    <2>2. ASSUME NEW within \in BOOLEAN, ~ (Queued(f, within) /\ Serving),
                 Decided(f, d, "passed", "wg0")
          PROVE  ClaimedStays'
        <3>1. fate'.kept = (Serving /\ flows[f].mark)
            BY <2>2 DEF Decided
        <3>2. Serving /\ flows[f].mark => rules.claim > 0 /\ settings.port = WgPort
            BY DEF Serving, RulesInv, ClaimInv, Wanted
        <3>. QED
            BY <2>2, <3>1, <3>2 DEF Queued
    <2>. QED
        BY <1>2, <2>1, <2>2 DEF Arrives, Decided
<1>3. CASE ClientSends \/ Probe
    BY <1>2, <1>3, ResponderAssumption DEF ClientSends, Probe
<1>4. NodeStep \/ Supervise \/ ReadConfig \/ Attach \/ ContainerEnds \/ InsertFails
        \/ ResponderDies \/ (\E c \in Edits : SaveSettings(c))
        \/ (\E f \in Flows : FlowExpires(f)) \/ UNCHANGED vars => fate' = fate
    BY DEF NodeStep, OpenConf, WriteConf, Up, StartContainer, Supervise, WaitForWg0,
           FlushLeftovers, Flush, InsertNewRule, InsertClaimRule, Insert, StartResponder,
           ResponderGone, ReadConfig, Attach, ContainerEnds, InsertFails, ResponderDies,
           SaveSettings, FlowExpires, vars, traffic
<1>. QED
    BY <1>1, <1>3, <1>4 DEF Next, Respond, Happens

\* While the responder serves, every datagram of a flow it claimed goes through
\* its queue: none slips past to wg0, whatever rules an earlier container left
\* and whatever port an administrator sets, if IMITATE_PROTOCOL is typed in lower
\* case.
THEOREM ClaimedFlowsStay ==
    ASSUME ProtocolInLowerCase
    PROVE  Spec => []ClaimedStays
<1>1. Init => ClaimInv /\ ClaimedStays
    BY DEF Init, ClaimInv, ClaimedStays
<1>2. ResponderTypeOK /\ ClaimInv /\ [Next]_vars => ClaimInv'
    BY ClaimStep DEF ResponderTypeOK
<1>3. RulesInv /\ ClaimInv /\ ClaimedStays /\ [Next]_vars => ClaimedStays'
    BY StaysStep
<1>. QED
    BY ResponderTypeCorrect, RulesInvStays, <1>1, <1>2, <1>3, PTL DEF Spec
=============================================================================
