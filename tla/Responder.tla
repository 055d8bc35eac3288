------------------------------ MODULE Responder ------------------------------
(***************************************************************************)
(* The probe responder beside the tunnel: docker-entrypoint.sh, which       *)
(* inserts and flushes the NFQUEUE rules and starts the responder; the      *)
(* responder itself (main.go, config.go, nfqueue.go); the node process, as  *)
(* far as wg0.conf, wg0 and the settings are concerned; and the kernel:     *)
(* the two rules of INPUT, the queue and connection tracking.               *)
(*                                                                         *)
(* The kernel is external: the first rule that matches queues a datagram;   *)
(* --queue-bypass accepts it when nobody listens; the queue drops what it   *)
(* cannot hold and, when its reader dies, what it holds; a flow is NEW until *)
(* a reply was sent, and keeps the mark of an accepted datagram.            *)
(***************************************************************************)
EXTENDS Decide, Sequences

CONSTANTS
    Null, Torn,
    Envs,        \* environments: [protocol, handshake, upper, raw], see env
    Stored,      \* the settings at the first start: [awg, port]
    Edits,       \* the settings administrators save
    WgPort,      \* WG_PORT of the environment
    Datagrams,   \* datagrams that arrive
    Flows,       \* sources of datagrams
    Client,      \* the one that is a client of the VPN
    Leftovers,   \* rules that an earlier container may have left
    MaxTries,    \* bound: the tries of the wait for wg0, 30 in the code
    MaxQueueLen, \* bound: 255 in the code
    MaxEvents    \* bound: probes, edits, deaths, flows that expire

Settings == {Stored} \cup Edits

ASSUME ResponderAssumption ==
    /\ Settings \cap {Null, Torn} = {} /\ Null # Torn
    /\ \A c \in Settings : c = [awg |-> c.awg, port |-> c.port] /\ IsAwgParams(c.awg)
    /\ \A d \in Datagrams : IsDatagram(d)
    /\ Envs \subseteq [protocol: Protocols \cup {"none"}, handshake: BOOLEAN,
                      upper: SUBSET {"protocol", "handshake"}, raw: BOOLEAN]
    /\ \A e \in Envs : e.protocol = "none" => "protocol" \in e.upper
    /\ Leftovers \subseteq [new: Nat, claim: Nat]
    /\ Client \in Flows
    /\ {MaxTries, MaxQueueLen, MaxEvents} \subseteq Nat

VARIABLES
    env,        \* IMITATE_PROTOCOL and QUIC_HANDSHAKE # "false" as the responder
                \* takes them, in lower case; upper: which of them are typed with
                \* capitals; raw: CAP_NET_RAW is there
    settings,   \* config.server, as wg0.json has it
    conf,       \* wg0.conf: Null, Torn while it is written, or settings
    node,       \* "down", or what node does: "open", "write", "up", "run"
    wg0,        \* the settings of the device, or Null
    sup,        \* run_responder: [at, tries]
    rules,      \* how many copies of each rule INPUT has
    resp,       \* the responder: [at, params]
    flows,      \* conntrack: [est, mark] of each flow to the listening port
    queue,      \* datagrams that wait for a verdict
    fate,       \* history: the last datagram whose fate was decided
    connected,  \* history: a datagram of the client reached wg0
    events

tunnel  == <<env, settings, conf, node, wg0>>
traffic == <<flows, queue, fate, connected>>
vars    == <<tunnel, sup, resp, rules, traffic, events>>

NoRules == [new |-> 0, claim |-> 0]
NewFlow == [est |-> FALSE, mark |-> FALSE]
Off     == [at |-> "off", params |-> Null]
Idle    == [genuine |-> FALSE, kept |-> FALSE, by |-> "none", to |-> "none"]

\* CLAIM_RULE: the script compares both as they are typed.
ClaimRule ==
    /\ env.protocol = "quic" /\ "protocol" \notin env.upper
    /\ env.handshake \/ "handshake" \in env.upper

Init ==
    /\ env \in Envs
    /\ settings = Stored /\ conf = Null
    /\ node = "open" /\ wg0 = Null
    /\ sup = [at |-> "wait", tries |-> 0]
    /\ rules \in Leftovers \cup {NoRules}
    /\ resp = Off
    /\ flows = [f \in Flows |-> NewFlow]
    /\ queue = <<>> /\ fate = Idle /\ connected = FALSE
    /\ events = 0

Event == events < MaxEvents /\ events' = events + 1

-----------------------------------------------------------------------------
(* Node: the boot, and a save of settings that bounces the tunnel *)

\* writeFile truncates wg0.conf.
OpenConf ==
    /\ node = "open" /\ node' = "write"
    /\ conf' = Torn
    /\ UNCHANGED <<env, settings, wg0, sup, resp, rules, traffic, events>>

WriteConf ==
    /\ node = "write" /\ node' = "up"
    /\ conf' = settings
    /\ UNCHANGED <<env, settings, wg0, sup, resp, rules, traffic, events>>

\* A flow to another port is another flow.
Up ==
    /\ node = "up" /\ node' = "run"
    /\ wg0' = conf
    /\ UNCHANGED <<env, settings, conf, sup, resp, rules, traffic, events>>

\* `wg-quick down', then the assignment; the save follows.
SaveSettings(c) ==
    /\ node = "run" /\ node' = "open"
    /\ Event
    /\ c # settings
    /\ settings' = c /\ wg0' = Null
    /\ connected' = FALSE
    /\ flows' = IF c.port = settings.port THEN flows ELSE [f \in Flows |-> NewFlow]
    /\ queue' = IF c.port = settings.port THEN queue ELSE <<>>
    /\ UNCHANGED <<env, conf, sup, rules, resp, fate>>

\* node exits or is killed, and the container with it.  Rules and flows end with
\* its network, unless that is the host's.
ContainerEnds ==
    /\ node # "down" /\ node' = "down"
    /\ Event
    /\ wg0' = Null /\ sup' = [at |-> "none", tries |-> 0] /\ resp' = Off
    /\ \/ rules' = NoRules /\ flows' = [f \in Flows |-> NewFlow]
       \/ UNCHANGED <<rules, flows>>
    /\ queue' = <<>> /\ connected' = FALSE
    /\ UNCHANGED <<env, settings, conf, fate>>

\* restart: unless-stopped
StartContainer ==
    /\ node = "down" /\ node' = "open"
    /\ sup' = [at |-> "wait", tries |-> 0]
    /\ UNCHANGED <<env, settings, conf, wg0, resp, rules, traffic, events>>

-----------------------------------------------------------------------------
(* docker-entrypoint.sh: run_responder *)

Goto(from, to) == sup.at = from /\ sup' = [sup EXCEPT !.at = to]

\* Mutant: the tries are not counted.
WaitForWg0_Forever ==
    /\ sup.at = "wait"
    /\ sup' = IF wg0 # Null THEN [sup EXCEPT !.at = "flush"] ELSE [sup EXCEPT !.tries = @ + 1]
    /\ UNCHANGED <<tunnel, resp, rules, traffic, events>>

\* It goes on without wg0 when the tries are used up.
WaitForWg0 ==
    /\ sup.at = "wait"
    /\ sup' = IF wg0 # Null \/ sup.tries = MaxTries THEN [sup EXCEPT !.at = "flush"]
              ELSE [sup EXCEPT !.tries = @ + 1]
    /\ UNCHANGED <<tunnel, resp, rules, traffic, events>>

\* Mutant: one copy of each rule is deleted.
Flush_Once(next) ==
    /\ sup' = [sup EXCEPT !.at = next]
    /\ rules' = [k \in {"new", "claim"} |-> IF rules[k] > 0 THEN rules[k] - 1 ELSE 0]
    /\ UNCHANGED <<tunnel, resp, traffic, events>>

\* flush_nfqueue_rules: every copy of both rules.
Flush(next) ==
    /\ sup' = [sup EXCEPT !.at = next]
    /\ rules' = NoRules
    /\ UNCHANGED <<tunnel, resp, traffic, events>>

FlushLeftovers == sup.at = "flush" /\ Flush("new")

Insert(rule, next) ==
    /\ sup' = [sup EXCEPT !.at = next]
    /\ rules' = [rules EXCEPT ![rule] = @ + 1]
    /\ UNCHANGED <<tunnel, resp, traffic, events>>

InsertNewRule == sup.at = "new" /\ Insert("new", IF ClaimRule THEN "claim" ELSE "start")

\* Mutant: the claim rule is forgotten.
InsertClaimRule_Never ==
    /\ Goto("claim", "start")
    /\ UNCHANGED <<tunnel, resp, rules, traffic, events>>

\* In front of the other.
InsertClaimRule == sup.at = "claim" /\ Insert("claim", "start")

\* An iptables that cannot insert its rule ends run_responder (set -e).
InsertFails ==
    /\ sup.at \in {"new", "claim"}
    /\ Event
    /\ sup' = [sup EXCEPT !.at = "none"]
    /\ UNCHANGED <<tunnel, resp, rules, traffic>>

StartResponder ==
    /\ Goto("start", "waitpid")
    /\ resp' = [at |-> "starting", params |-> Null]
    /\ UNCHANGED <<tunnel, rules, traffic, events>>

\* Mutant: the rules stay when the responder is gone.
ResponderGone_Stays ==
    /\ resp.at = "dead" /\ Goto("waitpid", "none")
    /\ UNCHANGED <<tunnel, resp, rules, traffic, events>>

\* wait returns: the rules are flushed, and nothing starts the responder again.
ResponderGone == resp.at = "dead" /\ sup.at = "waitpid" /\ Flush("none")

-----------------------------------------------------------------------------
(* The responder *)

Serving == resp.at = "serving"

\* The start of main: without a whole wg0.conf it exits, and with a NONE that the
\* script did not know.
ReadConfig ==
    /\ resp.at = "starting"
    /\ resp' = IF conf \in {Null, Torn} \/ env.protocol = "none"
               THEN [at |-> "dead", params |-> Null]
               ELSE [at |-> "loaded", params |-> conf.awg]
    /\ UNCHANGED <<tunnel, sup, rules, traffic, events>>

\* runQueue: the socket is bound to the queue.
Attach ==
    /\ resp.at = "loaded"
    /\ resp' = [resp EXCEPT !.at = "serving"]
    /\ UNCHANGED <<tunnel, sup, rules, traffic, events>>

\* It fails, panics or is killed at any time.
ResponderDies ==
    /\ resp.at \in {"starting", "loaded", "serving"}
    /\ Event
    /\ resp' = [resp EXCEPT !.at = "dead"]
    /\ queue' = <<>>
    /\ UNCHANGED <<tunnel, sup, rules, flows, fate, connected>>

\* Genuine under the parameters in force.
Genuine(d) == wg0 # Null /\ ClassifyAwgPacket(d, wg0.awg)

\* wg0 answers its client and nobody else.
Reaches(f, d) == f = Client /\ Genuine(d)

\* A datagram goes to wg0, or nowhere.
Decided(f, d, by, to) ==
    /\ fate' = [genuine |-> Genuine(d), kept |-> Serving /\ flows[f].mark, by |-> by, to |-> to]
    /\ connected' = (connected \/ (to = "wg0" /\ Reaches(f, d)))

\* fn of runQueue.  An answer that cannot be sent is only logged.
Verdict ==
    /\ Serving /\ queue # <<>>
    /\ queue' = Tail(queue)
    /\ LET f == Head(queue).flow
           d == Head(queue).data
           v == Decide(d, resp.params, env.protocol, env.handshake)
       IN /\ Decided(f, d, IF v = "claim" THEN "claim" ELSE "verdict",
                           IF v = "answer" THEN "nowhere" ELSE "wg0")
          /\ flows' = [flows EXCEPT
                ![f] = [est  |-> @.est \/ IF v = "accept" THEN Reaches(f, d) ELSE env.raw,
                        mark |-> @.mark \/ v = "claim"]]
    /\ UNCHANGED <<tunnel, sup, rules, resp, events>>

-----------------------------------------------------------------------------
(* The kernel *)

\* Whether a rule queues a datagram of f; within the limit of the NEW rule or
\* over it.
Queued(f, within) ==
    /\ settings.port = WgPort
    /\ \/ rules.claim > 0 /\ flows[f].mark
       \/ rules.new > 0 /\ ~ flows[f].est /\ within

\* Mutant: the rules lack --queue-bypass.
Arrives_NoBypass(f, d) ==
    /\ node # "down"
    /\ \/ /\ Queued(f, TRUE) /\ Serving /\ Len(queue) < MaxQueueLen
          /\ queue' = Append(queue, [flow |-> f, data |-> d])
          /\ UNCHANGED <<flows, fate, connected>>
       \/ /\ Queued(f, TRUE) /\ ~ (Serving /\ Len(queue) < MaxQueueLen)
          /\ Decided(f, d, "full", "nowhere")
          /\ UNCHANGED <<queue, flows>>
       \/ /\ ~ Queued(f, TRUE)
          /\ Decided(f, d, "passed", "wg0")
          /\ flows' = [flows EXCEPT ![f].est = @ \/ Reaches(f, d)]
          /\ UNCHANGED queue
    /\ UNCHANGED <<tunnel, sup, rules, resp>>

Arrives(f, d) ==
    /\ node # "down"
    /\ \E within \in BOOLEAN :
       \/ /\ Queued(f, within) /\ Serving /\ Len(queue) < MaxQueueLen
          /\ queue' = Append(queue, [flow |-> f, data |-> d])
          /\ UNCHANGED <<flows, fate, connected>>
       \/ /\ Queued(f, within) /\ Serving /\ Len(queue) >= MaxQueueLen
          /\ Decided(f, d, "full", "nowhere")
          /\ UNCHANGED <<queue, flows>>
       \/ /\ ~ (Queued(f, within) /\ Serving)
          /\ Decided(f, d, "passed", "wg0")
          /\ flows' = [flows EXCEPT ![f].est = @ \/ Reaches(f, d)]
          /\ UNCHANGED queue
    /\ UNCHANGED <<tunnel, sup, rules, resp>>

\* A client goes on sending, with the parameters of its configuration.
ClientSends ==
    /\ \E d \in Datagrams : ClassifyAwgPacket(d, settings.awg) /\ Arrives(Client, d)
    /\ UNCHANGED events

\* A probe; from the client's address, the junk that goes before a handshake.
Probe == Event /\ \E f \in Flows, d \in Datagrams : Arrives(f, d)

FlowExpires(f) ==
    /\ flows[f] # NewFlow
    /\ Event
    /\ flows' = [flows EXCEPT ![f] = NewFlow]
    /\ UNCHANGED <<tunnel, sup, rules, resp, queue, fate, connected>>

-----------------------------------------------------------------------------
NodeStep == OpenConf \/ WriteConf \/ Up \/ StartContainer

Supervise ==
    \/ WaitForWg0 \/ FlushLeftovers \/ InsertNewRule \/ InsertClaimRule
    \/ StartResponder \/ ResponderGone

Respond == ReadConfig \/ Attach \/ Verdict

Happens ==
    \/ \E c \in Edits : SaveSettings(c)
    \/ ContainerEnds \/ InsertFails \/ ResponderDies \/ Probe
    \/ \E f \in Flows : FlowExpires(f)

Next == NodeStep \/ Supervise \/ Respond \/ ClientSends \/ Happens

\* Every process goes on, and the client goes on trying.
Fairness ==
    /\ WF_vars(NodeStep) /\ WF_vars(Supervise) /\ WF_vars(Respond)
    /\ WF_vars(ClientSends)

Spec == Init /\ [][Next]_vars
FairSpec == Spec /\ Fairness

-----------------------------------------------------------------------------
(* Properties *)

TunnelOK ==
    /\ env \in Envs /\ settings \in Settings
    /\ conf \in {Null, Torn} \cup Settings /\ wg0 \in {Null} \cup Settings
    /\ node \in {"down", "open", "write", "up", "run"}
    /\ node = "up" => conf \in Settings

SupOK ==
    /\ sup \in [at: {"none", "wait", "flush", "new", "claim", "start", "waitpid"},
                tries: 0 .. MaxTries]
    /\ rules \in [new: Nat, claim: Nat]

RespOK ==
    /\ resp = [at |-> resp.at, params |-> resp.params]
    /\ resp.at \in {"off", "starting", "loaded", "serving", "dead"}
    /\ resp.at \in {"loaded", "serving"} => resp.params \in {c.awg : c \in Settings}

TrafficOK ==
    /\ flows \in [Flows -> [est: BOOLEAN, mark: BOOLEAN]]
    /\ queue \in Seq([flow: Flows, data: Datagrams]) /\ Len(queue) <= MaxQueueLen
    /\ fate \in [genuine: BOOLEAN, kept: BOOLEAN,
                 by: {"none", "claim", "verdict", "full", "passed"},
                 to: {"none", "wg0", "nowhere"}]
    /\ connected \in BOOLEAN /\ events \in 0 .. MaxEvents

ResponderTypeOK == TunnelOK /\ SupOK /\ RespOK /\ TrafficOK

\* The responder runs behind one copy of the rules its environment asks for,
\* whatever an earlier container left (flush_nfqueue_rules, "idempotent").
Wanted == [new |-> 1, claim |-> IF ClaimRule THEN 1 ELSE 0]
RulesExact == resp.at \in {"starting", "loaded", "serving"} => rules = Wanted

\* A datagram that is genuine under the parameters in force is accepted, and its
\* flow not claimed, whatever it resembles ("a real (shaped) handshake is always
\* recognised as AWG before the responder would try to answer it as a probe").
RealAccepted ==
    fate.genuine /\ fate.by \in {"verdict", "claim"} =>
        fate.by = "verdict" /\ fate.to = "wg0"

\* While the responder serves, a flow it claimed does not slip past it to wg0
\* ("keep the WHOLE flow queued to the responder across RTTs").  It needs a
\* protocol typed in lower case (MCUpperQuic).
ClaimedStays == fate.kept => fate.by # "passed"

\* A responder that is gone takes its rules with it.
RulesGo == resp.at = "dead" ~> rules = NoRules

\* The flow of a client is not claimed ("Bulk VPN throughput never traverses Go").
ClientUnclaimed == ~ flows[Client].mark

\* Whatever becomes of the responder, a client gets through ("whose death never
\* affects connectivity").
ClientConnects == node = "run" ~> connected \/ node # "run"
=============================================================================
