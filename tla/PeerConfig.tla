----------------------------- MODULE PeerConfig -----------------------------
(***************************************************************************)
(* The persisted configuration of the server and the pure functions over   *)
(* it: clientValidation.js (site peers, effective CIDRs, the overlap        *)
(* check), serverSettings.js (what a settings patch changes) and            *)
(* configRender.js (what wg0.conf says for a given configuration).          *)
(*                                                                         *)
(* A CIDR is the set of the addresses it covers; the /32 of an address is   *)
(* a singleton.  The server settings are abstracted to one field of each    *)
(* class the code tells apart: `port' stands for the restart fields that    *)
(* wg0.conf carries (port, jc .. h4), `mtu' for the one it does not, `host' *)
(* for the fields that are saved without a restart.                         *)
(*                                                                         *)
(* A client's address is kept as it was typed.  createClient compares these *)
(* texts, the overlap check the numbers in them, and `wg' has rules of its  *)
(* own, so a client has the number and how it is spelled:                   *)
(*   plain    10.8.0.3, as createClient writes it                           *)
(*   spaced   "10.8.0.3 ": `wg' reads the same address                      *)
(*   unread   10.8.0.03: a number to the code, an error to `wg'             *)
(***************************************************************************)
EXTENDS Naturals, FiniteSets

CONSTANTS
    ClientIds,   \* the UUIDs createClient may draw
    Addrs,       \* IPv4 addresses, as numbers; IPv6 ones are other numbers
    Pool,        \* WG_DEFAULT_ADDRESS with x = 2 .. 254
    Cidrs,       \* the CIDRs an administrator may type
    V6Cidrs,     \* those of them that are IPv6, which iptables refuses
    Spellings,   \* how an administrator may type an address
    Keys,        \* server key pairs
    Ports,       \* listen ports the validator accepts
    BadPorts,    \* those on which `wg-quick up' fails (a port in use, ...)
    Mtus,        \* MTU settings
    AutoMtu,     \* the empty MTU setting
    Hosts,       \* public host names
    Labels,      \* a client's name and `legacy' flag
    NoKey, NoPort \* what a truncated wg0.conf says

ASSUME PeerConfigAssumption ==
    /\ Addrs \subseteq Nat
    /\ Pool \subseteq Addrs
    /\ {} \notin Cidrs
    /\ V6Cidrs \subseteq Cidrs
    /\ \A n \in Cidrs \ V6Cidrs : n \subseteq Addrs
    /\ \A n \in V6Cidrs : n \subseteq Nat \ Addrs
    /\ "plain" \in Spellings /\ Spellings \subseteq {"plain", "spaced", "unread"}
    /\ BadPorts \subseteq Ports
    /\ AutoMtu \in Mtus
    /\ Keys # {}
    /\ NoKey \notin Keys /\ NoPort \notin Ports

Empty == [i \in {} |-> i]

Server == [key: Keys, port: Ports, mtu: Mtus, host: Hosts]

\* allowed = {} is `allowedIPs: null'.
Client == [address: Addrs, spelling: Spellings, allowed: SUBSET Cidrs,
           masq: BOOLEAN, enabled: BOOLEAN, label: Labels]

\* What JSON.stringify(config) keeps: the server and a map from id to client.
Config == [server: Server,
           clients: UNION {[ids -> Client] : ids \in SUBSET ClientIds}]

-----------------------------------------------------------------------------
(* clientValidation.js *)

IsSitePeer(c) == c.allowed # {}

EffectiveCidrs(c) == IF c.allowed # {} THEN c.allowed ELSE {{c.address}}

Overlaps(a, b) == a \cap b # {}

\* Some candidate CIDR overlaps an effective CIDR of one of the others.
FindOverlap(candidates, others) ==
    \E x \in candidates, c \in others : \E y \in EffectiveCidrs(c) : Overlaps(x, y)

\* Mutant: only the site peers count.
FreeAddress_SitesOnly(clients) ==
    {a \in Pool : ~ FindOverlap({{a}}, {c \in clients : IsSitePeer(c)})}

\* createClient looks at the CIDRs of the site peers only, and compares the
\* text of its candidate with the addresses of all clients.
FreeAddress(clients) ==
    {a \in Pool : /\ ~ \E c \in clients : c.address = a /\ c.spelling = "plain"
                  /\ ~ FindOverlap({{a}}, {c \in clients : IsSitePeer(c)})}

-----------------------------------------------------------------------------
(* serverSettings.js *)

SettingFields == {"port", "mtu", "host"}
RestartFields == {"port", "mtu"}

\* A patch is a function on some of the fields, as the request body is.
SettingsPatch ==
    UNION {{[f \in fs |-> s[f]] : s \in [port: Ports, mtu: Mtus, host: Hosts]} :
           fs \in SUBSET SettingFields}

Patched(server, patch) ==
    [f \in DOMAIN server |-> IF f \in DOMAIN patch THEN patch[f] ELSE server[f]]

\* Mutant: the port is saved and synced like the other fields.
NeedsRestart_MtuOnly(server, patch) ==
    "mtu" \in DOMAIN patch /\ patch["mtu"] # server.mtu

NeedsRestart(server, patch) ==
    \E f \in DOMAIN patch \cap RestartFields : patch[f] # server[f]

-----------------------------------------------------------------------------
(* configRender.js *)

\* The iptables rules of the default PostUp; PostDown deletes the same ones.
HookRules(cfg) ==
    {<<"port", cfg.server.port>>} \cup
    {<<"masq", n>> : n \in UNION {cfg.clients[i].allowed :
        i \in {j \in DOMAIN cfg.clients : /\ cfg.clients[j].enabled
                                          /\ cfg.clients[j].masq}}}

EnabledIds(cfg) == {i \in DOMAIN cfg.clients : cfg.clients[i].enabled}

\* An ordinary client's address goes into its [Peer] as it is spelled.
AddressesRead(cfg) ==
    \A i \in EnabledIds(cfg) :
        IsSitePeer(cfg.clients[i]) \/ cfg.clients[i].spelling # "unread"

\* wg0.conf: the interface, one [Peer] per enabled client, the hooks, and
\* whether `wg' can read the peers.  It has no MTU line.
RenderServerConf(cfg) ==
    [key      |-> cfg.server.key,
     port     |-> cfg.server.port,
     mtu      |-> AutoMtu,
     peers    |-> [i \in EnabledIds(cfg) |-> EffectiveCidrs(cfg.clients[i])],
     readable |-> AddressesRead(cfg),
     rules    |-> HookRules(cfg)]

Rule == ({"port"} \X Ports) \cup ({"masq"} \X Cidrs)

Peers == UNION {[ids -> SUBSET (Cidrs \cup {{a} : a \in Addrs})] :
                ids \in SUBSET ClientIds}

ServerConf == [key: Keys \cup {NoKey}, port: Ports \cup {NoPort}, mtu: Mtus,
               peers: Peers, readable: BOOLEAN, rules: SUBSET Rule]

\* An empty wg0.conf, between the truncation and the write.
BlankConf == [key |-> NoKey, port |-> NoPort, mtu |-> AutoMtu,
              peers |-> Empty, readable |-> TRUE, rules |-> {}]
=============================================================================
