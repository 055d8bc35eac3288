----------------------------- MODULE WireGuard ------------------------------
(***************************************************************************)
(* The configuration manager, src/lib/WireGuard.js, and what it drives: the *)
(* two files of the volume (wg0.json, wg0.conf), the device wg0 and the     *)
(* firewall rules of the hooks.                                             *)
(*                                                                         *)
(* Node runs one callback at a time, so an action is the code between two   *)
(* awaits, together with the effect of the call it awaited: every request   *)
(* is a process that walks through the awaits of its handler, and all of    *)
(* them share `config'.  The boot (getConfig) and the SIGTERM handler are   *)
(* processes of their own.  A request the code refuses (400, 404) changes   *)
(* nothing and is no action.                                                *)
(*                                                                         *)
(* pc of a process:                                                         *)
(*   keys      await `wg genkey', `wg pubkey', `wg genpsk'                  *)
(*   load      await readFile(wg0.json)                                     *)
(*   down      await `wg-quick down wg0'                                    *)
(*   mutate    it returned; the synchronous change and render come next     *)
(*   openJson, writeJson, openConf, writeConf   the two awaits of           *)
(*             __saveConfig: writeFile truncates the file, then fills it    *)
(*   sync      await `wg syncconf wg0 <(wg-quick strip wg0)'                *)
(*   up        await `wg-quick up wg0'                                      *)
(*   rollback  it failed; upAgain is the second `up', after the rollback    *)
(***************************************************************************)
EXTENDS PeerConfig

CONSTANTS
    Reqs,           \* slots for concurrent HTTP requests
    Boot, Sig,      \* the process of getConfig, and of the SIGTERM handler
    NoId,           \* the client of a request that has none
    Ops,            \* the operations the administrators use
    Faults,         \* what may fail: "exec", "iptables", "fs", "crash"
    MaxCrashes,     \* bound: how often the process is killed
    DefaultServer,  \* [port, mtu, host] of the environment, for a new server
    SavedConfigs    \* wg0.json at the first start; {} for an empty volume

AllOps == {"create", "enable", "disable", "delete", "site", "rename",
           "address", "settings", "regen", "sigterm"}

Procs == Reqs \cup {Boot, Sig}

ASSUME WireGuardAssumption ==
    /\ Boot \notin Reqs /\ Sig \notin Reqs /\ Boot # Sig
    /\ NoId \notin ClientIds
    /\ Ops \subseteq AllOps
    /\ MaxCrashes \in Nat
    /\ DefaultServer \in [port: Ports, mtu: Mtus, host: Hosts]
    /\ SavedConfigs \subseteq Config

VARIABLES
    config,   \* the shared object behind __configPromise
    undef,    \* the keys of config.clients whose value is `undefined'
    json,     \* wg0.json: what it says, and whether JSON.parse accepts it
    conf,     \* wg0.conf
    dev,      \* the device wg0
    rules,    \* the live iptables rules of the hooks
    node,     \* the Node process: "off", "booting", "running"
    pc, job,  \* where every process is, and its local variables
    crashes   \* how often the process was killed

vars == <<config, undef, json, conf, dev, rules, node, pc, job, crashes>>
memory == <<config, undef>>
disk   == <<json, conf>>
kernel == <<dev, rules>>

NoJob == [kind |-> "none", id |-> NoId, patch |-> Empty, undo |-> Empty,
          snap |-> Empty, after |-> "idle"]

NoDevice == [up |-> FALSE, key |-> NoKey, port |-> NoPort, mtu |-> AutoMtu,
             peers |-> Empty]

Device(c) == [up |-> TRUE, key |-> c.key, port |-> c.port, mtu |-> c.mtu,
              peers |-> c.peers]

\* A file: its text and whether the text is one whole rendering.
Whole(text)     == [text |-> text, whole |-> TRUE]
Truncated(text) == [text |-> text, whole |-> FALSE]

\* Two writers left a mixture.  An empty wg0.conf is accepted.
Garbled(file) == ~ file.whole /\ file.text # BlankConf

\* The configuration of a new server: a fresh key pair, settings from the
\* environment, no client.
FactoryConfig(k) ==
    [server  |-> [key  |-> k, port |-> DefaultServer.port,
                  mtu  |-> DefaultServer.mtu, host |-> DefaultServer.host],
     clients |-> Empty]

Init ==
    /\ json \in IF SavedConfigs = {} THEN {Truncated(Empty)}
                                    ELSE {Whole(c) : c \in SavedConfigs}
    /\ conf = Truncated(BlankConf)
    /\ dev = NoDevice
    /\ rules = {}
    /\ node = "off"
    /\ \E k \in Keys : config = FactoryConfig(k)
    /\ undef = {}
    /\ pc = [p \in Procs |-> "idle"]
    /\ job = [p \in Procs |-> NoJob]
    /\ crashes = 0

-----------------------------------------------------------------------------
(* Changes of the configuration *)

Ids == DOMAIN config.clients

OtherClients(id) == {config.clients[i] : i \in Ids \ {id}}

\* A request that still holds a client deleted meanwhile changes nothing.
ChangeClient(cfg, id, patch) ==
    [server  |-> cfg.server,
     clients |-> [i \in DOMAIN cfg.clients |->
                    IF i = id THEN Patched(cfg.clients[i], patch)
                              ELSE cfg.clients[i]]]

ChangeServer(cfg, patch) ==
    [server |-> Patched(cfg.server, patch), clients |-> cfg.clients]

WithClient(cfg, id, c) ==
    [server  |-> cfg.server,
     clients |-> [i \in DOMAIN cfg.clients \cup {id} |->
                    IF i = id THEN c ELSE cfg.clients[i]]]

WithoutClient(cfg, id) ==
    [server  |-> cfg.server,
     clients |-> [i \in DOMAIN cfg.clients \ {id} |-> cfg.clients[i]]]

\* What a job does to the configuration in its synchronous part.
Mutated(cfg, j) ==
    CASE j.kind = "delete" -> WithoutClient(cfg, j.id)
      [] j.kind \in {"settings", "regen"} -> ChangeServer(cfg, j.patch)
      [] OTHER -> ChangeClient(cfg, j.id, j.patch)

\* Mutant: enableClient and disableClient hold on to the whole client.
Captured_WholeClient(cfg, j) ==
    IF j.kind \in {"delete", "enabled"} /\ j.id \in DOMAIN cfg.clients
    THEN cfg.clients[j.id] ELSE j.undo

\* What its rollback closure holds: enableClient, disableClient and
\* deleteClient take it when they mutate, the others when they start.
Captured(cfg, j) ==
    CASE j.kind = "delete" ->
            IF j.id \in DOMAIN cfg.clients THEN cfg.clients[j.id] ELSE Empty
      [] j.kind = "enabled" ->
            IF j.id \in DOMAIN cfg.clients
            THEN [enabled |-> cfg.clients[j.id].enabled] ELSE j.undo
      [] OTHER -> j.undo

\* The key is re-created with the value `undefined'.
RestoresNothing(j) == j.kind = "delete" /\ j.undo = Empty

\* Mutant: the rollback closure of a settings change is empty.
RolledBack_NotSettings(cfg, j) ==
    IF j.kind = "settings" THEN cfg
    ELSE ChangeClient(cfg, j.id, j.undo)

\* Mutant: setClientSitePeer does not restore siteMasquerade.
RolledBack_KeepsMasq(cfg, j) ==
    CASE j.kind = "site" -> ChangeClient(cfg, j.id, [allowed |-> j.undo.allowed])
      [] j.kind = "delete" -> WithClient(cfg, j.id, j.undo)
      [] j.kind \in {"settings", "regen"} -> ChangeServer(cfg, j.undo)
      [] OTHER -> ChangeClient(cfg, j.id, j.undo)

RolledBack(cfg, j) ==
    CASE RestoresNothing(j) -> WithoutClient(cfg, j.id)
      [] j.kind = "delete" /\ ~ RestoresNothing(j) -> WithClient(cfg, j.id, j.undo)
      [] j.kind \in {"settings", "regen"} -> ChangeServer(cfg, j.undo)
      [] OTHER -> ChangeClient(cfg, j.id, j.undo)

-----------------------------------------------------------------------------
(* Steps shared by the handlers *)

Goto(p, l) == pc' = [pc EXCEPT ![p] = l]

\* The handler returns or throws.
Finish(p) == Goto(p, "idle") /\ job' = [job EXCEPT ![p] = NoJob]

\* The synchronous head of __saveConfig: render the hooks, the conf and the
\* JSON text.  Rendering dereferences every client, so an undefined one throws.
Save(p, j, cfg, und, after) ==
    /\ config' = cfg
    /\ undef' = und
    /\ IF und = {}
       THEN /\ Goto(p, "openJson")
            /\ job' = [job EXCEPT ![p] = [j EXCEPT !.snap = cfg, !.after = after]]
       ELSE Finish(p)

\* The process is gone, and with it the container and its network namespace.
ExitNode ==
    /\ node' = "off"
    /\ pc' = [p \in Procs |-> "idle"]
    /\ job' = [p \in Procs |-> NoJob]
    /\ dev' = NoDevice
    /\ rules' = {}
    /\ UNCHANGED <<memory, disk>>

\* An awaited call of p failed and nobody catches it: a request answers 500,
\* the boot ends the process.
Throw(p) ==
    IF p = Boot THEN ExitNode
    ELSE Finish(p) /\ UNCHANGED <<memory, disk, kernel, node>>

-----------------------------------------------------------------------------
(* The handlers, up to their first await *)

Accepting(r, op) == node = "running" /\ pc[r] = "idle" /\ op \in Ops

Job(kind, id, patch, undo) ==
    [kind |-> kind, id |-> id, patch |-> patch, undo |-> undo,
     snap |-> Empty, after |-> "idle"]

Begin(r, j, l) ==
    /\ Goto(r, l)
    /\ job' = [job EXCEPT ![r] = j]
    /\ UNCHANGED <<memory, disk, kernel, node, crashes>>

\* saveConfig: write both files, then sync the device.
SaveAndSync(r, j) ==
    /\ Save(r, Job("save", NoId, Empty, Empty), Mutated(config, j),
            undef \ {j.id}, "sync")
    /\ UNCHANGED <<disk, kernel, node, crashes>>

\* A UUID is fresh: nothing in the system knows it.
Fresh(id) ==
    /\ id \notin Ids \cup undef \cup DOMAIN conf.text.peers \cup DOMAIN dev.peers
    /\ json.text # Empty => id \notin DOMAIN json.text.clients
    /\ \A p \in Procs : /\ job[p].id # id
                        /\ job[p].snap # Empty => id \notin DOMAIN job[p].snap.clients

CreateClient(r, id) ==
    /\ Accepting(r, "create")
    /\ Fresh(id)
    /\ Begin(r, Job("create", id, Empty, Empty), "keys")

\* Mutant: a site peer is enabled and disabled without a bounce.
SetEnabled_NoBounce(r, id, b) ==
    /\ id \in Ids
    /\ SaveAndSync(r, Job("enabled", id, [enabled |-> b], [enabled |-> b]))

\* enableClient and disableClient bounce the tunnel for a site peer only.
SetEnabled(r, id, b) ==
    LET j == Job("enabled", id, [enabled |-> b], [enabled |-> b]) IN
    /\ id \in Ids
    /\ IF IsSitePeer(config.clients[id]) THEN Begin(r, j, "down")
                                         ELSE SaveAndSync(r, j)

EnableClient(r, id)  == Accepting(r, "enable")  /\ SetEnabled(r, id, TRUE)
DisableClient(r, id) == Accepting(r, "disable") /\ SetEnabled(r, id, FALSE)

DeleteClient(r, id) ==
    LET j == Job("delete", id, Empty, Empty) IN
    /\ Accepting(r, "delete")
    /\ id \in Ids
    /\ IF IsSitePeer(config.clients[id]) THEN Begin(r, j, "down")
                                         ELSE SaveAndSync(r, j)

\* setClientLegacy and updateClientName
RenameClient(r, id, l) ==
    /\ Accepting(r, "rename")
    /\ id \in Ids
    /\ SaveAndSync(r, Job("edit", id, [label |-> l], Empty))

\* Mutant: no overlap check.
UpdateClientAddress_Unchecked(r, id, a, sp) ==
    /\ Accepting(r, "address")
    /\ id \in Ids
    /\ SaveAndSync(r, Job("edit", id, [address |-> a, spelling |-> sp], Empty))

\* Whatever parseInt and Number make an address of is checked as that address
\* and stored as it was typed.
UpdateClientAddress(r, id, a, sp) ==
    /\ Accepting(r, "address")
    /\ id \in Ids
    /\ undef = {}
    /\ ~ FindOverlap({{a}}, OtherClients(id))
    /\ SaveAndSync(r, Job("edit", id, [address |-> a, spelling |-> sp], Empty))

\* The overlap check and the captured values come before the await of `down',
\* the change comes after it.  An empty list is not checked.
SetClientSitePeer(r, id, allowed, masq) ==
    /\ Accepting(r, "site")
    /\ id \in Ids
    /\ undef = {}
    /\ allowed # {} => ~ FindOverlap(allowed, OtherClients(id))
    /\ Begin(r, Job("site", id,
                    [allowed |-> allowed, masq |-> allowed # {} /\ masq],
                    [allowed |-> config.clients[id].allowed,
                     masq    |-> config.clients[id].masq]), "down")

UpdateServerSettings(r, patch) ==
    LET j == Job("settings", NoId, patch, config.server) IN
    /\ Accepting(r, "settings")
    /\ IF NeedsRestart(config.server, patch) THEN Begin(r, j, "down")
                                             ELSE SaveAndSync(r, j)

RegenerateKeypair(r) ==
    /\ Accepting(r, "regen")
    /\ Begin(r, Job("regen", NoId, Empty, [key |-> config.server.key]), "keys")

-----------------------------------------------------------------------------
(* The awaits *)

\* createClient after the keys: pick the lowest free address, insert, save.
InsertClient(r) ==
    /\ pc[r] = "keys" /\ job[r].kind = "create"
    /\ undef = {}
    /\ \E a \in FreeAddress({config.clients[i] : i \in Ids}), l \in Labels :
        /\ \A b \in FreeAddress({config.clients[i] : i \in Ids}) : a <= b
        /\ Save(r, Job("save", NoId, Empty, Empty),
                WithClient(config, job[r].id,
                           [address |-> a, spelling |-> "plain", allowed |-> {},
                            masq |-> FALSE, enabled |-> TRUE, label |-> l]),
                {}, "sync")
    /\ UNCHANGED <<disk, kernel, node, crashes>>

\* "Maximum number of clients reached.", or a TypeError on an undefined entry.
CreateRefused(r) ==
    /\ pc[r] = "keys" /\ job[r].kind = "create"
    /\ undef # {} \/ FreeAddress({config.clients[i] : i \in Ids}) = {}
    /\ Finish(r)
    /\ UNCHANGED <<memory, disk, kernel, node, crashes>>

RegenKeys(r) ==
    /\ pc[r] = "keys" /\ job[r].kind = "regen"
    /\ \E k \in Keys \ {config.server.key} :
           job' = [job EXCEPT ![r].patch = [key |-> k]]
    /\ Goto(r, "down")
    /\ UNCHANGED <<memory, disk, kernel, node, crashes>>

KeysFail(r) ==
    /\ pc[r] = "keys" /\ "exec" \in Faults
    /\ Finish(r)
    /\ UNCHANGED <<memory, disk, kernel, node, crashes>>

AfterDown(p) == IF p = Boot THEN "up" ELSE "mutate"

\* `wg-quick down' deletes the device, then runs the PostDown of the wg0.conf
\* on disk; without a device nothing happens.  Nobody minds when it fails.
Down(p) ==
    /\ pc[p] = "down" /\ p # Sig
    /\ dev' = NoDevice
    /\ rules' = IF dev.up THEN rules \ conf.text.rules ELSE rules
    /\ Goto(p, AfterDown(p))
    /\ UNCHANGED <<memory, disk, node, job, crashes>>

\* It fails before it deletes the device.
DownFails(p) ==
    /\ pc[p] = "down" /\ p # Sig /\ "exec" \in Faults
    /\ Goto(p, AfterDown(p))
    /\ UNCHANGED <<memory, disk, kernel, node, job, crashes>>

\* The device is gone, and iptables fails on some of the rules PostDown deletes:
\* those stay, and the next rule is tried.
DownFailsInHook(p) ==
    /\ pc[p] = "down" /\ p # Sig /\ "iptables" \in Faults
    /\ dev.up
    /\ dev' = NoDevice
    /\ \E left \in SUBSET (rules \cap conf.text.rules) \ {{}} :
           rules' = (rules \ conf.text.rules) \cup left
    /\ Goto(p, AfterDown(p))
    /\ UNCHANGED <<memory, disk, node, job, crashes>>

Mutate(p) ==
    /\ pc[p] = "mutate"
    /\ Save(p, [job[p] EXCEPT !.undo = Captured(config, job[p]), !.patch = Empty],
            Mutated(config, job[p]), undef \ {job[p].id}, "up")
    /\ UNCHANGED <<disk, kernel, node, crashes>>

\* writeFile: open with O_TRUNC, then write; another writer of the same file
\* may have filled it in between, and a longer text keeps its tail.
OpenJson(p) ==
    /\ pc[p] = "openJson"
    /\ json' = Truncated(Empty)
    /\ Goto(p, "writeJson")
    /\ UNCHANGED <<memory, conf, kernel, node, job, crashes>>

WriteJson(p) ==
    /\ pc[p] = "writeJson"
    /\ json' \in {Whole(job[p].snap)} \cup
           (IF json.text = Empty THEN {} ELSE {Truncated(job[p].snap)})
    /\ Goto(p, "openConf")
    /\ UNCHANGED <<memory, conf, kernel, node, job, crashes>>

OpenConf(p) ==
    /\ pc[p] = "openConf"
    /\ conf' = Truncated(BlankConf)
    /\ Goto(p, "writeConf")
    /\ UNCHANGED <<memory, json, kernel, node, job, crashes>>

WriteConf(p) ==
    /\ pc[p] = "writeConf"
    /\ conf' \in {Whole(RenderServerConf(job[p].snap))} \cup
           (IF conf.text = BlankConf THEN {}
            ELSE {Truncated(RenderServerConf(job[p].snap))})
    /\ Goto(p, job[p].after)
    /\ UNCHANGED <<memory, json, kernel, node, job, crashes>>

WriteFails(p) ==
    /\ pc[p] \in {"openJson", "writeJson", "openConf", "writeConf"}
    /\ "fs" \in Faults
    /\ Throw(p)
    /\ UNCHANGED crashes

\* `wg syncconf' loads the interface and the peers, runs no hook.
Sync(p) ==
    /\ pc[p] = "sync"
    /\ dev.up /\ conf.text.readable
    /\ dev' = [up    |-> TRUE,
               key   |-> IF conf.text.key = NoKey THEN dev.key ELSE conf.text.key,
               port  |-> IF conf.text.port = NoPort THEN dev.port ELSE conf.text.port,
               mtu   |-> dev.mtu,
               peers |-> conf.text.peers]
    /\ node' = IF p = Boot THEN "running" ELSE node
    /\ Finish(p)
    /\ UNCHANGED <<memory, disk, rules, crashes>>

SyncFails(p) ==
    /\ pc[p] = "sync"
    /\ "exec" \in Faults \/ ~ dev.up \/ Garbled(conf) \/ ~ conf.text.readable
    /\ Throw(p)
    /\ UNCHANGED crashes

IsV6Masq(rule) == rule[1] = "masq" /\ rule[2] \in V6Cidrs

\* What `wg setconf' and `ip' make of a wg0.conf.
UpAccepts(c) == c.port \notin BadPorts /\ c.readable

\* `wg-quick up' creates the device from the wg0.conf on disk and runs PostUp,
\* which adds the rules that are missing.
Up(p) ==
    /\ pc[p] \in {"up", "upAgain"}
    /\ ~ dev.up
    /\ UpAccepts(conf.text)
    /\ ~ \E rule \in conf.text.rules : IsV6Masq(rule)
    /\ dev' = Device(conf.text)
    /\ rules' = rules \cup conf.text.rules
    /\ IF p = Boot THEN Goto(p, "sync") /\ UNCHANGED job ELSE Finish(p)
    /\ UNCHANGED <<memory, disk, node, crashes>>

\* Mutant: the rollback is tried again and again.
UpRejected_Retries(p, rs) ==
    IF p = Boot THEN ExitNode
    ELSE /\ Goto(p, "rollback")
         /\ rules' = rs
         /\ UNCHANGED <<memory, disk, dev, node, job>>

\* After a failed `up', which left the rules rs: the boot exits, a request
\* rolls back; after a failed second `up' the request answers.
UpRejected(p, rs) ==
    CASE p = Boot -> ExitNode
      [] p # Boot /\ pc[p] = "up" ->
            /\ Goto(p, "rollback")
            /\ rules' = rs
            /\ UNCHANGED <<memory, disk, dev, node, job>>
      [] OTHER ->
            /\ Finish(p)
            /\ rules' = rs
            /\ UNCHANGED <<memory, disk, dev, node>>

\* It fails before the hooks: a command, the device that is there already, or
\* a wg0.conf it does not accept.
UpFails(p) ==
    /\ pc[p] \in {"up", "upAgain"}
    /\ \/ "exec" \in Faults
       \/ dev.up
       \/ Garbled(conf)
       \/ ~ UpAccepts(conf.text)
    /\ UpRejected(p, rules)
    /\ UNCHANGED crashes

\* PostUp runs under `set -e': it stops at the first rule iptables refuses or
\* fails to add, and the rules it added before stay although the device is
\* removed.
UpFailsInHook(p) ==
    /\ pc[p] \in {"up", "upAgain"}
    /\ ~ dev.up
    /\ UpAccepts(conf.text)
    /\ \E rule \in conf.text.rules : IsV6Masq(rule) \/ "iptables" \in Faults
    /\ \E added \in SUBSET {rule \in conf.text.rules : ~ IsV6Masq(rule)} :
           /\ added # conf.text.rules
           /\ UpRejected(p, rules \cup added)
    /\ UNCHANGED crashes

\* Mutant: the restored configuration is not saved.
Rollback_NoSave(p) ==
    /\ pc[p] = "rollback"
    /\ config' = RolledBack(config, job[p])
    /\ Goto(p, "upAgain")
    /\ UNCHANGED <<undef, disk, kernel, node, job, crashes>>

Rollback(p) ==
    /\ pc[p] = "rollback"
    /\ Save(p, job[p], RolledBack(config, job[p]),
            IF RestoresNothing(job[p]) THEN undef \cup {job[p].id}
                                       ELSE undef \ {job[p].id}, "upAgain")
    /\ UNCHANGED <<disk, kernel, node, crashes>>

-----------------------------------------------------------------------------
(* The life of the process *)

\* The container starts: server.js calls getConfig.
StartNode ==
    /\ node = "off"
    /\ node' = "booting"
    /\ Goto(Boot, "load")
    /\ UNCHANGED <<memory, disk, kernel, job, crashes>>

\* Mutant: an unreadable wg0.json ends the process.
Load_Strict ==
    /\ pc[Boot] = "load"
    /\ IF json.whole \/ conf = Truncated(BlankConf)
       THEN /\ Save(Boot, Job("boot", NoId, Empty, Empty),
                    IF json.whole THEN json.text
                    ELSE FactoryConfig(config.server.key), {}, "down")
            /\ UNCHANGED <<disk, kernel, node>>
       ELSE ExitNode
    /\ UNCHANGED crashes

\* getConfig reads wg0.json; whatever goes wrong, it starts a new server.
Load ==
    /\ pc[Boot] = "load"
    /\ \/ /\ json.whole
          /\ Save(Boot, Job("boot", NoId, Empty, Empty), json.text, {}, "down")
       \/ /\ ~ json.whole
          /\ \E k \in Keys :
                 Save(Boot, Job("boot", NoId, Empty, Empty), FactoryConfig(k), {}, "down")
    /\ UNCHANGED <<disk, kernel, node, crashes>>

\* SIGTERM: Shutdown, then process.exit(0).
Sigterm ==
    /\ node # "off" /\ pc[Sig] = "idle" /\ "sigterm" \in Ops
    /\ Goto(Sig, "down")
    /\ UNCHANGED <<memory, disk, kernel, node, job, crashes>>

\* In the callback of `down', whether it failed or not, the process exits.
Shutdown == pc[Sig] = "down" /\ ExitNode /\ UNCHANGED crashes

Crash ==
    /\ "crash" \in Faults /\ node # "off" /\ crashes < MaxCrashes
    /\ crashes' = crashes + 1
    /\ ExitNode

-----------------------------------------------------------------------------
Request(r) ==
    \/ RegenerateKeypair(r)
    \/ \E patch \in SettingsPatch : UpdateServerSettings(r, patch)
    \/ \E id \in ClientIds :
        \/ CreateClient(r, id)
        \/ EnableClient(r, id)
        \/ DisableClient(r, id)
        \/ DeleteClient(r, id)
        \/ \E l \in Labels : RenameClient(r, id, l)
        \/ \E a \in Addrs, sp \in Spellings : UpdateClientAddress(r, id, a, sp)
        \/ \E allowed \in SUBSET Cidrs, masq \in BOOLEAN :
               SetClientSitePeer(r, id, allowed, masq)

Step(p) ==
    \/ InsertClient(p) \/ CreateRefused(p) \/ RegenKeys(p) \/ KeysFail(p)
    \/ Down(p) \/ DownFails(p) \/ DownFailsInHook(p) \/ Mutate(p)
    \/ OpenJson(p) \/ WriteJson(p) \/ OpenConf(p) \/ WriteConf(p) \/ WriteFails(p)
    \/ Sync(p) \/ SyncFails(p)
    \/ Up(p) \/ UpFails(p) \/ UpFailsInHook(p) \/ Rollback(p)

Next ==
    \/ \E r \in Reqs : Request(r)
    \/ \E p \in Procs : Step(p)
    \/ StartNode \/ Load \/ Sigterm \/ Shutdown \/ Crash

\* Every awaited call returns, and the container is restarted
\* (restart: unless-stopped).
Fairness ==
    /\ \A p \in Procs : WF_vars(Step(p))
    /\ WF_vars(StartNode) /\ WF_vars(Load) /\ WF_vars(Shutdown)

Spec == Init /\ [][Next]_vars
FairSpec == Spec /\ Fairness

-----------------------------------------------------------------------------
(* Type correctness *)

ClientPatch == [enabled: BOOLEAN] \cup [label: Labels]
                   \cup [address: Addrs, spelling: Spellings]
                   \cup [allowed: SUBSET Cidrs, masq: BOOLEAN]

Points == {"idle", "keys", "load", "down", "mutate", "openJson", "writeJson",
           "openConf", "writeConf", "sync", "up", "rollback", "upAgain"}

WritePoints == {"openJson", "writeJson", "openConf", "writeConf"}

Kinds == {"none", "boot", "save", "create", "enabled", "site", "delete",
          "settings", "regen"}

JobRecord ==
    [kind:  Kinds,
     id:    ClientIds \cup {NoId},
     patch: ClientPatch \cup SettingsPatch \cup [key: Keys] \cup {Empty},
     undo:  [enabled: BOOLEAN] \cup [allowed: SUBSET Cidrs, masq: BOOLEAN]
            \cup Client \cup Server \cup [key: Keys] \cup {Empty},
     snap:  Config \cup {Empty},
     after: {"idle", "sync", "up", "upAgain", "down"}]

\* The patch and the captured values fit the kind of the request.
JobFits(j) ==
    /\ j.kind \in {"create", "enabled", "site", "delete"} => j.id \in ClientIds
    /\ CASE j.kind = "enabled"  -> /\ j.patch \in [enabled: BOOLEAN] \cup {Empty}
                                   /\ j.undo \in [enabled: BOOLEAN]
         [] j.kind = "site"     -> /\ j.patch \in [allowed: SUBSET Cidrs, masq: BOOLEAN]
                                                  \cup {Empty}
                                   /\ j.undo \in [allowed: SUBSET Cidrs, masq: BOOLEAN]
         [] j.kind = "delete"   -> j.patch = Empty /\ j.undo \in Client \cup {Empty}
         [] j.kind = "settings" -> /\ j.patch \in SettingsPatch \cup {Empty}
                                   /\ j.undo \in Server
         [] j.kind = "regen"    -> /\ j.patch \in [key: Keys] \cup {Empty}
                                   /\ j.undo \in [key: Keys]
         [] OTHER               -> j.patch = Empty /\ j.undo = Empty

TypeOK ==
    /\ config \in Config
    /\ undef \subseteq ClientIds
    /\ json \in [text: Config \cup {Empty}, whole: BOOLEAN]
    /\ json.whole => json.text \in Config
    /\ conf \in [text: ServerConf, whole: BOOLEAN]
    /\ dev \in [up: BOOLEAN, key: Keys \cup {NoKey}, port: Ports \cup {NoPort},
                mtu: Mtus, peers: Peers]
    /\ rules \subseteq Rule
    /\ node \in {"off", "booting", "running"}
    /\ pc \in [Procs -> Points]
    /\ job \in [Procs -> JobRecord]
    /\ \A p \in Procs : /\ JobFits(job[p])
                        /\ pc[p] \in WritePoints => job[p].snap \in Config
    /\ crashes \in 0 .. MaxCrashes

-----------------------------------------------------------------------------
(* Safety *)

Quiet == node = "running" /\ \A p \in Procs : pc[p] = "idle"

\* Once every request is answered, both files are whole and say what the
\* memory says, also after a rollback (__saveConfig, __applyWithBounce).
DiskMirrorsMemory ==
    Quiet => json = Whole(config) /\ conf = Whole(RenderServerConf(config))

\* wg0.json is the source of truth, synced to wg0.conf.
ConfMirrorsJson ==
    Quiet /\ json.whole => conf.text = RenderServerConf(json.text)

\* Once every request is answered, the tunnel is up and the device serves the
\* configuration in memory: no request, not even one that failed and was rolled
\* back, strands the server offline or leaves it with a refused configuration
\* (updateServerSettings, regenerateKeypair, __applyWithBounce).
DeviceServesConfig == Quiet => dev = Device(RenderServerConf(config))

\* And the firewall rules are those of the configuration.
KernelServesConfig == DeviceServesConfig /\ (Quiet => rules = HookRules(config))

\* `down' tears down with the wg0.conf on disk.  As long as no iptables command
\* in a hook fails, no rule is live that it does not delete, and at rest none
\* is live that the next `down' would leave behind, whichever `wg' and wg-quick
\* commands fail (the order down, save, up of __applyWithBounce).
TeardownCovers ==
    (\E r \in Reqs : pc[r] = "down") \/ Quiet => rules \subseteq conf.text.rules

\* Also when hooks stop halfway: at rest a device that is up has every rule its
\* configuration asks for; no rollback leaves the tunnel up without its
\* firewall (addRule, __applyWithBounce).
HooksLive == Quiet /\ dev.up => HookRules(config) \subseteq rules

\* A masquerade rule is live only for an enabled site peer that asks for it.
MasqueradeAsConfigured ==
    Quiet => {rule \in rules : rule[1] = "masq"} \subseteq HookRules(config)

\* A value on which `up' fails is not kept once the request that brought it is
\* answered (the rollback of updateServerSettings).
BadValueNotKept == Quiet => config.server.port \notin BadPorts

\* The device has the MTU the clients are given (RESTART_FIELDS has `mtu').
MtuApplied == Quiet => dev.mtu = config.server.mtu

\* No two peers' AllowedIPs overlap, if all addresses are spelled as
\* createClient spells them (MCSpelledAddress): not in the configuration ...
NoOverlap ==
    \A i, j \in Ids : i # j => ~ FindOverlap(EffectiveCidrs(config.clients[i]),
                                             {config.clients[j]})

\* ... and not on the device, whichever wg0.conf it was loaded from: the
\* kernel would hand the address to the peer configured last.
DeviceNoOverlap ==
    \A i, j \in DOMAIN dev.peers : i # j =>
        \A x \in dev.peers[i], y \in dev.peers[j] : ~ Overlaps(x, y)

\* A rollback never leaves a key of config.clients without a client: the next
\* render would throw, and so would every later one.
EveryEntryIsAClient == undef = {}

\* wg0.json of a server that was set up before is readable when it boots: the
\* clients survive a restart.
ConfigSurvivesRestart ==
    pc[Boot] = "load" /\ conf # Truncated(BlankConf) => json.whole

-----------------------------------------------------------------------------
(* Liveness *)

\* Every request is answered.
Answered == \A r \in Reqs : pc[r] # "idle" ~> pc[r] = "idle"

\* A server that went down comes back.
ComesBack == node = "off" ~> node = "running"
=============================================================================
