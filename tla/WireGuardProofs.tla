--------------------------- MODULE WireGuardProofs ---------------------------
(***************************************************************************)
(* Theorems about WireGuard, for every value of its constants.              *)
(***************************************************************************)
EXTENDS WireGuard, TLAPS

-----------------------------------------------------------------------------
(* What the pure operators return *)

\* A client's fields keep their types under the patches the handlers apply.
LEMMA PatchedClient ==
    ASSUME NEW c \in Client, NEW patch \in ClientPatch \cup {Empty}
    PROVE  Patched(c, patch) \in Client
  BY DEF Patched, Client, ClientPatch, Empty

\* So do the server's, also when a rollback puts the old record back.
LEMMA PatchedServer ==
    ASSUME NEW s \in Server,
           NEW patch \in SettingsPatch \cup Server \cup [key: Keys] \cup {Empty}
    PROVE  Patched(s, patch) \in Server
  <1>1. CASE patch \in SettingsPatch
    BY <1>1 DEF Patched, Server, SettingsPatch, SettingFields
  <1>2. CASE patch \in Server
    BY <1>2 DEF Patched, Server
  <1>3. CASE patch \in [key: Keys] \cup {Empty}
    BY <1>3 DEF Patched, Server, Empty
  <1>4. QED BY <1>1, <1>2, <1>3

\* What a configuration consists of.
LEMMA ConfigParts ==
    ASSUME NEW cfg \in Config
    PROVE  /\ cfg.server \in Server
           /\ DOMAIN cfg.clients \subseteq ClientIds
           /\ cfg.clients \in [DOMAIN cfg.clients -> Client]
  BY DEF Config

\* A server and a map of clients make a configuration.
LEMMA ConfigOf ==
    ASSUME NEW s \in Server, NEW ids \in SUBSET ClientIds, NEW f \in [ids -> Client]
    PROVE  [server |-> s, clients |-> f] \in Config
  BY DEF Config

\* The changes of the configuration yield configurations.
LEMMA ChangedConfig ==
    ASSUME NEW cfg \in Config, NEW id
    PROVE  /\ \A patch \in ClientPatch \cup {Empty} : ChangeClient(cfg, id, patch) \in Config
           /\ \A patch \in SettingsPatch \cup Server \cup [key: Keys] \cup {Empty} :
                ChangeServer(cfg, patch) \in Config
           /\ WithoutClient(cfg, id) \in Config
           /\ id \in ClientIds => \A c \in Client : WithClient(cfg, id, c) \in Config
  <1> DEFINE ids == DOMAIN cfg.clients
  <1>0. cfg.server \in Server /\ ids \in SUBSET ClientIds /\ cfg.clients \in [ids -> Client]
    BY ConfigParts
  <1>1. ASSUME NEW patch \in ClientPatch \cup {Empty}
        PROVE  ChangeClient(cfg, id, patch) \in Config
    <2>1. [i \in ids |-> IF i = id THEN Patched(cfg.clients[i], patch)
                                   ELSE cfg.clients[i]] \in [ids -> Client]
      BY <1>0, <1>1, PatchedClient
    <2>2. QED BY <2>1, <1>0, ConfigOf DEF ChangeClient
  <1>2. ASSUME NEW patch \in SettingsPatch \cup Server \cup [key: Keys] \cup {Empty}
        PROVE  ChangeServer(cfg, patch) \in Config
    BY <1>0, <1>2, PatchedServer, ConfigOf DEF ChangeServer
  <1>3. WithoutClient(cfg, id) \in Config
    <2>1. [i \in ids \ {id} |-> cfg.clients[i]] \in [ids \ {id} -> Client]
      BY <1>0
    <2>2. QED BY <2>1, <1>0, ConfigOf DEF WithoutClient
  <1>4. ASSUME id \in ClientIds, NEW c \in Client
        PROVE  WithClient(cfg, id, c) \in Config
    <2>1. [i \in ids \cup {id} |-> IF i = id THEN c ELSE cfg.clients[i]]
              \in [ids \cup {id} -> Client]
      BY <1>0, <1>4
    <2>2. ids \cup {id} \in SUBSET ClientIds
      BY <1>0, <1>4
    <2>3. QED BY <2>1, <2>2, <1>0, ConfigOf DEF WithClient
  <1>5. QED BY <1>1, <1>2, <1>3, <1>4

\* wg0.conf is well formed for every configuration.
LEMMA RenderedConf ==
    ASSUME NEW cfg \in Config
    PROVE  RenderServerConf(cfg) \in ServerConf
  <1> DEFINE enabled == {j \in DOMAIN cfg.clients : cfg.clients[j].enabled}
  <1>1. \A i \in DOMAIN cfg.clients :
            EffectiveCidrs(cfg.clients[i]) \in SUBSET (Cidrs \cup {{a} : a \in Addrs})
    BY ConfigParts DEF EffectiveCidrs, Client
  <1>2. [i \in enabled |-> EffectiveCidrs(cfg.clients[i])] \in Peers
    <2>1. enabled \in SUBSET ClientIds
      BY ConfigParts
    <2>2. [i \in enabled |-> EffectiveCidrs(cfg.clients[i])]
              \in [enabled -> SUBSET (Cidrs \cup {{a} : a \in Addrs})]
      BY <1>1
    <2>3. QED BY <2>1, <2>2 DEF Peers
  <1>3. HookRules(cfg) \subseteq Rule
    <2>1. <<"port", cfg.server.port>> \in Rule
      BY ConfigParts DEF Rule, Server
    <2>2. \A n \in UNION {cfg.clients[i].allowed :
                i \in {j \in DOMAIN cfg.clients : /\ cfg.clients[j].enabled
                                                  /\ cfg.clients[j].masq}} :
              <<"masq", n>> \in Rule
      BY ConfigParts DEF Rule, Client
    <2>3. QED BY <2>1, <2>2 DEF HookRules
  <1>4. cfg.server.key \in Keys /\ cfg.server.port \in Ports
    BY ConfigParts DEF Server
  <1>5. AddressesRead(cfg) \in BOOLEAN
    BY DEF AddressesRead
  <1>6. QED BY <1>2, <1>3, <1>4, <1>5, PeerConfigAssumption
            DEF RenderServerConf, EnabledIds, ServerConf

\* A new server's configuration.
LEMMA FactoryIsConfig == \A k \in Keys : FactoryConfig(k) \in Config
  <1> TAKE k \in Keys
  <1>1. Empty \in [{} -> Client]
    BY DEF Empty
  <1>2. [key  |-> k, port |-> DefaultServer.port,
         mtu  |-> DefaultServer.mtu, host |-> DefaultServer.host] \in Server
    BY WireGuardAssumption DEF Server
  <1>3. QED BY <1>1, <1>2, ConfigOf DEF FactoryConfig

\* What a job does to the configuration, and undoes, leaves a configuration.
LEMMA MutatedConfig ==
    ASSUME NEW cfg \in Config, NEW j \in JobRecord, JobFits(j)
    PROVE  Mutated(cfg, j) \in Config
  <1>1. CASE j.kind = "delete"
    BY <1>1, ChangedConfig DEF Mutated
  <1>2. CASE j.kind \in {"settings", "regen"}
    <2>1. j.patch \in SettingsPatch \cup [key: Keys] \cup {Empty}
      BY <1>2 DEF JobFits
    <2>2. QED BY <1>2, <2>1, ChangedConfig DEF Mutated
  <1>3. CASE j.kind \notin {"delete", "settings", "regen"}
    <2>1. j.patch \in ClientPatch \cup {Empty}
      BY <1>3 DEF JobFits, ClientPatch
    <2>2. QED BY <1>3, <2>1, ChangedConfig DEF Mutated
  <1>4. QED BY <1>1, <1>2, <1>3

\* The rollback closures, whatever was deleted or created meanwhile.
LEMMA RolledBackConfig ==
    ASSUME NEW cfg \in Config, NEW j \in JobRecord, JobFits(j)
    PROVE  RolledBack(cfg, j) \in Config
  <1>1. CASE j.kind = "delete"
    <2>1. j.id \in ClientIds /\ j.undo \in Client \cup {Empty}
      BY <1>1 DEF JobFits
    <2>2. QED BY <1>1, <2>1, ChangedConfig DEF RolledBack, RestoresNothing
  <1>2. CASE j.kind \in {"settings", "regen"}
    <2>1. j.undo \in Server \cup [key: Keys]
      BY <1>2 DEF JobFits
    <2>2. QED BY <1>2, <2>1, ChangedConfig DEF RolledBack, RestoresNothing
  <1>3. CASE j.kind \notin {"delete", "settings", "regen"}
    <2>1. j.undo \in ClientPatch \cup {Empty}
      BY <1>3 DEF JobFits, ClientPatch
    <2>2. QED BY <1>3, <2>1, ChangedConfig DEF RolledBack, RestoresNothing
  <1>4. QED BY <1>1, <1>2, <1>3

\* The job as Mutate leaves it: the captured values replace the patch.
LEMMA CapturedJob ==
    ASSUME NEW cfg \in Config, NEW j \in JobRecord, JobFits(j)
    PROVE  LET k == [j EXCEPT !.undo = Captured(cfg, j), !.patch = Empty]
           IN  k \in JobRecord /\ JobFits(k)
  <1> DEFINE k == [j EXCEPT !.undo = Captured(cfg, j), !.patch = Empty]
  <1>1. /\ k.kind = j.kind /\ k.id = j.id /\ k.patch = Empty
        /\ k.undo = Captured(cfg, j) /\ k.snap = j.snap /\ k.after = j.after
    BY DEF JobRecord
  <1>2. CASE j.kind = "delete"
    <2>1. Captured(cfg, j) \in Client \cup {Empty}
      BY <1>2, ConfigParts DEF Captured
    <2>2. QED BY <1>1, <1>2, <2>1 DEF JobFits, JobRecord
  <1>3. CASE j.kind = "enabled"
    <2>1. Captured(cfg, j) \in [enabled: BOOLEAN]
      BY <1>3, ConfigParts DEF Captured, JobFits, Client
    <2>2. QED BY <1>1, <1>3, <2>1 DEF JobFits, JobRecord
  <1>4. CASE j.kind \notin {"delete", "enabled"}
    <2>1. Captured(cfg, j) = j.undo
      BY <1>4 DEF Captured
    <2>2. QED BY <1>1, <1>4, <2>1 DEF JobFits, JobRecord
  <1>5. QED BY <1>2, <1>3, <1>4

-----------------------------------------------------------------------------
(* Type correctness *)

\* A process without a request.
LEMMA NoJobFits == NoJob \in JobRecord /\ JobFits(NoJob)
  BY DEF NoJob, JobRecord, Kinds, JobFits

\* A handler that returns or throws.
LEMMA FinishType ==
    ASSUME TypeOK, NEW p \in Procs, Finish(p),
           UNCHANGED <<memory, disk, crashes>>,
           dev' \in [up: BOOLEAN, key: Keys \cup {NoKey}, port: Ports \cup {NoPort},
                     mtu: Mtus, peers: Peers],
           rules' \subseteq Rule, node' \in {"off", "booting", "running"}
    PROVE  TypeOK'
  BY NoJobFits DEF TypeOK, Finish, Goto, memory, disk, Points, WritePoints

\* The end of the process leaves memory and files alone.
LEMMA ExitType ==
    ASSUME TypeOK, ExitNode, crashes' \in 0 .. MaxCrashes
    PROVE  TypeOK'
  <1>1. NoDevice \in [up: BOOLEAN, key: Keys \cup {NoKey}, port: Ports \cup {NoPort},
                      mtu: Mtus, peers: Peers]
    <2>1. Empty \in Peers
      <3>1. Empty \in [{} -> SUBSET (Cidrs \cup {{a} : a \in Addrs})]
        BY DEF Empty
      <3>2. {} \in SUBSET ClientIds
        OBVIOUS
      <3>3. QED BY <3>1, <3>2 DEF Peers
    <2>2. QED BY <2>1, PeerConfigAssumption DEF NoDevice
  <1>2. QED BY <1>1, NoJobFits DEF TypeOK, ExitNode, memory, disk, Points, WritePoints

\* The synchronous head of __saveConfig, its snapshot included.
LEMMA SaveType ==
    ASSUME TypeOK, NEW p \in Procs, NEW j \in JobRecord, JobFits(j),
           NEW cfg \in Config, NEW und \in SUBSET ClientIds,
           NEW after \in {"sync", "up", "upAgain", "down"},
           Save(p, j, cfg, und, after),
           UNCHANGED <<disk, kernel, node, crashes>>
    PROVE  TypeOK'
  <1> DEFINE k == [j EXCEPT !.snap = cfg, !.after = after]
  <1>1. k \in JobRecord /\ JobFits(k) /\ k.snap = cfg
    <2>1. k \in JobRecord
      BY DEF JobRecord
    <2>2. /\ k.kind = j.kind /\ k.id = j.id /\ k.patch = j.patch /\ k.undo = j.undo
          /\ k.snap = cfg
      BY DEF JobRecord
    <2>3. JobFits(k)
      BY <2>2 DEF JobFits
    <2>4. QED BY <2>1, <2>2, <2>3
  <1>2. CASE und = {}
    <2>1. /\ config' = cfg /\ undef' = und
          /\ pc' = [pc EXCEPT ![p] = "openJson"]
          /\ job' = [job EXCEPT ![p] = k]
      BY <1>2 DEF Save, Goto
    <2>2. pc' \in [Procs -> Points] /\ job' \in [Procs -> JobRecord]
      BY <1>1, <2>1 DEF TypeOK, Points
    <2>3. \A q \in Procs : /\ JobFits(job[q])'
                           /\ pc'[q] \in WritePoints => job'[q].snap \in Config
      BY <1>1, <2>1 DEF TypeOK
    <2>4. QED BY <2>1, <2>2, <2>3 DEF TypeOK, disk, kernel
  <1>3. CASE und # {}
    BY <1>3, NoJobFits DEF TypeOK, Save, Finish, Goto, disk, kernel, Points, WritePoints
  <1>4. QED BY <1>2, <1>3

\* A handler that reaches its first await.
LEMMA BeginType ==
    ASSUME TypeOK, NEW r \in Procs, NEW j \in JobRecord, JobFits(j),
           NEW l \in {"keys", "down"}, Begin(r, j, l)
    PROVE  TypeOK'
  BY DEF TypeOK, Begin, Goto, memory, disk, kernel, Points, WritePoints

\* The jobs of saveConfig and of the boot.
LEMMA SavedJob ==
    /\ Job("save", NoId, Empty, Empty) \in JobRecord
    /\ JobFits(Job("save", NoId, Empty, Empty))
    /\ Job("boot", NoId, Empty, Empty) \in JobRecord
    /\ JobFits(Job("boot", NoId, Empty, Empty))
  BY DEF Job, NoJob, JobRecord, Kinds, JobFits

\* A handler that changes the configuration and calls saveConfig.
LEMMA SaveAndSyncType ==
    ASSUME TypeOK, NEW r \in Procs, NEW j, Mutated(config, j) \in Config, SaveAndSync(r, j)
    PROVE  TypeOK'
  <1>1. undef \ {j.id} \in SUBSET ClientIds
    BY DEF TypeOK
  <1>2. QED BY <1>1, SavedJob, SaveType DEF SaveAndSync

\* A new job of each kind.
LEMMA NewJob ==
    ASSUME NEW kind \in Kinds, NEW id \in ClientIds \cup {NoId}, NEW patch, NEW undo,
           patch \in ClientPatch \cup SettingsPatch \cup [key: Keys] \cup {Empty},
           undo \in [enabled: BOOLEAN] \cup [allowed: SUBSET Cidrs, masq: BOOLEAN]
                    \cup Client \cup Server \cup [key: Keys] \cup {Empty}
    PROVE  LET j == Job(kind, id, patch, undo)
           IN  /\ j \in JobRecord
               /\ j.kind = kind /\ j.id = id /\ j.patch = patch /\ j.undo = undo
  <1>1. Job(kind, id, patch, undo) =
            [kind |-> kind, id |-> id, patch |-> patch, undo |-> undo,
             snap |-> Empty, after |-> "idle"]
    BY DEF Job
  <1>2. \A K, I, P, U, S, A :
            kind \in K /\ id \in I /\ patch \in P /\ undo \in U /\ Empty \in S /\ "idle" \in A
            => [kind |-> kind, id |-> id, patch |-> patch, undo |-> undo,
                snap |-> Empty, after |-> "idle"]
               \in [kind: K, id: I, patch: P, undo: U, snap: S, after: A]
    OBVIOUS
  <1>3. Empty \in Config \cup {Empty} /\ "idle" \in {"idle", "sync", "up", "upAgain", "down"}
    OBVIOUS
  <1>4. [kind |-> kind, id |-> id, patch |-> patch, undo |-> undo,
         snap |-> Empty, after |-> "idle"] \in JobRecord
    BY <1>2, <1>3, Zenon DEF JobRecord
  <1>5. QED BY <1>1, <1>4

\* The synchronous first part of every handler.
LEMMA RequestType ==
    ASSUME TypeOK, NEW r \in Reqs, Request(r)
    PROVE  TypeOK'
  <1>0. r \in Procs /\ config \in Config
    BY DEF Procs, TypeOK
  <1>1. CASE RegenerateKeypair(r)
    <2> DEFINE j == Job("regen", NoId, Empty, [key |-> config.server.key])
    <2>1. [key |-> config.server.key] \in [key: Keys]
      BY <1>0, ConfigParts DEF Server
    <2>2. j \in JobRecord /\ JobFits(j)
      BY <2>1, NewJob DEF Kinds, JobFits
    <2>3. QED BY <1>0, <1>1, <2>2, BeginType DEF RegenerateKeypair
  <1>2. ASSUME NEW patch \in SettingsPatch, UpdateServerSettings(r, patch)
        PROVE  TypeOK'
    <2> DEFINE j == Job("settings", NoId, patch, config.server)
    <2>1. config.server \in Server
      BY <1>0, ConfigParts
    <2>2. j \in JobRecord /\ JobFits(j)
      BY <2>1, NewJob DEF Kinds, JobFits
    <2>3. Mutated(config, j) \in Config
      BY <1>0, <2>2, MutatedConfig
    <2>4. QED BY <1>0, <1>2, <2>2, <2>3, BeginType, SaveAndSyncType DEF UpdateServerSettings
  <1>3. ASSUME NEW id \in ClientIds, CreateClient(r, id)
        PROVE  TypeOK'
    <2> DEFINE j == Job("create", id, Empty, Empty)
    <2>1. j \in JobRecord /\ JobFits(j)
      BY NewJob DEF Kinds, JobFits
    <2>2. QED BY <1>0, <1>3, <2>1, BeginType DEF CreateClient
  <1>4. ASSUME NEW id \in ClientIds, NEW b \in BOOLEAN, SetEnabled(r, id, b)
        PROVE  TypeOK'
    <2> DEFINE j == Job("enabled", id, [enabled |-> b], [enabled |-> b])
    <2>1. j \in JobRecord /\ JobFits(j)
      BY NewJob DEF Kinds, JobFits, ClientPatch
    <2>2. Mutated(config, j) \in Config
      BY <1>0, <2>1, MutatedConfig
    <2>3. QED BY <1>0, <1>4, <2>1, <2>2, BeginType, SaveAndSyncType DEF SetEnabled
  <1>5. ASSUME NEW id \in ClientIds, DeleteClient(r, id)
        PROVE  TypeOK'
    <2> DEFINE j == Job("delete", id, Empty, Empty)
    <2>1. j \in JobRecord /\ JobFits(j)
      BY NewJob DEF Kinds, JobFits
    <2>2. Mutated(config, j) \in Config
      BY <1>0, <2>1, MutatedConfig
    <2>3. QED BY <1>0, <1>5, <2>1, <2>2, BeginType, SaveAndSyncType DEF DeleteClient
  <1>6. ASSUME NEW id \in ClientIds, NEW patch \in ClientPatch,
               SaveAndSync(r, Job("edit", id, patch, Empty))
        PROVE  TypeOK'
    <2>1. Mutated(config, Job("edit", id, patch, Empty)) = ChangeClient(config, id, patch)
      BY DEF Mutated, Job, NoJob
    <2>2. QED BY <1>0, <1>6, <2>1, ChangedConfig, SaveAndSyncType
  <1>7. ASSUME NEW id \in ClientIds, NEW allowed \in SUBSET Cidrs, NEW masq \in BOOLEAN,
               SetClientSitePeer(r, id, allowed, masq)
        PROVE  TypeOK'
    <2> DEFINE patch == [allowed |-> allowed, masq |-> allowed # {} /\ masq]
               undo == [allowed |-> config.clients[id].allowed,
                        masq    |-> config.clients[id].masq]
               j == Job("site", id, patch, undo)
    <2>1. config.clients[id] \in Client
      BY <1>0, <1>7, ConfigParts DEF SetClientSitePeer, Ids
    <2>2. /\ patch \in [allowed: SUBSET Cidrs, masq: BOOLEAN]
          /\ undo \in [allowed: SUBSET Cidrs, masq: BOOLEAN]
      BY <2>1 DEF Client
    <2>3. /\ j \in JobRecord
          /\ j.kind = "site" /\ j.id = id /\ j.patch = patch /\ j.undo = undo
      <3>1. patch \in ClientPatch
        BY <2>2 DEF ClientPatch
      <3> HIDE DEF patch, undo
      <3>2. QED BY <2>2, <3>1, NewJob DEF Kinds
    <2>4. JobFits(j)
      BY <2>2, <2>3 DEF JobFits
    <2>5. QED BY <1>0, <1>7, <2>3, <2>4, BeginType DEF SetClientSitePeer
  <1>8. ASSUME NEW id \in ClientIds, NEW l \in Labels, RenameClient(r, id, l)
        PROVE  TypeOK'
    BY <1>6, <1>8 DEF RenameClient, ClientPatch
  <1>9. ASSUME NEW id \in ClientIds, NEW a \in Addrs, NEW sp \in Spellings, UpdateClientAddress(r, id, a, sp)
        PROVE  TypeOK'
    BY <1>6, <1>9 DEF UpdateClientAddress, ClientPatch
  <1>10. QED
    BY <1>1, <1>2, <1>3, <1>4, <1>5, <1>7, <1>8, <1>9 DEF Request, EnableClient, DisableClient

\* The device and the rules a wg0.conf describes.
LEMMA DeviceType ==
    ASSUME NEW c \in ServerConf
    PROVE  /\ Device(c) \in [up: BOOLEAN, key: Keys \cup {NoKey}, port: Ports \cup {NoPort},
                             mtu: Mtus, peers: Peers]
           /\ c.rules \subseteq Rule
  BY DEF Device, ServerConf

\* An empty wg0.conf is well formed, and so is no device.
LEMMA BlankType ==
    /\ BlankConf \in ServerConf
    /\ NoDevice \in [up: BOOLEAN, key: Keys \cup {NoKey}, port: Ports \cup {NoPort},
                     mtu: Mtus, peers: Peers]
  <1>1. Empty \in Peers
    <2>1. Empty \in [{} -> SUBSET (Cidrs \cup {{a} : a \in Addrs})] /\ {} \in SUBSET ClientIds
      BY DEF Empty
    <2>2. QED BY <2>1 DEF Peers
  <1>2. QED BY <1>1, PeerConfigAssumption DEF BlankConf, ServerConf, NoDevice

\* A file holds its text, whole or not.
LEMMA FileType ==
    /\ \A S, text : text \in S => /\ Whole(text) \in [text: S, whole: BOOLEAN]
                                   /\ Truncated(text) \in [text: S, whole: BOOLEAN]
    /\ \A text : Whole(text).text = text /\ Truncated(text).text = text
  BY DEF Whole, Truncated

\* A job that moves on to a call that is no write keeps its type.
LEMMA GotoType ==
    ASSUME TypeOK, NEW p \in Procs, NEW l \in Points \ WritePoints,
           Goto(p, l), UNCHANGED <<memory, disk, node, job, crashes>>,
           dev' \in [up: BOOLEAN, key: Keys \cup {NoKey}, port: Ports \cup {NoPort},
                     mtu: Mtus, peers: Peers],
           rules' \subseteq Rule
    PROVE  TypeOK'
  BY DEF TypeOK, Goto, memory, disk

\* A failed await leaves the types alone.
LEMMA ThrowType ==
    ASSUME TypeOK, NEW p \in Procs, Throw(p), UNCHANGED crashes
    PROVE  TypeOK'
  <1>1. CASE p = Boot
    BY <1>1, ExitType DEF Throw, TypeOK
  <1>2. CASE p # Boot
    BY <1>2, FinishType DEF Throw, TypeOK, memory, disk, kernel
  <1>3. QED BY <1>1, <1>2

\* A rejected `up' leaves the types alone.
LEMMA RejectedType ==
    ASSUME TypeOK, NEW p \in Procs, NEW rs \in SUBSET Rule, UpRejected(p, rs),
           UNCHANGED crashes
    PROVE  TypeOK'
  <1>1. CASE p = Boot
    BY <1>1, ExitType DEF UpRejected, TypeOK
  <1>2. CASE p # Boot /\ pc[p] = "up"
    <2>1. /\ Goto(p, "rollback") /\ rules' = rs
          /\ UNCHANGED <<memory, disk, dev, node, job>>
      BY <1>2 DEF UpRejected
    <2>2. "rollback" \in Points \ WritePoints
      BY DEF Points, WritePoints
    <2>3. QED BY <2>1, <2>2, GotoType DEF TypeOK
  <1>3. CASE p # Boot /\ pc[p] # "up"
    <2>1. /\ Finish(p) /\ rules' = rs
          /\ UNCHANGED <<memory, disk, dev, node>>
      BY <1>3 DEF UpRejected
    <2>2. QED BY <2>1, FinishType DEF TypeOK, memory, disk
  <1>4. QED BY <1>1, <1>2, <1>3

\* The two writes of __saveConfig.
LEMMA WriteType ==
    ASSUME TypeOK, NEW p \in Procs,
           OpenJson(p) \/ WriteJson(p) \/ OpenConf(p) \/ WriteConf(p)
    PROVE  TypeOK'
  <1>1. CASE OpenJson(p)
    BY <1>1 DEF OpenJson, TypeOK, Goto, Truncated, memory, kernel, Points, WritePoints
  <1>2. CASE WriteJson(p)
    <2>1. job[p].snap \in Config
      BY <1>2 DEF WriteJson, TypeOK, WritePoints
    <2>2. json' = Whole(job[p].snap) \/ json' = Truncated(job[p].snap)
      BY <1>2 DEF WriteJson
    <2>3. json' \in [text: Config \cup {Empty}, whole: BOOLEAN] /\ json'.text \in Config
      BY <2>1, <2>2, FileType
    <2>4. QED
      BY <1>2, <2>1, <2>3 DEF WriteJson, TypeOK, Goto, memory, kernel, Points, WritePoints
  <1>3. CASE OpenConf(p)
    <2>1. conf' \in [text: ServerConf, whole: BOOLEAN]
      BY <1>3, BlankType DEF OpenConf, Truncated
    <2>2. QED
      BY <1>3, <2>1 DEF OpenConf, TypeOK, Goto, memory, kernel, Points, WritePoints
  <1>4. CASE WriteConf(p)
    <2>1. job[p].snap \in Config
      BY <1>4 DEF WriteConf, TypeOK, WritePoints
    <2>2. \/ conf' = Whole(RenderServerConf(job[p].snap))
          \/ conf' = Truncated(RenderServerConf(job[p].snap))
      BY <1>4 DEF WriteConf
    <2>3. RenderServerConf(job[p].snap) \in ServerConf
      BY <2>1, RenderedConf
    <2>4. conf' \in [text: ServerConf, whole: BOOLEAN]
      BY <2>2, <2>3, FileType
    <2>5. job[p].after \in Points \ WritePoints
      BY DEF TypeOK, JobRecord, Points, WritePoints
    <2>6. QED
      BY <1>4, <2>4, <2>5 DEF WriteConf, TypeOK, Goto, memory, kernel
  <1>5. QED BY <1>1, <1>2, <1>3, <1>4

\* The calls that touch the device.
LEMMA DeviceStepType ==
    ASSUME TypeOK, NEW p \in Procs,
           \/ Down(p) \/ DownFails(p) \/ DownFailsInHook(p) \/ Sync(p) \/ Up(p)
    PROVE  TypeOK'
  <1>0. conf.text \in ServerConf
    BY DEF TypeOK
  <1>1. CASE Down(p)
    <2>1. AfterDown(p) \in Points \ WritePoints
      BY DEF AfterDown, Points, WritePoints
    <2>2. rules' \subseteq Rule
      BY <1>1 DEF Down, TypeOK
    <2>3. QED BY <1>1, <2>1, <2>2, BlankType, GotoType DEF Down
  <1>2. CASE DownFails(p)
    <2>1. AfterDown(p) \in Points \ WritePoints
      BY DEF AfterDown, Points, WritePoints
    <2>2. QED BY <1>2, <2>1, GotoType DEF DownFails, kernel, TypeOK
  <1>3. CASE Sync(p)
    <2>1. dev' \in [up: BOOLEAN, key: Keys \cup {NoKey}, port: Ports \cup {NoPort},
                    mtu: Mtus, peers: Peers]
      BY <1>0, <1>3 DEF Sync, TypeOK, ServerConf
    <2>2. QED BY <1>3, <2>1, FinishType DEF Sync, TypeOK
  <1>4. CASE Up(p)
    <2>1. dev' \in [up: BOOLEAN, key: Keys \cup {NoKey}, port: Ports \cup {NoPort},
                    mtu: Mtus, peers: Peers] /\ rules' \subseteq Rule
      BY <1>0, <1>4, DeviceType DEF Up, TypeOK
    <2>2. CASE p = Boot
      <3>1. "sync" \in Points \ WritePoints
        BY DEF Points, WritePoints
      <3>2. QED BY <1>4, <2>1, <2>2, <3>1, GotoType DEF Up
    <2>3. CASE p # Boot
      BY <1>4, <2>1, <2>3, FinishType DEF Up, TypeOK, memory, disk
    <2>4. QED BY <2>2, <2>3
  <1>5. CASE DownFailsInHook(p)
    <2>1. AfterDown(p) \in Points \ WritePoints
      BY DEF AfterDown, Points, WritePoints
    <2>2. rules' \subseteq Rule
      BY <1>5 DEF DownFailsInHook, TypeOK
    <2>3. QED BY <1>5, <2>1, <2>2, BlankType, GotoType DEF DownFailsInHook
  <1>6. QED BY <1>1, <1>2, <1>3, <1>4, <1>5

\* The synchronous parts between two awaits.
LEMMA ContinueType ==
    ASSUME TypeOK, NEW p \in Procs,
           \/ InsertClient(p) \/ CreateRefused(p) \/ RegenKeys(p) \/ KeysFail(p)
           \/ Mutate(p) \/ Rollback(p)
    PROVE  TypeOK'
  <1>0. /\ config \in Config /\ undef \subseteq ClientIds
        /\ job[p] \in JobRecord /\ JobFits(job[p])
    BY DEF TypeOK
  <1>1. CASE InsertClient(p)
    <2> DEFINE cs == {config.clients[i] : i \in Ids}
               new(a, l) == [address |-> a, spelling |-> "plain", allowed |-> {},
                             masq |-> FALSE, enabled |-> TRUE, label |-> l]
    <2>1. PICK a \in FreeAddress(cs), l \in Labels :
              Save(p, Job("save", NoId, Empty, Empty),
                   WithClient(config, job[p].id, new(a, l)), {}, "sync")
      BY <1>1 DEF InsertClient
    <2>2. job[p].id \in ClientIds
      BY <1>0, <1>1 DEF InsertClient, JobFits
    <2>3. new(a, l) \in Client
      <3>1. a \in Addrs /\ "plain" \in Spellings
        BY <2>1, PeerConfigAssumption DEF FreeAddress
      <3>2. QED BY <2>1, <3>1 DEF Client
    <2>4. WithClient(config, job[p].id, new(a, l)) \in Config
      BY <1>0, <2>2, <2>3, ChangedConfig
    <2>5. {} \in SUBSET ClientIds
      OBVIOUS
    <2>6. UNCHANGED <<disk, kernel, node, crashes>>
      BY <1>1 DEF InsertClient
    <2>7. QED BY <2>1, <2>4, <2>5, <2>6, SavedJob, SaveType
  <1>2. CASE CreateRefused(p) \/ KeysFail(p)
    BY <1>2, FinishType DEF CreateRefused, KeysFail, TypeOK, kernel
  <1>3. CASE RegenKeys(p)
    <2>1. PICK k \in Keys : job' = [job EXCEPT ![p].patch = [key |-> k]]
      BY <1>3 DEF RegenKeys
    <2>2. job[p].kind = "regen" /\ [key |-> k] \in [key: Keys]
      BY <1>3 DEF RegenKeys
    <2> DEFINE j == [job[p] EXCEPT !.patch = [key |-> k]]
    <2>3. j \in JobRecord /\ JobFits(j)
      <3>1. /\ j.kind = "regen" /\ j.patch = [key |-> k] /\ j.undo = job[p].undo
            /\ j.id = job[p].id /\ j.snap = job[p].snap /\ j.after = job[p].after
        BY <1>0, <2>2 DEF JobRecord
      <3>2. j \in JobRecord
        BY <1>0, <2>2 DEF JobRecord
      <3>3. JobFits(j)
        BY <1>0, <2>2, <3>1 DEF JobFits
      <3>4. QED BY <3>2, <3>3
    <2>4. job' = [job EXCEPT ![p] = j]
      BY <2>1 DEF TypeOK
    <2> HIDE DEF j
    <2>5. QED
      BY <1>3, <2>3, <2>4 DEF RegenKeys, TypeOK, Goto, memory, disk, kernel, Points, WritePoints
  <1>4. CASE Mutate(p)
    <2> DEFINE j == [job[p] EXCEPT !.undo = Captured(config, job[p]), !.patch = Empty]
    <2>1. j \in JobRecord /\ JobFits(j) /\ Mutated(config, job[p]) \in Config
      BY <1>0, CapturedJob, MutatedConfig
    <2>2. undef \ {job[p].id} \in SUBSET ClientIds
      BY <1>0
    <2> HIDE DEF j
    <2>3. Save(p, j, Mutated(config, job[p]), undef \ {job[p].id}, "up")
          /\ UNCHANGED <<disk, kernel, node, crashes>>
      BY <1>4 DEF Mutate, j
    <2>4. QED BY <2>1, <2>2, <2>3, SaveType
  <1>5. CASE Rollback(p)
    <2> DEFINE und == IF RestoresNothing(job[p]) THEN undef \cup {job[p].id}
                                                 ELSE undef \ {job[p].id}
    <2>1. und \in SUBSET ClientIds
      BY <1>0 DEF RestoresNothing, JobFits
    <2>2. RolledBack(config, job[p]) \in Config
      BY <1>0, RolledBackConfig
    <2>3. QED BY <1>0, <1>5, <2>1, <2>2, SaveType DEF Rollback
  <1>6. QED BY <1>1, <1>2, <1>3, <1>4, <1>5

\* Every step of a process.
LEMMA StepType ==
    ASSUME TypeOK, NEW p \in Procs, Step(p)
    PROVE  TypeOK'
  <1>1. CASE WriteFails(p) \/ SyncFails(p)
    BY <1>1, ThrowType DEF WriteFails, SyncFails
  <1>2. CASE UpFails(p)
    BY <1>2, RejectedType DEF UpFails, TypeOK
  <1>3. CASE UpFailsInHook(p)
    <2>1. PICK added \in SUBSET {rule \in conf.text.rules : ~ IsV6Masq(rule)} :
              UpRejected(p, rules \cup added)
      BY <1>3 DEF UpFailsInHook
    <2>2. rules \cup added \in SUBSET Rule
      BY <2>1 DEF TypeOK, ServerConf
    <2>3. QED BY <1>3, <2>1, <2>2, RejectedType DEF UpFailsInHook
  <1>4. QED BY <1>1, <1>2, <1>3, WriteType, DeviceStepType, ContinueType DEF Step

\* The life of the process.
LEMMA LifeType ==
    ASSUME TypeOK, StartNode \/ Load \/ Sigterm \/ Shutdown \/ Crash
    PROVE  TypeOK'
  <1>0. Boot \in Procs /\ Sig \in Procs
    BY DEF Procs
  <1>1. CASE StartNode
    BY <1>0, <1>1 DEF StartNode, TypeOK, Goto, memory, disk, kernel, Points, WritePoints
  <1>2. CASE Load
    <2>1. PICK cfg \in Config : Save(Boot, Job("boot", NoId, Empty, Empty), cfg, {}, "down")
      BY <1>2, FactoryIsConfig DEF Load, TypeOK
    <2>2. {} \in SUBSET ClientIds
      OBVIOUS
    <2>3. QED BY <1>0, <1>2, <2>1, <2>2, SavedJob, SaveType DEF Load
  <1>3. CASE Sigterm
    BY <1>0, <1>3 DEF Sigterm, TypeOK, Goto, memory, disk, kernel, Points, WritePoints
  <1>4. CASE Shutdown
    BY <1>4, ExitType DEF Shutdown, TypeOK
  <1>5. CASE Crash
    BY <1>5, ExitType, WireGuardAssumption DEF Crash, TypeOK
  <1>6. QED BY <1>1, <1>2, <1>3, <1>4, <1>5

\* The first start, with an empty volume or a saved configuration.
LEMMA InitType == Init => TypeOK
  <1> SUFFICES ASSUME Init PROVE TypeOK
    OBVIOUS
  <1>1. json \in [text: Config \cup {Empty}, whole: BOOLEAN] /\ (json.whole => json.text \in Config)
    <2>1. CASE SavedConfigs = {}
      <3>1. json = Truncated(Empty)
        BY <2>1 DEF Init
      <3>2. json \in [text: {Empty}, whole: BOOLEAN] /\ ~ json.whole
        BY <3>1 DEF Truncated
      <3>3. QED BY <3>2
    <2>2. CASE SavedConfigs # {}
      <3>1. PICK c \in Config : json = Whole(c)
        BY <2>2, WireGuardAssumption DEF Init
      <3>2. QED BY <3>1, FileType
    <2>3. QED BY <2>1, <2>2
  <1>2. conf \in [text: ServerConf, whole: BOOLEAN]
    BY BlankType DEF Init, Truncated
  <1>3. config \in Config
    BY FactoryIsConfig DEF Init
  <1>4. QED
    BY <1>1, <1>2, <1>3, BlankType, NoJobFits, WireGuardAssumption
    DEF Init, TypeOK, Points, WritePoints

\* Memory, files, kernel state and the local variables of every handler are
\* well formed in every reachable state, whatever fails and in whatever order
\* the handlers of WireGuard.js interleave.
THEOREM TypeCorrect == Spec => []TypeOK
  <1>1. Init => TypeOK
    BY InitType
  <1>2. TypeOK /\ [Next]_vars => TypeOK'
    <2>1. CASE Next
      BY <2>1, RequestType, StepType, LifeType DEF Next
    <2>2. CASE UNCHANGED vars
      BY <2>2 DEF TypeOK, vars
    <2>3. QED BY <2>1, <2>2
  <1>3. QED BY <1>1, <1>2, PTL DEF Spec
=============================================================================
