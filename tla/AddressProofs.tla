---------------------------- MODULE AddressProofs ----------------------------
(***************************************************************************)
(* While no site peer exists and addresses are spelled as createClient      *)
(* spells them (MCSpelledAddress), no two peers ever claim the same         *)
(* address, neither in the configuration nor on the device, however the     *)
(* requests interleave, whatever fails and whenever the process is killed.  *)
(* With site peers this does not hold: see the run overlap_after_clear and  *)
(* the configuration MCOverlapRace.                                         *)
(*                                                                         *)
(* With site peers it holds for one administrator at a time as long as no   *)
(* site peer is cleared: clearing is the only change without an overlap     *)
(* check, and a second administrator the only way around the others.        *)
(***************************************************************************)
EXTENDS OneAdminProofs

\* Only ordinary clients, each with an address of its own.
PlainConfig(cfg) ==
    /\ \A i \in DOMAIN cfg.clients : cfg.clients[i].allowed = {}
    /\ \A i, j \in DOMAIN cfg.clients :
           i # j => cfg.clients[i].address # cfg.clients[j].address

DisjointPeers(peers) ==
    \A i, j \in DOMAIN peers : i # j => \A x \in peers[i], y \in peers[j] : ~ Overlaps(x, y)

\* The administrators make no site peer, and the volume holds none.
NoSitePeers ==
    /\ "site" \notin Ops
    /\ \A c \in SavedConfigs : PlainConfig(c)

PlainKinds == {"none", "boot", "save", "create", "settings", "regen"}

\* Every copy of the configuration is plain: the memory, the snapshots that
\* are being written, both files, the device.  No rollback restores a client.
AddressInv ==
    /\ PlainConfig(config)
    /\ \A p \in Procs : pc[p] \in WritePoints => PlainConfig(job[p].snap)
    /\ \A p \in Procs : job[p].kind \in PlainKinds
    /\ json.whole => PlainConfig(json.text)
    /\ DisjointPeers(conf.text.peers)
    /\ DisjointPeers(dev.peers)

-----------------------------------------------------------------------------
(* Changes that keep a configuration plain *)

\* A patch of fields other than the address and the site CIDRs keeps both.
LEMMA PatchKeepsClaim ==
    ASSUME NEW c \in Client, NEW patch \in [enabled: BOOLEAN] \cup [label: Labels] \cup {Empty}
    PROVE  /\ Patched(c, patch).allowed = c.allowed
           /\ Patched(c, patch).address = c.address
  BY DEF Patched, Client, Empty

\* A patched address is the new one, and makes no site peer.
LEMMA PatchAddress ==
    ASSUME NEW c \in Client, NEW a \in Addrs, NEW sp \in Spellings
    PROVE  /\ Patched(c, [address |-> a, spelling |-> sp]).allowed = c.allowed
           /\ Patched(c, [address |-> a, spelling |-> sp]).address = a
  BY DEF Patched, Client

\* The server's settings are not part of what peers claim.
LEMMA ServerKeepsPlain ==
    ASSUME NEW cfg \in Config, PlainConfig(cfg), NEW patch
    PROVE  PlainConfig(ChangeServer(cfg, patch))
  BY DEF PlainConfig, ChangeServer

\* Nor is a client's name, `legacy' flag or `enabled' flag.
LEMMA ClientKeepsPlain ==
    ASSUME NEW cfg \in Config, PlainConfig(cfg), NEW id,
           NEW patch \in [enabled: BOOLEAN] \cup [label: Labels] \cup {Empty}
    PROVE  PlainConfig(ChangeClient(cfg, id, patch))
  <1> DEFINE new == ChangeClient(cfg, id, patch)
  <1>1. DOMAIN new.clients = DOMAIN cfg.clients
    BY DEF ChangeClient
  <1>2. \A i \in DOMAIN cfg.clients :
            /\ new.clients[i].allowed = cfg.clients[i].allowed
            /\ new.clients[i].address = cfg.clients[i].address
    BY ConfigParts, PatchKeepsClaim DEF ChangeClient
  <1>3. QED BY <1>1, <1>2 DEF PlainConfig

\* Deleting a client claims nothing.
LEMMA DeleteKeepsPlain ==
    ASSUME NEW cfg \in Config, PlainConfig(cfg), NEW id
    PROVE  PlainConfig(WithoutClient(cfg, id))
  BY DEF PlainConfig, WithoutClient

\* findOverlap on a single address finds every ordinary client that has it.
LEMMA OverlapOfPlain ==
    ASSUME NEW a, NEW c, c.allowed = {}, NEW others, c \in others,
           ~ FindOverlap({{a}}, others)
    PROVE  c.address # a
  BY DEF FindOverlap, EffectiveCidrs, Overlaps

\* updateClientAddress keeps the addresses apart.
LEMMA ReaddressKeepsPlain ==
    ASSUME NEW cfg \in Config, PlainConfig(cfg), NEW id \in DOMAIN cfg.clients,
           NEW a \in Addrs, NEW sp \in Spellings,
           ~ FindOverlap({{a}}, {cfg.clients[i] : i \in DOMAIN cfg.clients \ {id}})
    PROVE  PlainConfig(ChangeClient(cfg, id, [address |-> a, spelling |-> sp]))
  <1> DEFINE new == ChangeClient(cfg, id, [address |-> a, spelling |-> sp])
  <1>1. DOMAIN new.clients = DOMAIN cfg.clients
    BY DEF ChangeClient
  <1>2. \A i \in DOMAIN cfg.clients : cfg.clients[i] \in Client
    BY ConfigParts
  <1>3. \A i \in DOMAIN cfg.clients :
            /\ new.clients[i].allowed = {}
            /\ new.clients[i].address = IF i = id THEN a ELSE cfg.clients[i].address
    BY <1>2, PatchAddress DEF ChangeClient, PlainConfig
  <1>4. \A i \in DOMAIN cfg.clients \ {id} : cfg.clients[i].address # a
    <2> TAKE i \in DOMAIN cfg.clients \ {id}
    <2>1. cfg.clients[i].allowed = {}
      BY DEF PlainConfig
    <2> DEFINE others == {cfg.clients[k] : k \in DOMAIN cfg.clients \ {id}}
    <2>2. cfg.clients[i] \in others /\ ~ FindOverlap({{a}}, others)
      OBVIOUS
    <2> HIDE DEF others
    <2>3. QED BY <2>1, <2>2, OverlapOfPlain
  <1> HIDE DEF new
  <1>5. ASSUME NEW i \in DOMAIN cfg.clients, NEW j \in DOMAIN cfg.clients, i # j
        PROVE  new.clients[i].address # new.clients[j].address
    BY <1>3, <1>4, <1>5 DEF PlainConfig
  <1>6. QED BY <1>1, <1>3, <1>5 DEF PlainConfig, new

\* createClient gives a new client an address nobody has.
LEMMA CreateKeepsPlain ==
    ASSUME PlainAddresses, NEW cfg \in Config, PlainConfig(cfg), NEW id, NEW c,
           c.allowed = {},
           c.address \in FreeAddress({cfg.clients[i] : i \in DOMAIN cfg.clients \ {id}})
    PROVE  PlainConfig(WithClient(cfg, id, c))
  <1> DEFINE new == WithClient(cfg, id, c)
  <1>1. \A i \in DOMAIN cfg.clients \ {id} : cfg.clients[i].address # c.address
    BY ConfigParts DEF FreeAddress, PlainAddresses, Client
  <1>2. /\ DOMAIN new.clients = DOMAIN cfg.clients \cup {id}
        /\ \A i \in DOMAIN cfg.clients \ {id} : new.clients[i] = cfg.clients[i]
        /\ new.clients[id] = c
    BY DEF WithClient
  <1>3. QED BY <1>1, <1>2 DEF PlainConfig

\* A plain configuration renders to a wg0.conf whose peers are disjoint.
LEMMA PlainRenders ==
    ASSUME NEW cfg \in Config, PlainConfig(cfg)
    PROVE  DisjointPeers(RenderServerConf(cfg).peers)
  <1> DEFINE enabled == {j \in DOMAIN cfg.clients : cfg.clients[j].enabled}
             peers == [i \in enabled |-> EffectiveCidrs(cfg.clients[i])]
  <1>1. RenderServerConf(cfg).peers = peers
    BY DEF RenderServerConf, EnabledIds
  <1>2. \A i \in enabled : peers[i] = {{cfg.clients[i].address}}
    BY DEF PlainConfig, EffectiveCidrs
  <1>3. ASSUME NEW i \in enabled, NEW j \in enabled, i # j
        PROVE  \A x \in peers[i], y \in peers[j] : ~ Overlaps(x, y)
    <2>1. cfg.clients[i].address # cfg.clients[j].address
      BY <1>3 DEF PlainConfig
    <2> HIDE DEF peers
    <2>2. QED BY <1>2, <2>1 DEF Overlaps
  <1>4. DOMAIN peers = enabled
    OBVIOUS
  <1> HIDE DEF peers, enabled
  <1>5. QED BY <1>1, <1>3, <1>4 DEF DisjointPeers

\* A configuration of a new server, an empty file, no device.
LEMMA EmptyIsPlain ==
    /\ \A k : PlainConfig(FactoryConfig(k))
    /\ DisjointPeers(BlankConf.peers) /\ DisjointPeers(NoDevice.peers)
  BY DEF PlainConfig, FactoryConfig, DisjointPeers, BlankConf, NoDevice, Empty

-----------------------------------------------------------------------------
(* The steps *)

\* An action that leaves config, the files and the device alone and starts no
\* write keeps every copy.
LEMMA QuietStep ==
    ASSUME TypeOK, AddressInv, UNCHANGED <<config, json, conf, dev>>,
           NEW p \in Procs, NEW l \in Points \ WritePoints, NEW j, j.kind \in PlainKinds,
           pc' = [pc EXCEPT ![p] = l], job' = [job EXCEPT ![p] = j]
    PROVE  AddressInv'
  BY DEF AddressInv, TypeOK

\* A process that returns has no job.
LEMMA FinishPlain ==
    ASSUME TypeOK, AddressInv, NEW p \in Procs, Finish(p), UNCHANGED <<config, json, conf>>,
           DisjointPeers(dev'.peers)
    PROVE  AddressInv'
  BY DEF AddressInv, TypeOK, Finish, Goto, WritePoints, NoJob, PlainKinds

\* When the process is gone, the files are what is left.
LEMMA ExitPlain ==
    ASSUME TypeOK, AddressInv, ExitNode
    PROVE  AddressInv'
  BY EmptyIsPlain DEF AddressInv, ExitNode, memory, disk, WritePoints, NoJob, PlainKinds

\* A failed call starts nothing.
LEMMA ThrowPlain ==
    ASSUME TypeOK, AddressInv, NEW p \in Procs, Throw(p)
    PROVE  AddressInv'
  <1>1. CASE p = Boot
    BY <1>1, ExitPlain DEF Throw
  <1>2. CASE p # Boot
    BY <1>2, FinishPlain DEF Throw, memory, disk, kernel, AddressInv
  <1>3. QED BY <1>1, <1>2

\* Saving a plain configuration takes a plain snapshot.
LEMMA SavePlain ==
    ASSUME TypeOK, AddressInv, NEW p \in Procs, NEW j \in JobRecord, j.kind \in PlainKinds,
           NEW cfg, PlainConfig(cfg), NEW und, NEW after,
           Save(p, j, cfg, und, after), UNCHANGED <<disk, kernel>>
    PROVE  AddressInv'
  <1> DEFINE k == [j EXCEPT !.snap = cfg, !.after = after]
  <1>1. k.kind \in PlainKinds /\ k.snap = cfg
    BY DEF JobRecord
  <1> HIDE DEF k
  <1>2. config' = cfg /\ UNCHANGED <<json, conf, dev>>
    BY DEF Save, disk, kernel
  <1>3. CASE und = {}
    <2>1. pc' = [pc EXCEPT ![p] = "openJson"] /\ job' = [job EXCEPT ![p] = k]
      BY <1>3 DEF Save, Goto, k
    <2>2. QED BY <1>1, <1>2, <2>1 DEF AddressInv, TypeOK
  <1>4. CASE und # {}
    <2>1. Finish(p)
      BY <1>4 DEF Save
    <2>2. QED
      BY <1>2, <2>1 DEF AddressInv, TypeOK, Finish, Goto, WritePoints, NoJob, PlainKinds
  <1>5. QED BY <1>3, <1>4

\* No enabled, disabled or deleted client is a site peer, so these requests
\* are saved and synced at once; the settings and the key pair bounce.
LEMMA RequestPlain ==
    ASSUME TypeOK, AddressInv, NoSitePeers, NEW r \in Reqs, Request(r)
    PROVE  AddressInv'
  <1>0. /\ r \in Procs /\ config \in Config /\ PlainConfig(config)
        /\ \A id \in Ids : config.clients[id] \in Client /\ ~ IsSitePeer(config.clients[id])
    BY ConfigParts DEF Procs, TypeOK, AddressInv, PlainConfig, IsSitePeer, Ids
  <1>1. ASSUME NEW j, PlainConfig(Mutated(config, j)), SaveAndSync(r, j)
        PROVE  AddressInv'
    BY <1>0, <1>1, SavedJob, SavePlain DEF SaveAndSync, Job, NoJob, PlainKinds
  <1>2. ASSUME NEW kind \in PlainKinds, NEW id, NEW patch, NEW undo, NEW l \in {"keys", "down"},
               Begin(r, Job(kind, id, patch, undo), l)
        PROVE  AddressInv'
    <2>1. Job(kind, id, patch, undo).kind \in PlainKinds /\ l \in Points \ WritePoints
      BY DEF Job, NoJob, Points, WritePoints
    <2>2. QED BY <1>0, <1>2, <2>1, QuietStep DEF Begin, Goto, memory, disk, kernel
  <1>3. CASE RegenerateKeypair(r)
    BY <1>2, <1>3 DEF RegenerateKeypair, PlainKinds
  <1>4. ASSUME NEW patch \in SettingsPatch, UpdateServerSettings(r, patch)
        PROVE  AddressInv'
    <2> DEFINE j == Job("settings", NoId, patch, config.server)
    <2>1. Mutated(config, j) = ChangeServer(config, patch)
      BY DEF Mutated, Job, NoJob
    <2>2. PlainConfig(Mutated(config, j))
      BY <1>0, <2>1, ServerKeepsPlain
    <2>3. Begin(r, j, "down") \/ SaveAndSync(r, j)
      BY <1>4 DEF UpdateServerSettings
    <2> HIDE DEF j
    <2>4. CASE SaveAndSync(r, j)
      BY <1>1, <2>2, <2>4
    <2>5. CASE Begin(r, j, "down")
      BY <1>2, <2>5 DEF j, PlainKinds
    <2>6. QED BY <2>3, <2>4, <2>5
  <1>5. ASSUME NEW id, CreateClient(r, id)
        PROVE  AddressInv'
    BY <1>2, <1>5 DEF CreateClient, PlainKinds
  <1>6. ASSUME NEW id, NEW b \in BOOLEAN, SetEnabled(r, id, b)
        PROVE  AddressInv'
    <2> DEFINE j == Job("enabled", id, [enabled |-> b], [enabled |-> b])
    <2>1. Mutated(config, j) = ChangeClient(config, id, [enabled |-> b])
      BY DEF Mutated, Job, NoJob
    <2>2. PlainConfig(Mutated(config, j))
      BY <1>0, <2>1, ClientKeepsPlain
    <2>3. SaveAndSync(r, j)
      BY <1>0, <1>6 DEF SetEnabled
    <2> HIDE DEF j
    <2>4. QED BY <1>1, <2>2, <2>3
  <1>7. ASSUME NEW id, DeleteClient(r, id)
        PROVE  AddressInv'
    <2> DEFINE j == Job("delete", id, Empty, Empty)
    <2>1. Mutated(config, j) = WithoutClient(config, id)
      BY DEF Mutated, Job, NoJob
    <2>2. PlainConfig(Mutated(config, j))
      BY <1>0, <2>1, DeleteKeepsPlain
    <2>3. SaveAndSync(r, j)
      BY <1>0, <1>7 DEF DeleteClient
    <2> HIDE DEF j
    <2>4. QED BY <1>1, <2>2, <2>3
  <1>8. ASSUME NEW id, NEW l \in Labels, RenameClient(r, id, l)
        PROVE  AddressInv'
    <2> DEFINE j == Job("edit", id, [label |-> l], Empty)
    <2>1. Mutated(config, j) = ChangeClient(config, id, [label |-> l])
      BY DEF Mutated, Job, NoJob
    <2>2. PlainConfig(Mutated(config, j))
      BY <1>0, <2>1, ClientKeepsPlain
    <2>3. SaveAndSync(r, j)
      BY <1>8 DEF RenameClient
    <2> HIDE DEF j
    <2>4. QED BY <1>1, <2>2, <2>3
  <1>9. ASSUME NEW id, NEW a \in Addrs, NEW sp \in Spellings, UpdateClientAddress(r, id, a, sp)
        PROVE  AddressInv'
    <2> DEFINE j == Job("edit", id, [address |-> a, spelling |-> sp], Empty)
    <2>1. Mutated(config, j) = ChangeClient(config, id, [address |-> a, spelling |-> sp])
      BY DEF Mutated, Job, NoJob
    <2>2. PlainConfig(Mutated(config, j))
      BY <1>0, <1>9, <2>1, ReaddressKeepsPlain DEF UpdateClientAddress, OtherClients, Ids
    <2>3. SaveAndSync(r, j)
      BY <1>9 DEF UpdateClientAddress
    <2> HIDE DEF j
    <2>4. QED BY <1>1, <2>2, <2>3
  <1>10. \A id, allowed, masq : ~ SetClientSitePeer(r, id, allowed, masq)
    BY DEF SetClientSitePeer, Accepting, NoSitePeers
  <1>11. QED
    BY <1>3, <1>4, <1>5, <1>6, <1>7, <1>8, <1>9, <1>10
    DEF Request, EnableClient, DisableClient

\* The calls that load the device take wg0.conf as it is.
LEMMA DevicePlain ==
    ASSUME TypeOK, AddressInv, NEW p \in Procs,
           Down(p) \/ DownFails(p) \/ DownFailsInHook(p) \/ Sync(p) \/ Up(p)
    PROVE  AddressInv'
  <1>0. job[p].kind \in PlainKinds /\ job' = job => job' = [job EXCEPT ![p] = job[p]]
    BY DEF TypeOK
  <1>1. CASE Down(p) \/ DownFails(p) \/ DownFailsInHook(p)
    <2>1. AfterDown(p) \in Points \ WritePoints
      BY DEF AfterDown, Points, WritePoints
    <2>2. /\ UNCHANGED <<config, json, conf, job>>
          /\ pc' = [pc EXCEPT ![p] = AfterDown(p)]
          /\ dev' = NoDevice \/ dev' = dev
      BY <1>1 DEF Down, DownFails, DownFailsInHook, Goto, memory, disk, kernel
    <2>3. DisjointPeers(dev'.peers)
      BY <2>2, EmptyIsPlain DEF AddressInv
    <2>4. QED BY <2>1, <2>2, <2>3 DEF AddressInv, TypeOK
  <1>2. CASE Sync(p)
    <2>1. dev'.peers = conf.text.peers
      BY <1>2 DEF Sync
    <2>2. QED BY <1>2, <2>1, FinishPlain DEF Sync, memory, disk, AddressInv
  <1>3. CASE Up(p)
    <2>1. DisjointPeers(dev'.peers)
      BY <1>3 DEF Up, Device, AddressInv
    <2>2. CASE p = Boot
      <3>1. /\ UNCHANGED <<config, json, conf, job>>
            /\ pc' = [pc EXCEPT ![p] = "sync"]
        BY <1>3, <2>2 DEF Up, Goto, memory, disk
      <3>2. QED BY <2>1, <3>1 DEF AddressInv, TypeOK, WritePoints
    <2>3. CASE p # Boot
      BY <1>3, <2>1, <2>3, FinishPlain DEF Up, memory, disk
    <2>4. QED BY <2>2, <2>3
  <1>4. QED BY <1>1, <1>2, <1>3

\* The writes copy the snapshot into the files, or leave a file cut short.
LEMMA WritePlain ==
    ASSUME TypeOK, AddressInv, NEW p \in Procs,
           OpenJson(p) \/ WriteJson(p) \/ OpenConf(p) \/ WriteConf(p)
    PROVE  AddressInv'
  <1>1. UNCHANGED <<config, dev, job>>
    BY DEF OpenJson, WriteJson, OpenConf, WriteConf, memory, kernel
  <1>2. CASE OpenJson(p)
    BY <1>1, <1>2 DEF OpenJson, Goto, Truncated, AddressInv, TypeOK, WritePoints
  <1>3. CASE WriteJson(p)
    <2>1. PlainConfig(job[p].snap)
      BY <1>3 DEF WriteJson, AddressInv, WritePoints
    <2>2. json'.text = job[p].snap
      BY <1>3, FileType DEF WriteJson
    <2>3. QED
      BY <1>1, <1>3, <2>1, <2>2 DEF WriteJson, Goto, AddressInv, TypeOK, WritePoints
  <1>4. CASE OpenConf(p)
    <2>1. conf'.text = BlankConf
      BY <1>4, FileType DEF OpenConf
    <2>2. QED
      BY <1>1, <1>4, <2>1, EmptyIsPlain
      DEF OpenConf, Goto, AddressInv, TypeOK, WritePoints
  <1>5. CASE WriteConf(p)
    <2>1. PlainConfig(job[p].snap) /\ job[p].snap \in Config
      BY <1>5 DEF WriteConf, AddressInv, TypeOK, WritePoints
    <2>2. conf'.text = RenderServerConf(job[p].snap)
      BY <1>5, FileType DEF WriteConf
    <2>3. DisjointPeers(conf'.text.peers)
      BY <2>1, <2>2, PlainRenders
    <2>4. job[p].after \notin WritePoints
      BY DEF TypeOK, JobRecord, WritePoints
    <2>5. QED
      BY <1>1, <1>5, <2>3, <2>4 DEF WriteConf, Goto, AddressInv, TypeOK
  <1>6. QED BY <1>2, <1>3, <1>4, <1>5

\* The synchronous parts: a client is only ever added with a free address, and
\* no rollback touches a client.
LEMMA ContinuePlain ==
    ASSUME PlainAddresses, TypeOK, AddressInv, NEW p \in Procs,
           \/ InsertClient(p) \/ CreateRefused(p) \/ RegenKeys(p) \/ KeysFail(p)
           \/ Mutate(p) \/ Rollback(p)
    PROVE  AddressInv'
  <1>0. /\ config \in Config /\ PlainConfig(config)
        /\ job[p] \in JobRecord /\ JobFits(job[p]) /\ job[p].kind \in PlainKinds
    BY DEF TypeOK, AddressInv
  <1>1. CASE InsertClient(p)
    <2> DEFINE new(a, l) == [address |-> a, spelling |-> "plain", allowed |-> {},
                             masq |-> FALSE, enabled |-> TRUE, label |-> l]
    <2>1. PICK a \in FreeAddress({config.clients[i] : i \in Ids}), l \in Labels :
              Save(p, Job("save", NoId, Empty, Empty),
                   WithClient(config, job[p].id, new(a, l)), {}, "sync")
      BY <1>1 DEF InsertClient
    <2>2. a \in FreeAddress({config.clients[i] : i \in DOMAIN config.clients \ {job[p].id}})
      BY <2>1 DEF FreeAddress, FindOverlap, Ids
    <2>3. new(a, l).allowed = {} /\ new(a, l).address = a
      OBVIOUS
    <2> HIDE DEF new
    <2>4. PlainConfig(WithClient(config, job[p].id, new(a, l)))
      BY <1>0, <2>2, <2>3, CreateKeepsPlain
    <2>5. Job("save", NoId, Empty, Empty).kind \in PlainKinds
      BY DEF Job, NoJob, PlainKinds
    <2>6. UNCHANGED <<disk, kernel>>
      BY <1>1 DEF InsertClient
    <2>7. QED BY <2>1, <2>4, <2>5, <2>6, SavedJob, SavePlain
  <1>2. CASE CreateRefused(p) \/ KeysFail(p)
    BY <1>2, FinishPlain DEF CreateRefused, KeysFail, memory, disk, kernel, AddressInv
  <1>3. CASE RegenKeys(p)
    <2>1. PICK k : job' = [job EXCEPT ![p].patch = [key |-> k]]
      BY <1>3 DEF RegenKeys
    <2> DEFINE j == [job[p] EXCEPT !.patch = [key |-> k]]
    <2>2. job' = [job EXCEPT ![p] = j] /\ j.kind \in PlainKinds
      BY <1>0, <2>1 DEF TypeOK, JobRecord
    <2> HIDE DEF j
    <2>3. "down" \in Points \ WritePoints
      BY DEF Points, WritePoints
    <2>4. QED BY <1>3, <2>2, <2>3, QuietStep DEF RegenKeys, Goto, memory, disk, kernel
  <1>4. CASE Mutate(p)
    <2> DEFINE j == [job[p] EXCEPT !.undo = Captured(config, job[p]), !.patch = Empty]
    <2>1. j \in JobRecord /\ j.kind \in PlainKinds
      BY <1>0, CapturedJob DEF JobRecord
    <2>2. PlainConfig(Mutated(config, job[p]))
      <3>1. CASE job[p].kind \in {"settings", "regen"}
        BY <1>0, <3>1, ServerKeepsPlain DEF Mutated
      <3>2. CASE job[p].kind \notin {"settings", "regen"}
        BY <1>0, <3>2, ClientKeepsPlain DEF Mutated, JobFits, PlainKinds
      <3>3. QED BY <3>1, <3>2
    <2> HIDE DEF j
    <2>3. Save(p, j, Mutated(config, job[p]), undef \ {job[p].id}, "up")
          /\ UNCHANGED <<disk, kernel>>
      BY <1>4 DEF Mutate, j
    <2>4. QED BY <2>1, <2>2, <2>3, SavePlain
  <1>5. CASE Rollback(p)
    <2>1. PlainConfig(RolledBack(config, job[p]))
      <3>1. CASE job[p].kind \in {"settings", "regen"}
        BY <1>0, <3>1, ServerKeepsPlain DEF RolledBack, RestoresNothing
      <3>2. CASE job[p].kind \notin {"settings", "regen"}
        BY <1>0, <3>2, ClientKeepsPlain DEF RolledBack, RestoresNothing, JobFits, PlainKinds
      <3>3. QED BY <3>1, <3>2
    <2>2. QED BY <1>0, <1>5, <2>1, SavePlain DEF Rollback
  <1>6. QED BY <1>1, <1>2, <1>3, <1>4, <1>5

\* A rejected `up' copies nothing.
LEMMA RejectedPlain ==
    ASSUME TypeOK, AddressInv, NEW p \in Procs, NEW rs, UpRejected(p, rs)
    PROVE  AddressInv'
  <1>1. CASE p = Boot
    BY <1>1, ExitPlain DEF UpRejected
  <1>2. CASE p # Boot /\ pc[p] = "up"
    <2>1. "rollback" \notin WritePoints
      BY DEF WritePoints
    <2>2. QED BY <1>2, <2>1 DEF UpRejected, Goto, AddressInv, TypeOK, memory, disk
  <1>3. CASE p # Boot /\ pc[p] # "up"
    BY <1>3, FinishPlain DEF UpRejected, memory, disk, AddressInv
  <1>4. QED BY <1>1, <1>2, <1>3

\* Every step of a process.
LEMMA StepPlain ==
    ASSUME PlainAddresses, TypeOK, AddressInv, NEW p \in Procs, Step(p)
    PROVE  AddressInv'
  <1>1. CASE WriteFails(p) \/ SyncFails(p)
    BY <1>1, ThrowPlain DEF WriteFails, SyncFails
  <1>2. CASE UpFails(p) \/ UpFailsInHook(p)
    BY <1>2, RejectedPlain DEF UpFails, UpFailsInHook
  <1>3. QED BY <1>1, <1>2, WritePlain, DevicePlain, ContinuePlain DEF Step

\* The boot reads wg0.json as it is or makes a server without clients.
LEMMA LifePlain ==
    ASSUME TypeOK, AddressInv, StartNode \/ Load \/ Sigterm \/ Shutdown \/ Crash
    PROVE  AddressInv'
  <1>0. Boot \in Procs /\ Sig \in Procs
    BY DEF Procs
  <1>1. CASE StartNode \/ Sigterm
    BY <1>0, <1>1 DEF StartNode, Sigterm, AddressInv, TypeOK, Goto, memory, disk, kernel, WritePoints
  <1>2. CASE Load
    <2>1. PICK cfg : PlainConfig(cfg) /\ Save(Boot, Job("boot", NoId, Empty, Empty), cfg, {}, "down")
      BY <1>2, EmptyIsPlain DEF Load, AddressInv
    <2>2. Job("boot", NoId, Empty, Empty).kind \in PlainKinds
      BY DEF Job, NoJob, PlainKinds
    <2>3. QED BY <1>0, <1>2, <2>1, <2>2, SavedJob, SavePlain DEF Load
  <1>3. CASE Shutdown \/ Crash
    BY <1>3, ExitPlain DEF Shutdown, Crash
  <1>4. QED BY <1>1, <1>2, <1>3

-----------------------------------------------------------------------------
(* The theorems *)

\* AddressInv is inductive together with the types.
LEMMA AddressInduction ==
    NoSitePeers /\ PlainAddresses /\ Spec => [](TypeOK /\ AddressInv)
  <1> SUFFICES ASSUME NoSitePeers, PlainAddresses PROVE Spec => [](TypeOK /\ AddressInv)
    OBVIOUS
  <1>1. Init => TypeOK /\ AddressInv
    <2> SUFFICES ASSUME Init PROVE AddressInv
      BY InitType
    <2>1. json.whole => PlainConfig(json.text)
      BY DEF Init, NoSitePeers, Whole, Truncated
    <2>2. QED
      BY <2>1, EmptyIsPlain DEF Init, AddressInv, Truncated, NoJob, WritePoints, PlainKinds
  <1>2. TypeOK /\ AddressInv /\ [Next]_vars => (TypeOK /\ AddressInv)'
    <2> SUFFICES ASSUME TypeOK, AddressInv, [Next]_vars PROVE TypeOK' /\ AddressInv'
      OBVIOUS
    <2>1. CASE Next
      <3>1. TypeOK'
        BY <2>1, RequestType, StepType, LifeType DEF Next
      <3>2. AddressInv'
        BY <2>1, RequestPlain, StepPlain, LifePlain DEF Next
      <3>3. QED BY <3>1, <3>2
    <2>2. CASE UNCHANGED vars
      BY <2>2 DEF TypeOK, AddressInv, vars
    <2>3. QED BY <2>1, <2>2
  <1>3. QED BY <1>1, <1>2, PTL DEF Spec

\* Without site peers no two clients of the configuration overlap: the checks
\* of createClient and updateClientAddress suffice, in every interleaving.
THEOREM AddressesDisjoint == NoSitePeers /\ PlainAddresses /\ Spec => []NoOverlap
  <1>1. PlainConfig(config) => NoOverlap
    BY DEF PlainConfig, NoOverlap, Ids, FindOverlap, EffectiveCidrs, Overlaps
  <1>2. AddressInv => NoOverlap
    BY <1>1 DEF AddressInv
  <1>3. QED BY <1>2, AddressInduction, PTL

\* Nor do any two peers of the device, whichever wg0.conf it was loaded from.
THEOREM DeviceAddressesDisjoint ==
    NoSitePeers /\ PlainAddresses /\ Spec => []DeviceNoOverlap
  <1>1. AddressInv => DeviceNoOverlap
    BY DEF AddressInv, DisjointPeers, DeviceNoOverlap
  <1>2. QED BY <1>1, AddressInduction, PTL

-----------------------------------------------------------------------------
(* Site peers, and one administrator who clears none *)

\* What the two clients are given has no address in common.
Apart(c, d) == \A x \in EffectiveCidrs(c), y \in EffectiveCidrs(d) : ~ Overlaps(x, y)

Disjoint(cfg) ==
    \A i, j \in DOMAIN cfg.clients : i # j => Apart(cfg.clients[i], cfg.clients[j])

\* The volume holds no overlap to begin with.
SavedDisjoint == \A c \in SavedConfigs : Disjoint(c)

\* A site peer's list is emptied, which is not checked (finding 1).
ClearsSite ==
    \E r \in Reqs, id \in ClientIds, masq \in BOOLEAN :
        /\ SetClientSitePeer(r, id, {}, masq)
        /\ IsSitePeer(config.clients[id])

\* No site peer becomes an ordinary client.
KeepsSites(old, new) ==
    \A i \in DOMAIN old.clients \cap DOMAIN new.clients :
        new.clients[i].allowed = {} => old.clients[i].allowed = {}

\* A site peer that is about to be changed keeps a list.
SiteJob(cfg, l, j) ==
    l \in {"down", "mutate"} /\ j.kind = "site" /\ j.patch.allowed = {}
        => cfg.clients[j.id].allowed = {}

\* Every copy of the configuration is disjoint, the one that a rollback would
\* bring back included.
SiteInv ==
    /\ Disjoint(config)
    /\ \A r \in Reqs : /\ Disjoint(Kept(config, pc[r], job[r]))
                       /\ SiteJob(config, pc[r], job[r])
    /\ json.whole => Disjoint(json.text)
    /\ DisjointPeers(conf.text.peers)
    /\ DisjointPeers(dev.peers)

LEMMA ApartSymmetric == \A c, d : Apart(c, d) => Apart(d, c)
  BY DEF Apart, Overlaps

\* What the checks of the handlers say.
LEMMA CheckedApart ==
    ASSUME NEW c, NEW others, NEW d \in others, ~ FindOverlap(EffectiveCidrs(c), others)
    PROVE  Apart(c, d)
  BY DEF Apart, FindOverlap

\* A configuration that differs in one client, which is apart from the others.
LEMMA OneChanged ==
    ASSUME NEW old, Disjoint(old), NEW new, NEW id,
           \A i \in DOMAIN new.clients \ {id} :
               /\ i \in DOMAIN old.clients
               /\ new.clients[i] = old.clients[i]
               /\ id \in DOMAIN new.clients => Apart(new.clients[id], old.clients[i])
    PROVE  Disjoint(new)
  BY ApartSymmetric DEF Disjoint

\* An edited client is apart from the others.
LEMMA EditedApart ==
    ASSUME NEW old \in Client, NEW new, NEW others, Edited(others, old, new),
           new.allowed = {} => old.allowed = {},
           NEW d \in others, Apart(old, d)
    PROVE  Apart(new, d)
  <1>1. CASE \/ \E b \in BOOLEAN : new = [old EXCEPT !.enabled = b]
             \/ \E l \in Labels : new = [old EXCEPT !.label = l]
    <2>1. new.allowed = old.allowed /\ new.address = old.address
      BY <1>1 DEF Client
    <2>2. QED BY <2>1 DEF Apart, EffectiveCidrs
  <1>2. ASSUME NEW a \in Addrs, NEW sp \in Spellings, ~ FindOverlap({{a}}, others),
               new = [old EXCEPT !.address = a, !.spelling = sp]
        PROVE  Apart(new, d)
    <2>1. new.allowed = old.allowed /\ new.address = a
      BY <1>2 DEF Client
    <2>2. CASE old.allowed # {}
      BY <2>1, <2>2 DEF Apart, EffectiveCidrs
    <2>3. CASE old.allowed = {}
      <3>1. EffectiveCidrs(new) = {{a}}
        BY <2>1, <2>3 DEF EffectiveCidrs
      <3>2. QED BY <1>2, <3>1, CheckedApart
    <2>4. QED BY <2>2, <2>3
  <1>3. ASSUME NEW allowed \in SUBSET Cidrs, NEW masq \in BOOLEAN,
               ~ FindOverlap(allowed, others),
               new = [old EXCEPT !.allowed = allowed, !.masq = masq]
        PROVE  Apart(new, d)
    <2>1. new.allowed = allowed /\ new.address = old.address
      BY <1>3 DEF Client
    <2>2. CASE allowed = {}
      BY <2>1, <2>2 DEF Apart, EffectiveCidrs
    <2>3. CASE allowed # {}
      <3>1. EffectiveCidrs(new) = allowed
        BY <2>1, <2>3 DEF EffectiveCidrs
      <3>2. QED BY <1>3, <3>1, CheckedApart
    <2>4. QED BY <2>2, <2>3
  <1>4. QED BY <1>1, <1>2, <1>3 DEF Edited

\* An address that createClient finds free is apart from every client.
LEMMA FreeApart ==
    ASSUME PlainAddresses, NEW clients, \A c \in clients : c \in Client,
           NEW new, new.address \in FreeAddress(clients), new.allowed = {},
           NEW d \in clients
    PROVE  Apart(new, d)
  <1>1. EffectiveCidrs(new) = {{new.address}}
    BY DEF EffectiveCidrs
  <1>2. ~ FindOverlap(EffectiveCidrs(new), clients)
    BY <1>1, FreeIsApart
  <1>3. QED BY <1>2, CheckedApart

\* One whole operation keeps the clients apart.
LEMMA ChangeKeepsApart ==
    ASSUME PlainAddresses, NEW old \in Config, NEW new \in Config, Disjoint(old),
           Changes(old, new), KeepsSites(old, new)
    PROVE  Disjoint(new)
  <1>1. CASE new.clients = old.clients
    BY <1>1 DEF Disjoint
  <1>2. CASE new.clients # old.clients
    <2>1. PICK id \in ClientIds :
            LET others == {old.clients[i] : i \in DOMAIN old.clients \ {id}} IN
            /\ \/ /\ id \notin DOMAIN old.clients
                  /\ DOMAIN new.clients = DOMAIN old.clients \cup {id}
                  /\ new.clients[id].address \in
                         FreeAddress({old.clients[i] : i \in DOMAIN old.clients})
                  /\ new.clients[id].allowed = {}
               \/ /\ id \in DOMAIN old.clients
                  /\ DOMAIN new.clients = DOMAIN old.clients \ {id}
               \/ /\ id \in DOMAIN old.clients
                  /\ DOMAIN new.clients = DOMAIN old.clients
                  /\ Edited(others, old.clients[id], new.clients[id])
            /\ \A i \in DOMAIN old.clients \ {id} : new.clients[i] = old.clients[i]
      BY <1>2 DEF Changes
    <2> DEFINE others == {old.clients[i] : i \in DOMAIN old.clients \ {id}}
               all == {old.clients[i] : i \in DOMAIN old.clients}
    <2>2. \A i \in DOMAIN old.clients \ {id} : old.clients[i] \in others
      OBVIOUS
    <2>3. /\ \A i \in DOMAIN old.clients : old.clients[i] \in all
          /\ \A c \in all : c \in Client
      BY ConfigParts
    <2>4. CASE /\ id \notin DOMAIN old.clients
               /\ DOMAIN new.clients = DOMAIN old.clients \cup {id}
               /\ new.clients[id].address \in FreeAddress(all)
               /\ new.clients[id].allowed = {}
      <3> HIDE DEF all
      <3>1. \A i \in DOMAIN old.clients : Apart(new.clients[id], old.clients[i])
        BY <2>3, <2>4, FreeApart
      <3>2. QED BY <2>1, <2>4, <3>1, OneChanged
    <2>5. CASE DOMAIN new.clients = DOMAIN old.clients \ {id}
      BY <2>1, <2>5, OneChanged
    <2>6. CASE /\ id \in DOMAIN old.clients
               /\ DOMAIN new.clients = DOMAIN old.clients
               /\ Edited(others, old.clients[id], new.clients[id])
      <3> HIDE DEF others
      <3>1. /\ old.clients[id] \in Client
            /\ new.clients[id].allowed = {} => old.clients[id].allowed = {}
        BY <2>6, ConfigParts DEF KeepsSites
      <3>2. ASSUME NEW i \in DOMAIN old.clients \ {id}
            PROVE  Apart(new.clients[id], old.clients[i])
        <4>1. Apart(old.clients[id], old.clients[i])
          BY <2>6, <3>2 DEF Disjoint
        <4>2. QED BY <2>2, <2>6, <3>1, <4>1, EditedApart
      <3>3. QED BY <2>1, <2>6, <3>2, OneChanged
    <2>7. QED BY <2>1, <2>4, <2>5, <2>6
  <1>3. QED BY <1>1, <1>2

\* wg0.conf gives the enabled clients what the configuration gives them.
LEMMA DisjointRenders ==
    ASSUME NEW cfg \in Config, Disjoint(cfg)
    PROVE  DisjointPeers(RenderServerConf(cfg).peers)
  <1> DEFINE enabled == {j \in DOMAIN cfg.clients : cfg.clients[j].enabled}
             peers == [i \in enabled |-> EffectiveCidrs(cfg.clients[i])]
  <1>1. RenderServerConf(cfg).peers = peers
    BY DEF RenderServerConf, EnabledIds
  <1>2. ASSUME NEW i \in enabled, NEW j \in enabled, i # j
        PROVE  \A x \in peers[i], y \in peers[j] : ~ Overlaps(x, y)
    BY <1>2 DEF Disjoint, Apart
  <1>3. DOMAIN peers = enabled
    OBVIOUS
  <1> HIDE DEF peers, enabled
  <1>4. QED BY <1>1, <1>2, <1>3 DEF DisjointPeers

LEMMA EmptyIsDisjoint == \A k : Disjoint(FactoryConfig(k))
  BY DEF Disjoint, FactoryConfig, Empty

\* Where the copies of the configuration come from: each write takes the
\* snapshot of its save, and the device is loaded from wg0.conf.
LEMMA Copies ==
    ASSUME TypeOK, NEW p \in Procs, Step(p)
    PROVE  /\ \/ json' = json \/ ~ json'.whole
              \/ pc[p] = "writeJson" /\ json'.text = job[p].snap
           /\ \/ conf' = conf \/ conf'.text = BlankConf
              \/ pc[p] = "writeConf" /\ conf'.text = RenderServerConf(job[p].snap)
           /\ \/ dev' = dev \/ dev' = NoDevice \/ dev'.peers = conf.text.peers
  <1>1. CASE OpenJson(p) \/ WriteJson(p) \/ OpenConf(p) \/ WriteConf(p)
    BY <1>1 DEF OpenJson, WriteJson, OpenConf, WriteConf, kernel, Whole, Truncated
  <1>2. CASE Down(p) \/ DownFails(p) \/ DownFailsInHook(p) \/ Sync(p) \/ Up(p)
    BY <1>2 DEF Down, DownFails, DownFailsInHook, Sync, Up, Device, disk, kernel
  <1>3. CASE InsertClient(p) \/ CreateRefused(p) \/ RegenKeys(p) \/ KeysFail(p)
             \/ Mutate(p) \/ Rollback(p)
    BY <1>3 DEF InsertClient, CreateRefused, RegenKeys, KeysFail, Mutate, Rollback, disk, kernel
  <1>4. CASE WriteFails(p) \/ SyncFails(p) \/ UpFails(p) \/ UpFailsInHook(p)
    <2>1. \A rs : UpRejected(p, rs) => UNCHANGED disk /\ (dev' = dev \/ dev' = NoDevice)
      BY DEF UpRejected, ExitNode, disk
    <2>2. Throw(p) => UNCHANGED disk /\ (dev' = dev \/ dev' = NoDevice)
      BY DEF Throw, ExitNode, kernel
    <2>3. QED BY <1>4, <2>1, <2>2 DEF WriteFails, SyncFails, UpFails, UpFailsInHook, disk
  <1>5. QED BY <1>1, <1>2, <1>3, <1>4 DEF Step

\* What is written is the memory, so every copy stays disjoint.
LEMMA CopiesDisjoint ==
    ASSUME TypeOK, OneInv, SiteInv, NEW p \in Procs \ {Sig}, Step(p)
    PROVE  /\ json'.whole => Disjoint(json'.text)
           /\ DisjointPeers(conf'.text.peers) /\ DisjointPeers(dev'.peers)
  <1>1. pc[p] \in WritePoints => job[p].snap = config
    BY DEF OneInv, RequestOK, BootOK, Procs
  <1>2. config \in Config /\ Disjoint(config)
    BY DEF TypeOK, SiteInv
  <1>3. json'.whole => Disjoint(json'.text)
    BY <1>1, <1>2, Copies DEF WritePoints, SiteInv
  <1>4. DisjointPeers(conf'.text.peers)
    BY <1>1, <1>2, Copies, DisjointRenders, EmptyIsPlain DEF WritePoints, SiteInv
  <1>5. DisjointPeers(dev'.peers)
    BY Copies, EmptyIsPlain DEF SiteInv
  <1>6. QED BY <1>3, <1>4, <1>5

\* A change that no bounce is needed for, or that a bounce makes.
LEMMA MutateKeepsSites ==
    ASSUME TypeOK, OneInv, SiteInv, NEW r \in Reqs, Mutate(r)
    PROVE  KeepsSites(config, config')
  <1> DEFINE j == job[r]
  <1>0. /\ config \in Config /\ j \in JobRecord /\ JobFits(j) /\ pc[r] = "mutate"
        /\ Planned(config, j) /\ SiteJob(config, pc[r], j)
    BY DEF TypeOK, OneInv, SiteInv, RequestOK, Mutate, Procs
  <1>1. config' = Mutated(config, j)
    BY DEF Mutate, Save
  <1>2. CASE j.kind = "enabled"
    <2>1. /\ j.id \in DOMAIN config.clients /\ j.patch \in [enabled: BOOLEAN]
          /\ config' = ChangeClient(config, j.id, j.patch)
      BY <1>0, <1>1, <1>2 DEF Planned, Mutated
    <2>2. Patched(config.clients[j.id], j.patch).allowed = config.clients[j.id].allowed
      BY <1>0, <2>1, ConfigParts, PatchKeepsClaim
    <2>3. QED BY <2>1, <2>2 DEF KeepsSites, ChangeClient
  <1>3. CASE j.kind = "site"
    <2>1. /\ j.id \in DOMAIN config.clients
          /\ j.patch \in [allowed: SUBSET Cidrs, masq: BOOLEAN]
          /\ config' = ChangeClient(config, j.id, j.patch)
          /\ j.patch.allowed = {} => config.clients[j.id].allowed = {}
      BY <1>0, <1>1, <1>3 DEF Planned, Mutated, SiteJob
    <2>2. Patched(config.clients[j.id], j.patch).allowed = j.patch.allowed
      <3>1. config.clients[j.id] \in Client
        BY <1>0, <2>1, ConfigParts
      <3>2. "allowed" \in DOMAIN config.clients[j.id] /\ "allowed" \in DOMAIN j.patch
        BY <2>1, <3>1 DEF Client
      <3>3. QED BY <3>2 DEF Patched
    <2>3. QED BY <2>1, <2>2 DEF KeepsSites, ChangeClient
  <1>4. CASE j.kind = "delete"
    BY <1>1, <1>4 DEF Mutated, WithoutClient, KeepsSites
  <1>5. CASE j.kind \in {"settings", "regen"}
    BY <1>1, <1>5 DEF Mutated, ChangeServer, KeepsSites
  <1>6. QED BY <1>0, <1>2, <1>3, <1>4, <1>5 DEF Planned

\* The memory of the request: what it says, and what a rollback would say.
LEMMA RequestMemory ==
    ASSUME PlainAddresses, TypeOK, TypeOK', OneInv, SiteInv, NEW r \in Reqs, Request(r) \/ Step(r)
    PROVE  Disjoint(config') /\ Disjoint(Kept(config', pc'[r], job'[r]))
  <1>0. /\ r \in Procs /\ r # Boot /\ config \in Config /\ config' \in Config
        /\ RequestOK(config, pc[r], job[r])
        /\ Disjoint(config) /\ Disjoint(Kept(config, pc[r], job[r]))
    BY WireGuardAssumption DEF Procs, TypeOK, OneInv, SiteInv
  <1>1. CASE SavesQuietly(r)
    <2>1. /\ Changes(config, config') /\ SameTunnel(config, config')
          /\ job'[r].after = "sync"
      BY <1>1, QuietLands
    <2>2. KeepsSites(config, config')
      BY <2>1 DEF KeepsSites, SameTunnel
    <2>3. Disjoint(config')
      BY <1>0, <2>1, <2>2, ChangeKeepsApart
    <2>4. QED BY <2>1, <2>3, KeptUnless
  <1>2. CASE Mutate(r)
    <2>1. PICK j : /\ Moves(r, "openJson", j) /\ RequestOK(config', "openJson", j)
                   /\ j.after = "up" /\ RolledBack(config', j) = config
      BY <1>2, MutateMoves
    <2>2. Pending("openJson", j)
      BY <2>1 DEF Pending, WritePoints
    <2>3. Changes(config, config')
      BY <2>1, <2>2 DEF RequestOK
    <2>4. Disjoint(config')
      BY <1>0, <1>2, <2>3, MutateKeepsSites, ChangeKeepsApart
    <2>5. Kept(config', pc'[r], job'[r]) = config
      BY <1>0, <2>1, <2>2, Lands DEF Kept
    <2>6. QED BY <1>0, <2>4, <2>5
  <1>3. CASE Rollback(r)
    <2>1. PICK j : /\ Moves(r, "openJson", j) /\ j.after = "upAgain"
                   /\ config' = RolledBack(config, job[r])
      BY <1>3, RollbackMoves
    <2>2. Kept(config, pc[r], job[r]) = config'
      BY <1>0, <1>3, <2>1 DEF Rollback, RequestOK, Kept, Pending
    <2>3. Kept(config', pc'[r], job'[r]) = config'
      BY <1>0, <2>1, Lands, KeptUnless
    <2>4. QED BY <1>0, <2>2, <2>3
  <1>4. CASE PlainStep(r)
    <2>1. config' = config
      BY <1>4 DEF PlainStep, memory
    <2>2. CASE Moves(r, "idle", NoJob)
      BY <1>0, <2>1, <2>2, Lands, KeptAt
    <2>3. ASSUME NEW m, Moves(r, m, job[r]), Follows(pc[r], job[r], m)
          PROVE  Disjoint(Kept(config', pc'[r], job'[r]))
      BY <1>0, <2>1, <2>3, Lands, KeptFollows
    <2>4. ASSUME NEW j, Moves(r, "down", j)
          PROVE  Disjoint(Kept(config', pc'[r], job'[r]))
      BY <1>0, <2>1, <2>4, Lands, KeptAt
    <2>5. QED BY <1>0, <1>4, <2>1, <2>2, <2>3, <2>4 DEF PlainStep
  <1>5. ASSUME NEW j, NEW l \in {"keys", "down"}, Begin(r, j, l)
        PROVE  Disjoint(config') /\ Disjoint(Kept(config', pc'[r], job'[r]))
    <2>1. Moves(r, l, j) /\ config' = config
      BY <1>5 DEF Begin, Moves, memory
    <2>2. QED BY <1>0, <2>1, Lands, KeptAt
  <1>6. QED
    BY <1>1, <1>2, <1>3, <1>4, <1>5, RequestShape, StepShape, InsertShape

\* A handler that starts a bounce for a site peer, clearing none.
LEMMA RequestSite ==
    ASSUME TypeOK, OneInv, NEW r \in Reqs, Request(r), ~ ClearsSite
    PROVE  SiteJob(config', pc'[r], job'[r])
  <1>0. r \in Procs
    BY DEF Procs
  <1>1. ASSUME NEW kind, NEW id, NEW patch, NEW undo, NEW l,
               Begin(r, Job(kind, id, patch, undo), l), kind # "site"
        PROVE  SiteJob(config', pc'[r], job'[r])
    <2> DEFINE j == Job(kind, id, patch, undo)
    <2>1. j.kind = kind
      BY JobIs
    <2>2. Moves(r, l, j)
      BY <1>1 DEF Begin, Moves
    <2> HIDE DEF j
    <2>3. job'[r].kind = kind
      BY <1>0, <2>1, <2>2, Lands
    <2>4. QED BY <1>1, <2>3 DEF SiteJob
  <1>2. ASSUME NEW j, SaveAndSync(r, j)
        PROVE  SiteJob(config', pc'[r], job'[r])
    <2>1. pc'[r] \in {"openJson", "idle"}
      BY <1>0, <1>2 DEF SaveAndSync, Save, Finish, Goto, TypeOK
    <2>2. QED BY <2>1 DEF SiteJob
  <1>3. CASE RegenerateKeypair(r)
    BY <1>1, <1>3 DEF RegenerateKeypair
  <1>4. ASSUME NEW patch, UpdateServerSettings(r, patch)
        PROVE  SiteJob(config', pc'[r], job'[r])
    BY <1>1, <1>2, <1>4 DEF UpdateServerSettings
  <1>5. ASSUME NEW id, CreateClient(r, id)
        PROVE  SiteJob(config', pc'[r], job'[r])
    BY <1>1, <1>5 DEF CreateClient
  <1>6. ASSUME NEW id, NEW b, SetEnabled(r, id, b)
        PROVE  SiteJob(config', pc'[r], job'[r])
    BY <1>1, <1>2, <1>6 DEF SetEnabled
  <1>7. ASSUME NEW id, DeleteClient(r, id)
        PROVE  SiteJob(config', pc'[r], job'[r])
    BY <1>1, <1>2, <1>7 DEF DeleteClient
  <1>8. ASSUME NEW id, NEW l, RenameClient(r, id, l)
        PROVE  SiteJob(config', pc'[r], job'[r])
    BY <1>2, <1>8 DEF RenameClient
  <1>9. ASSUME NEW id, NEW a, NEW sp, UpdateClientAddress(r, id, a, sp)
        PROVE  SiteJob(config', pc'[r], job'[r])
    BY <1>2, <1>9 DEF UpdateClientAddress
  <1>10. ASSUME NEW id \in ClientIds, NEW allowed \in SUBSET Cidrs, NEW masq \in BOOLEAN,
                SetClientSitePeer(r, id, allowed, masq)
         PROVE  SiteJob(config', pc'[r], job'[r])
    <2> DEFINE patch == [allowed |-> allowed, masq |-> allowed # {} /\ masq]
               undo == [allowed |-> config.clients[id].allowed,
                        masq    |-> config.clients[id].masq]
               j == Job("site", id, patch, undo)
    <2>1. j.id = id /\ j.patch = patch /\ patch.allowed = allowed
      BY JobIs
    <2>2. Moves(r, "down", j) /\ config' = config
      BY <1>10 DEF SetClientSitePeer, Begin, Moves, memory
    <2>3. allowed = {} => config.clients[id].allowed = {}
      BY <1>10 DEF ClearsSite, IsSitePeer
    <2> HIDE DEF j, patch
    <2>4. job'[r] = j
      BY <1>0, <2>2, Lands
    <2>5. QED BY <2>1, <2>2, <2>3, <2>4 DEF SiteJob
  <1>11. QED
    BY <1>3, <1>4, <1>5, <1>6, <1>7, <1>8, <1>9, <1>10
    DEF Request, EnableClient, DisableClient

\* A job goes on to `mutate' as it was.
LEMMA StepSite ==
    ASSUME TypeOK, OneInv, SiteInv, NEW r \in Reqs, Step(r)
    PROVE  SiteJob(config', pc'[r], job'[r])
  <1>0. /\ r \in Procs /\ r # Boot /\ RequestOK(config, pc[r], job[r])
        /\ SiteJob(config, pc[r], job[r]) /\ JobFits(job[r])
    BY WireGuardAssumption DEF Procs, OneInv, SiteInv, TypeOK
  <1>1. ASSUME NEW l, NEW j, Moves(r, l, j), l \notin {"down", "mutate"} \/ j.kind # "site"
        PROVE  SiteJob(config', pc'[r], job'[r])
    BY <1>0, <1>1, Lands DEF SiteJob
  <1>2. CASE InsertClient(r)
    BY <1>2, InsertShape, QuietLands DEF SiteJob
  <1>3. CASE Mutate(r) \/ Rollback(r)
    BY <1>1, <1>3, MutateMoves, RollbackMoves
  <1>4. CASE RegenKeys(r)
    <2>1. job'[r].kind = job[r].kind /\ job[r].kind = "regen"
      BY <1>0, <1>4 DEF RegenKeys, TypeOK
    <2>2. QED BY <2>1 DEF SiteJob
  <1>5. CASE Down(r) \/ DownFails(r) \/ DownFailsInHook(r)
    <2>1. pc[r] = "down" /\ job' = job /\ config' = config
      BY <1>5 DEF Down, DownFails, DownFailsInHook, memory
    <2>2. QED BY <1>0, <2>1 DEF SiteJob
  <1>6. CASE OpenJson(r) \/ WriteJson(r) \/ OpenConf(r) \/ WriteConf(r)
    <2>1. pc[r] \in WritePoints
      BY <1>6 DEF OpenJson, WriteJson, OpenConf, WriteConf, WritePoints
    <2>2. job[r].after \in {"sync", "up", "upAgain"}
      BY <1>0, <2>1 DEF RequestOK
    <2>3. pc'[r] \in WritePoints \cup {"sync", "up", "upAgain"}
      BY <1>0, <1>6, <2>2
      DEF OpenJson, WriteJson, OpenConf, WriteConf, WritePoints, Goto, TypeOK
    <2>4. QED BY <2>3 DEF SiteJob, WritePoints
  <1>7. CASE CreateRefused(r) \/ KeysFail(r) \/ WriteFails(r) \/ Sync(r) \/ SyncFails(r) \/ Up(r)
    <2>1. Finish(r)
      BY <1>0, <1>7 DEF CreateRefused, KeysFail, WriteFails, Sync, SyncFails, Up, Throw
    <2>2. QED BY <1>0, <1>1, <2>1, FinishMoves
  <1>8. CASE UpFails(r) \/ UpFailsInHook(r)
    <2>1. PICK rs : UpRejected(r, rs)
      BY <1>8 DEF UpFails, UpFailsInHook
    <2>2. QED BY <1>1, <2>1, RejectedMoves
  <1>9. QED BY <1>2, <1>3, <1>4, <1>5, <1>6, <1>7, <1>8 DEF Step

LEMMA SiteStep ==
    ASSUME PlainAddresses, TypeOK, TypeOK', OneInv, OneInv', SiteInv, ~ ClearsSite,
           NEW r \in Reqs, Reqs = {r}, Next
    PROVE  SiteInv'
  <1>0. /\ Procs = {r, Boot, Sig} /\ r # Sig /\ Sig # Boot /\ r # Boot
    BY WireGuardAssumption DEF Procs
  <1>1. CASE Request(r)
    <2>1. UNCHANGED <<disk, kernel>>
      <3>1. CASE SavesQuietly(r)
        BY <3>1, QuietLands
      <3>2. CASE \E j, l : Begin(r, j, l)
        BY <3>2 DEF Begin
      <3>3. QED BY <1>1, <3>1, <3>2, RequestShape
    <2>2. QED BY <1>1, <2>1, RequestMemory, RequestSite DEF SiteInv, disk, kernel
  <1>2. CASE Step(r)
    BY <1>0, <1>2, RequestMemory, StepSite, CopiesDisjoint DEF SiteInv
  <1>3. ASSUME config' = config, pc'[r] = "idle"
        PROVE  /\ Disjoint(config') /\ Disjoint(Kept(config', pc'[r], job'[r]))
               /\ SiteJob(config', pc'[r], job'[r])
    BY <1>3, KeptAt DEF SiteInv, SiteJob
  <1>4. CASE Step(Boot)
    <2>1. ~ Load
      BY <1>0, <1>4
      DEF Load, Step, InsertClient, CreateRefused, RegenKeys, KeysFail,
          Down, DownFails,
          DownFailsInHook, Mutate, OpenJson, WriteJson, OpenConf, WriteConf, WriteFails,
          Sync, SyncFails, Up, UpFails, UpFailsInHook, Rollback
    <2>2. config' = config /\ pc'[r] = "idle"
      BY <1>4, <2>1, BootShape DEF memory
    <2>3. QED BY <1>0, <1>3, <1>4, <2>2, CopiesDisjoint DEF SiteInv
  <1>5. CASE StartNode
    <2>1. pc'[r] = "idle" /\ config' = config /\ UNCHANGED <<disk, kernel>>
      BY <1>5, BootShape DEF StartNode, memory
    <2>2. QED BY <1>3, <2>1 DEF SiteInv, disk, kernel
  <1>6. CASE Load
    <2>1. pc'[r] = "idle" /\ UNCHANGED <<disk, kernel>>
      BY <1>6, BootShape DEF Load
    <2>2. Disjoint(config')
      BY <1>6, EmptyIsDisjoint DEF Load, Save, SiteInv
    <2>3. QED BY <2>1, <2>2, KeptAt DEF SiteInv, SiteJob, disk, kernel
  <1>7. CASE Sigterm
    <2>1. UNCHANGED <<memory, disk, kernel, job>> /\ pc' = [pc EXCEPT ![Sig] = "down"]
      BY <1>7 DEF Sigterm, Goto
    <2>2. pc'[r] = pc[r]
      BY <1>0, <2>1 DEF TypeOK
    <2>3. QED BY <2>1, <2>2 DEF SiteInv, memory, disk, kernel
  <1>8. CASE Shutdown \/ Crash
    <2>1. pc'[r] = "idle" /\ config' = config /\ UNCHANGED disk /\ dev' = NoDevice
      BY <1>0, <1>8 DEF Shutdown, Crash, ExitNode, memory
    <2>2. QED BY <1>3, <2>1, EmptyIsPlain DEF SiteInv, disk
  <1>9. QED
    BY <1>0, <1>1, <1>2, <1>4, <1>5, <1>6, <1>7, <1>8, SigWaits DEF Next

LEMMA SiteInduction ==
    OneAdmin /\ SavedDisjoint /\ PlainAddresses /\ Spec /\ [][~ ClearsSite]_vars
        => []SiteInv
  <1> SUFFICES ASSUME OneAdmin, SavedDisjoint, PlainAddresses
               PROVE  Spec /\ [][~ ClearsSite]_vars => []SiteInv
    OBVIOUS
  <1>1. Init => SiteInv
    <2> SUFFICES ASSUME Init PROVE SiteInv
      OBVIOUS
    <2>1. json.whole => Disjoint(json.text)
      BY DEF Init, SavedDisjoint, Whole, Truncated
    <2>2. \A r \in Reqs : pc[r] = "idle"
      BY DEF Init, Procs
    <2>3. Disjoint(config)
      BY EmptyIsDisjoint DEF Init
    <2>4. QED
      BY <2>1, <2>2, <2>3, KeptAt, EmptyIsPlain DEF Init, SiteInv, SiteJob, Truncated
  <1>2. TypeOK /\ TypeOK' /\ OneInv /\ OneInv' /\ SiteInv /\ [Next]_vars /\ [~ ClearsSite]_vars
            => SiteInv'
    <2> SUFFICES ASSUME TypeOK, TypeOK', OneInv, OneInv', SiteInv, [Next]_vars,
                        [~ ClearsSite]_vars
                 PROVE  SiteInv'
      OBVIOUS
    <2>1. PICK r \in Reqs : Reqs = {r}
      BY DEF OneAdmin
    <2>2. CASE UNCHANGED vars
      BY <2>2 DEF vars, SiteInv
    <2>3. CASE Next /\ ~ ClearsSite
      BY <2>1, <2>3, SiteStep
    <2>4. QED BY <2>2, <2>3
  <1>3. Spec => []OneInv
    BY OneHolds
  <1>4. QED BY <1>1, <1>2, <1>3, TypeCorrect, PTL DEF Spec

\* With one administrator, site peers or not, no two clients overlap unless he
\* empties the list of a site peer: findOverlap, the free address of
\* createClient and the captured values of every rollback keep what all peers
\* are given apart, whatever fails and whenever the process is killed.
\* Emptying a list does not (overlap_after_clear).
THEOREM OnlyClearingOverlaps ==
    OneAdmin /\ SavedDisjoint /\ PlainAddresses /\ Spec /\ [][~ ClearsSite]_vars
        => []NoOverlap
  <1>1. SiteInv => NoOverlap
    BY DEF SiteInv, Disjoint, Apart, NoOverlap, Ids, FindOverlap
  <1>2. QED BY <1>1, SiteInduction, PTL

\* Nor do two peers of the device, whichever wg0.conf it was loaded from.
THEOREM OnlyClearingOverlapsDevice ==
    OneAdmin /\ SavedDisjoint /\ PlainAddresses /\ Spec /\ [][~ ClearsSite]_vars
        => []DeviceNoOverlap
  <1>1. SiteInv => DeviceNoOverlap
    BY DEF SiteInv, DisjointPeers, DeviceNoOverlap
  <1>2. QED BY <1>1, SiteInduction, PTL
=============================================================================
