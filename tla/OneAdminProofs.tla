---------------------------- MODULE OneAdminProofs ---------------------------
(***************************************************************************)
(* One administrator at a time: the files mirror the memory, no rollback    *)
(* leaves an undefined client, and the manager implements ConfigStore.      *)
(* With two administrators none of this holds: see the configurations       *)
(* MCStaleConf, MCDoubleDelete and MCOverlapRace.                           *)
(***************************************************************************)
EXTENDS WireGuardStore, WireGuardProofs

\* One slot for requests: the next one starts when the last was answered.
OneAdmin == \E r : Reqs = {r}

\* Addresses are typed the way createClient writes them.  createClient does not
\* recognise the others (the configuration MCSpelledAddress).
PlainAddresses == Spellings = {"plain"}

-----------------------------------------------------------------------------
(* What is true of the request at each of its awaits *)

\* A job that will change the configuration after `down': its patch passed
\* the checks, and what it captured is what the configuration still says.
Planned(cfg, j) ==
    /\ j.kind \in {"enabled", "site", "delete"} => j.id \in DOMAIN cfg.clients
    /\ CASE j.kind = "enabled" -> j.patch \in [enabled: BOOLEAN]
         [] j.kind = "site" ->
                /\ j.patch \in [allowed: SUBSET Cidrs, masq: BOOLEAN]
                /\ ~ FindOverlap(j.patch.allowed,
                                 {cfg.clients[i] : i \in DOMAIN cfg.clients \ {j.id}})
                /\ j.patch.allowed = {} => ~ j.patch.masq
                /\ j.undo = [allowed |-> cfg.clients[j.id].allowed,
                             masq    |-> cfg.clients[j.id].masq]
         [] j.kind = "delete" -> TRUE
         [] j.kind = "settings" -> j.patch \in SettingsPatch /\ j.undo = cfg.server
         [] j.kind = "regen" ->
                /\ j.patch \in [key: Keys]
                /\ j.undo = [key |-> cfg.server.key]
         [] OTHER -> FALSE

\* The change is made, and `up' has not accepted it yet.
Pending(l, j) == j.after = "up" /\ l \in WritePoints \cup {"up", "rollback"}

\* What the configuration is if `up' refuses.
Kept(cfg, l, j) == IF Pending(l, j) THEN RolledBack(cfg, j) ELSE cfg

RequestOK(cfg, l, j) ==
    /\ l # "load"
    /\ l = "idle" => j = NoJob
    /\ l = "keys" =>
        /\ j.after = "idle"
        /\ \/ j.kind = "create" /\ j.id \notin DOMAIN cfg.clients
           \/ j.kind = "regen" /\ j.undo = [key |-> cfg.server.key]
    /\ l \in {"down", "mutate"} => j.after = "idle" /\ Planned(cfg, j)
    /\ l \in WritePoints => j.snap = cfg /\ j.after \in {"sync", "up", "upAgain"}
    /\ l \in {"up", "rollback"} => j.after = "up"
    /\ Pending(l, j) => Changes(RolledBack(cfg, j), cfg) /\ ~ RestoresNothing(j)

BootOK(cfg, l, j) ==
    /\ l \in {"idle", "load", "down", "up", "sync"} \cup WritePoints
    /\ l \in WritePoints => j.snap = cfg /\ j.after = "down"

OneInv ==
    /\ undef = {}
    /\ node # "running" => \A r \in Reqs : pc[r] = "idle"
    /\ pc[Boot] # "idle" => node = "booting"
    /\ pc[Sig] = "idle" \/ (pc[Sig] = "down" /\ "sigterm" \in Ops)
    /\ BootOK(config, pc[Boot], job[Boot])
    /\ \A r \in Reqs : RequestOK(config, pc[r], job[r])

-----------------------------------------------------------------------------
(* A rollback restores what was there *)

\* A configuration is determined by its server and its clients.
LEMMA ConfigIs ==
    ASSUME NEW cfg \in Config
    PROVE  /\ cfg = [server |-> cfg.server, clients |-> cfg.clients]
           /\ cfg.clients = [i \in DOMAIN cfg.clients |-> cfg.clients[i]]
  BY ConfigParts DEF Config

\* Nothing that is captured from a client is the empty record.
LEMMA ClientNotEmpty == \A c \in Client : c # Empty
  <1>1. \A c \in Client : "address" \in DOMAIN c
    BY DEF Client
  <1>2. "address" \notin DOMAIN Empty
    BY DEF Empty
  <1>3. QED BY <1>1, <1>2

\* Patching a field and patching it back.
LEMMA PatchBack ==
    ASSUME NEW c \in Client
    PROVE  /\ \A p \in [enabled: BOOLEAN] :
                Patched(Patched(c, p), [enabled |-> c.enabled]) = c
           /\ \A p \in [allowed: SUBSET Cidrs, masq: BOOLEAN] :
                Patched(Patched(c, p), [allowed |-> c.allowed, masq |-> c.masq]) = c
  BY DEF Patched, Client

\* Changing one client and changing it back.
LEMMA ChangeBack ==
    ASSUME NEW cfg \in Config, NEW id \in DOMAIN cfg.clients, NEW p, NEW u,
           Patched(Patched(cfg.clients[id], p), u) = cfg.clients[id]
    PROVE  ChangeClient(ChangeClient(cfg, id, p), id, u) = cfg
  <1> DEFINE new == ChangeClient(cfg, id, p)
  <1>1. /\ new.server = cfg.server
        /\ DOMAIN new.clients = DOMAIN cfg.clients
        /\ \A i \in DOMAIN cfg.clients :
               new.clients[i] = IF i = id THEN Patched(cfg.clients[i], p) ELSE cfg.clients[i]
    BY DEF ChangeClient
  <1> HIDE DEF new
  <1>2. ChangeClient(new, id, u) =
            [server  |-> cfg.server,
             clients |-> [i \in DOMAIN cfg.clients |-> cfg.clients[i]]]
    BY <1>1 DEF ChangeClient
  <1>3. QED BY <1>2, ConfigIs DEF new

\* Deleting a client and putting it back.
LEMMA DeleteBack ==
    ASSUME NEW cfg \in Config, NEW id \in DOMAIN cfg.clients
    PROVE  WithClient(WithoutClient(cfg, id), id, cfg.clients[id]) = cfg
  <1> DEFINE new == WithoutClient(cfg, id)
  <1>1. /\ new.server = cfg.server
        /\ DOMAIN new.clients = DOMAIN cfg.clients \ {id}
        /\ \A i \in DOMAIN cfg.clients \ {id} : new.clients[i] = cfg.clients[i]
    BY DEF WithoutClient
  <1> HIDE DEF new
  <1>2. WithClient(new, id, cfg.clients[id]) =
            [server  |-> cfg.server,
             clients |-> [i \in DOMAIN cfg.clients |-> cfg.clients[i]]]
    <2>1. (DOMAIN cfg.clients \ {id}) \cup {id} = DOMAIN cfg.clients
      OBVIOUS
    <2>2. QED BY <1>1, <2>1 DEF WithClient
  <1>3. QED BY <1>2, ConfigIs DEF new

\* Changing the server and changing it back.
LEMMA ServerBack ==
    ASSUME NEW cfg \in Config
    PROVE  /\ \A p \in SettingsPatch :
                ChangeServer(ChangeServer(cfg, p), cfg.server) = cfg
           /\ \A p \in [key: Keys] :
                ChangeServer(ChangeServer(cfg, p), [key |-> cfg.server.key]) = cfg
  <1>1. cfg.server \in Server
    BY ConfigParts
  <1>2. ASSUME NEW p \in SettingsPatch
        PROVE  Patched(Patched(cfg.server, p), cfg.server) = cfg.server
    BY <1>1 DEF Patched, Server
  <1>3. ASSUME NEW p \in [key: Keys]
        PROVE  Patched(Patched(cfg.server, p), [key |-> cfg.server.key]) = cfg.server
    <2> DEFINE q == Patched(cfg.server, p)
    <2>1. /\ DOMAIN q = DOMAIN cfg.server
          /\ \A f \in DOMAIN cfg.server \ {"key"} : q[f] = cfg.server[f]
      BY <1>3 DEF Patched
    <2> HIDE DEF q
    <2>2. Patched(q, [key |-> cfg.server.key]) = [f \in DOMAIN cfg.server |-> cfg.server[f]]
      BY <2>1 DEF Patched
    <2>3. cfg.server = [f \in DOMAIN cfg.server |-> cfg.server[f]]
      BY <1>1 DEF Server
    <2>4. QED BY <2>2, <2>3 DEF q
  <1>4. ASSUME NEW p, NEW u, Patched(Patched(cfg.server, p), u) = cfg.server
        PROVE  ChangeServer(ChangeServer(cfg, p), u) = cfg
    <2>1. ChangeServer(ChangeServer(cfg, p), u) =
              [server |-> Patched(Patched(cfg.server, p), u), clients |-> cfg.clients]
      BY DEF ChangeServer
    <2>2. cfg = [server |-> cfg.server, clients |-> cfg.clients]
      BY ConfigIs
    <2>3. QED BY <1>4, <2>1, <2>2
  <1>5. QED BY <1>2, <1>3, <1>4

-----------------------------------------------------------------------------
(* Every handler makes one whole change *)

\* What the patches of the handlers do to a client's record.
LEMMA PatchedIs ==
    ASSUME NEW c \in Client
    PROVE  /\ \A b \in BOOLEAN : Patched(c, [enabled |-> b]) = [c EXCEPT !.enabled = b]
           /\ \A l \in Labels : Patched(c, [label |-> l]) = [c EXCEPT !.label = l]
  BY DEF Patched, Client

LEMMA PatchedAddress ==
    ASSUME NEW c \in Client, NEW a \in Addrs, NEW sp \in Spellings
    PROVE  Patched(c, [address |-> a, spelling |-> sp])
               = [c EXCEPT !.address = a, !.spelling = sp]
  <1> DEFINE fields == {"address", "spelling", "allowed", "masq", "enabled", "label"}
             new(f) == IF f = "address" THEN a ELSE IF f = "spelling" THEN sp ELSE c[f]
  <1>1. DOMAIN c = fields
    BY DEF Client
  <1>2. Patched(c, [address |-> a, spelling |-> sp]) = [f \in fields |-> new(f)]
    BY <1>1 DEF Patched
  <1>3. [c EXCEPT !.address = a, !.spelling = sp] = [f \in fields |-> new(f)]
    BY <1>1
  <1>4. QED BY <1>2, <1>3

LEMMA PatchedSite ==
    ASSUME NEW c \in Client, NEW p \in [allowed: SUBSET Cidrs, masq: BOOLEAN]
    PROVE  Patched(c, p) = [c EXCEPT !.allowed = p.allowed, !.masq = p.masq]
  <1> DEFINE fields == {"address", "spelling", "allowed", "masq", "enabled", "label"}
             new(f) == IF f = "allowed" THEN p.allowed
                       ELSE IF f = "masq" THEN p.masq ELSE c[f]
  <1>1. DOMAIN c = fields /\ DOMAIN p = {"allowed", "masq"}
    BY DEF Client
  <1>2. Patched(c, p) = [f \in fields |-> new(f)]
    BY <1>1 DEF Patched
  <1>3. [c EXCEPT !.allowed = p.allowed, !.masq = p.masq] = [f \in fields |-> new(f)]
    BY <1>1
  <1>4. QED BY <1>2, <1>3

LEMMA EditChanges ==
    ASSUME NEW cfg \in Config, NEW id \in DOMAIN cfg.clients, NEW p,
           Edited({cfg.clients[i] : i \in DOMAIN cfg.clients \ {id}},
                  cfg.clients[id], Patched(cfg.clients[id], p))
    PROVE  Changes(cfg, ChangeClient(cfg, id, p))
  <1> DEFINE new == ChangeClient(cfg, id, p)
  <1>1. /\ new.server = cfg.server
        /\ DOMAIN new.clients = DOMAIN cfg.clients
        /\ new.clients[id] = Patched(cfg.clients[id], p)
        /\ \A i \in DOMAIN cfg.clients \ {id} : new.clients[i] = cfg.clients[i]
    BY DEF ChangeClient
  <1>2. id \in ClientIds
    BY ConfigParts
  <1> HIDE DEF new
  <1>3. Changes(cfg, new)
    BY <1>1, <1>2 DEF Changes
  <1>4. QED BY <1>3 DEF new

LEMMA DeleteChanges ==
    ASSUME NEW cfg \in Config, NEW id \in DOMAIN cfg.clients
    PROVE  Changes(cfg, WithoutClient(cfg, id))
  <1> DEFINE new == WithoutClient(cfg, id)
  <1>1. /\ new.server = cfg.server
        /\ DOMAIN new.clients = DOMAIN cfg.clients \ {id}
        /\ \A i \in DOMAIN cfg.clients \ {id} : new.clients[i] = cfg.clients[i]
    BY DEF WithoutClient
  <1>2. id \in ClientIds
    BY ConfigParts
  <1> HIDE DEF new
  <1>3. Changes(cfg, new)
    BY <1>1, <1>2 DEF Changes
  <1>4. QED BY <1>3 DEF new

LEMMA CreateChanges ==
    ASSUME NEW cfg \in Config, NEW id \in ClientIds \ DOMAIN cfg.clients, NEW c,
           c.address \in FreeAddress({cfg.clients[i] : i \in DOMAIN cfg.clients}),
           c.allowed = {}
    PROVE  Changes(cfg, WithClient(cfg, id, c))
  <1> DEFINE new == WithClient(cfg, id, c)
  <1>1. /\ new.server = cfg.server
        /\ DOMAIN new.clients = DOMAIN cfg.clients \cup {id}
        /\ new.clients[id] = c
        /\ \A i \in DOMAIN cfg.clients \ {id} : new.clients[i] = cfg.clients[i]
    BY DEF WithClient
  <1> HIDE DEF new
  <1>2. Changes(cfg, new)
    BY <1>1 DEF Changes
  <1>3. QED BY <1>2 DEF new

LEMMA ServerChanges ==
    ASSUME NEW cfg \in Config
    PROVE  /\ \A p \in SettingsPatch : Changes(cfg, ChangeServer(cfg, p))
           /\ \A p \in [key: Keys] : Changes(cfg, ChangeServer(cfg, p))
  <1>1. \A p : /\ ChangeServer(cfg, p).clients = cfg.clients
               /\ ChangeServer(cfg, p).server = Patched(cfg.server, p)
    BY DEF ChangeServer
  <1>2. ASSUME NEW p \in [key: Keys]
        PROVE  Patched(cfg.server, p) = [cfg.server EXCEPT !.key = p.key]
    BY ConfigParts DEF Patched, Server
  <1>3. \A p \in SettingsPatch : Changes(cfg, ChangeServer(cfg, p))
    BY <1>1 DEF Changes
  <1>4. ASSUME NEW p \in [key: Keys]
        PROVE  Changes(cfg, ChangeServer(cfg, p))
    <2>1. p.key \in Keys
      OBVIOUS
    <2>2. QED BY <1>1, <1>2, <2>1 DEF Changes
  <1>5. QED BY <1>3, <1>4

\* A planned change is one whole operation, and the rollback closure that
\* Mutate captures takes all of it back (__applyWithBounce and its callers).
LEMMA PlannedChange ==
    ASSUME NEW cfg \in Config, NEW j \in JobRecord, JobFits(j), Planned(cfg, j),
           NEW k, k.kind = j.kind, k.id = j.id, k.undo = Captured(cfg, j)
    PROVE  /\ Changes(cfg, Mutated(cfg, j))
           /\ RolledBack(Mutated(cfg, j), k) = cfg
           /\ ~ RestoresNothing(k)
  <1> DEFINE c == cfg.clients[j.id]
             others == {cfg.clients[i] : i \in DOMAIN cfg.clients \ {j.id}}
  <1>1. CASE j.kind = "enabled"
    <2>1. /\ j.id \in DOMAIN cfg.clients /\ c \in Client
          /\ j.patch \in [enabled: BOOLEAN]
          /\ Mutated(cfg, j) = ChangeClient(cfg, j.id, j.patch)
          /\ k.undo = [enabled |-> c.enabled]
      BY <1>1, ConfigParts DEF Planned, Mutated, Captured
    <2>2. PICK b \in BOOLEAN : j.patch = [enabled |-> b]
      BY <2>1
    <2>3. Edited(others, c, Patched(c, j.patch))
      BY <2>1, <2>2, PatchedIs DEF Edited
    <2>4. Changes(cfg, ChangeClient(cfg, j.id, j.patch))
      BY <2>1, <2>3, EditChanges
    <2>5. Patched(Patched(c, j.patch), k.undo) = c
      BY <2>1, PatchBack
    <2>6. ChangeClient(ChangeClient(cfg, j.id, j.patch), j.id, k.undo) = cfg
      BY <2>1, <2>5, ChangeBack
    <2>7. QED BY <1>1, <2>1, <2>4, <2>6 DEF RolledBack, RestoresNothing
  <1>2. CASE j.kind = "site"
    <2>1. /\ j.id \in DOMAIN cfg.clients /\ c \in Client
          /\ j.patch \in [allowed: SUBSET Cidrs, masq: BOOLEAN]
          /\ ~ FindOverlap(j.patch.allowed, others)
          /\ j.patch.allowed = {} => ~ j.patch.masq
          /\ Mutated(cfg, j) = ChangeClient(cfg, j.id, j.patch)
          /\ k.undo = [allowed |-> c.allowed, masq |-> c.masq]
      BY <1>2, ConfigParts DEF Planned, Mutated, Captured
    <2>2. Patched(c, j.patch) = [c EXCEPT !.allowed = j.patch.allowed, !.masq = j.patch.masq]
      BY <2>1, PatchedSite
    <2>3. Edited(others, c, Patched(c, j.patch))
      <3>1. j.patch.allowed \in SUBSET Cidrs /\ j.patch.masq \in BOOLEAN
        BY <2>1
      <3> HIDE DEF c, others
      <3>2. QED BY <2>1, <2>2, <3>1, Zenon DEF Edited
    <2>4. Changes(cfg, ChangeClient(cfg, j.id, j.patch))
      BY <2>1, <2>3, EditChanges
    <2>5. Patched(Patched(c, j.patch), k.undo) = c
      BY <2>1, PatchBack
    <2>6. ChangeClient(ChangeClient(cfg, j.id, j.patch), j.id, k.undo) = cfg
      BY <2>1, <2>5, ChangeBack
    <2>7. QED BY <1>2, <2>1, <2>4, <2>6 DEF RolledBack, RestoresNothing
  <1>3. CASE j.kind = "delete"
    <2>1. /\ j.id \in DOMAIN cfg.clients /\ c \in Client
          /\ Mutated(cfg, j) = WithoutClient(cfg, j.id)
          /\ k.undo = c
      BY <1>3, ConfigParts DEF Planned, Mutated, Captured
    <2>2. k.undo # Empty
      BY <2>1, ClientNotEmpty
    <2>3. RolledBack(Mutated(cfg, j), k) = WithClient(WithoutClient(cfg, j.id), j.id, c)
      BY <1>3, <2>1, <2>2 DEF RolledBack, RestoresNothing
    <2>4. QED BY <2>1, <2>2, <2>3, DeleteChanges, DeleteBack DEF RestoresNothing
  <1>4. CASE j.kind \in {"settings", "regen"}
    <2>1. /\ Mutated(cfg, j) = ChangeServer(cfg, j.patch)
          /\ k.undo = j.undo
          /\ \/ j.patch \in SettingsPatch /\ j.undo = cfg.server
             \/ j.patch \in [key: Keys] /\ j.undo = [key |-> cfg.server.key]
      BY <1>4 DEF Planned, Mutated, Captured
    <2>2. RolledBack(Mutated(cfg, j), k) = ChangeServer(ChangeServer(cfg, j.patch), j.undo)
      BY <1>4, <2>1 DEF RolledBack, RestoresNothing
    <2>3. ~ RestoresNothing(k)
      BY <1>4 DEF RestoresNothing
    <2>4. QED BY <2>1, <2>2, <2>3, ServerChanges, ServerBack
  <1>5. QED BY <1>1, <1>2, <1>3, <1>4 DEF Planned

-----------------------------------------------------------------------------
(* A save without a bounce leaves hooks and site peers alone *)

\* What `up' and `down' depend on, and the CIDRs of the site peers.
SameTunnel(old, new) ==
    /\ new.server.port = old.server.port
    /\ HookRules(new) = HookRules(old)
    /\ \A i \in DOMAIN old.clients \cap DOMAIN new.clients :
           new.clients[i].allowed = old.clients[i].allowed

\* The subnets a client masquerades.
Masqueraded(c) == IF c.enabled /\ c.masq THEN c.allowed ELSE {}

\* The hooks are made of the port and the masqueraded subnets.
LEMMA SameHooks ==
    ASSUME NEW old \in Config, NEW new \in Config, new.server = old.server,
           \A i \in DOMAIN old.clients \cap DOMAIN new.clients :
               new.clients[i].allowed = old.clients[i].allowed,
           \A n : \A i \in DOMAIN old.clients :
               n \in Masqueraded(old.clients[i]) =>
                   i \in DOMAIN new.clients /\ n \in Masqueraded(new.clients[i]),
           \A n : \A i \in DOMAIN new.clients :
               n \in Masqueraded(new.clients[i]) =>
                   i \in DOMAIN old.clients /\ n \in Masqueraded(old.clients[i])
    PROVE  SameTunnel(old, new)
  <1> DEFINE subnets(cfg) == UNION {cfg.clients[i].allowed :
                 i \in {j \in DOMAIN cfg.clients : /\ cfg.clients[j].enabled
                                                   /\ cfg.clients[j].masq}}
  <1>1. ASSUME NEW cfg \in Config, NEW n
        PROVE  n \in subnets(cfg) <=>
                   \E i \in DOMAIN cfg.clients : n \in Masqueraded(cfg.clients[i])
    BY DEF Masqueraded
  <1> HIDE DEF subnets
  <1>2. subnets(new) = subnets(old)
    BY <1>1
  <1>3. \A cfg : HookRules(cfg) = {<<"port", cfg.server.port>>} \cup
                                      {<<"masq", n>> : n \in subnets(cfg)}
    BY DEF HookRules, subnets
  <1>4. QED BY <1>2, <1>3 DEF SameTunnel

\* A name, a flag or an address.
LEMMA EditKeepsHooks ==
    ASSUME NEW cfg \in Config, NEW id \in DOMAIN cfg.clients, NEW p \in ClientPatch,
           \/ p \in [label: Labels] \cup [address: Addrs, spelling: Spellings]
           \/ p \in [enabled: BOOLEAN] /\ cfg.clients[id].allowed = {}
    PROVE  SameTunnel(cfg, ChangeClient(cfg, id, p))
  <1> DEFINE new == ChangeClient(cfg, id, p)
  <1>1. /\ new.server = cfg.server
        /\ DOMAIN new.clients = DOMAIN cfg.clients
        /\ new.clients[id] = Patched(cfg.clients[id], p)
        /\ \A i \in DOMAIN cfg.clients \ {id} : new.clients[i] = cfg.clients[i]
        /\ new \in Config
    BY ChangedConfig DEF ChangeClient
  <1>2. cfg.clients[id] \in Client
    BY ConfigParts
  <1>3. /\ Masqueraded(Patched(cfg.clients[id], p)) = Masqueraded(cfg.clients[id])
        /\ Patched(cfg.clients[id], p).allowed = cfg.clients[id].allowed
    <2>1. CASE p \in [label: Labels] \cup [address: Addrs, spelling: Spellings]
      BY <1>2, <2>1 DEF Patched, Client, Masqueraded
    <2>2. CASE p \in [enabled: BOOLEAN] /\ cfg.clients[id].allowed = {}
      BY <1>2, <2>2 DEF Patched, Client, Masqueraded
    <2>3. QED BY <2>1, <2>2
  <1> HIDE DEF new
  <1>4. SameTunnel(cfg, new)
    BY <1>1, <1>3, SameHooks
  <1>5. QED BY <1>4 DEF new

\* A client that is no site peer, created or deleted.
LEMMA OrdinaryKeepsHooks ==
    ASSUME NEW cfg \in Config, NEW id \in ClientIds
    PROVE  /\ id \in DOMAIN cfg.clients /\ cfg.clients[id].allowed = {} =>
                SameTunnel(cfg, WithoutClient(cfg, id))
           /\ \A c \in Client : id \notin DOMAIN cfg.clients /\ c.allowed = {} =>
                SameTunnel(cfg, WithClient(cfg, id, c))
  <1>1. ASSUME id \in DOMAIN cfg.clients, cfg.clients[id].allowed = {}
        PROVE  SameTunnel(cfg, WithoutClient(cfg, id))
    <2> DEFINE new == WithoutClient(cfg, id)
    <2>1. /\ new.server = cfg.server
          /\ DOMAIN new.clients = DOMAIN cfg.clients \ {id}
          /\ \A i \in DOMAIN cfg.clients \ {id} : new.clients[i] = cfg.clients[i]
          /\ new \in Config
      BY ChangedConfig DEF WithoutClient
    <2>2. Masqueraded(cfg.clients[id]) = {}
      BY <1>1 DEF Masqueraded
    <2> HIDE DEF new
    <2>3. QED BY <2>1, <2>2, SameHooks DEF new
  <1>2. ASSUME NEW c \in Client, id \notin DOMAIN cfg.clients, c.allowed = {}
        PROVE  SameTunnel(cfg, WithClient(cfg, id, c))
    <2> DEFINE new == WithClient(cfg, id, c)
    <2>1. /\ new.server = cfg.server
          /\ DOMAIN new.clients = DOMAIN cfg.clients \cup {id}
          /\ new.clients[id] = c
          /\ \A i \in DOMAIN cfg.clients : new.clients[i] = cfg.clients[i]
          /\ new \in Config
      BY <1>2, ChangedConfig DEF WithClient
    <2>2. Masqueraded(c) = {}
      BY <1>2 DEF Masqueraded
    <2> HIDE DEF new
    <2>3. QED BY <2>1, <2>2, SameHooks DEF new
  <1>3. QED BY <1>1, <1>2

\* A settings patch that needs no restart (serverSettings.js).
LEMMA NoRestartKeepsHooks ==
    ASSUME NEW cfg \in Config, NEW p \in SettingsPatch, ~ NeedsRestart(cfg.server, p)
    PROVE  SameTunnel(cfg, ChangeServer(cfg, p))
  <1>1. ChangeServer(cfg, p).server.port = cfg.server.port
    BY ConfigParts DEF ChangeServer, NeedsRestart, RestartFields, Patched, Server
  <1>2. ChangeServer(cfg, p).clients = cfg.clients
    BY DEF ChangeServer
  <1>3. QED BY <1>1, <1>2 DEF HookRules, SameTunnel

-----------------------------------------------------------------------------
(* The shape of the requests *)

\* A handler saves a whole change that no hook and no site peer depends on.
SavesQuietly(r) == \E cfg \in Config :
    /\ Save(r, Job("save", NoId, Empty, Empty), cfg, {}, "sync")
    /\ Changes(config, cfg)
    /\ SameTunnel(config, cfg)
    /\ UNCHANGED <<disk, kernel, node, crashes>>

\* Nothing is `undefined', so a handler that changes client id and saves.
LEMMA QuietSave ==
    ASSUME TypeOK, undef = {}, NEW r \in Reqs, NEW j, SaveAndSync(r, j),
           NEW cfg \in Config, cfg = Mutated(config, j), Changes(config, cfg),
           SameTunnel(config, cfg)
    PROVE  SavesQuietly(r)
  <1>1. undef \ {j.id} = {}
    OBVIOUS
  <1>2. QED BY <1>1 DEF SaveAndSync, SavesQuietly

\* The fields of a job that starts.
LEMMA JobIs ==
    \A kind, id, patch, undo :
        LET j == Job(kind, id, patch, undo)
        IN  /\ j.kind = kind /\ j.id = id /\ j.patch = patch /\ j.undo = undo
            /\ j.snap = Empty /\ j.after = "idle"
  BY DEF Job

\* What every handler does before its first await.
LEMMA RequestShape ==
    ASSUME TypeOK, OneInv, NEW r \in Reqs, Request(r)
    PROVE  /\ node = "running" /\ pc[r] = "idle"
           /\ \/ SavesQuietly(r)
              \/ \E j, l : Begin(r, j, l) /\ l \in {"keys", "down"} /\ RequestOK(config, l, j)
  <1>0. config \in Config /\ undef = {}
    BY DEF TypeOK, OneInv
  <1>a. \A op : Accepting(r, op) => node = "running" /\ pc[r] = "idle"
    BY DEF Accepting
  <1> DEFINE Shape == \/ SavesQuietly(r)
                      \/ \E j, l : Begin(r, j, l) /\ l \in {"keys", "down"}
                                                  /\ RequestOK(config, l, j)
  <1>b. ASSUME NEW j, Begin(r, j, "down"), j.after = "idle", Planned(config, j)
        PROVE  Shape
    <2>1. RequestOK(config, "down", j)
      BY <1>b DEF RequestOK, Pending, WritePoints
    <2>2. QED BY <1>b, <2>1
  <1>1. CASE RegenerateKeypair(r)
    <2> DEFINE j == Job("regen", NoId, Empty, [key |-> config.server.key])
    <2>1. RequestOK(config, "keys", j)
      BY JobIs DEF RequestOK, Pending, WritePoints
    <2>2. QED BY <1>1, <1>a, <2>1 DEF RegenerateKeypair
  <1>2. ASSUME NEW p \in SettingsPatch, UpdateServerSettings(r, p)
        PROVE  node = "running" /\ pc[r] = "idle" /\ Shape
    <2> DEFINE j == Job("settings", NoId, p, config.server)
    <2>1. CASE NeedsRestart(config.server, p)
      <3>1. j.after = "idle" /\ Planned(config, j)
        BY JobIs DEF Planned
      <3>2. QED BY <1>2, <1>a, <1>b, <2>1, <3>1 DEF UpdateServerSettings
    <2>2. CASE ~ NeedsRestart(config.server, p)
      <3>1. Mutated(config, j) = ChangeServer(config, p)
        BY JobIs DEF Mutated
      <3>2. ChangeServer(config, p) \in Config /\ Changes(config, ChangeServer(config, p))
        BY <1>0, ChangedConfig, ServerChanges
      <3>3. SavesQuietly(r)
        BY <1>0, <1>2, <2>2, <3>1, <3>2, NoRestartKeepsHooks, QuietSave
        DEF UpdateServerSettings
      <3>4. QED BY <1>2, <1>a, <3>3 DEF UpdateServerSettings
    <2>3. QED BY <2>1, <2>2
  <1>3. ASSUME NEW id \in ClientIds, CreateClient(r, id)
        PROVE  node = "running" /\ pc[r] = "idle" /\ Shape
    <2> DEFINE j == Job("create", id, Empty, Empty)
    <2>1. id \notin DOMAIN config.clients
      BY <1>3 DEF CreateClient, Fresh, Ids
    <2>2. RequestOK(config, "keys", j)
      BY <2>1, JobIs DEF RequestOK, Pending, WritePoints
    <2>3. QED BY <1>3, <1>a, <2>2 DEF CreateClient
  <1>4. ASSUME NEW id \in ClientIds, NEW b \in BOOLEAN, SetEnabled(r, id, b)
        PROVE  Shape
    <2> DEFINE j == Job("enabled", id, [enabled |-> b], [enabled |-> b])
               p == [enabled |-> b]
    <2>1. id \in DOMAIN config.clients /\ p \in [enabled: BOOLEAN] /\ p \in ClientPatch
      BY <1>4 DEF SetEnabled, Ids, ClientPatch
    <2>2. CASE IsSitePeer(config.clients[id])
      <3>1. j.after = "idle" /\ Planned(config, j)
        BY <2>1, JobIs DEF Planned
      <3>2. QED BY <1>4, <1>b, <2>2, <3>1 DEF SetEnabled
    <2>3. CASE ~ IsSitePeer(config.clients[id])
      <3>1. Mutated(config, j) = ChangeClient(config, id, p)
        BY JobIs DEF Mutated
      <3>2. ChangeClient(config, id, p) \in Config
        BY <1>0, <2>1, ChangedConfig
      <3>3. Changes(config, ChangeClient(config, id, p))
        <4>1. config.clients[id] \in Client
          BY <1>0, <2>1, ConfigParts
        <4>2. \E e \in BOOLEAN : Patched(config.clients[id], p) = [config.clients[id] EXCEPT !.enabled = e]
          BY <4>1, PatchedIs
        <4>3. Edited({config.clients[i] : i \in DOMAIN config.clients \ {id}},
                     config.clients[id], Patched(config.clients[id], p))
          BY <4>2 DEF Edited
        <4>4. QED BY <1>0, <2>1, <4>3, EditChanges
      <3>4. SameTunnel(config, ChangeClient(config, id, p))
        BY <1>0, <2>1, <2>3, EditKeepsHooks DEF IsSitePeer
      <3>5. SavesQuietly(r)
        <4>1. SaveAndSync(r, j)
          BY <1>4, <2>3 DEF SetEnabled
        <4> HIDE DEF j, p
        <4>2. QED BY <1>0, <4>1, <3>1, <3>2, <3>3, <3>4, QuietSave
      <3>6. QED BY <3>5
    <2>4. QED BY <2>2, <2>3
  <1>5. ASSUME NEW id \in ClientIds, DeleteClient(r, id)
        PROVE  node = "running" /\ pc[r] = "idle" /\ Shape
    <2> DEFINE j == Job("delete", id, Empty, Empty)
    <2>1. id \in DOMAIN config.clients
      BY <1>5 DEF DeleteClient, Ids
    <2>2. CASE IsSitePeer(config.clients[id])
      <3>1. j.after = "idle" /\ Planned(config, j)
        BY <2>1, JobIs DEF Planned
      <3>2. QED BY <1>5, <1>a, <1>b, <2>2, <3>1 DEF DeleteClient
    <2>3. CASE ~ IsSitePeer(config.clients[id])
      <3>1. Mutated(config, j) = WithoutClient(config, id)
        BY JobIs DEF Mutated
      <3>2. WithoutClient(config, id) \in Config /\ Changes(config, WithoutClient(config, id))
        BY <1>0, <2>1, ChangedConfig, DeleteChanges
      <3>3. SameTunnel(config, WithoutClient(config, id))
        BY <1>0, <2>1, <2>3, OrdinaryKeepsHooks DEF IsSitePeer
      <3>4. SavesQuietly(r)
        BY <1>0, <1>5, <2>3, <3>1, <3>2, <3>3, QuietSave DEF DeleteClient
      <3>5. QED BY <1>5, <1>a, <3>4 DEF DeleteClient
    <2>4. QED BY <2>2, <2>3
  <1>6. ASSUME NEW id \in DOMAIN config.clients, NEW p \in ClientPatch,
               p \in [label: Labels] \cup [address: Addrs, spelling: Spellings],
               Edited({config.clients[i] : i \in DOMAIN config.clients \ {id}},
                      config.clients[id], Patched(config.clients[id], p)),
               SaveAndSync(r, Job("edit", id, p, Empty))
        PROVE  SavesQuietly(r)
    <2>1. Mutated(config, Job("edit", id, p, Empty)) = ChangeClient(config, id, p)
      BY JobIs DEF Mutated
    <2>2. ChangeClient(config, id, p) \in Config /\ Changes(config, ChangeClient(config, id, p))
      BY <1>0, <1>6, ChangedConfig, EditChanges
    <2>3. SameTunnel(config, ChangeClient(config, id, p))
      BY <1>0, <1>6, EditKeepsHooks
    <2>4. QED BY <1>0, <1>6, <2>1, <2>2, <2>3, QuietSave
  <1>7. ASSUME NEW id \in ClientIds, NEW l \in Labels, RenameClient(r, id, l)
        PROVE  node = "running" /\ pc[r] = "idle" /\ Shape
    <2> DEFINE p == [label |-> l]
    <2>1. id \in DOMAIN config.clients /\ p \in [label: Labels] /\ p \in ClientPatch
      BY <1>7 DEF RenameClient, Ids, ClientPatch
    <2>2. config.clients[id] \in Client
      BY <1>0, <2>1, ConfigParts
    <2>3. Edited({config.clients[i] : i \in DOMAIN config.clients \ {id}},
                 config.clients[id], Patched(config.clients[id], p))
      BY <2>2, PatchedIs DEF Edited
    <2>4. SaveAndSync(r, Job("edit", id, p, Empty)) /\ Accepting(r, "rename")
      BY <1>7 DEF RenameClient
    <2> HIDE DEF p
    <2>5. QED BY <1>6, <1>a, <2>1, <2>3, <2>4
  <1>8. ASSUME NEW id \in ClientIds, NEW a \in Addrs, NEW sp \in Spellings,
               UpdateClientAddress(r, id, a, sp)
        PROVE  node = "running" /\ pc[r] = "idle" /\ Shape
    <2> DEFINE p == [address |-> a, spelling |-> sp]
               others == {config.clients[i] : i \in DOMAIN config.clients \ {id}}
    <2>1. id \in DOMAIN config.clients /\ p \in ClientPatch
          /\ p \in [address: Addrs, spelling: Spellings]
      BY <1>8 DEF UpdateClientAddress, Ids, ClientPatch
    <2>2. config.clients[id] \in Client
      BY <1>0, <2>1, ConfigParts
    <2>3. ~ FindOverlap({{a}}, others)
      BY <1>8 DEF UpdateClientAddress, OtherClients, Ids
    <2>4. Patched(config.clients[id], p)
              = [config.clients[id] EXCEPT !.address = a, !.spelling = sp]
      <3> DEFINE c == config.clients[id]
      <3>1. c \in Client
        BY <2>2
      <3> HIDE DEF c
      <3>2. \A b \in Addrs, q \in Spellings :
                Patched(c, [address |-> b, spelling |-> q])
                    = [c EXCEPT !.address = b, !.spelling = q]
        BY <3>1, PatchedAddress
      <3>3. Patched(c, p) = [c EXCEPT !.address = a, !.spelling = sp]
        BY <1>8, <3>2
      <3>4. QED BY <3>3 DEF c
    <2>5. SaveAndSync(r, Job("edit", id, p, Empty)) /\ Accepting(r, "address")
      BY <1>8 DEF UpdateClientAddress
    <2> HIDE DEF p, others
    <2>6. Edited(others, config.clients[id], Patched(config.clients[id], p))
      BY <2>3, <2>4 DEF Edited
    <2>7. QED BY <1>6, <1>a, <2>1, <2>5, <2>6 DEF others
  <1>9. ASSUME NEW id \in ClientIds, NEW allowed \in SUBSET Cidrs, NEW masq \in BOOLEAN,
               SetClientSitePeer(r, id, allowed, masq)
        PROVE  node = "running" /\ pc[r] = "idle" /\ Shape
    <2> DEFINE p == [allowed |-> allowed, masq |-> allowed # {} /\ masq]
               u == [allowed |-> config.clients[id].allowed,
                     masq    |-> config.clients[id].masq]
               j == Job("site", id, p, u)
               others == {config.clients[i] : i \in DOMAIN config.clients \ {id}}
    <2>1. /\ id \in DOMAIN config.clients
          /\ allowed # {} => ~ FindOverlap(allowed, others)
          /\ Begin(r, j, "down") /\ Accepting(r, "site")
      BY <1>9 DEF SetClientSitePeer, OtherClients, Ids
    <2>2. ~ FindOverlap(allowed, others)
      BY <2>1 DEF FindOverlap
    <2>3. /\ p \in [allowed: SUBSET Cidrs, masq: BOOLEAN]
          /\ p.allowed = allowed
          /\ p.allowed = {} => ~ p.masq
      OBVIOUS
    <2>4. j.kind = "site" /\ j.id = id /\ j.patch = p /\ j.undo = u /\ j.after = "idle"
      <3> HIDE DEF p, u
      <3>1. QED BY JobIs
    <2> HIDE DEF j, p
    <2>5. Planned(config, j)
      BY <2>1, <2>2, <2>3, <2>4 DEF Planned
    <2>6. QED BY <1>a, <1>b, <2>1, <2>4, <2>5
  <1>10. QED
    BY <1>1, <1>2, <1>3, <1>4, <1>5, <1>7, <1>8, <1>9, <1>a
    DEF Request, EnableClient, DisableClient

-----------------------------------------------------------------------------
(* One administrator: what every await may count on *)

\* Process p moves on to l with the local variables j.
Moves(p, l, j) == Goto(p, l) /\ job' = [job EXCEPT ![p] = j]

\* A process without a job makes no promise.
LEMMA IdleOK == \A cfg : RequestOK(cfg, "idle", NoJob) /\ ~ Pending("idle", NoJob)
  BY DEF RequestOK, Pending, NoJob, WritePoints

\* A step of the only request.
LEMMA RequestMoves ==
    ASSUME TypeOK, OneInv, NEW r \in Reqs, Reqs = {r}, node = "running", node' = node,
           undef' = {}, NEW l, NEW j, Moves(r, l, j), RequestOK(config', l, j)
    PROVE  OneInv'
  <1>1. r \in Procs /\ Boot \in Procs /\ Sig \in Procs /\ r # Boot /\ r # Sig
    BY WireGuardAssumption DEF Procs
  <1>2. pc[Boot] = "idle"
    BY DEF OneInv
  <1>3. /\ pc'[r] = l /\ job'[r] = j
        /\ pc'[Boot] = "idle" /\ pc'[Sig] = pc[Sig]
    BY <1>1, <1>2 DEF Moves, Goto, TypeOK
  <1>4. BootOK(config', pc'[Boot], job'[Boot])
    BY <1>3 DEF BootOK, WritePoints
  <1>5. \A q \in Reqs : RequestOK(config', pc'[q], job'[q])
    BY <1>3
  <1>6. QED BY <1>3, <1>4, <1>5 DEF OneInv

\* A step of the boot, while no request is accepted.
LEMMA BootMoves ==
    ASSUME TypeOK, OneInv, node # "running", node' \in {"booting", "running"},
           undef' = {}, NEW l, NEW j, Moves(Boot, l, j), BootOK(config', l, j),
           l # "idle" => node' = "booting"
    PROVE  OneInv'
  <1>1. /\ Boot \in Procs /\ Sig \in Procs /\ Boot # Sig
        /\ \A r \in Reqs : r \in Procs /\ r # Boot
    BY WireGuardAssumption DEF Procs
  <1>2. /\ pc'[Boot] = l /\ job'[Boot] = j /\ pc'[Sig] = pc[Sig]
        /\ \A r \in Reqs : pc'[r] = pc[r] /\ job'[r] = job[r]
    BY <1>1 DEF Moves, Goto, TypeOK
  <1>3. \A r \in Reqs : pc[r] = "idle" /\ job[r] = NoJob
    BY DEF OneInv, RequestOK
  <1>4. \A r \in Reqs : RequestOK(config', pc'[r], job'[r])
    BY <1>2, <1>3, IdleOK
  <1>5. QED BY <1>2, <1>3, <1>4 DEF OneInv

\* The end of the process.
LEMMA ExitOne ==
    ASSUME OneInv, ExitNode
    PROVE  OneInv'
  <1>1. /\ undef' = {} /\ node' = "off"
        /\ \A p \in Procs : pc'[p] = "idle" /\ job'[p] = NoJob
    BY DEF OneInv, ExitNode, memory
  <1>2. BootOK(config', "idle", NoJob)
    BY DEF BootOK, WritePoints
  <1>3. QED BY <1>1, <1>2, IdleOK DEF OneInv, Procs

\* The SIGTERM handler takes no part in the steps of the handlers.
LEMMA SigWaits ==
    ASSUME OneInv
    PROVE  ~ Step(Sig)
  <1>1. Sig # Boot /\ pc[Sig] \in {"idle", "down"}
    BY WireGuardAssumption DEF OneInv
  <1>2. QED
    BY <1>1
    DEF Step, InsertClient, CreateRefused, RegenKeys, KeysFail, Down, DownFails,
        DownFailsInHook, Mutate,
        OpenJson, WriteJson, OpenConf, WriteConf, WriteFails, Sync, SyncFails,
        Up, UpFails, UpFailsInHook, Rollback

\* A handler that returns or throws.
LEMMA FinishMoves ==
    ASSUME NEW p \in Procs, Finish(p)
    PROVE  Moves(p, "idle", NoJob)
  BY DEF Finish, Moves

\* A save that starts: its job, and the configuration it snapshots.
LEMMA SaveMoves ==
    ASSUME NEW p \in Procs, NEW j, NEW cfg, NEW after, Save(p, j, cfg, {}, after)
    PROVE  /\ config' = cfg /\ undef' = {}
           /\ Moves(p, "openJson", [j EXCEPT !.snap = cfg, !.after = after])
  BY DEF Save, Moves

\* The fields of a job with a snapshot.
LEMMA SnapIs ==
    ASSUME NEW j \in JobRecord, NEW cfg, NEW after
    PROVE  LET k == [j EXCEPT !.snap = cfg, !.after = after]
           IN  /\ k.kind = j.kind /\ k.id = j.id /\ k.undo = j.undo
               /\ k.snap = cfg /\ k.after = after
  BY DEF JobRecord

\* The save of a change that needs no bounce, or of a restored configuration.
LEMMA SavedOK ==
    ASSUME NEW j \in JobRecord, NEW cfg, NEW after \in {"sync", "upAgain"}
    PROVE  RequestOK(cfg, "openJson", [j EXCEPT !.snap = cfg, !.after = after])
  BY SnapIs DEF RequestOK, Pending, WritePoints

LEMMA QuietOne ==
    ASSUME TypeOK, OneInv, NEW r \in Reqs, Reqs = {r}, node = "running", SavesQuietly(r)
    PROVE  OneInv'
  <1>1. PICK cfg \in Config : /\ Save(r, Job("save", NoId, Empty, Empty), cfg, {}, "sync")
                              /\ node' = node
    BY DEF SavesQuietly
  <1>2. r \in Procs
    BY DEF Procs
  <1>3. QED BY <1>1, <1>2, SaveMoves, SavedJob, SavedOK, RequestMoves

\* createClient after the keys.
LEMMA InsertShape ==
    ASSUME TypeOK, OneInv, NEW r \in Reqs, InsertClient(r)
    PROVE  SavesQuietly(r)
  <1> DEFINE cs == {config.clients[i] : i \in Ids}
             new(a, l) == [address |-> a, spelling |-> "plain", allowed |-> {},
                           masq |-> FALSE, enabled |-> TRUE, label |-> l]
             id == job[r].id
  <1>0. config \in Config /\ r \in Procs /\ JobFits(job[r])
    BY DEF TypeOK, Procs
  <1>1. id \in ClientIds /\ id \notin DOMAIN config.clients
    BY <1>0 DEF InsertClient, OneInv, RequestOK, JobFits
  <1>2. PICK a \in FreeAddress(cs), l \in Labels :
            Save(r, Job("save", NoId, Empty, Empty),
                 WithClient(config, id, new(a, l)), {}, "sync")
    BY DEF InsertClient
  <1>3. new(a, l) \in Client
    <2>1. a \in Addrs /\ "plain" \in Spellings
      BY <1>2, PeerConfigAssumption DEF FreeAddress
    <2>2. QED BY <1>2, <2>1 DEF Client
  <1>4. new(a, l).address = a /\ new(a, l).allowed = {}
    OBVIOUS
  <1> DEFINE cfg == WithClient(config, id, new(a, l))
  <1>5. cfg \in Config
    BY <1>0, <1>1, <1>3, ChangedConfig
  <1>6. Changes(config, cfg)
    <2>1. new(a, l).address \in FreeAddress({config.clients[i] : i \in DOMAIN config.clients})
      BY <1>2, <1>4 DEF Ids
    <2> HIDE DEF new
    <2>2. QED BY <1>0, <1>1, <1>4, <2>1, CreateChanges
  <1>7. SameTunnel(config, cfg)
    BY <1>0, <1>1, <1>3, <1>4, OrdinaryKeepsHooks
  <1>8. UNCHANGED <<disk, kernel, node, crashes>>
    BY DEF InsertClient
  <1> HIDE DEF cfg
  <1>9. Save(r, Job("save", NoId, Empty, Empty), cfg, {}, "sync")
    BY <1>2 DEF cfg
  <1>10. QED BY <1>5, <1>6, <1>7, <1>8, <1>9 DEF SavesQuietly

\* __applyWithBounce changes the configuration: the job can take it back.
LEMMA MutateMoves ==
    ASSUME TypeOK, OneInv, NEW r \in Reqs, Mutate(r)
    PROVE  \E j : /\ Moves(r, "openJson", j) /\ RequestOK(config', "openJson", j)
                  /\ j.after = "up" /\ undef' = {}
                  /\ RolledBack(config', j) = config
                  /\ UNCHANGED <<disk, kernel, node, crashes>>
  <1> DEFINE old == [job[r] EXCEPT !.undo = Captured(config, job[r]), !.patch = Empty]
             cfg == Mutated(config, job[r])
             j == [old EXCEPT !.snap = cfg, !.after = "up"]
  <1>0. /\ r \in Procs /\ config \in Config
        /\ job[r] \in JobRecord /\ JobFits(job[r])
    BY DEF TypeOK, Procs
  <1>1. Planned(config, job[r])
    BY DEF OneInv, RequestOK, Mutate
  <1>2. undef \ {job[r].id} = {}
    BY DEF OneInv
  <1>3. Save(r, old, cfg, {}, "up") /\ UNCHANGED <<disk, kernel, node, crashes>>
    BY <1>2 DEF Mutate
  <1>4. old \in JobRecord /\ old.kind = job[r].kind /\ old.id = job[r].id
        /\ old.undo = Captured(config, job[r])
    <2>1. old \in JobRecord
      BY <1>0, CapturedJob
    <2>2. QED BY <1>0, <2>1 DEF JobRecord
  <1> HIDE DEF old, cfg
  <1>5. /\ j.kind = job[r].kind /\ j.id = job[r].id /\ j.undo = Captured(config, job[r])
        /\ j.snap = cfg /\ j.after = "up"
    BY <1>4, SnapIs
  <1>6. config' = cfg /\ undef' = {} /\ Moves(r, "openJson", j)
    BY <1>0, <1>3, SaveMoves
  <1> HIDE DEF j
  <1>7. /\ Changes(config, cfg) /\ RolledBack(cfg, j) = config /\ ~ RestoresNothing(j)
    BY <1>0, <1>1, <1>5, PlannedChange DEF cfg
  <1>8. RequestOK(cfg, "openJson", j)
    BY <1>5, <1>7 DEF RequestOK, Pending, WritePoints
  <1>9. QED BY <1>3, <1>5, <1>6, <1>7, <1>8

\* The rollback after a rejected `up'.
LEMMA RollbackMoves ==
    ASSUME TypeOK, OneInv, NEW r \in Reqs, Rollback(r)
    PROVE  \E j : /\ Moves(r, "openJson", j) /\ RequestOK(config', "openJson", j)
                  /\ j.after = "upAgain" /\ undef' = {}
                  /\ config' = RolledBack(config, job[r])
                  /\ UNCHANGED <<disk, kernel, node, crashes>>
  <1> DEFINE cfg == RolledBack(config, job[r])
             j == [job[r] EXCEPT !.snap = cfg, !.after = "upAgain"]
  <1>1. r \in Procs /\ job[r] \in JobRecord
    BY DEF TypeOK, Procs
  <1>2. ~ RestoresNothing(job[r])
    BY DEF OneInv, RequestOK, Pending, Rollback
  <1>3. Save(r, job[r], cfg, {}, "upAgain") /\ UNCHANGED <<disk, kernel, node, crashes>>
    <2>1. undef \ {job[r].id} = {}
      BY DEF OneInv
    <2>2. QED BY <1>2, <2>1 DEF Rollback
  <1> HIDE DEF cfg
  <1>4. config' = cfg /\ undef' = {} /\ Moves(r, "openJson", j)
    BY <1>1, <1>3, SaveMoves
  <1>5. j.after = "upAgain" /\ RequestOK(cfg, "openJson", j)
    <2>1. j.after = "upAgain"
      BY <1>1, SnapIs
    <2>2. \A after \in {"sync", "upAgain"} :
              RequestOK(cfg, "openJson", [job[r] EXCEPT !.snap = cfg, !.after = after])
      BY <1>1, SavedOK
    <2>3. QED BY <2>1, <2>2
  <1> HIDE DEF j
  <1>6. QED BY <1>3, <1>4, <1>5 DEF cfg

\* The awaits in order, the configuration and the job unchanged.
Follows(l, j, m) ==
    \/ l = "down" /\ m = "mutate"
    \/ l \in WritePoints /\ m \in WritePoints
    \/ l = "writeConf" /\ m = j.after
    \/ l = "up" /\ m = "rollback"

LEMMA FollowsOK ==
    ASSUME NEW cfg, NEW l, NEW j, NEW m, RequestOK(cfg, l, j), Follows(l, j, m)
    PROVE  RequestOK(cfg, m, j)
  <1>1. CASE l = "down" /\ m = "mutate"
    BY <1>1 DEF RequestOK, Pending, WritePoints
  <1>2. CASE l \in WritePoints /\ m \in WritePoints
    BY <1>2 DEF RequestOK, Pending, WritePoints
  <1>3. CASE l = "writeConf" /\ m = j.after
    BY <1>3 DEF RequestOK, Pending, WritePoints
  <1>4. CASE l = "up" /\ m = "rollback"
    BY <1>4 DEF RequestOK, Pending, WritePoints
  <1>5. QED BY <1>1, <1>2, <1>3, <1>4 DEF Follows

\* A handler that goes on with the job it has.
LEMMA GotoMoves ==
    ASSUME TypeOK, NEW p \in Procs, NEW m, Goto(p, m), UNCHANGED job
    PROVE  Moves(p, m, job[p])
  BY DEF TypeOK, Moves

\* An awaited call of a request failed.
LEMMA ThrowMoves ==
    ASSUME NEW r \in Reqs, Throw(r)
    PROVE  Moves(r, "idle", NoJob) /\ UNCHANGED <<memory, disk, kernel, node>>
  BY WireGuardAssumption DEF Throw, Finish, Moves

\* `up' was refused, which left the rules rs.
LEMMA RejectedMoves ==
    ASSUME TypeOK, NEW r \in Reqs, NEW rs, UpRejected(r, rs)
    PROVE  /\ UNCHANGED <<memory, disk, dev, node>> /\ rules' = rs
           /\ IF pc[r] = "up" THEN Moves(r, "rollback", job[r])
                              ELSE Moves(r, "idle", NoJob)
  <1>1. r # Boot /\ r \in Procs
    BY WireGuardAssumption DEF Procs
  <1>2. CASE pc[r] = "up"
    BY <1>1, <1>2, GotoMoves DEF UpRejected
  <1>3. CASE pc[r] # "up"
    BY <1>1, <1>3, FinishMoves DEF UpRejected
  <1>4. QED BY <1>2, <1>3

\* The steps of the request that leave memory alone end it or go on; the
\* device and the rules change at `down', `sync' and `up' only.
PlainStep(r) ==
    /\ UNCHANGED <<memory, node>>
    /\ \/ Moves(r, "idle", NoJob)
       \/ \E m : Moves(r, m, job[r]) /\ Follows(pc[r], job[r], m)
       \/ \E j : Moves(r, "down", j) /\ RequestOK(config, "down", j)

LEMMA StepShape ==
    ASSUME TypeOK, OneInv, NEW r \in Reqs, Step(r)
    PROVE  /\ node = "running" /\ pc[r] # "idle"
           /\ \/ InsertClient(r) \/ Mutate(r) \/ Rollback(r)
              \/ PlainStep(r)
  <1>0. r \in Procs /\ r # Boot
    BY WireGuardAssumption DEF Procs
  <1>1. pc[r] # "idle"
    BY DEF Step, InsertClient, CreateRefused, RegenKeys, KeysFail, Down, DownFails,
           DownFailsInHook,
        Mutate, OpenJson, WriteJson, OpenConf, WriteConf, WriteFails, Sync, SyncFails,
        Up, UpFails, UpFailsInHook, Rollback
  <1>2. node = "running"
    BY <1>1 DEF OneInv
  <1>3. CASE CreateRefused(r) \/ KeysFail(r)
    BY <1>0, <1>1, <1>2, <1>3, FinishMoves DEF CreateRefused, KeysFail, PlainStep
  <1>4. CASE RegenKeys(r)
    <2>1. PICK k \in Keys : job' = [job EXCEPT ![r].patch = [key |-> k]]
      BY <1>4 DEF RegenKeys
    <2> DEFINE j == [job[r] EXCEPT !.patch = [key |-> k]]
    <2>2. job[r] \in JobRecord /\ job[r].kind = "regen"
          /\ job[r].undo = [key |-> config.server.key] /\ job[r].after = "idle"
      BY <1>0, <1>4 DEF RegenKeys, TypeOK, OneInv, RequestOK
    <2>3. /\ j.kind = "regen" /\ j.undo = [key |-> config.server.key]
          /\ j.patch = [key |-> k] /\ j.after = "idle"
      BY <2>2 DEF JobRecord
    <2>4. Moves(r, "down", j) /\ UNCHANGED <<memory, node>>
      BY <1>0, <1>4, <2>1 DEF RegenKeys, Moves, TypeOK
    <2> HIDE DEF j
    <2>5. [key |-> k] \in [key: Keys]
      BY <2>1
    <2>6. RequestOK(config, "down", j)
      BY <2>3, <2>5 DEF RequestOK, Planned, Pending, WritePoints
    <2>7. QED BY <1>1, <1>2, <2>4, <2>6 DEF PlainStep
  <1>5. CASE Down(r) \/ DownFails(r) \/ DownFailsInHook(r)
    <2>1. Moves(r, "mutate", job[r]) /\ UNCHANGED <<memory, node>>
      BY <1>0, <1>5, GotoMoves DEF Down, DownFails, DownFailsInHook, AfterDown
    <2>2. Follows(pc[r], job[r], "mutate")
      BY <1>5 DEF Down, DownFails, DownFailsInHook, Follows
    <2>3. QED BY <1>1, <1>2, <2>1, <2>2 DEF PlainStep
  <1>6. CASE OpenJson(r) \/ WriteJson(r) \/ OpenConf(r) \/ WriteConf(r)
    <2>1. PICK m : /\ Goto(r, m) /\ UNCHANGED <<memory, node, job>>
                   /\ Follows(pc[r], job[r], m)
      BY <1>6 DEF OpenJson, WriteJson, OpenConf, WriteConf, Follows, WritePoints, kernel
    <2>2. QED BY <1>0, <1>1, <1>2, <2>1, GotoMoves DEF PlainStep
  <1>7. CASE WriteFails(r) \/ SyncFails(r)
    BY <1>1, <1>2, <1>7, ThrowMoves DEF WriteFails, SyncFails, PlainStep
  <1>8. CASE Sync(r) \/ Up(r)
    BY <1>0, <1>1, <1>2, <1>8, FinishMoves DEF Sync, Up, PlainStep
  <1>9. CASE UpFails(r) \/ UpFailsInHook(r)
    <2>1. PICK rs : UpRejected(r, rs)
      BY <1>9 DEF UpFails, UpFailsInHook
    <2>2. CASE pc[r] = "up"
      BY <1>1, <1>2, <2>1, <2>2, RejectedMoves DEF PlainStep, Follows
    <2>3. CASE pc[r] # "up"
      BY <1>1, <1>2, <2>1, <2>3, RejectedMoves DEF PlainStep
    <2>4. QED BY <2>2, <2>3
  <1>10. QED
    BY <1>1, <1>2, <1>3, <1>4, <1>5, <1>6, <1>7, <1>8, <1>9 DEF Step

LEMMA StepOne ==
    ASSUME TypeOK, OneInv, NEW r \in Reqs, Reqs = {r}, Step(r)
    PROVE  OneInv'
  <1>0. node = "running" /\ undef = {} /\ RequestOK(config, pc[r], job[r])
    BY StepShape DEF OneInv
  <1>1. CASE InsertClient(r)
    BY <1>0, <1>1, InsertShape, QuietOne
  <1>2. CASE Mutate(r)
    BY <1>0, <1>2, MutateMoves, RequestMoves
  <1>3. CASE Rollback(r)
    BY <1>0, <1>3, RollbackMoves, RequestMoves
  <1>4. CASE PlainStep(r)
    <2>0. config' = config /\ undef' = {} /\ node' = node
      BY <1>0, <1>4 DEF PlainStep, memory
    <2>1. PICK m, j : Moves(r, m, j) /\ RequestOK(config, m, j)
      BY <1>0, <1>4, FollowsOK, IdleOK DEF PlainStep
    <2>2. QED BY <1>0, <2>0, <2>1, RequestMoves
  <1>5. QED BY <1>1, <1>2, <1>3, <1>4, StepShape

\* The boot: it writes what it read, and goes up.
LEMMA BootOne ==
    ASSUME TypeOK, OneInv, Step(Boot) \/ StartNode \/ Load
    PROVE  OneInv'
  <1>0. /\ Boot \in Procs /\ Boot # Sig /\ undef = {}
        /\ BootOK(config, pc[Boot], job[Boot])
    BY WireGuardAssumption DEF Procs, OneInv
  <1>1. CASE StartNode
    <2>1. /\ Moves(Boot, "load", job[Boot]) /\ node' = "booting" /\ node # "running"
          /\ config' = config /\ undef' = {}
      BY <1>0, <1>1, GotoMoves DEF StartNode, memory
    <2>2. BootOK(config', "load", job[Boot])
      BY DEF BootOK, WritePoints
    <2>3. QED BY <2>1, <2>2, BootMoves
  <1>2. CASE Load
    <2>1. pc[Boot] = "load" /\ node = "booting"
      BY <1>2 DEF Load, OneInv
    <2>2. PICK cfg : Save(Boot, Job("boot", NoId, Empty, Empty), cfg, {}, "down")
                     /\ node' = node
      BY <1>2 DEF Load
    <2> DEFINE j == [Job("boot", NoId, Empty, Empty) EXCEPT !.snap = cfg, !.after = "down"]
    <2>3. config' = cfg /\ undef' = {} /\ Moves(Boot, "openJson", j)
      BY <1>0, <2>2, SaveMoves
    <2>4. j.snap = cfg /\ j.after = "down"
      BY SavedJob, SnapIs
    <2> HIDE DEF j
    <2>5. BootOK(config', "openJson", j)
      BY <2>3, <2>4 DEF BootOK, WritePoints
    <2>6. QED BY <2>1, <2>2, <2>3, <2>5, BootMoves
  <1>3. CASE Step(Boot)
    <2>1. node = "booting"
      BY <1>0, <1>3
      DEF OneInv, Step, InsertClient, CreateRefused, RegenKeys, KeysFail, Down, DownFails,
          DownFailsInHook,
          Mutate, OpenJson, WriteJson, OpenConf, WriteConf, WriteFails, Sync, SyncFails,
          Up, UpFails, UpFailsInHook, Rollback
    <2>2. ~ (InsertClient(Boot) \/ CreateRefused(Boot) \/ RegenKeys(Boot) \/ KeysFail(Boot)
             \/ Mutate(Boot) \/ Rollback(Boot))
      BY <1>0 DEF BootOK, WritePoints, InsertClient, CreateRefused, RegenKeys, KeysFail,
                  Mutate, Rollback
    <2>3. CASE WriteFails(Boot) \/ SyncFails(Boot) \/ UpFails(Boot) \/ UpFailsInHook(Boot)
      BY <2>3, ExitOne DEF WriteFails, SyncFails, UpFails, UpFailsInHook, Throw, UpRejected
    <2>4. CASE Sync(Boot)
      <3>1. /\ Moves(Boot, "idle", NoJob) /\ node' = "running"
            /\ config' = config /\ undef' = {}
        BY <1>0, <2>4, FinishMoves DEF Sync, memory
      <3>2. BootOK(config', "idle", NoJob)
        BY DEF BootOK, WritePoints
      <3>3. QED BY <2>1, <3>1, <3>2, BootMoves
    <2>5. CASE \/ Down(Boot) \/ DownFails(Boot) \/ DownFailsInHook(Boot) \/ OpenJson(Boot) \/ WriteJson(Boot)
               \/ OpenConf(Boot) \/ WriteConf(Boot) \/ Up(Boot)
      <3>1. PICK m \in {"up", "sync", "down", "writeJson", "openConf", "writeConf"} :
                /\ Goto(Boot, m)
                /\ UNCHANGED <<memory, node, job>>
                /\ m \in WritePoints => pc[Boot] \in WritePoints
        BY <1>0, <2>5
        DEF BootOK, Down, DownFails,
            DownFailsInHook, OpenJson, WriteJson, OpenConf, WriteConf, Up,
            AfterDown, WritePoints, kernel
      <3>2. /\ Moves(Boot, m, job[Boot]) /\ node' = "booting"
            /\ config' = config /\ undef' = {}
        BY <1>0, <2>1, <3>1, GotoMoves DEF memory
      <3>3. BootOK(config', m, job[Boot])
        BY <1>0, <3>1, <3>2 DEF BootOK, WritePoints
      <3>4. QED BY <2>1, <3>2, <3>3, BootMoves
    <2>6. QED BY <1>3, <2>2, <2>3, <2>4, <2>5 DEF Step
  <1>4. QED BY <1>1, <1>2, <1>3

\* With one administrator, whatever fails and whenever the process ends.
LEMMA OneStep ==
    ASSUME TypeOK, OneInv, NEW r \in Reqs, Reqs = {r}, [Next]_vars
    PROVE  OneInv'
  <1>0. Sig \in Procs /\ Sig # Boot /\ Boot \in Procs /\ Procs = {r, Boot, Sig} /\ r # Sig
    BY WireGuardAssumption DEF Procs
  <1>1. CASE Request(r)
    <2>1. PICK j, l : \/ SavesQuietly(r)
                      \/ Begin(r, j, l) /\ RequestOK(config, l, j)
      BY <1>1, RequestShape
    <2>2. node = "running" /\ undef = {}
      BY <1>1, RequestShape DEF OneInv
    <2>3. CASE SavesQuietly(r)
      BY <2>2, <2>3, QuietOne
    <2>4. CASE Begin(r, j, l) /\ RequestOK(config, l, j)
      <3>1. Moves(r, l, j) /\ config' = config /\ undef' = {} /\ node' = node
        BY <2>2, <2>4 DEF Begin, Moves, memory
      <3>2. QED BY <2>2, <2>4, <3>1, RequestMoves
    <2>5. QED BY <2>1, <2>3, <2>4
  <1>2. CASE Shutdown \/ Crash
    BY <1>2, ExitOne DEF Shutdown, Crash
  <1>3. CASE Sigterm
    <2>1. /\ UNCHANGED <<memory, node, job>> /\ "sigterm" \in Ops
          /\ pc' = [pc EXCEPT ![Sig] = "down"]
      BY <1>3 DEF Sigterm, Goto
    <2>2. pc'[Sig] = "down" /\ pc'[Boot] = pc[Boot] /\ pc'[r] = pc[r]
      BY <1>0, <2>1 DEF TypeOK
    <2>3. QED BY <2>1, <2>2 DEF OneInv, memory
  <1>4. CASE UNCHANGED vars
    BY <1>4 DEF vars, OneInv
  <1>5. QED
    BY <1>0, <1>1, <1>2, <1>3, <1>4, StepOne, BootOne, SigWaits DEF Next

LEMMA OneInit ==
    ASSUME Init
    PROVE  OneInv
  <1>1. \A p \in Procs : pc[p] = "idle" /\ job[p] = NoJob
    BY DEF Init
  <1>2. BootOK(config, "idle", NoJob)
    BY DEF BootOK, WritePoints
  <1>3. Boot \in Procs /\ Sig \in Procs /\ Reqs \subseteq Procs
    BY DEF Procs
  <1>4. undef = {} /\ node = "off"
    BY DEF Init
  <1>5. QED BY <1>1, <1>2, <1>3, <1>4, IdleOK DEF OneInv

LEMMA OneHolds == OneAdmin /\ Spec => []OneInv
  <1> SUFFICES ASSUME OneAdmin PROVE Spec => []OneInv
    OBVIOUS
  <1>1. Init => OneInv
    BY OneInit
  <1>2. TypeOK /\ OneInv /\ [Next]_vars => OneInv'
    BY OneStep DEF OneAdmin
  <1>3. QED BY <1>1, <1>2, TypeCorrect, PTL DEF Spec

\* With one administrator no rollback leaves a key of config.clients without a
\* client: the renders that follow do not throw (deleteClient's rollback).
THEOREM EntriesStayClients == OneAdmin /\ Spec => []EveryEntryIsAClient
  <1>1. OneInv => EveryEntryIsAClient
    BY DEF OneInv, EveryEntryIsAClient
  <1>2. QED BY <1>1, OneHolds, PTL

-----------------------------------------------------------------------------
(* One administrator sees a ConfigStore *)

\* The abstract store, by the point the only request has reached.
LEMMA CommittedIs ==
    ASSUME NEW r \in Reqs, Reqs = {r}
    PROVE  /\ node = "running" => Committed = Kept(config, pc[r], job[r])
           /\ node' = "running" => Committed' = Kept(config', pc'[r], job'[r])
           /\ node # "running" => Committed = Empty
           /\ node' # "running" => Committed' = Empty
  <1>0. \A S : S = {r} => (CHOOSE q \in S : TRUE) = r
    OBVIOUS
  <1>1. Uncommitted = IF Pending(pc[r], job[r]) THEN {r} ELSE {}
    BY DEF Uncommitted, Pending, WritePoints
  <1>2. Uncommitted' = IF Pending(pc'[r], job'[r]) THEN {r} ELSE {}
    BY DEF Uncommitted, Pending, WritePoints
  <1>3. node = "running" => Committed = Kept(config, pc[r], job[r])
    BY <1>0, <1>1 DEF Committed, Kept
  <1>4. node' = "running" => Committed' = Kept(config', pc'[r], job'[r])
    BY <1>0, <1>2 DEF Committed, Kept
  <1>5. QED BY <1>3, <1>4 DEF Committed

\* ConfigStore is about the same data.
LEMMA SameData ==
    /\ Store!Empty = Empty /\ Store!Config = Config /\ Store!SettingsPatch = SettingsPatch
    /\ \A s, p : Store!Patched(s, p) = Patched(s, p)
    /\ \A ns, cs : Store!FindOverlap(ns, cs) = FindOverlap(ns, cs)
  <1>1. Store!Empty = Empty
    BY DEF Store!Empty, Empty
  <1>2. Store!Config = Config
    BY DEF Store!Config, Config, Store!Server, Server, Store!Client, Client
  <1>3. Store!SettingsPatch = SettingsPatch
    BY DEF Store!SettingsPatch, SettingsPatch, Store!SettingFields, SettingFields
  <1>4. ASSUME NEW s, NEW p PROVE Store!Patched(s, p) = Patched(s, p)
    BY DEF Store!Patched, Patched
  <1>5. ASSUME NEW ns, NEW cs PROVE Store!FindOverlap(ns, cs) = FindOverlap(ns, cs)
    BY DEF Store!FindOverlap, FindOverlap, Store!EffectiveCidrs, EffectiveCidrs,
           Store!Overlaps, Overlaps
  <1>6. QED BY <1>1, <1>2, <1>3, <1>4, <1>5

\* An address that createClient finds free overlaps no client, site peer or
\* not, as long as it recognises the ones that are taken.
LEMMA FreeIsApart ==
    ASSUME PlainAddresses, NEW clients, \A c \in clients : c \in Client,
           NEW a \in FreeAddress(clients)
    PROVE  a \in Pool /\ ~ FindOverlap({{a}}, clients)
  <1>1. a \in Pool
    BY DEF FreeAddress
  <1>2. ASSUME NEW c \in clients, NEW y \in EffectiveCidrs(c)
        PROVE  ~ Overlaps({a}, y)
    <2>1. CASE IsSitePeer(c)
      <3>1. c \in {d \in clients : IsSitePeer(d)}
        BY <2>1
      <3>2. ~ FindOverlap({{a}}, {d \in clients : IsSitePeer(d)})
        BY DEF FreeAddress
      <3>3. QED BY <1>2, <3>1, <3>2 DEF FindOverlap
    <2>2. CASE ~ IsSitePeer(c)
      <3>1. c.spelling = "plain"
        BY DEF PlainAddresses, Client
      <3>2. y = {c.address} /\ c.address # a
        BY <1>2, <2>2, <3>1 DEF EffectiveCidrs, IsSitePeer, FreeAddress
      <3>3. QED BY <3>2 DEF Overlaps
    <2>3. QED BY <2>1, <2>2
  <1>3. QED BY <1>1, <1>2 DEF FindOverlap

\* A whole change of a configuration is a step of the store.
LEMMA ChangeIsStep ==
    ASSUME PlainAddresses, Committed \in Config, Changes(Committed, Committed')
    PROVE  Store!StoreNext
  <1>0. Committed # Empty
    <2>1. DOMAIN Committed = {"server", "clients"}
      BY DEF Config
    <2>2. DOMAIN Empty = {}
      BY DEF Empty
    <2>3. QED BY <2>1, <2>2
  <1>1. CASE /\ Committed'.clients = Committed.clients
             /\ \/ \E patch \in SettingsPatch :
                       Committed'.server = Patched(Committed.server, patch)
                \/ \E k \in Keys : Committed'.server = [Committed.server EXCEPT !.key = k]
    BY <1>0, <1>1, SameData DEF Store!StoreNext, Store!Configure
  <1>2. ASSUME NEW id \in ClientIds,
               id \notin DOMAIN Committed.clients,
               DOMAIN Committed'.clients = DOMAIN Committed.clients \cup {id},
               Committed'.clients[id].address \in
                   FreeAddress({Committed.clients[i] : i \in DOMAIN Committed.clients}),
               Committed'.clients[id].allowed = {},
               Committed'.server = Committed.server,
               \A i \in DOMAIN Committed.clients \ {id} :
                   Committed'.clients[i] = Committed.clients[i]
        PROVE  Store!StoreNext
    <2> DEFINE a == Committed'.clients[id].address
               all == {Committed.clients[i] : i \in DOMAIN Committed.clients}
    <2>1. \A c \in all : c \in Client
      BY ConfigParts
    <2>2. a \in Pool /\ ~ FindOverlap({{a}}, all)
      <3> HIDE DEF all
      <3>1. QED BY <1>2, <2>1, FreeIsApart DEF all
    <2>3. all = {Committed.clients[i] : i \in DOMAIN Committed.clients \ {id}}
      BY <1>2
    <2>4. a \in Pool /\ ~ Store!FindOverlap({{a}}, Store!Others(id))
      <3> HIDE DEF a, all
      <3>1. QED BY <2>2, <2>3, SameData DEF Store!Others
    <2>5. Store!Create(id)
      BY <1>2, <2>4 DEF Store!Create, Store!Same
    <2>6. QED BY <1>0, <1>2, <2>5, SameData DEF Store!StoreNext
  <1>3. ASSUME NEW id \in DOMAIN Committed.clients, id \in ClientIds,
               DOMAIN Committed'.clients = DOMAIN Committed.clients \ {id},
               Committed'.server = Committed.server,
               \A i \in DOMAIN Committed.clients \ {id} :
                   Committed'.clients[i] = Committed.clients[i]
        PROVE  Store!StoreNext
    BY <1>0, <1>3, SameData DEF Store!StoreNext, Store!Delete, Store!Same
  <1>4. ASSUME NEW id \in DOMAIN Committed.clients, id \in ClientIds,
               DOMAIN Committed'.clients = DOMAIN Committed.clients,
               Edited({Committed.clients[i] : i \in DOMAIN Committed.clients \ {id}},
                      Committed.clients[id], Committed'.clients[id]),
               Committed'.server = Committed.server,
               \A i \in DOMAIN Committed.clients \ {id} :
                   Committed'.clients[i] = Committed.clients[i]
        PROVE  Store!StoreNext
    <2>1. Store!Edit(id)
      BY <1>4, SameData DEF Store!Edit, Store!Same, Store!Others, Edited
    <2>2. QED BY <1>0, <1>4, <2>1, SameData DEF Store!StoreNext
  <1>5. QED BY <1>1, <1>2, <1>3, <1>4 DEF Changes

\* The server is up.
LEMMA OpenIsStep ==
    ASSUME Committed = Empty, Committed' \in Config
    PROVE  Store!StoreNext
  BY SameData DEF Store!StoreNext, Store!Open

\* A step of the request is one whole change, or none.
LEMMA RequestStoreStep ==
    ASSUME PlainAddresses, TypeOK, TypeOK', OneInv, NEW r \in Reqs, Reqs = {r},
           Request(r) \/ Step(r)
    PROVE  Store!StoreNext \/ UNCHANGED Committed
  <1>0. /\ r \in Procs /\ config \in Config /\ config' \in Config
        /\ job[r] \in JobRecord /\ JobFits(job[r])
        /\ RequestOK(config, pc[r], job[r])
    BY DEF TypeOK, OneInv, Procs
  <1>1. node = "running" /\ node' = "running"
        => /\ Committed = Kept(config, pc[r], job[r])
           /\ Committed' = Kept(config', pc'[r], job'[r])
    BY CommittedIs
  <1>2. Kept(config, pc[r], job[r]) \in Config
    BY <1>0, RolledBackConfig DEF Kept
  <1>3. ASSUME node = "running", node' = "running", config' = config,
               Kept(config', pc'[r], job'[r]) = config
        PROVE  Store!StoreNext \/ UNCHANGED Committed
    <2>1. CASE Pending(pc[r], job[r])
      BY <1>0, <1>1, <1>2, <1>3, <2>1, ChangeIsStep DEF Kept, RequestOK
    <2>2. CASE ~ Pending(pc[r], job[r])
      BY <1>1, <1>3, <2>2 DEF Kept
    <2>3. QED BY <2>1, <2>2
  <1>4. ASSUME NEW l, NEW j, Moves(r, l, j)
        PROVE  pc'[r] = l /\ job'[r] = j
    BY <1>0, <1>4 DEF Moves, Goto, TypeOK
  <1>5. ASSUME SavesQuietly(r), node = "running", pc[r] \in {"idle", "keys"}
        PROVE  Store!StoreNext
    <2> DEFINE save == Job("save", NoId, Empty, Empty)
    <2>1. PICK cfg \in Config : /\ Save(r, save, cfg, {}, "sync")
                                /\ Changes(config, cfg) /\ node' = node
      BY <1>5 DEF SavesQuietly
    <2> DEFINE j == [save EXCEPT !.snap = cfg, !.after = "sync"]
    <2>a. save \in JobRecord
      BY SavedJob
    <2> HIDE DEF save
    <2>b. config' = cfg /\ Moves(r, "openJson", j) /\ j.after = "sync"
      <3>1. Save(r, save, cfg, {}, "sync")
        BY <2>1
      <3>2. config' = cfg /\ Moves(r, "openJson", j)
        BY <3>1 DEF Save, Moves
      <3>3. j.after = "sync"
        BY <2>a, SnapIs
      <3>4. QED BY <3>2, <3>3
    <2> HIDE DEF j
    <2>2. config' = cfg /\ job'[r].after = "sync"
      BY <1>4, <2>a, <2>b
    <2>3. Committed = config /\ Committed' = cfg
      BY <1>1, <1>5, <2>1, <2>2 DEF Kept, Pending, WritePoints
    <2>4. QED BY <1>0, <2>1, <2>3, ChangeIsStep
  <1>6. CASE Request(r)
    <2>1. node = "running" /\ pc[r] = "idle"
      BY <1>6, RequestShape
    <2>2. CASE SavesQuietly(r)
      BY <1>5, <2>1, <2>2
    <2>3. CASE \E j, l : Begin(r, j, l) /\ l \in {"keys", "down"} /\ RequestOK(config, l, j)
      <3>1. /\ pc'[r] \in {"keys", "down"} /\ config' = config /\ node' = node
        BY <1>0, <1>4, <2>3 DEF Begin, Moves, memory
      <3>2. Kept(config', pc'[r], job'[r]) = config
        BY <3>1 DEF Kept, Pending, WritePoints
      <3>3. QED BY <1>3, <2>1, <3>1, <3>2
    <2>4. QED BY <1>6, <2>2, <2>3, RequestShape
  <1>7. CASE Step(r)
    <2>1. node = "running"
      BY <1>7, StepShape
    <2>2. CASE InsertClient(r)
      BY <1>5, <2>1, <2>2, InsertShape DEF InsertClient
    <2>3. CASE Mutate(r)
      <3>1. PICK j : /\ Moves(r, "openJson", j) /\ j.after = "up"
                     /\ RolledBack(config', j) = config /\ node' = node
        BY <2>3, MutateMoves
      <3>2. Kept(config, pc[r], job[r]) = config
        BY <2>3 DEF Mutate, Kept, Pending, WritePoints
      <3>3. Kept(config', pc'[r], job'[r]) = config
        BY <1>4, <3>1 DEF Kept, Pending, WritePoints
      <3>4. QED BY <1>1, <2>1, <3>1, <3>2, <3>3
    <2>4. CASE Rollback(r)
      <3>1. PICK j : /\ Moves(r, "openJson", j) /\ j.after = "upAgain"
                     /\ config' = RolledBack(config, job[r]) /\ node' = node
        BY <2>4, RollbackMoves
      <3>2. Kept(config, pc[r], job[r]) = config'
        BY <1>0, <2>4, <3>1 DEF Rollback, Kept, Pending, RequestOK
      <3>3. Kept(config', pc'[r], job'[r]) = config'
        BY <1>4, <3>1 DEF Kept, Pending
      <3>4. QED BY <1>1, <2>1, <3>1, <3>2, <3>3
    <2>5. CASE PlainStep(r)
      <3>0. config' = config /\ node' = node
        BY <2>5 DEF PlainStep, memory
      <3>1. CASE Moves(r, "idle", NoJob) \/ \E j : Moves(r, "down", j)
        <4>1. pc'[r] \in {"idle", "down"}
          BY <1>4, <3>1
        <4>2. Kept(config', pc'[r], job'[r]) = config
          BY <3>0, <4>1 DEF Kept, Pending, WritePoints
        <4>3. QED BY <1>3, <2>1, <3>0, <4>2
      <3>2. ASSUME NEW m, Moves(r, m, job[r]), Follows(pc[r], job[r], m)
            PROVE  UNCHANGED Committed
        <4>1. pc'[r] = m /\ job'[r] = job[r]
          BY <1>4, <3>2
        <4>2. Pending(m, job[r]) <=> Pending(pc[r], job[r])
          BY <1>0, <3>2 DEF Follows, Pending, WritePoints, RequestOK
        <4>3. QED BY <1>1, <2>1, <3>0, <4>1, <4>2 DEF Kept
      <3>3. QED BY <2>5, <3>1, <3>2 DEF PlainStep
    <2>6. QED BY <1>7, <2>2, <2>3, <2>4, <2>5, StepShape
  <1>8. QED BY <1>6, <1>7

\* The boot makes no change, but the last of its steps opens the store.
LEMMA BootStoreStep ==
    ASSUME TypeOK, OneInv, NEW r \in Reqs, Reqs = {r}, Step(Boot) \/ StartNode \/ Load
    PROVE  Store!StoreNext \/ UNCHANGED Committed
  <1>0. /\ config \in Config /\ Boot \in Procs /\ r \in Procs /\ r # Boot
    BY WireGuardAssumption DEF TypeOK, Procs
  <1>1. node # "running" /\ pc[r] = "idle"
    BY DEF OneInv, BootOK, StartNode, Load, Step, InsertClient, CreateRefused, RegenKeys,
           KeysFail, Down, DownFails,
           DownFailsInHook, Mutate, OpenJson, WriteJson, OpenConf, WriteConf,
           WriteFails, Sync, SyncFails, Up, UpFails, UpFailsInHook, Rollback
  <1>2. CASE Sync(Boot)
    <2>1. /\ node' = "running" /\ config' = config /\ pc'[r] = "idle"
      BY <1>0, <1>1, <1>2 DEF Sync, Finish, Goto, memory, TypeOK
    <2>2. Committed = Empty /\ Committed' = config
      BY <1>1, <2>1, CommittedIs DEF Kept, Pending, WritePoints
    <2>3. QED BY <1>0, <2>2, OpenIsStep
  <1>3. CASE ~ Sync(Boot)
    <2>1. node' # "running"
      BY <1>1, <1>3
      DEF StartNode, Load, Step, InsertClient, CreateRefused, RegenKeys,
          KeysFail, Down, DownFails,
          DownFailsInHook, Mutate, OpenJson, WriteJson, OpenConf, WriteConf,
          WriteFails, SyncFails, Up, UpFails, UpFailsInHook, Rollback,
          Throw, UpRejected, ExitNode, kernel
    <2>2. QED BY <1>1, <2>1, CommittedIs
  <1>4. QED BY <1>2, <1>3

\* As long as the process runs: the store has no step for its end.
NeverEnds == "crash" \notin Faults /\ "sigterm" \notin Ops

LEMMA StoreStep ==
    ASSUME NeverEnds, PlainAddresses, TypeOK, TypeOK', OneInv, NEW r \in Reqs, Reqs = {r},
           [Next]_vars
    PROVE  [Store!StoreNext]_Committed
  <1>1. Procs = {r, Boot, Sig}
    BY DEF Procs
  <1>2. ~ (Sigterm \/ Shutdown \/ Crash)
    BY DEF NeverEnds, OneInv, Sigterm, Shutdown, Crash
  <1>3. CASE UNCHANGED vars
    BY <1>3, CommittedIs DEF vars
  <1>4. QED
    BY <1>1, <1>2, <1>3, RequestStoreStep, BootStoreStep, SigWaits DEF Next

\* With one administrator, and as long as the process runs, every request is
\* one whole validated change of the configuration or none at all, whatever
\* fails: `up', `down', `syncconf' or a write of either file (the handlers of
\* WireGuard.js, __applyWithBounce and __saveConfig).  A new client is apart
\* from all others if their addresses are spelled as createClient does.
THEOREM ImplementsConfigStore ==
    OneAdmin /\ NeverEnds /\ PlainAddresses /\ Spec => ImplementsStore
  <1> SUFFICES ASSUME OneAdmin, NeverEnds, PlainAddresses PROVE Spec => Store!StoreSpec
    BY DEF ImplementsStore
  <1>1. Init => Store!StoreInit
    BY SameData DEF Init, Store!StoreInit, Committed
  <1>2. TypeOK /\ TypeOK' /\ OneInv /\ [Next]_vars => [Store!StoreNext]_Committed
    BY StoreStep DEF OneAdmin
  <1>3. Spec => []OneInv
    BY OneHolds
  <1>4. QED BY <1>1, <1>2, <1>3, TypeCorrect, PTL DEF Spec, Store!StoreSpec

-----------------------------------------------------------------------------
(* What the steps keep *)

\* Nothing is pending at these awaits.
LEMMA KeptAt ==
    ASSUME NEW cfg, NEW l, NEW j,
           l \in {"idle", "keys", "load", "down", "mutate", "sync", "upAgain"}
    PROVE  Kept(cfg, l, j) = cfg
  BY DEF Kept, Pending, WritePoints

\* Nor at the writes before `sync' and before the second `up'.
LEMMA KeptUnless ==
    ASSUME NEW cfg, NEW l, NEW j, j.after # "up"
    PROVE  Kept(cfg, l, j) = cfg
  BY DEF Kept, Pending

\* Going on with the same job keeps the same configuration.
LEMMA KeptFollows ==
    ASSUME NEW cfg, NEW l, NEW j, NEW m, RequestOK(cfg, l, j), Follows(l, j, m)
    PROVE  Kept(cfg, m, j) = Kept(cfg, l, j)
  BY DEF Follows, Kept, Pending, WritePoints, RequestOK

\* Where the request is after a step.
LEMMA Lands ==
    ASSUME TypeOK, NEW p \in Procs, NEW l, NEW j, Moves(p, l, j)
    PROVE  /\ pc'[p] = l /\ job'[p] = j
           /\ \A q \in Procs \ {p} : pc'[q] = pc[q] /\ job'[q] = job[q]
  BY DEF Moves, Goto, TypeOK

\* A quiet save, from the first await to the file it opens.
LEMMA QuietLands ==
    ASSUME TypeOK, NEW r \in Reqs, SavesQuietly(r)
    PROVE  /\ pc'[r] = "openJson" /\ job'[r].after = "sync"
           /\ \A q \in Procs \ {r} : pc'[q] = pc[q]
           /\ SameTunnel(config, config') /\ Changes(config, config')
           /\ UNCHANGED <<disk, kernel, node>>
  <1> DEFINE save == Job("save", NoId, Empty, Empty)
  <1>1. PICK cfg \in Config : /\ Save(r, save, cfg, {}, "sync")
                              /\ SameTunnel(config, cfg) /\ Changes(config, cfg)
                              /\ UNCHANGED <<disk, kernel, node>>
    BY DEF SavesQuietly
  <1>2. r \in Procs /\ save \in JobRecord
    BY SavedJob DEF Procs
  <1> HIDE DEF save
  <1> DEFINE j == [save EXCEPT !.snap = cfg, !.after = "sync"]
  <1>3. config' = cfg /\ Moves(r, "openJson", j)
    BY <1>1 DEF Save, Moves
  <1>4. j.after = "sync"
    BY <1>2, SnapIs
  <1> HIDE DEF j
  <1>5. QED BY <1>1, <1>2, <1>3, <1>4, Lands

\* A step of the boot: it ends the process, or leaves the kernel alone until
\* `down', `up' and `sync'; only getConfig's read replaces the memory.
LEMMA BootShape ==
    ASSUME TypeOK, OneInv, NEW r \in Reqs, Reqs = {r}, Step(Boot) \/ StartNode \/ Load
    PROVE  /\ node # "running" /\ pc[r] = "idle" /\ pc'[r] = "idle"
           /\ Load \/ UNCHANGED memory
           /\ \/ ExitNode
              \/ /\ UNCHANGED kernel /\ node' = "booting"
                 /\ pc[Boot] # "sync" /\ pc'[Boot] # "sync"
              \/ (Down(Boot) \/ DownFailsInHook(Boot)) /\ pc'[Boot] = "up"
              \/ Up(Boot) /\ pc'[Boot] = "sync"
              \/ Sync(Boot) /\ node' = "running" /\ pc'[Boot] = "idle"
  <1> DEFINE Shape ==
        \/ ExitNode
        \/ /\ UNCHANGED kernel /\ node' = "booting"
           /\ pc[Boot] # "sync" /\ pc'[Boot] # "sync"
        \/ (Down(Boot) \/ DownFailsInHook(Boot)) /\ pc'[Boot] = "up"
        \/ Up(Boot) /\ pc'[Boot] = "sync"
        \/ Sync(Boot) /\ node' = "running" /\ pc'[Boot] = "idle"
  <1>0. /\ Boot \in Procs /\ r \in Procs /\ r # Boot /\ BootOK(config, pc[Boot], job[Boot])
    BY WireGuardAssumption DEF Procs, OneInv
  <1>1. \A l : Goto(Boot, l) => pc'[Boot] = l /\ pc'[r] = pc[r]
    BY <1>0 DEF TypeOK, Goto
  <1>2. node # "running" /\ pc[r] = "idle"
    <2>1. node # "running"
      BY <1>0
      DEF OneInv, StartNode, Load, Step, InsertClient, CreateRefused, RegenKeys, KeysFail,
          Down, DownFails,
          DownFailsInHook, Mutate, OpenJson, WriteJson, OpenConf, WriteConf, WriteFails,
          Sync, SyncFails, Up, UpFails, UpFailsInHook, Rollback
    <2>2. QED BY <2>1 DEF OneInv
  <1>3. pc[Boot] # "idle" => node = "booting"
    BY DEF OneInv
  <1>4. ASSUME StartNode
        PROVE  Shape
    <2>1. pc[Boot] = "idle"
      BY <1>3, <1>4 DEF StartNode
    <2>2. QED BY <1>1, <1>2, <1>4, <2>1 DEF StartNode
  <1>5. ASSUME Load
        PROVE  Shape
    <2>1. pc[Boot] = "load" /\ pc'[Boot] = "openJson" /\ UNCHANGED <<kernel, node>>
      BY <1>1, <1>5 DEF Load, Save
    <2>2. QED BY <1>2, <1>3, <2>1
  <1>6. ASSUME OpenJson(Boot) \/ WriteJson(Boot) \/ OpenConf(Boot) \/ WriteConf(Boot)
        PROVE  Shape
    <2>1. pc[Boot] \in WritePoints /\ UNCHANGED <<kernel, node>>
      BY <1>6 DEF OpenJson, WriteJson, OpenConf, WriteConf, WritePoints
    <2>2. job[Boot].after = "down"
      BY <1>0, <2>1 DEF BootOK
    <2>3. pc'[Boot] \in WritePoints \cup {"down"}
      BY <1>1, <1>6, <2>2 DEF OpenJson, WriteJson, OpenConf, WriteConf, WritePoints
    <2>4. QED BY <1>2, <1>3, <2>1, <2>3 DEF WritePoints
  <1>7. ASSUME Down(Boot) \/ DownFails(Boot) \/ DownFailsInHook(Boot)
        PROVE  Shape
    <2>1. CASE Down(Boot) \/ DownFailsInHook(Boot)
      BY <1>1, <2>1 DEF Down, DownFailsInHook, AfterDown
    <2>2. CASE DownFails(Boot)
      BY <1>1, <1>2, <1>3, <2>2 DEF DownFails, AfterDown
    <2>3. QED BY <1>7, <2>1, <2>2
  <1>8. ASSUME Up(Boot) \/ Sync(Boot)
        PROVE  Shape
    BY <1>1, <1>2, <1>8 DEF Up, Sync, Finish
  <1>9. ASSUME WriteFails(Boot) \/ SyncFails(Boot) \/ UpFails(Boot) \/ UpFailsInHook(Boot)
        PROVE  Shape
    BY <1>2, <1>9 DEF WriteFails, SyncFails, UpFails, UpFailsInHook, Throw, UpRejected
  <1>10. ~ (InsertClient(Boot) \/ CreateRefused(Boot) \/ RegenKeys(Boot) \/ KeysFail(Boot)
            \/ Mutate(Boot) \/ Rollback(Boot))
    BY <1>0 DEF BootOK, WritePoints, InsertClient, CreateRefused, RegenKeys, KeysFail,
                Mutate, Rollback
  <1>11. pc'[r] = "idle" /\ (Load \/ UNCHANGED memory)
    BY <1>0, <1>1, <1>2, <1>10
    DEF Step, StartNode, Load, Down, DownFails,
        DownFailsInHook, OpenJson, WriteJson, OpenConf, WriteConf,
        WriteFails, Sync, SyncFails, Up, UpFails, UpFailsInHook, Throw, UpRejected,
        ExitNode, Finish, Save
  <1>12. Shape
    <2> HIDE DEF Shape
    <2>1. QED BY <1>4, <1>5, <1>6, <1>7, <1>8, <1>9, <1>10 DEF Step
  <1>13. QED BY <1>2, <1>11, <1>12
=============================================================================
