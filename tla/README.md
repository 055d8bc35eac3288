# AmneziaWG easy: verification

TLA+ models of the AmneziaWG server manager and its web page (`src/src/`,
Node.js), of its probe responder (`src/responder/`, Go) and of the script that
supervises both, the TLC configurations that check them, and TLAPS proofs about
them. Every definition is translated from the code;
`PROJECT.json` maps each one to its lines.

## 1. The system and its parts

One container runs Node (HTTP API, configuration manager, web UI) and, when
`RESPONDER=true`, a Go program that answers probes of the VPN port. Node drives
`wg-quick`, `awg` and iptables through shell commands.

| component | state it keeps | operations | modelled by |
|---|---|---|---|
| Configuration manager (`lib/WireGuard.js`, `server.js`) | the `config` object behind one promise; `wg0.json`, `wg0.conf`; through commands, the device `wg0` and the iptables rules of the hooks | boot, create/enable/disable/delete a client, rename, address, site peer, settings, key pair, SIGTERM | `WireGuard`, all of it |
| Client validation (`lib/clientValidation.js`) | none (pure) | range of a CIDR, overlap, effective CIDRs | `Cidr`; as address sets in `PeerConfig` |
| Server settings (`lib/serverSettings.js`, ranges of `config.js`) | none (pure) | validate, assign, classify, seed | `ServerSettings`; restart fields in `PeerConfig` |
| Rendering (`lib/configRender.js`) | none (pure) | `wg0.conf`, hooks | `PeerConfig` |
| HTTP server (`lib/Server.js`) | sessions, in memory | routes, login, logout, errors | `SettingsPage`, `ClientList` |
| Web UI (`www/js/app.js`, `api.js`, `index.html`) | lists and drafts of a tab, flags, requests in flight | poll every second, edits, saves, login, logout | `SettingsPage` (the settings page), `ClientList` (the clients) |
| Supervision (`docker-entrypoint.sh`, compose file) | two NFQUEUE rules, two processes | wait for wg0, flush, insert, start, flush again; restart | `Responder` |
| Probe classification (`responder/main.go`, `config.go`, `nfqueue.go`, `responder.go`, `awg.go`, `detect.go`) | parameters read once from `wg0.conf` | read, attach, verdict, claim | `Decide`, `Responder` |
| QUIC endpoint (`responder/quicconn.go`, `quichs.go`) | bounded datagram queue, read deadline, table of claimed flows | push, ReadFrom, WriteTo, SetReadDeadline, Close; handle, inject, Close | `PacketConn`, `QuicManager` |
| Stateless answers, share strings, translations | none | encodings | not modelled: bytes |

How they interact. A request runs a handler of the manager on Node's single
thread, interleaved with the others at every `await`; all of them share
`config`, both files and the device. The manager writes `wg0.json` (the source
of truth) and `wg0.conf` (a rendering of it); `wg-quick up/down` and
`wg syncconf` read whatever `wg0.conf` says when they run. A browser tab polls
the clients every second, edits drafts beside the polled data, and sends changes
whose answers may overtake each other. The entrypoint waits for wg0, inserts the
NFQUEUE rules and starts the responder. The responder reads `wg0.conf` once, receives datagrams from NFQUEUE and feeds the QUIC endpoint,
whose queue is read by quic-go's goroutines.

What is hard. There is no lock in the manager: checks are made before an
`await` and used after it, two saves may be in flight at once, `up` may load a
file that another request wrote, a rollback restores what was captured earlier.
`writeFile` truncates before it writes, and the process may be killed anywhere.
A hook that stops halfway may leave firewall rules behind that no later `down`
deletes. Three readers of one address (a text comparison, a parser, `wg`) may
read it differently. In the responder, a reader must be woken by a deadline set while it goes to sleep,
and Close must end a read loop that is being flooded. A tab replaces its whole
list at every poll while the user types in it, and saves whole drafts that may be
older than what others saved since. Rules, responder, tunnel and settings come
and go independently, and a real client must get through all the while. The list of hazards, at
their lines, is in `PROJECT.json`.

What makes each part correct:

- manager: a failed operation changes nothing (memory, files, device, rules);
  at rest the tunnel is up and serves the configuration; no two peers claim one
  address; the configuration survives a restart; every request is answered and
  a server that went down comes back;
- QUIC endpoint: bounded queue and table, no lost wakeup, no answer without its
  flow's address unless the flow was evicted, Close returns, the packet loop
  never blocks;
- client validation: the interval test finds exactly the CIDRs that share an
  address, so no two site peers are given one;
- settings: settings in force are valid whatever is patched, as long as no two
  changes overlap; no client is cut off without being told, even if they do; the
  check in the page says what the server will say;
- UI: what is typed survives polls and answers, one write is in flight at a time,
  buttons are never stuck, and the list comes to show what the server has;
- classification: real traffic is never answered as a probe, with the
  parameters in force; a claimed flow stays with the responder;
- supervision: the responder runs behind exactly its rules, no rule outlives it,
  and its death never keeps a client out.

## 2. The modules

| module | content |
|---|---|
| `PeerConfig` | the configuration and the pure functions over it |
| `WireGuard` | the manager, its files, device and rules; properties |
| `ConfigStore` | the abstract store an administrator is promised: whole validated changes |
| `WireGuardStore` | refinement mapping of `WireGuard` to `ConfigStore`; what a kill may lose |
| `MCWireGuard` | values of the constants for TLC |
| `PacketConn` | `packetConn`: queue, deadline, Close, readers |
| `QuicManager` | extends `PacketConn` by the claimed flows, quic-go's loops and `quicManager.Close` |
| `ServerSettings` | the rules of the settings: both validators, assignment, classification, seeds, random header ranges |
| `SettingsPage` | the settings page of a tab, its requests, the routes, the handlers of settings with their awaits, `config.server` |
| `Cidr` | ranges and overlap of CIDRs, the check of a client's AllowedIPs |
| `ClientList` | extends `Cidr`: the list of clients in a tab, its requests, routes, session, and the handlers that bounce the tunnel |
| `Decide` | the verdict on one datagram |
| `Responder` | extends `Decide`: entrypoint, responder, node, kernel |
| `MCSettingsPage`, `MCClientList`, `MCResponder` | values of the constants for TLC |
| `WireGuardProofs` | theorems: types of the manager, lemmas about the functions of `PeerConfig` |
| `OneAdminProofs` | extends it and `WireGuardStore`: one administrator at a time, the refinement of `ConfigStore` |
| `TunnelProofs`, `AddressProofs` | extend `OneAdminProofs`: files, device and rules; overlaps |
| `QuicManagerProofs`, `ClientListProofs`, `SettingsProofs`, `ResponderProofs` | theorems about the other components, with the modules they extend |

### WireGuard and the code

Each request, the boot and the SIGTERM handler is a process; `pc` names the
`await` it is in and `job` holds its local variables: the patch it will apply,
what its rollback closure captured (`undo`), the text `__saveConfig` rendered
(`snap`) and what comes after the save. An action is the code between two
awaits together with the effect of the call awaited before.

- `CreateClient` .. `RegenerateKeypair` are the handlers up to the first await,
  with their checks. `SetClientSitePeer` checks the overlap and captures its undo
  values there, *before* `wg-quick down`, as the code does; `Captured` (enable,
  disable, delete) happens in `mutate`.
- `Down`, `Mutate`, `OpenJson`, `WriteJson`, `OpenConf`, `WriteConf`, `Up`,
  `Rollback` are `__applyWithBounce` and the same sequence in
  `updateServerSettings` and `regenerateKeypair`; `Sync` ends `saveConfig`.
- `Load` is `getConfig` (any error means a first start), followed by the save,
  `down`, `up` and `sync` of the boot; a failure there exits the process.
- `*Fails` are failing commands and writes; `UpFailsInHook` and `DownFailsInHook`
  are hooks that stop halfway; `Crash` is a kill; `StartNode` is
  `restart: unless-stopped`.

Abstractions:

- a CIDR is the set of its addresses, a /32 is a singleton, IPv6 CIDRs are sets
  of numbers outside `Addrs` (their arithmetic is in `Cidr`);
- an address of a client is a number and its `spelling`, since the code stores
  what was typed: `plain` as `createClient` writes it; `spaced`, a text that
  `isValidIPv4` and `wg` take for the same address but that no string comparison
  finds (`10.8.0.3 `); `unread`, one `wg` refuses (`10.8.0.03`). `FreeAddress`
  compares texts (WireGuard.js:417), the overlap check numbers, and a `wg0.conf`
  with an `unread` address is not `readable`, so that `up` and `syncconf` fail;
- `port` stands for the settings that force a restart and are in `wg0.conf`
  (port, jc .. h4), `mtu` for the one that is not in it, `host` for those saved
  without a restart; `label` for a client's name and `legacy` flag. Other
  fields (keys of clients, `updatedAt`, counters) decide nothing here;
- hooks are the default ones; firewall rules are a set, as the hooks check
  before adding. With the fault `iptables` any rule may fail, and an IPv6 subnet
  always does. `PostUp` that stops there leaves *some* set of the rules it could
  add, and no device; `PostDown` leaves some set of the rules it should delete,
  and no device;
- a request answered 400 or 404 is no action, nor is a read;
- `writeFile` is two steps (truncate, write). A write over a file that another
  writer filled meanwhile may leave a mixture: `whole` is then FALSE. An empty
  `wg0.conf` is accepted by `wg-quick`, a mixture is not; neither is accepted by
  `JSON.parse`;
- `wg-quick down` is one step, as are `up` and `syncconf`; a kill comes before or
  after. The container's network namespace, and with it device and rules,
  ends with the process;
- a request that holds a client another request deleted changes nothing, since
  the object it changes is no longer in `config`;
- a UUID is fresh;
- `allowedIPs: ","` (a list of empty entries) is not entered.

### PacketConn, QuicManager and the code

A mutex section is one action; so is one `select`, which takes any ready case.
`ReadFrom` is two steps: taking deadline and channel together, then waiting.
`deadlineCh` is a channel number: smaller ones are closed. `handle` is two steps
(claim under the mutex, then push), `WriteTo` is two (the closed check, then the
lookup in `inject`). quic-go is external, modelled by what it does with the
connection: one loop reads until an error that is not a deadline, or a deadline
while it is closing; others write to clients that were heard; `Transport.Close`
sets the deadline to now, waits for the loop and clears the deadline. A datagram
is its client; payloads, certificates and the raw socket are left out.

### SettingsPage, ServerSettings and the code

`page` is the data of the Vue component that concerns settings; `net` holds the
tab's requests, each from the click to its answer (`Send`, then an action of the
server, then an action that receives the answer). An action of the tab is a
handler *with the flush that follows*: `Watched` is the deep watcher of
`serverDraft`, which runs after any handler that changed the draft. Guards of
the tab are those of the code and of the template (`FormShown`, the disabled
buttons); `confirmRegenerateKeypair` has none of its own.

`handlers` are the calls of `updateServerSettings` and `regenerateKeypair` at
their awaits. `BeginSave` checks and classifies the patch and captures what a
rollback restores; a patch that needs a restart awaits `down` (`at = "down"`) and
is assigned when that returns (`DownReturns`), whatever was assigned meanwhile;
another is assigned at once and awaits `syncconf`. `Succeeds` answers 200.
`Fails` answers 500: after a refused `up` everything captured is assigned back
(`RollBack`), after a failed write or `syncconf` nothing is. `OthersSave`,
`OthersRegenerate` are other tabs and scripts, which may post any part of the
settings. `overlapped` is a history: two handlers were under way at once.
`client` is one too: the settings and the key with which a device was imported
while its configuration worked (no handler under way, and the public key it was
given is that of the private key), or Null once somebody was told to import again.

A field holds an integer, a header range, or a text; what the two validators
accept among texts is a constant (`ServerAccepts`, `UiAccepts`): they differ, for
instance on IPv4-mapped IPv6 addresses, which the page refuses and the server
accepts.

### ClientList, Cidr and the code

`rows` is the polled list with the draft of each client (`refresh`), `saving` is
`sitePeerSaving`, `session` is what the server remembers of this browser. The
chain of `login` (login, session, refresh) is marked in its requests, because
`authenticating` is cleared at its end. `Outcomes` is what a handler without a
bounce may leave: the change, or nothing (400, 401, 404, 500). `bounces` are the
handlers that bounce the tunnel, `setClientSitePeer` and the deletion of a site
peer: `BounceStarts` checks the list against the peers as they are and captures
what its rollback restores, `Mutate` changes the client when `down` has returned,
`BounceEnds` keeps the change or rolls it back, and everything else may happen in
between. A CIDR has the address it is written with and the one `ipv6ToBigInt`
reads; they differ for IPv6 with dotted decimals, which `RefusedByPage` keeps
from the page but nothing keeps from the API. `Tick` is
`setInterval`, which sends a poll whether or not the last one was answered.
Enable, disable, legacy, name and address are one kind of edit, as nothing here
tells them apart. Changes that the tab can send only through the list need a
client that is listed.

### Responder, Decide and the code

`sup` is the place in `run_responder`; `InsertFails` is `set -e`. `conf` is
`wg0.conf`, truncated before it is written, so that the responder may read a torn
file and exit. An environment has `upper`, the variables that are not written in lower
case: `ClaimRule` compares the text (docker-entrypoint.sh:13), the responder its
lower case. `resp` reads, attaches to the queue, serves, and may die at any
point. `Verdict` is the callback of `runQueue` with its two effects on the flow:
an accepted datagram that wg0 answers, or an answer through the raw socket, ends
the NEW state; a claim sets the mark. `Arrives` is INPUT: claim rule, NEW rule
with its limit, `--queue-bypass`, a full queue. `ContainerEnds` keeps or drops
the rules, since the network may be the host's. A datagram is its length, its
words at the possible offsets and the detector that matches it; words and shape
are independent, as a client may imitate a protocol. `fate` and `connected` are
histories.

## 3. The runs

| run | configuration | properties | shows |
|---|---|---|---|
| `admin_sequential` | `MCAdmin` | `TypeOK`, `DeviceServesConfig`, `ImplementsStore` | one administrator, all operations, values on which `up` fails: each request is one whole change of the store or none, and the tunnel is up afterwards |
| `command_failures` | `MCFailures` | `DiskMirrorsMemory`, `HooksLive` | any `wg`, `wg-quick` or iptables command fails at any time, hooks stop halfway: files and memory agree again, and a device that is up has all its rules |
| `crash_restart` | `MCCrash` | `KernelServesConfig`, `TeardownCovers`, `OneChangeAway` | kill or SIGTERM at any step, rollbacks included: `wg0.json` is at most one operation away from the memory, `down` deletes every live rule, device and rules are those of the configuration once it is up again |
| `concurrent_clients` | `MCConcurrent` | `NoOverlap`, `DeviceNoOverlap` | two administrators, ordinary clients with addresses spelled as `createClient` spells them, failing writes and a kill |
| `answered_and_back` | `MCLiveness` | `Answered`, `ComesBack` | colliding bounces are answered, a killed server comes back |
| `packet_conn` | `MCPacketConn` | `ConnTypeOK`, `NoLostWakeup`, `NeverStuck` | no reader sleeps through a reason to return |
| `quic_manager` | `MCQuicManager` | `TypeOK`, `FlowsBounded`, `OnlyEvictedLost`, `CloseReturns`, `NeverBlocks` | the endpoint under a flood and while closing |
| `overlap_after_clear` | `MCOverlapClear` | `NoOverlap` violated | see findings |
| `settings_page` | `MCSettingsPage` | `PageTypeOK`, `SettingsValid`, `ClientsAreTold`, `OneWriteAtATime`, `NumbersMirrored` | the settings page with answers in any order or lost, failing commands and other administrators whose changes overlap with its own at every await |
| `client_list` | `MCClientList` | `ListTypeOK`, `SitePeersDisjoint`, `FlagsMatchRequests`, `DraftsKept`, `Converges` | polls, drafts, saves that await their bounce, login, logout, a restart, lost and late answers; one change of a site peer at a time |
| `responder` | `MCResponder` | `ResponderTypeOK`, `RulesExact`, `RealAccepted`, `ClaimedStays`, `RulesGo`, `ClientConnects` | rules, responder and tunnel coming and going while a client and a prober send |
| `stale_key` | `MCStaleKey` | `KeyPairMatches` violated | see findings |

Findings (each with the quoted line in `PROJECT.json`):

1. Clearing a site peer gives it its /32 back without the overlap check, which
   another client may have taken: one administrator suffices.
2. The settings page sends its whole draft, the public key it shows included. If
   the key pair was regenerated elsewhere since the page was opened, saving any
   field stores the old public key beside the new private key; every
   configuration downloaded from then on has a key the server does not know.
   One tab suffices if the answer to the regeneration is lost, or if the page was
   opened twice and the answer with its older settings comes after it.

More configurations stand beside the runs, each with one property that TLC finds
violated. These contradict something the repository says:

- `MCDoubleDelete` (`EveryEntryIsAClient`): two deletes of one site peer; the second
  captures `undefined`, and if its `up` fails its rollback stores `undefined` under
  the id (WireGuard.js:495); every later render throws. The design says a failed
  change restores the previous state.
- `MCSpelledAddress` (`NoOverlap`): a client is readdressed to `10.8.0.3 `; the next
  create compares texts (WireGuard.js:417) and hands out 10.8.0.3.
  docs/custom-allowedips-site-peer.md:34-38 says no CIDR may be at two peers.
- `MCSiteRace` (`SitePeersDisjoint`), `MCOverlapRace` (`NoOverlap`): two site-peer
  edits both check (WireGuard.js:526) before either applies (534), which takes two
  administrators. The same page of the documentation.
- `MCDottedCidr` (`SitePeersDisjoint`): `::ffff:1.2.3.4/128` passes `net.isIP` and is
  read as another address (clientValidation.js:14), so that the overlap with the
  same address in hexadecimal is missed. The same page.
- `MCPartialPatches` (`AlwaysValid`): two scripts post `{jmin: 60}` and `{jmax: 50}`;
  each is checked against the settings in force (WireGuard.js:253), both await
  `down`, both are assigned (266). serverSettings.js:71 says "Jmax must be ≥ Jmin".
- `MCUpperQuic` (`ClaimedStays`): `IMITATE_PROTOCOL=QUIC`. The responder claims and
  marks flows, the entrypoint inserted no rule for the mark, and once the flow is
  answered its datagrams go to wg0. docker-entrypoint.sh:23-24 says the whole flow
  stays queued.
- `MCMasqLeak` (`MasqueradeAsConfigured`): a site peer with an IPv4 and an IPv6 CIDR
  and masquerade: the hook (configRender.js:25) calls iptables for both, `up` fails
  after the IPv4 rule, and nothing removes it.
  docs/custom-allowedips-site-peer.md:24-25 says the rule is removed with
  Masquerade off.
- `MCTornJson` (`ConfigSurvivesRestart`): SIGTERM while `wg0.json` is truncated
  (WireGuard.js:182): the next boot takes it for a first start and makes a new
  server without clients. README.md:76 says the configuration is persisted.
- `MCPushAfterClose` (`DropsAfterClose`): `push` after Close may queue, although its
  comment (quicconn.go:40) says it drops.
- `MCStaleParams` (`RealAccepted`): the responder read S1 to H4 once; after an
  administrator changed them, a handshake that imitates a protocol is answered as
  a probe. README.md:194-196 says a real handshake is always recognised; the
  design (2026-06-17-native-awg-responder-redesign, line 228) assumes parameters
  that are generated once, which the settings page made editable.
- `MCReimportHint` (`HintShown`): the watcher of the draft runs after the handler that
  stored the answer of a save (app.js:507-511, 611-618) and clears it, so the hint
  to import again is never shown after a save. The design of the page says
  `mustReimport` drives the post-save hint.
- `MCClaimedClient` (`ClientUnclaimed`): the junk packets a client sends before its
  handshake may resemble a QUIC Initial (I1 is meant to); the client's own flow is
  claimed, and then every datagram of it passes through the Go program.
  README.md:193-194 says bulk throughput never traverses Go. It is slower, but
  `RealAccepted` and `ClientConnects` hold.

These show a behaviour worth knowing that no document contradicts, or a second
way to a finding:

- `MCHookFails` (`TeardownCovers`): iptables fails in a hook (a lock held, a module
  missing). A `PostUp` that stops leaves rules without the device, and the next
  `down` fails before its `PostDown`; a `PostDown` that stops leaves rules that the
  next `wg0.conf` may not name. `TeardownCovers` is therefore stated for hooks that
  run, and `HooksLive` for all;
- `MCExecFails`: `TeardownCovers` *holds* when `wg` and `wg-quick` commands fail in
  any way but inside a hook (no violation; `TeardownCoversRules` proves it);
- `MCUnreadAddress` (`DeviceServesConfig`): a client is readdressed to `10.8.0.03`, which
  `isValidIPv4` accepts and `wg` does not; `syncconf` fails after the save, and so does
  every later `up`;
- `MCBadValueKept` (`BadValueNotKept`): a concurrent save replaces the `wg0.conf`
  with the bad value before `up` reads it, so nothing is rolled back;
- `MCStaleConf` (`ConfMirrorsJson`): two saves leave files of different requests;
- `MCMtu` (`MtuApplied`): an MTU change bounces the tunnel, `wg0.conf` has no MTU line;
- `MCBootLoop` (`ComesBack`): a kill between saving a bad value and its rollback
  makes every later boot fail. `answered_and_back` therefore has no bad values;
- `MCLatePoll` (`DirtyRowStays`): a poll answered before a client was created arrives
  after the poll that brought it; the client leaves the list for a second, and what
  was typed for it is gone. `DraftsKept` therefore speaks of clients that stay.

Seen while modelling, and true of the code as modelled or left out of it:

- a save answered 500, or whose answer is lost, may have been stored; the same
  save again changes nothing and is answered without the hint to import again;
- a failed write of the files during a settings change leaves the settings assigned,
  though the tunnel is down and the answer is 500 (WireGuard.js:267 is outside the `try`);
- a restart ends all sessions, but the tab stays authenticated: its polls and its
  logout are answered 401 until the page is loaded again. `Converges` therefore
  speaks of a tab with a session. A tab whose first session request fails shows
  nothing until it is loaded again;
- reopening the settings page replaces a draft that was being edited, and an
  answer to a save replaces what was typed after the click;
- header ranges that overlap pass both validators, though README.md:138 says H1 to
  H4 must not overlap; the ranges drawn for a new server never do
  (`DrawnRangesDisjoint`);
- a site-peer draft with masquerade and no CIDR stays unsaved, as the server stores
  FALSE for it;
- two tabs that save whole drafts: the last one wins;
- a responder that ended is not started again before the container restarts; if
  the second `iptables -I` fails, the first rule stays without a responder, which
  `--queue-bypass` makes harmless.

### Bounds

- `ClientIds`: the UUIDs ever drawn, two (one in `MCLiveness`). Two clients and
  two pool addresses reach a full pool, an overlap and a refused address.
- `Addrs`, `Pool`, `Cidrs`: one site CIDR beyond the pool, one covering a pool
  address; or one IPv4 and one IPv6 CIDR.
- `Keys`, `Ports`: two of each, plus one `bad` port on which `up` fails.
- `Reqs`: request slots; one for the sequential runs, two for the concurrent ones.
  A slot is used again, so the number of requests has no bound.
- `MaxCrashes`: one; a second kill meets the states of the first boot again.
- `Capacity` 1 or 2, `MaxClaimedFlows` 2 with three clients: full queue, full
  table and eviction happen. `MaxTime` bounds the clock, `MaxSets` the calls of
  `SetReadDeadline` (in `QuicManager` there are exactly two).
- `SettingsPage`: the fields host, jmin, jmax and publicKey (one text that both
  validators check, two numbers they compare, one field nobody checks), two
  requests in flight, which suffices for answers out of order; two handlers at once
  (`MaxHandlers`), three clicks that send a request, and one event beside the tab (a
  patch or a regeneration by others, a lost answer). Three clicks reach an opened
  page, a save and a reopening or regeneration that overlaps it. Edits have no bound.
- `Spellings`: `plain` and `spaced` in `MCCrash`, `plain` in the other runs, with `spaced`
  or `unread` in the configurations about them. The theorems about types, files, hooks and deletions hold for any.
- `ClientList`: IPv4 addresses of two bits, with a CIDR that contains another and
  host routes (both families at any width are in `OverlapsIffShared`); the first client is
  a site peer (`FirstAllowed`), so that its deletion bounces; two requests in flight, one
  change of a site peer at a time (`MaxBounces`; two in `MCSiteRace`), two clicks, one event
  (a change by others, a restart, a failed request). Polls have no bound, so a late
  answer may be passed by any number of others. Two clicks reach a create with a
  delete, two saves, a save with a logout.
- `Responder`: `MaxTries` 2 for 30 (the wait ends before wg0 either way),
  `MaxQueueLen` 2 for 255 (it fills), three events of probe, edit, death, failed
  insert, expired flow or end of the container; three environments, with the claim rule,
  without it, and without imitation, the latter two in upper case; leftovers of two copies of one rule and one of the other. The
  client's datagrams have no bound. All paddings are one byte, so that one word
  stands for a datagram (`Offsets`); the proofs have any.
- `CHECK_DEADLOCK FALSE` in `MCClientList`: a tab whose first request fails is stuck
  until it is loaded again, and clicks are bounded. In `MCSettingsPage`: clicks and
  events are bounded, so a tab that has used them up does nothing more. In `MCConcurrent` and `MCDoubleDelete`: with clients
  deleted the fresh UUIDs run out, and nothing else is left to do.

Every property of a passing run has a mutant of a mapped definition that breaks
it (`PROJECT.json`, `mutants`; in the modules `<definition>_<bug>`).

### Fairness

- `WireGuard`: weak fairness of each process's steps, that is, every awaited
  command or file operation returns, and of `StartNode` (`restart:
  unless-stopped`, docker-compose.yml:57). Requests, kills and signals are not fair.
- `PacketConn`: weak fairness of a reader in `ReadFrom`: a goroutine that can run does.
- `QuicManager`: the same for its goroutines, and strong fairness of the timer
  case of the read loop's `select`: Go chooses among ready cases uniformly at
  random, so an expired timer is not passed over for ever while datagrams keep
  arriving. Arrivals and writes are not fair.

- `ClientList`: weak fairness of the timer (`Tick`) and of the server and the network
  together (`Serve`): `setInterval` goes on, awaited commands return, Node answers,
  `fetch` settles.
  Clicks, edits, changes by others, restarts and failures are not fair.
- `Responder`: weak fairness of node's steps, of the shell script, of the responder
  and of the client, which goes on sending handshakes. Probes, edits, deaths, ends
  and expirations are not fair. `ClientConnects` promises a connection or the end of
  the tunnel's run (a restart or a bounce), which edits alone can cause.

## 4. The proofs

Every safety property that a passing run checks, and the refinement, is also
stated by a theorem, with its hypotheses.

| theorem | module | says |
|---|---|---|
| `TypeCorrect` | `WireGuardProofs` | `Spec => []TypeOK` |
| `AddressesDisjoint`, `DeviceAddressesDisjoint` | `AddressProofs` | `NoSitePeers /\ PlainAddresses /\ Spec => []` of `NoOverlap`, `DeviceNoOverlap` |
| `OnlyClearingOverlaps`, `OnlyClearingOverlapsDevice` | `AddressProofs` | `OneAdmin /\ SavedDisjoint /\ PlainAddresses /\ Spec /\ [][~ ClearsSite]_vars => []` of the same |
| `EntriesStayClients` | `OneAdminProofs` | `OneAdmin /\ Spec => []EveryEntryIsAClient` |
| `ImplementsConfigStore` | `OneAdminProofs` | `OneAdmin /\ NeverEnds /\ PlainAddresses /\ Spec => ImplementsStore` |
| `DiskStaysMirrored`, `KillsLoseOneChange` | `TunnelProofs` | `OneAdmin /\ WritesSucceed /\ Spec => []` of `DiskMirrorsMemory`, `OneChangeAway` |
| `HooksStayLive` | `TunnelProofs` | `OneAdmin /\ WritesSucceed /\ Spec => []HooksLive` |
| `TeardownCoversRules`, `MasqueradeStaysAsked` | `TunnelProofs` | `OneAdmin /\ WritesSucceed /\ HooksRun /\ Spec => []` of `TeardownCovers`, `MasqueradeAsConfigured` |
| `DeviceStaysServed`, `BadValuesGo` | `TunnelProofs` | `OneAdmin /\ WritesSucceed /\ CallsSucceed /\ AddressesReadable /\ Spec => []` of `DeviceServesConfig`, `BadValueNotKept` |
| `KernelStaysServed` | `TunnelProofs` | these and `HooksRun` `=> []KernelServesConfig` |
| `ConnTypeCorrect`, `NoWakeupLost` | `QuicManagerProofs` | `ConnSpec => []ConnTypeOK`, `[]NoLostWakeup` |
| `QuicTypeCorrect`, `FlowsStayBounded`, `AnswersFindTheirFlow` | `QuicManagerProofs` | `Spec => []TypeOK`, `[]FlowsBounded`, `[]OnlyEvictedLost` |
| `OverlapsIffShared`, `AcceptedIsDisjoint` | `ClientListProofs` | for CIDRs with `ReadAsWritten`: `Overlaps(CidrRange(a), CidrRange(b)) <=> ` an address is in both; an accepted list shares none with any other peer |
| `ListTypeCorrect` | `ClientListProofs` | `Spec => []ListTypeOK` |
| `SitePeersStayDisjoint` | `ClientListProofs` | `CidrsAreRead /\ OneBounce`: `Spec => []SitePeersDisjoint` |
| `DraftsStay`, `FlagsStayMatched` | `ClientListProofs` | `Spec => DraftsKept`, `[]FlagsMatchRequests` |
| `PageTypeCorrect`, `SettingsStayValid`, `NumbersStayMirrored`, `OneWriteStays`, `ClientsStayTold` | `SettingsProofs` | `Spec => []` of `PageTypeOK`, `SettingsValid`, `NumbersMirrored`, `OneWriteAtATime`, `ClientsAreTold` |
| `ValidatorsAgree`, `DrawnRangesDisjoint` | `SettingsProofs` | the two validators report the same numbers and ranges; the four ranges of a new server share no value |
| `ResponderTypeCorrect`, `RulesStayExact` | `ResponderProofs` | `Spec => []` of `ResponderTypeOK`, `RulesExact` |
| `ClaimedFlowsStay` | `ResponderProofs` | `ProtocolInLowerCase`: `Spec => []ClaimedStays` |
| `RealStaysAccepted` | `ResponderProofs` | `StableParams /\ Spec => []RealAccepted` |

They hold for every number of clients, addresses, requests, crashes, readers,
writers, fields, rules and datagrams, from the named assumptions of the modules
(for instance that `NoId` is no UUID, that the pool consists of addresses). Two of
those are more than typing: `BootAssumption` (`SettingsPage`: what `wg0.json` and
the environment bring is valid; the code does not check it) and `PowerAssumption`
(`Cidr`: powers of two are positive, which the provers do not know).

### The hypotheses

The code has no lock, so much of what makes the manager correct is true only of
the environments below. Each is a hypothesis of the theorems that need it, and
something shows that they do.

| hypothesis | meaning | without it |
|---|---|---|
| `OneAdmin` | one slot for requests: the next starts when the last was answered | `MCStaleConf` (`DiskMirrorsMemory`), `MCBadValueKept`, `MCDoubleDelete` (`EveryEntryIsAClient`), `MCOverlapRace` |
| `NeverEnds` | no kill, no SIGTERM | `ConfigStore` has no step for the end of the process, which may lose the request in flight |
| `WritesSucceed` | no write of `wg0.json` or `wg0.conf` fails | nothing is rolled back (WireGuard.js:204, hazards) |
| `CallsSucceed` | `wg`, `wg-quick` fail only for a reason in the model: no `wg0.conf`, a value that is refused, the state of the tunnel | a rollback's own `up` may fail too |
| `PlainAddresses` | addresses are typed as `createClient` writes them | `MCSpelledAddress` |
| `AddressesReadable` | no address is typed that `wg` refuses | `MCUnreadAddress` |
| `HooksRun` | no hook stops halfway: iptables accepts every subnet and does not fail | `MCMasqLeak`, `MCHookFails` |
| `CidrsAreRead` | no IPv6 address with dotted decimals is given | `MCDottedCidr` |
| `OneBounce` | the server has one change of a site peer under way at a time | `MCSiteRace` |
| `SavedDisjoint` | the volume holds no overlap to begin with | nothing checks what is read |
| `[][~ ClearsSite]_vars` | no site peer's list is emptied | the run `overlap_after_clear` |
| `NoSitePeers` | "site" is not used and the volume holds none | `overlap_after_clear`, `MCOverlapRace` |
| `StableParams` | saved settings keep S1 to H4 | `MCStaleParams` |
| `ProtocolInLowerCase` | `IMITATE_PROTOCOL` is written in lower case | `MCUpperQuic` |
| `~ overlapped`, in `SettingsValid` | no two settings changes were under way at once so far | `MCPartialPatches` |

All of them are of environments that exist: a household server has one
administrator, who may never use IPv6 and types addresses as they are shown. What a
theorem does not name may happen: `TeardownCoversRules` holds with failing `wg` and
`wg-quick` commands and kills, `HooksStayLive` with failing iptables commands too,
`ImplementsConfigStore` and `OnlyClearingOverlaps` with failing writes as well,
`ClientsStayTold` with any number of changes at once.

### The arguments

- `TypeOK` is inductive only because it also says that `patch` and `undo` fit the
  kind of the job (`JobFits`) and that a job that is writing holds a whole
  configuration; the proof has one step per action, over lemmas about `Patched`,
  `ChangeClient`, `WithClient` and `RenderServerConf`.
- `OneInv` (`OneAdminProofs`) says what is true of the request at each of its
  awaits: before `mutate` its patch passed the checks against the configuration as
  it is (`Planned`), during a save the snapshot is the memory, and until `up` has
  accepted the change, what the rollback would restore (`Kept`) differs from the
  memory by one operation of the store (`Changes`). It needs that a rollback is the
  inverse of the change, for every kind of job (`ChangeBack` and the lemmas beside
  it), which is where a second administrator breaks it.
- `ImplementsConfigStore`: the mapping shows the memory, except while a change is
  pending, when it shows `Kept`. So a request's one visible step is that `up`
  accepts it, or the mutation where nothing is bounced; failures and rollbacks are
  stutters.
- `FilesInv` says what both files hold at each await of a save. `OneChangeAway` is
  then inductive: a save begins with both files saying what the memory said, and the
  operation or its rollback is one of `Changes`; while `wg0.json` is filled it is not
  whole (`MCTornJson`). `FireInv` says that
  the live rules are those of `Kept`, the configuration `up` accepted last, if the
  tunnel is up, and none if it is down. `TeardownCovers` follows because `down` runs
  before the save: the file on disk is still the rendering of those hooks
  (`SameTunnel`: an operation that is not bounced keeps port and hooks).
- `LiveInv` strengthens `HooksLive` where rules may be left over: a device that is up
  has at least the hook rules of `Kept`, whatever else is live. `up` either adds every
  rule or leaves no device, and `PostDown` runs when the device is gone.
- `DeviceInv` adds that what a rollback restores is something `up` accepts
  (`Good(Kept)`), so that the second `up` succeeds and the device, absent from `down`
  to `up`, is otherwise the rendering of the file.
- `AddressInv` strengthens `NoOverlap` when there are no site peers: *every copy* of
  the configuration is plain, memory, the snapshots being written, both files, the
  device, since a boot or a rollback may bring any of them back.
- `SiteInv` does so with site peers: every copy is disjoint, and `Kept` too. Each
  operation of `Changes` keeps peers apart except emptying a list. The administrator's
  promise is about the click (`ClearsSite`), the change comes after `down`: `SiteJob`
  carries it over. A rollback restores `Kept`, never a list that was cleared.
- `NoLostWakeup` needs the types only: deadline and channel are taken together,
  and a new deadline raises the channel number above every number taken.
- `FlowInv` strengthens `OnlyEvictedLost`: the client of a datagram is in the
  table or noted as evicted wherever the datagram is, about to be pushed,
  queued, heard or being answered. `FlowsBounded` needs that the table is finite.
- `OverlapsIffShared`: the interval test is an exact set test because two blocks of a
  power of two either contain each other or are apart; the lower end of the later
  one is the shared address. `SitePeersStayDisjoint` needs to know more than the
  clients: the list a handler checked before `down` must still be apart from all site
  peers when it mutates, and what its rollback restores when `up` fails. `SitesSafe` says
  so for the handler under way; what happens beside it only makes, edits and removes
  ordinary clients, and a created address avoids the site peers there are.
- `FlagsMatchRequests` and `OneWriteAtATime` are inductive with the types: a request
  gets its flag with its slot, and loses it with it; no other action touches either.
- `SettingsValid` needs that the comparison of Jmin and Jmax takes the values the
  patch does not bring from the settings in force. `ValidInv` carries it over the
  await of `down`: a handler that was alone so far finds there the settings its patch
  was checked against, and those its rollback restores were in force and valid.
- `ClientsAreTold` needs that the fields a handshake depends on are among the
  reimport fields, and the restart fields too. With changes that overlap it is not
  enough that each handler classifies its own patch against its own `prev`: `ToldInv`
  says that as long as the client does not work with what is in force, a handler is
  under way whose answer will tell. It holds because every handler that awaits `up`
  tells (whatever needs a restart needs a re-import, `FieldsInv`), also when it rolls
  back what another one assigned meanwhile.
- `RulesInv` strengthens `RulesExact` by what the rules are at each place of
  `run_responder`: nothing after the flush, one copy after each insert.
- `ClaimInv` strengthens `ClaimedStays`: marked flows and queued datagrams exist only
  on the port of the rules, and marks only where the environment asks for the claim
  rule, for which responder and shell must agree (`ProtocolInLowerCase`); `RulesExact` then says that the rule is there while the responder serves.
- `RealAccepted` needs that the responder's parameters are those in force, which
  `StableParams` gives through settings, file and device.

Model-checked only: liveness, which is out of the provers' reach (`Answered`,
`ComesBack`, `NeverStuck`, `CloseReturns`, `NeverBlocks`, `Converges`, `RulesGo`,
`ClientConnects`), and what the further configurations of section 3 refute.

## 5. Not modelled

- Encodings: QR code, share string, stripping of imitation keys, DNS, STUN and QUIC
  version negotiation answers, the certificate of the QUIC endpoint. They keep no
  state; what matters of them is bytes, which tests compare better.
- The text of the client configuration, static files, the release check,
  translations, theme, charts. Transfer rates too: a poll that arrives late makes
  the difference of two counters negative for a second, and nothing else.
- Parsing of the environment, and of addresses beyond the ways of reading one that are
  told apart above; the password hash. The floating-point
  products of the random header ranges are taken exactly.
- The store of express-session beyond "authenticated or not": concurrent saves of
  one session object (`resave`) are not distinguished.
- Parsing of IP and UDP headers, fragments, and the raw socket. Without CAP_NET_RAW
  answers are not sent (`raw` of an environment) and the flow stays NEW.
- A file system that refuses writes for a single administrator: the code rolls
  nothing back then, and no document promises it.
- A flush that ends early because `iptables -D` fails for another reason than that
  the rule is gone (docker-entrypoint.sh:34-38).
- The restart fields one by one: `WireGuard` has one that is in `wg0.conf` and one that
  is not; `SettingsPage` has those of its `Fields`.
- External, modelled from its use: the kernel (device, rules, queue, connection
  tracking), `wg-quick`, quic-go, `fetch`, clients and probers.

Further work: which of the theorems about one administrator hold for two who use
different operations (a rename beside a bounce, for instance).
