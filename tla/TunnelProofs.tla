---------------------------- MODULE TunnelProofs -----------------------------
(***************************************************************************)
(* One administrator at a time, as long as the volume takes what is         *)
(* written: at rest the two files say what the memory says, the device      *)
(* serves it, and the live firewall rules are those of its hooks.           *)
(*                                                                         *)
(* Each theorem states which calls it needs to succeed; whenever the        *)
(* process is killed, it holds again once the server runs.  The             *)
(* configurations MCStaleConf, MCBadValueKept, MCMasqLeak, MCHookFails and  *)
(* MCUnreadAddress show what two administrators, hooks that stop halfway    *)
(* and an address `wg' cannot read do to them.                              *)
(***************************************************************************)
EXTENDS OneAdminProofs

\* No write of wg0.json or wg0.conf fails.
WritesSucceed == "fs" \notin Faults

\* Nor does any call of wg, wg-quick or iptables, but for what it is given.
CallsSucceed == "exec" \notin Faults /\ "iptables" \notin Faults

\* Every hook runs to its end: iptables never fails, and accepts every subnet
\* an administrator may type.
HooksRun == V6Cidrs = {} /\ "iptables" \notin Faults

\* `wg' reads every address an administrator may type.
AddressesReadable == "unread" \notin Spellings

-----------------------------------------------------------------------------
(* Files, rules and device while a process is at an await *)

\* What the two files hold while the process at l writes cfg, and afterwards.
FilesOK(cfg, l, js, cf) ==
    /\ l \notin WritePoints => js = Whole(cfg) /\ cf = Whole(RenderServerConf(cfg))
    /\ l = "writeJson" => js = Truncated(Empty)
    /\ l \in {"openConf", "writeConf"} => js = Whole(cfg)
    /\ l = "writeConf" => cf = Truncated(BlankConf)

FilesInv ==
    /\ node = "running" => \A r \in Reqs : FilesOK(config, pc[r], json, conf)
    /\ pc[Boot] \notin {"idle", "load"} => FilesOK(config, pc[Boot], json, conf)

\* The live rules are those of the configuration that `up' accepted last.
FireInv ==
    /\ node = "running" => \A r \in Reqs :
           rules = IF dev.up THEN HookRules(Kept(config, pc[r], job[r])) ELSE {}
    /\ node # "running" => rules = IF dev.up THEN HookRules(config) ELSE {}
    /\ dev.up /\ node # "running" => pc[Boot] = "sync"

\* Whatever hooks stop halfway, a device that is up has at least the rules of
\* the configuration that `up' accepted last.
LiveInv ==
    /\ node = "running" /\ dev.up => \A r \in Reqs :
           HookRules(Kept(config, pc[r], job[r])) \subseteq rules
    /\ node # "running" /\ dev.up => HookRules(config) \subseteq rules /\ pc[Boot] = "sync"

\* `up' accepts it.
Good(cfg) ==
    /\ cfg.server.port \notin BadPorts
    /\ ~ \E rule \in HookRules(cfg) : IsV6Masq(rule)

\* Between `down' and `up' there is no device; what a rollback restores is
\* what `up' accepted before, and it will again.
DeviceOK(cfg, l, j, d) ==
    /\ Good(Kept(cfg, l, j))
    /\ l \in {"idle", "keys", "down"} => d = Device(RenderServerConf(cfg))
    /\ l = "sync" \/ (l \in WritePoints /\ j.after = "sync") => d.up /\ d.mtu = AutoMtu
    /\ \/ l \in {"mutate", "up", "rollback", "upAgain"}
       \/ l \in WritePoints /\ j.after # "sync"
       => ~ d.up

DeviceInv ==
    /\ node = "running" => \A r \in Reqs : DeviceOK(config, pc[r], job[r], dev)
    /\ pc[Boot] = "sync" => dev = Device(RenderServerConf(config)) /\ Good(config)
    /\ node # "running" /\ pc[Boot] # "sync" => ~ dev.up

-----------------------------------------------------------------------------
(* The files *)

\* __saveConfig writes wg0.json, then wg0.conf, and nobody else writes.
LEMMA WriteStep ==
    ASSUME TypeOK, NEW p \in Procs, FilesOK(config, pc[p], json, conf),
           job[p].snap = config, job[p].after \notin WritePoints,
           OpenJson(p) \/ WriteJson(p) \/ OpenConf(p) \/ WriteConf(p)
    PROVE  /\ FilesOK(config, pc'[p], json', conf')
           /\ UNCHANGED <<memory, kernel, node, job>>
           /\ Moves(p, pc'[p], job[p])
           /\ \/ pc'[p] \in WritePoints /\ pc[p] \in WritePoints
              \/ pc[p] = "writeConf" /\ pc'[p] = job[p].after
  <1>0. \A l : Goto(p, l) => pc'[p] = l
    BY DEF TypeOK, Goto
  <1>1. CASE OpenJson(p)
    <2>1. pc'[p] = "writeJson" /\ json' = Truncated(Empty) /\ pc[p] \in WritePoints
      BY <1>0, <1>1 DEF OpenJson, WritePoints
    <2>2. QED BY <1>1, <2>1, GotoMoves DEF OpenJson, FilesOK, WritePoints
  <1>2. CASE WriteJson(p)
    <2>1. pc'[p] = "openConf" /\ pc[p] \in WritePoints
      BY <1>0, <1>2 DEF WriteJson, WritePoints
    <2>2. json.text = Empty
      BY <1>2 DEF WriteJson, FilesOK, Truncated
    <2>3. json' = Whole(config)
      BY <1>2, <2>2 DEF WriteJson
    <2>4. QED BY <1>2, <2>1, <2>3, GotoMoves DEF WriteJson, FilesOK, WritePoints
  <1>3. CASE OpenConf(p)
    <2>1. pc'[p] = "writeConf" /\ conf' = Truncated(BlankConf) /\ pc[p] \in WritePoints
      BY <1>0, <1>3 DEF OpenConf, WritePoints
    <2>2. QED BY <1>3, <2>1, GotoMoves DEF OpenConf, FilesOK, WritePoints
  <1>4. CASE WriteConf(p)
    <2>1. pc'[p] = job[p].after /\ pc[p] = "writeConf"
      BY <1>0, <1>4 DEF WriteConf
    <2>2. conf.text = BlankConf
      BY <1>4 DEF WriteConf, FilesOK, Truncated
    <2>3. conf' = Whole(RenderServerConf(config)) /\ json' = Whole(config)
      BY <1>4, <2>2 DEF WriteConf, FilesOK
    <2>4. QED BY <1>4, <2>1, <2>3, GotoMoves DEF WriteConf, FilesOK, WritePoints
  <1>5. QED BY <1>1, <1>2, <1>3, <1>4

\* Every other step of the request leaves the disk alone.
LEMMA OtherStep ==
    ASSUME WritesSucceed, TypeOK, OneInv, NEW r \in Reqs, Step(r),
           ~ (OpenJson(r) \/ WriteJson(r) \/ OpenConf(r) \/ WriteConf(r)),
           ~ (InsertClient(r) \/ Mutate(r) \/ Rollback(r))
    PROVE  UNCHANGED disk /\ pc[r] \notin WritePoints /\ pc'[r] \notin WritePoints
  <1>0. r # Boot /\ r \in Procs
    BY WireGuardAssumption DEF Procs
  <1>1. \A l : Goto(r, l) => pc'[r] = l
    BY <1>0 DEF TypeOK, Goto
  <1>2. CASE CreateRefused(r) \/ RegenKeys(r) \/ KeysFail(r) \/ SyncFails(r) \/ Sync(r)
    BY <1>0, <1>1, <1>2
    DEF CreateRefused, RegenKeys, KeysFail, Sync, SyncFails, Throw, Finish, WritePoints
  <1>3. CASE Down(r) \/ DownFails(r) \/ DownFailsInHook(r) \/ Up(r)
    BY <1>0, <1>1, <1>3 DEF Down, DownFails, DownFailsInHook, AfterDown, Up, Finish, WritePoints
  <1>4. CASE UpFails(r) \/ UpFailsInHook(r)
    <2>1. PICK rs : UpRejected(r, rs)
      BY <1>4 DEF UpFails, UpFailsInHook
    <2>2. pc[r] \in {"up", "upAgain"}
      BY <1>4 DEF UpFails, UpFailsInHook
    <2>3. QED BY <1>0, <2>1, <2>2, RejectedMoves, Lands DEF WritePoints
  <1>5. QED BY <1>2, <1>3, <1>4 DEF Step, WriteFails, WritesSucceed

\* The saves that begin.
LEMMA SaveStep ==
    ASSUME TypeOK, OneInv, NEW r \in Reqs,
           \/ SavesQuietly(r) \/ InsertClient(r) \/ Mutate(r) \/ Rollback(r)
    PROVE  /\ pc'[r] = "openJson" /\ UNCHANGED <<disk, kernel, node>>
           /\ \A q \in Procs \ {r} : pc'[q] = pc[q]
  <1>0. r \in Procs
    BY DEF Procs
  <1>1. CASE SavesQuietly(r) \/ InsertClient(r)
    BY <1>1, InsertShape, QuietLands
  <1>2. CASE Mutate(r) \/ Rollback(r)
    BY <1>0, <1>2, MutateMoves, RollbackMoves, Lands
  <1>3. QED BY <1>1, <1>2

LEMMA RequestFiles ==
    ASSUME WritesSucceed, TypeOK, OneInv, FilesInv, NEW r \in Reqs, Reqs = {r},
           Request(r) \/ Step(r)
    PROVE  FilesInv'
  <1>0. r \in Procs /\ Boot \in Procs /\ r # Boot
    BY WireGuardAssumption DEF Procs
  <1>1. node = "running"
    BY RequestShape, StepShape
  <1>2. pc[Boot] = "idle" /\ FilesOK(config, pc[r], json, conf)
    BY <1>1 DEF OneInv, FilesInv
  <1>3. ASSUME pc'[Boot] = pc[Boot], FilesOK(config', pc'[r], json', conf')
        PROVE  FilesInv'
    BY <1>2, <1>3 DEF FilesInv
  <1>4. CASE \/ SavesQuietly(r) \/ InsertClient(r) \/ Mutate(r) \/ Rollback(r)
    <2>1. pc'[Boot] = pc[Boot] /\ pc'[r] = "openJson"
      BY <1>0, <1>4, SaveStep
    <2>2. FilesOK(config', pc'[r], json', conf')
      BY <2>1 DEF FilesOK, WritePoints
    <2>3. QED BY <1>3, <2>1, <2>2
  <1>5. ASSUME NEW j, NEW l \in {"keys", "down"}, Begin(r, j, l), pc[r] = "idle"
        PROVE  FilesInv'
    <2>1. /\ Moves(r, l, j) /\ UNCHANGED <<memory, disk>>
      BY <1>5 DEF Begin, Moves
    <2>2. pc'[Boot] = pc[Boot] /\ pc'[r] = l /\ config' = config /\ UNCHANGED <<json, conf>>
      BY <1>0, <2>1, Lands DEF memory, disk
    <2>3. FilesOK(config', l, json', conf')
      BY <1>2, <1>5, <2>2 DEF FilesOK, WritePoints
    <2>4. QED BY <1>3, <2>2, <2>3
  <1>6. CASE OpenJson(r) \/ WriteJson(r) \/ OpenConf(r) \/ WriteConf(r)
    <2>1. job[r].snap = config /\ job[r].after \notin WritePoints
      BY <1>6 DEF OneInv, RequestOK, OpenJson, WriteJson, OpenConf, WriteConf, WritePoints
    <2>2. /\ FilesOK(config, pc'[r], json', conf')
          /\ UNCHANGED <<memory, kernel, node, job>> /\ Moves(r, pc'[r], job[r])
      BY <1>0, <1>2, <1>6, <2>1, WriteStep
    <2>3. config' = config /\ pc'[Boot] = pc[Boot]
      BY <1>0, <2>2, Lands DEF memory
    <2>4. QED BY <1>3, <2>2, <2>3
  <1>7. CASE /\ Step(r)
             /\ ~ (OpenJson(r) \/ WriteJson(r) \/ OpenConf(r) \/ WriteConf(r))
             /\ ~ (InsertClient(r) \/ Mutate(r) \/ Rollback(r))
    <2>1. UNCHANGED disk /\ pc[r] \notin WritePoints /\ pc'[r] \notin WritePoints
      BY <1>7, OtherStep
    <2>2. PlainStep(r)
      BY <1>7, StepShape
    <2>3. config' = config /\ pc'[Boot] = pc[Boot]
      BY <1>0, <2>2, Lands DEF PlainStep, memory
    <2>4. UNCHANGED <<json, conf>>
      BY <2>1 DEF disk
    <2>5. FilesOK(config', pc'[r], json', conf')
      BY <1>2, <2>1, <2>3, <2>4 DEF FilesOK, WritePoints
    <2>6. QED BY <1>3, <2>3, <2>5
  <1>8. QED BY <1>4, <1>5, <1>6, <1>7, RequestShape

\* The boot.
LEMMA BootFiles ==
    ASSUME TypeOK, OneInv, FilesInv, NEW r \in Reqs, Reqs = {r},
           Step(Boot) \/ StartNode \/ Load
    PROVE  FilesInv'
  <1>0. /\ Boot \in Procs /\ r \in Procs /\ r # Boot /\ BootOK(config, pc[Boot], job[Boot])
    BY WireGuardAssumption DEF Procs, OneInv
  <1>1. \A l : Goto(Boot, l) => pc'[Boot] = l /\ pc'[r] = pc[r]
    BY <1>0 DEF TypeOK, Goto
  <1>2. node # "running"
    BY <1>0
    DEF OneInv, StartNode, Load, Step, InsertClient, CreateRefused, RegenKeys, KeysFail,
        Down, DownFails,
        DownFailsInHook, Mutate, OpenJson, WriteJson, OpenConf, WriteConf, WriteFails,
        Sync, SyncFails, Up, UpFails, UpFailsInHook, Rollback
  <1>3. pc[r] = "idle"
    BY <1>2 DEF OneInv
  <1>4. ASSUME node' # "running",
               pc'[Boot] \notin {"idle", "load"} => FilesOK(config', pc'[Boot], json', conf')
        PROVE  FilesInv'
    BY <1>4 DEF FilesInv
  <1>5. CASE StartNode
    BY <1>1, <1>4, <1>5 DEF StartNode
  <1>6. CASE Load
    <2>1. pc'[Boot] = "openJson" /\ node' = node
      BY <1>1, <1>6 DEF Load, Save
    <2>2. FilesOK(config', "openJson", json', conf')
      BY DEF FilesOK, WritePoints
    <2>3. QED BY <1>2, <1>4, <2>1, <2>2
  <1>7. CASE ExitNode
    <2>1. node' = "off" /\ pc'[Boot] = "idle"
      BY <1>0, <1>7 DEF ExitNode
    <2>2. QED BY <1>4, <2>1
  <1>8. CASE OpenJson(Boot) \/ WriteJson(Boot) \/ OpenConf(Boot) \/ WriteConf(Boot)
    <2>1. pc[Boot] \in WritePoints
      BY <1>8 DEF OpenJson, WriteJson, OpenConf, WriteConf, WritePoints
    <2>2. /\ job[Boot].snap = config /\ job[Boot].after = "down"
          /\ FilesOK(config, pc[Boot], json, conf)
      BY <1>0, <2>1 DEF BootOK, FilesInv, WritePoints
    <2>3. FilesOK(config, pc'[Boot], json', conf') /\ UNCHANGED <<memory, node>>
      BY <1>0, <1>8, <2>2, WriteStep DEF WritePoints
    <2>4. QED BY <1>2, <1>4, <2>3 DEF memory
  <1>9. CASE Down(Boot) \/ DownFails(Boot) \/ DownFailsInHook(Boot) \/ Up(Boot)
    <2>1. /\ pc[Boot] \in {"down", "up", "upAgain"}
          /\ pc'[Boot] \in {"up", "sync"}
          /\ UNCHANGED <<memory, disk, node>>
      BY <1>1, <1>9 DEF Down, DownFails, DownFailsInHook, AfterDown, Up
    <2>2. FilesOK(config, pc[Boot], json, conf)
      BY <2>1 DEF FilesInv
    <2>3. QED BY <1>2, <1>4, <2>1, <2>2 DEF FilesOK, WritePoints, memory, disk
  <1>10. CASE Sync(Boot)
    <2>1. /\ pc[Boot] = "sync" /\ pc'[Boot] = "idle" /\ pc'[r] = "idle"
          /\ UNCHANGED <<memory, disk>>
      BY <1>1, <1>3, <1>10 DEF Sync, Finish
    <2>2. FilesOK(config, "sync", json, conf)
      BY <2>1 DEF FilesInv
    <2>3. FilesOK(config', "idle", json', conf')
      BY <2>1, <2>2 DEF FilesOK, WritePoints, memory, disk
    <2>4. QED BY <2>1, <2>3 DEF FilesInv
  <1>11. CASE WriteFails(Boot) \/ SyncFails(Boot) \/ UpFails(Boot) \/ UpFailsInHook(Boot)
    BY <1>7, <1>11 DEF WriteFails, SyncFails, UpFails, UpFailsInHook, Throw, UpRejected
  <1>12. ~ (InsertClient(Boot) \/ CreateRefused(Boot) \/ RegenKeys(Boot) \/ KeysFail(Boot)
            \/ Mutate(Boot) \/ Rollback(Boot))
    BY <1>0 DEF BootOK, WritePoints, InsertClient, CreateRefused, RegenKeys, KeysFail,
                Mutate, Rollback
  <1>13. QED
    BY <1>5, <1>6, <1>8, <1>9, <1>10, <1>11, <1>12 DEF Step

\* The end of the process, which may lose both files.
LEMMA ExitFiles ==
    ASSUME ExitNode
    PROVE  FilesInv'
  <1>1. node' = "off" /\ pc'[Boot] = "idle"
    BY DEF ExitNode, Procs
  <1>2. QED BY <1>1 DEF FilesInv

LEMMA FilesStep ==
    ASSUME WritesSucceed, TypeOK, OneInv, FilesInv, NEW r \in Reqs, Reqs = {r}, [Next]_vars
    PROVE  FilesInv'
  <1>0. Procs = {r, Boot, Sig} /\ r # Sig /\ Sig # Boot
    BY WireGuardAssumption DEF Procs
  <1>1. CASE Shutdown \/ Crash
    BY <1>1, ExitFiles DEF Shutdown, Crash
  <1>2. CASE Sigterm
    <2>1. UNCHANGED <<memory, disk, node>> /\ pc' = [pc EXCEPT ![Sig] = "down"]
      BY <1>2 DEF Sigterm, Goto
    <2>2. pc'[r] = pc[r] /\ pc'[Boot] = pc[Boot]
      BY <1>0, <2>1 DEF TypeOK
    <2>3. QED BY <2>1, <2>2 DEF FilesInv, memory, disk
  <1>3. CASE UNCHANGED vars
    BY <1>3 DEF vars, FilesInv
  <1>4. QED
    BY <1>0, <1>1, <1>2, <1>3, RequestFiles, BootFiles, SigWaits DEF Next

LEMMA FilesHold == OneAdmin /\ WritesSucceed /\ Spec => []FilesInv
  <1> SUFFICES ASSUME OneAdmin, WritesSucceed PROVE Spec => []FilesInv
    OBVIOUS
  <1>1. Init => FilesInv
    BY DEF Init, FilesInv, Procs
  <1>2. TypeOK /\ OneInv /\ FilesInv /\ [Next]_vars => FilesInv'
    BY FilesStep DEF OneAdmin
  <1>3. Spec => []OneInv
    BY OneHolds
  <1>4. QED BY <1>1, <1>2, <1>3, TypeCorrect, PTL DEF Spec

\* With one administrator, once his request is answered both files are whole
\* and say what the memory says, also after a rollback, and after a restart
\* that found wg0.json cut off (__saveConfig, __applyWithBounce).
THEOREM DiskStaysMirrored == OneAdmin /\ WritesSucceed /\ Spec => []DiskMirrorsMemory
  <1> SUFFICES ASSUME OneAdmin, WritesSucceed PROVE Spec => []DiskMirrorsMemory
    OBVIOUS
  <1>1. FilesInv => DiskMirrorsMemory
    BY DEF OneAdmin, FilesInv, DiskMirrorsMemory, Quiet, FilesOK, WritePoints, Procs
  <1>2. Spec => []FilesInv
    BY FilesHold
  <1>3. QED BY <1>1, <1>2, PTL

\* A save begins with both files saying what the memory said, which the
\* operation, or its rollback, then changed.
LEMMA SaveAway ==
    ASSUME TypeOK, OneInv, FilesInv, NEW r \in Reqs, node = "running",
           SavesQuietly(r) \/ InsertClient(r) \/ Mutate(r) \/ Rollback(r),
           pc[r] \notin WritePoints
    PROVE  OneChangeAway'
  <1>1. json = Whole(config) /\ json' = json
    BY SaveStep DEF FilesInv, FilesOK, disk
  <1>2. CASE SavesQuietly(r) \/ InsertClient(r)
    <2>1. r \in Procs /\ SavesQuietly(r)
      BY <1>2, InsertShape DEF Procs
    <2>2. Changes(config, config')
      BY <2>1, QuietLands
    <2>3. QED BY <1>1, <2>2 DEF OneChangeAway, Whole
  <1>3. CASE Mutate(r)
    <2>1. PICK j : /\ RequestOK(config', "openJson", j) /\ j.after = "up"
                   /\ RolledBack(config', j) = config
      BY <1>3, MutateMoves
    <2>2. Changes(config, config')
      BY <2>1 DEF RequestOK, Pending, WritePoints
    <2>3. QED BY <1>1, <2>2 DEF OneChangeAway, Whole
  <1>4. CASE Rollback(r)
    <2>1. config' = RolledBack(config, job[r])
      BY <1>4, RollbackMoves
    <2>2. pc[r] = "rollback" /\ RequestOK(config, pc[r], job[r])
      BY <1>4 DEF Rollback, OneInv
    <2>3. Changes(config', config)
      BY <2>1, <2>2 DEF RequestOK, Pending
    <2>4. QED BY <1>1, <2>3 DEF OneChangeAway, Whole
  <1>5. QED BY <1>2, <1>3, <1>4

LEMMA AwayStep ==
    ASSUME WritesSucceed, TypeOK, OneInv, FilesInv, FilesInv', OneChangeAway,
           NEW r \in Reqs, Reqs = {r}, [Next]_vars
    PROVE  OneChangeAway'
  <1>0. r \in Procs /\ Boot \in Procs /\ Procs = {r, Boot, Sig} /\ r # Sig /\ Sig # Boot
    BY WireGuardAssumption DEF Procs
  <1>1. ASSUME pc'[r] # "openJson"
        PROVE  OneChangeAway'
    <2>1. CASE node' = "running"
      <3>1. FilesOK(config', pc'[r], json', conf')
        BY <2>1 DEF FilesInv
      <3>2. QED BY <1>1, <3>1 DEF FilesOK, OneChangeAway, WritePoints, Whole, Truncated
    <2>2. CASE node' # "running"
      BY <2>2 DEF OneChangeAway
    <2>3. QED BY <2>1, <2>2
  <1>2. CASE Request(r)
    <2>1. node = "running" /\ pc[r] = "idle"
      BY <1>2, RequestShape
    <2>2. CASE SavesQuietly(r)
      BY <2>1, <2>2, SaveAway DEF WritePoints
    <2>3. ASSUME NEW j, NEW l \in {"keys", "down"}, Begin(r, j, l)
          PROVE  OneChangeAway'
      <3>1. pc'[r] = l
        BY <1>0, <2>3 DEF TypeOK, Begin, Goto
      <3>2. QED BY <1>1, <3>1
    <2>4. QED BY <1>2, <2>2, <2>3, RequestShape
  <1>3. CASE Step(r)
    <2>1. node = "running"
      BY <1>3, StepShape
    <2>2. CASE InsertClient(r) \/ Mutate(r) \/ Rollback(r)
      <3>1. pc[r] \notin WritePoints
        BY <2>2 DEF InsertClient, Mutate, Rollback, WritePoints
      <3>2. QED BY <2>1, <2>2, <3>1, SaveAway
    <2>3. CASE OpenJson(r) \/ WriteJson(r) \/ OpenConf(r) \/ WriteConf(r)
      <3>1. \A l : Goto(r, l) => pc'[r] = l
        BY <1>0 DEF TypeOK, Goto
      <3>2. job[r].after # "openJson"
        BY <1>0 DEF TypeOK, JobRecord
      <3>3. pc'[r] # "openJson"
        BY <2>3, <3>1, <3>2 DEF OpenJson, WriteJson, OpenConf, WriteConf
      <3>4. QED BY <1>1, <3>3
    <2>4. CASE /\ ~ (OpenJson(r) \/ WriteJson(r) \/ OpenConf(r) \/ WriteConf(r))
               /\ ~ (InsertClient(r) \/ Mutate(r) \/ Rollback(r))
      BY <1>1, <1>3, <2>4, OtherStep DEF WritePoints
    <2>5. QED BY <2>2, <2>3, <2>4
  <1>4. CASE Step(Boot) \/ StartNode \/ Load
    BY <1>1, <1>4, BootShape
  <1>5. CASE Shutdown \/ Crash
    BY <1>5 DEF Shutdown, Crash, ExitNode, OneChangeAway
  <1>6. CASE Sigterm \/ UNCHANGED vars
    <2>1. UNCHANGED <<config, json, node>>
      BY <1>6 DEF Sigterm, vars, memory, disk
    <2>2. QED BY <2>1 DEF OneChangeAway
  <1>7. QED
    BY <1>0, <1>2, <1>3, <1>4, <1>5, <1>6, SigWaits DEF Next

\* Whenever the process is killed, wg0.json is the memory or one operation away
\* from it, unless it is just being filled (MCTornJson): with DiskStaysMirrored,
\* no answered request is lost, whatever else fails (__saveConfig).
THEOREM KillsLoseOneChange == OneAdmin /\ WritesSucceed /\ Spec => []OneChangeAway
  <1> SUFFICES ASSUME OneAdmin, WritesSucceed PROVE Spec => []OneChangeAway
    OBVIOUS
  <1>1. Init => OneChangeAway
    BY DEF Init, OneChangeAway
  <1>2. TypeOK /\ OneInv /\ FilesInv /\ FilesInv' /\ OneChangeAway /\ [Next]_vars
            => OneChangeAway'
    BY AwayStep DEF OneAdmin
  <1>3. Spec => []OneInv /\ []FilesInv
    BY OneHolds, FilesHold
  <1>4. QED BY <1>1, <1>2, <1>3, TypeCorrect, PTL DEF Spec

-----------------------------------------------------------------------------
(* The firewall *)

\* Only an accepted `up' changes what is kept, and a save that ends in `sync'
\* changes no hook.
LEMMA KeptStep ==
    ASSUME TypeOK, OneInv, NEW r \in Reqs, Request(r) \/ Step(r),
           ~ Up(r), ~ WriteFails(r)
    PROVE  SameTunnel(Kept(config, pc[r], job[r]), Kept(config', pc'[r], job'[r]))
  <1>0. r \in Procs /\ r # Boot /\ RequestOK(config, pc[r], job[r])
    BY WireGuardAssumption DEF Procs, OneInv
  <1> SUFFICES \/ Kept(config', pc'[r], job'[r]) = Kept(config, pc[r], job[r])
               \/ SameTunnel(Kept(config, pc[r], job[r]),
                              Kept(config', pc'[r], job'[r]))
    BY DEF SameTunnel
  <1>1. ASSUME SavesQuietly(r), pc[r] \in {"idle", "keys"}
        PROVE  SameTunnel(Kept(config, pc[r], job[r]), Kept(config', pc'[r], job'[r]))
    <2>1. Kept(config, pc[r], job[r]) = config
      BY <1>1, KeptAt
    <2>2. Kept(config', pc'[r], job'[r]) = config'
      BY <1>1, QuietLands, KeptUnless
    <2>3. QED BY <1>1, <2>1, <2>2, QuietLands DEF SameTunnel
  <1>2. ASSUME NEW j, NEW l \in {"keys", "down"}, Begin(r, j, l), pc[r] = "idle"
        PROVE  Kept(config', pc'[r], job'[r]) = Kept(config, pc[r], job[r])
    <2>1. Moves(r, l, j) /\ config' = config
      BY <1>2 DEF Begin, Moves, memory
    <2>2. pc'[r] = l /\ job'[r] = j
      BY <1>0, <2>1, Lands
    <2>3. QED BY <1>2, <2>1, <2>2, KeptAt
  <1>3. CASE InsertClient(r)
    BY <1>1, <1>3, InsertShape DEF InsertClient
  <1>4. CASE Mutate(r)
    <2>1. PICK j : /\ Moves(r, "openJson", j) /\ j.after = "up"
                   /\ RolledBack(config', j) = config
      BY <1>4, MutateMoves
    <2>2. Kept(config', pc'[r], job'[r]) = config
      BY <1>0, <2>1, Lands DEF Kept, Pending, WritePoints
    <2>3. QED BY <1>4, <2>2, KeptAt DEF Mutate
  <1>5. CASE Rollback(r)
    <2>1. PICK j : /\ Moves(r, "openJson", j) /\ j.after = "upAgain"
                   /\ config' = RolledBack(config, job[r])
      BY <1>5, RollbackMoves
    <2>2. Kept(config', pc'[r], job'[r]) = config'
      BY <1>0, <2>1, Lands, KeptUnless
    <2>3. Kept(config, pc[r], job[r]) = RolledBack(config, job[r])
      BY <1>0, <1>5 DEF Rollback, RequestOK, Kept, Pending
    <2>4. QED BY <2>1, <2>2, <2>3
  <1>6. ASSUME Moves(r, "idle", NoJob), config' = config,
               pc[r] \in {"keys", "down", "sync", "upAgain"}
        PROVE  Kept(config', pc'[r], job'[r]) = Kept(config, pc[r], job[r])
    <2>1. pc'[r] = "idle"
      BY <1>0, <1>6, Lands
    <2>2. QED BY <1>6, <2>1, KeptAt
  <1>7. ASSUME NEW m, Moves(r, m, job[r]), Follows(pc[r], job[r], m), config' = config
        PROVE  Kept(config', pc'[r], job'[r]) = Kept(config, pc[r], job[r])
    <2>1. pc'[r] = m /\ job'[r] = job[r]
      BY <1>0, <1>7, Lands
    <2>2. QED BY <1>0, <1>7, <2>1, KeptFollows
  <1>8. CASE CreateRefused(r) \/ KeysFail(r) \/ Sync(r) \/ SyncFails(r)
    <2>1. config' = config /\ pc[r] \in {"keys", "sync"} /\ Finish(r)
      BY <1>0, <1>8 DEF CreateRefused, KeysFail, Sync, SyncFails, Throw, memory
    <2>2. QED BY <1>0, <1>6, <2>1, FinishMoves
  <1>9. CASE RegenKeys(r)
    <2>1. config' = config /\ pc[r] = "keys" /\ pc'[r] = "down"
      BY <1>0, <1>9 DEF RegenKeys, Goto, TypeOK, memory
    <2>2. QED BY <2>1, KeptAt
  <1>10. CASE Down(r) \/ DownFails(r) \/ DownFailsInHook(r)
    <2>1. config' = config /\ pc[r] = "down" /\ pc'[r] = "mutate"
      BY <1>0, <1>10 DEF Down, DownFails, DownFailsInHook, AfterDown, Goto, TypeOK, memory
    <2>2. QED BY <2>1, KeptAt
  <1>11. CASE OpenJson(r) \/ WriteJson(r) \/ OpenConf(r) \/ WriteConf(r)
    <2>1. \E m : Goto(r, m) /\ Follows(pc[r], job[r], m) /\ UNCHANGED <<memory, job>>
      BY <1>11 DEF OpenJson, WriteJson, OpenConf, WriteConf, Follows, WritePoints
    <2>2. QED BY <1>0, <1>7, <2>1, GotoMoves DEF memory
  <1>12. CASE UpFails(r) \/ UpFailsInHook(r)
    <2>1. PICK rs : UpRejected(r, rs)
      BY <1>12 DEF UpFails, UpFailsInHook
    <2>2. config' = config /\ pc[r] \in {"up", "upAgain"}
      BY <1>12, <2>1, RejectedMoves DEF UpFails, UpFailsInHook, memory
    <2>3. CASE pc[r] = "up"
      BY <1>7, <2>1, <2>2, <2>3, RejectedMoves DEF Follows
    <2>4. CASE pc[r] = "upAgain"
      BY <1>6, <2>1, <2>2, <2>4, RejectedMoves
    <2>5. QED BY <2>2, <2>3, <2>4
  <1>13. CASE Request(r)
    BY <1>1, <1>2, <1>13, RequestShape
  <1>14. QED
    BY <1>3, <1>4, <1>5, <1>8, <1>9, <1>10, <1>11, <1>12, <1>13 DEF Step

\* The calls that touch the kernel.
LEMMA KernelKept ==
    ASSUME TypeOK, OneInv, NEW r \in Reqs, Request(r) \/ Step(r),
           ~ (Down(r) \/ DownFailsInHook(r) \/ Sync(r) \/ Up(r) \/ UpFailsInHook(r))
    PROVE  UNCHANGED kernel
  <1>0. r # Boot
    BY WireGuardAssumption
  <1>1. CASE Request(r)
    <2>1. CASE SavesQuietly(r)
      BY <2>1, QuietLands
    <2>2. QED BY <1>1, <2>1, RequestShape DEF Begin
  <1>2. CASE UpFails(r)
    <2>1. PICK rs : UpRejected(r, rs) /\ rs = rules
      BY <1>2 DEF UpFails
    <2>2. QED BY <2>1, RejectedMoves DEF kernel
  <1>3. CASE InsertClient(r) \/ Mutate(r) \/ Rollback(r)
    BY <1>3, SaveStep
  <1>4. CASE WriteFails(r) \/ SyncFails(r)
    BY <1>4, ThrowMoves DEF WriteFails, SyncFails
  <1>5. CASE CreateRefused(r) \/ RegenKeys(r) \/ KeysFail(r) \/ DownFails(r)
             \/ OpenJson(r) \/ WriteJson(r) \/ OpenConf(r) \/ WriteConf(r)
    BY <1>5 DEF CreateRefused, RegenKeys, KeysFail, DownFails,
                OpenJson, WriteJson, OpenConf, WriteConf
  <1>6. QED BY <1>1, <1>2, <1>3, <1>4, <1>5 DEF Step

\* Whoever calls `wg-quick' finds the configuration in wg0.conf.
LEMMA ConfAtCall ==
    ASSUME OneInv, FilesInv, NEW p \in Procs \ {Sig},
           pc[p] \in {"down", "sync", "up", "upAgain"}
    PROVE  /\ conf = Whole(RenderServerConf(config))
           /\ conf.text.rules = HookRules(config)
           /\ ~ Garbled(conf)
  <1>1. FilesOK(config, pc[p], json, conf)
    BY DEF FilesInv, OneInv, Procs
  <1>2. QED BY <1>1 DEF FilesOK, WritePoints, Whole, Garbled, RenderServerConf

\* No hook fails.
LEMMA NoHookFails ==
    ASSUME HooksRun
    PROVE  \A p : ~ UpFailsInHook(p) /\ ~ DownFailsInHook(p)
  BY DEF HooksRun, IsV6Masq, UpFailsInHook, DownFailsInHook

LEMMA RequestFire ==
    ASSUME WritesSucceed, HooksRun, TypeOK, OneInv, FilesInv, FireInv,
           NEW r \in Reqs, Reqs = {r}, Request(r) \/ Step(r)
    PROVE  FireInv'
  <1> DEFINE old == Kept(config, pc[r], job[r])
             new == Kept(config', pc'[r], job'[r])
  <1>0. r \in Procs \ {Sig} /\ Sig # Boot /\ r # Boot
    BY WireGuardAssumption DEF Procs
  <1>1. node = "running" /\ node' = "running"
    <2>1. node = "running"
      BY RequestShape, StepShape
    <2>2. CASE Request(r)
      BY <2>1, <2>2, RequestShape, QuietLands DEF Begin
    <2>3. CASE Step(r)
      BY <2>1, <2>3, StepShape, SaveStep DEF PlainStep
    <2>4. QED BY <2>1, <2>2, <2>3
  <1>2. rules = IF dev.up THEN HookRules(old) ELSE {}
    BY <1>1 DEF FireInv
  <1>3. ~ WriteFails(r) /\ ~ UpFailsInHook(r) /\ ~ DownFailsInHook(r)
    BY NoHookFails DEF WriteFails, WritesSucceed
  <1>4. ~ Up(r) => HookRules(new) = HookRules(old)
    BY <1>3, KeptStep DEF SameTunnel
  <1>5. CASE Down(r)
    <2>1. pc[r] = "down" /\ dev' = NoDevice
          /\ rules' = IF dev.up THEN rules \ conf.text.rules ELSE rules
      BY <1>5 DEF Down
    <2>2. conf.text.rules = HookRules(config) /\ old = config
      BY <1>0, <2>1, ConfAtCall, KeptAt
    <2>3. rules' = {} /\ ~ dev'.up
      BY <1>2, <2>1, <2>2 DEF NoDevice
    <2>4. QED BY <1>1, <2>3 DEF FireInv
  <1>6. CASE Up(r)
    <2>1. /\ ~ dev.up /\ dev' = Device(conf.text) /\ rules' = rules \cup conf.text.rules
          /\ config' = config /\ Finish(r) /\ pc[r] \in {"up", "upAgain"}
      BY <1>0, <1>6 DEF Up, memory
    <2>2. dev'.up /\ rules' = HookRules(config)
      BY <1>0, <1>2, <2>1, ConfAtCall DEF Device
    <2>3. pc'[r] = "idle"
      BY <1>0, <2>1, FinishMoves, Lands
    <2>4. new = config
      BY <2>1, <2>3, KeptAt
    <2>5. QED BY <1>1, <2>2, <2>4 DEF FireInv
  <1>7. CASE Sync(r)
    <2>1. dev'.up = dev.up /\ rules' = rules
      BY <1>7 DEF Sync
    <2>2. ~ Up(r)
      BY <1>7 DEF Sync, Up
    <2>3. QED BY <1>1, <1>2, <1>4, <2>1, <2>2 DEF FireInv
  <1>8. CASE ~ (Down(r) \/ Sync(r) \/ Up(r))
    <2>1. dev' = dev /\ rules' = rules
      BY <1>3, <1>8, KernelKept DEF kernel
    <2>2. QED BY <1>1, <1>2, <1>4, <1>8, <2>1 DEF FireInv
  <1>9. QED BY <1>5, <1>6, <1>7, <1>8

LEMMA BootFire ==
    ASSUME TypeOK, OneInv, FilesInv, FireInv, NEW r \in Reqs, Reqs = {r},
           Step(Boot) \/ StartNode \/ Load
    PROVE  FireInv'
  <1>0. Boot \in Procs \ {Sig}
    BY WireGuardAssumption DEF Procs
  <1>1. node # "running" /\ pc[r] = "idle" /\ pc'[r] = "idle"
    BY BootShape
  <1>2. /\ rules = IF dev.up THEN HookRules(config) ELSE {}
        /\ dev.up => pc[Boot] = "sync"
    BY <1>1 DEF FireInv
  <1>3. CASE ExitNode
    BY <1>3 DEF ExitNode, FireInv, NoDevice
  <1>4. CASE /\ UNCHANGED kernel /\ node' = "booting"
             /\ pc[Boot] # "sync" /\ pc'[Boot] # "sync"
    BY <1>2, <1>4 DEF FireInv, kernel
  <1>5. CASE (Down(Boot) \/ DownFailsInHook(Boot)) /\ pc'[Boot] = "up"
    <2>1. ~ dev.up /\ dev' = NoDevice /\ rules' = rules /\ node' = node
      BY <1>2, <1>5 DEF Down, DownFailsInHook
    <2>2. QED BY <1>1, <1>2, <2>1 DEF FireInv, NoDevice
  <1>6. CASE Up(Boot) /\ pc'[Boot] = "sync"
    <2>1. /\ ~ dev.up /\ dev' = Device(conf.text) /\ rules' = rules \cup conf.text.rules
          /\ config' = config /\ node' = node /\ pc[Boot] \in {"up", "upAgain"}
      BY <1>6 DEF Up, memory
    <2>2. dev'.up /\ rules' = HookRules(config')
      BY <1>0, <1>2, <2>1, ConfAtCall DEF Device
    <2>3. QED BY <1>1, <1>6, <2>1, <2>2 DEF FireInv
  <1>7. CASE Sync(Boot) /\ node' = "running" /\ pc'[Boot] = "idle"
    <2>1. dev.up /\ dev'.up /\ rules' = rules /\ config' = config
      BY <1>7 DEF Sync, memory
    <2>2. Kept(config', pc'[r], job'[r]) = config
      BY <1>1, <2>1, KeptAt
    <2>3. QED BY <1>2, <1>7, <2>1, <2>2 DEF FireInv
  <1>8. QED BY <1>3, <1>4, <1>5, <1>6, <1>7, BootShape

\* Every step keeps the rules those of what is kept.
LEMMA FireStep ==
    ASSUME WritesSucceed, HooksRun, TypeOK, OneInv, FilesInv, FireInv,
           NEW r \in Reqs, Reqs = {r}, [Next]_vars
    PROVE  FireInv'
  <1>0. Procs = {r, Boot, Sig} /\ r # Sig /\ Sig # Boot
    BY WireGuardAssumption DEF Procs
  <1>1. CASE Shutdown \/ Crash
    BY <1>1 DEF Shutdown, Crash, ExitNode, FireInv, NoDevice
  <1>2. CASE Sigterm
    <2>1. UNCHANGED <<memory, kernel, node, job>> /\ pc' = [pc EXCEPT ![Sig] = "down"]
      BY <1>2 DEF Sigterm, Goto
    <2>2. pc'[r] = pc[r] /\ pc'[Boot] = pc[Boot]
      BY <1>0, <2>1 DEF TypeOK
    <2>3. QED BY <2>1, <2>2 DEF FireInv, memory, kernel
  <1>3. CASE UNCHANGED vars
    BY <1>3 DEF vars, FireInv
  <1>4. QED
    BY <1>0, <1>1, <1>2, <1>3, RequestFire, BootFire, SigWaits DEF Next

LEMMA FireHolds == OneAdmin /\ WritesSucceed /\ HooksRun /\ Spec => []FireInv
  <1> SUFFICES ASSUME OneAdmin, WritesSucceed, HooksRun PROVE Spec => []FireInv
    OBVIOUS
  <1>1. Init => FireInv
    BY DEF Init, FireInv, NoDevice
  <1>2. TypeOK /\ OneInv /\ FilesInv /\ FireInv /\ [Next]_vars => FireInv'
    BY FireStep DEF OneAdmin
  <1>3. Spec => []OneInv
    BY OneHolds
  <1>4. Spec => []FilesInv
    BY FilesHold
  <1>5. QED BY <1>1, <1>2, <1>3, <1>4, TypeCorrect, PTL DEF Spec

\* As long as the hooks run, `down' never leaves a rule behind, whichever `wg'
\* and wg-quick commands fail: when a request calls it, and whenever the server
\* is at rest, every live rule is one that the PostDown of the wg0.conf on disk
\* deletes (the order down, save, up of __applyWithBounce).  A hook that stops
\* halfway leaves rules behind (MCHookFails, MCMasqLeak).
THEOREM TeardownCoversRules ==
    OneAdmin /\ WritesSucceed /\ HooksRun /\ Spec => []TeardownCovers
  <1> SUFFICES ASSUME OneAdmin, WritesSucceed, HooksRun PROVE Spec => []TeardownCovers
    OBVIOUS
  <1>1. TypeOK /\ OneInv /\ FilesInv /\ FireInv => TeardownCovers
    <2> SUFFICES ASSUME TypeOK, OneInv, FilesInv, FireInv,
                        (\E r \in Reqs : pc[r] = "down") \/ Quiet
                 PROVE  rules \subseteq conf.text.rules
      BY DEF TeardownCovers
    <2>1. PICK r \in Reqs : Reqs = {r}
      BY DEF OneAdmin
    <2>2. r \in Procs
      BY DEF Procs
    <2>3. pc[r] \in {"down", "idle"} /\ node = "running"
      BY <2>1, <2>2 DEF Quiet, OneInv
    <2>4. conf = Whole(RenderServerConf(config))
      BY <2>3 DEF FilesInv, FilesOK, WritePoints
    <2>5. rules \subseteq HookRules(config)
      BY <2>3, KeptAt DEF FireInv
    <2>6. QED BY <2>4, <2>5 DEF Whole, RenderServerConf
  <1>2. QED BY <1>1, OneHolds, FilesHold, FireHolds, TypeCorrect, PTL

-----------------------------------------------------------------------------
(* The rules a device that is up has at least *)

LEMMA RequestLive ==
    ASSUME WritesSucceed, TypeOK, OneInv, FilesInv, LiveInv,
           NEW r \in Reqs, Reqs = {r}, Request(r) \/ Step(r)
    PROVE  LiveInv'
  <1> DEFINE old == Kept(config, pc[r], job[r])
             new == Kept(config', pc'[r], job'[r])
  <1>0. r \in Procs \ {Sig} /\ Sig # Boot /\ r # Boot
    BY WireGuardAssumption DEF Procs
  <1>1. node = "running" /\ node' = "running"
    <2>1. node = "running"
      BY RequestShape, StepShape
    <2>2. CASE Request(r)
      BY <2>1, <2>2, RequestShape, QuietLands DEF Begin
    <2>3. CASE Step(r)
      BY <2>1, <2>3, StepShape, SaveStep DEF PlainStep
    <2>4. QED BY <2>1, <2>2, <2>3
  <1>2. dev.up => HookRules(old) \subseteq rules
    BY <1>1 DEF LiveInv
  <1>3. ~ WriteFails(r)
    BY DEF WriteFails, WritesSucceed
  <1>4. ~ Up(r) => HookRules(new) = HookRules(old)
    BY <1>3, KeptStep DEF SameTunnel
  <1>5. CASE Down(r) \/ DownFailsInHook(r)
    <2>1. ~ dev'.up
      BY <1>5 DEF Down, DownFailsInHook, NoDevice
    <2>2. QED BY <1>1, <2>1 DEF LiveInv
  <1>6. CASE Up(r)
    <2>1. /\ rules' = rules \cup conf.text.rules
          /\ config' = config /\ Finish(r) /\ pc[r] \in {"up", "upAgain"}
      BY <1>0, <1>6 DEF Up, memory
    <2>2. HookRules(config) \subseteq rules'
      BY <1>0, <2>1, ConfAtCall
    <2>3. pc'[r] = "idle"
      BY <1>0, <2>1, FinishMoves, Lands
    <2>4. new = config
      BY <2>1, <2>3, KeptAt
    <2>5. QED BY <1>1, <2>2, <2>4 DEF LiveInv
  <1>7. CASE Sync(r)
    <2>1. dev.up /\ rules' = rules
      BY <1>7 DEF Sync
    <2>2. ~ Up(r)
      BY <1>7 DEF Sync, Up
    <2>3. QED BY <1>1, <1>2, <1>4, <2>1, <2>2 DEF LiveInv
  <1>8. CASE UpFailsInHook(r)
    <2>1. PICK rs : UpRejected(r, rs) /\ ~ dev.up
      BY <1>8 DEF UpFailsInHook
    <2>2. dev' = dev
      BY <1>0, <2>1 DEF UpRejected
    <2>3. QED BY <1>1, <2>1, <2>2 DEF LiveInv
  <1>9. CASE ~ (Down(r) \/ DownFailsInHook(r) \/ Sync(r) \/ Up(r) \/ UpFailsInHook(r))
    <2>1. dev' = dev /\ rules' = rules
      BY <1>9, KernelKept DEF kernel
    <2>2. QED BY <1>1, <1>2, <1>4, <1>9, <2>1 DEF LiveInv
  <1>10. QED BY <1>5, <1>6, <1>7, <1>8, <1>9

LEMMA BootLive ==
    ASSUME TypeOK, OneInv, FilesInv, LiveInv, NEW r \in Reqs, Reqs = {r},
           Step(Boot) \/ StartNode \/ Load
    PROVE  LiveInv'
  <1>0. Boot \in Procs \ {Sig}
    BY WireGuardAssumption DEF Procs
  <1>1. node # "running" /\ pc[r] = "idle" /\ pc'[r] = "idle"
    BY BootShape
  <1>2. dev.up => HookRules(config) \subseteq rules /\ pc[Boot] = "sync"
    BY <1>1 DEF LiveInv
  <1>3. CASE ExitNode
    BY <1>3 DEF ExitNode, LiveInv, NoDevice
  <1>4. CASE /\ UNCHANGED kernel /\ node' = "booting"
             /\ pc[Boot] # "sync" /\ pc'[Boot] # "sync"
    BY <1>2, <1>4 DEF LiveInv, kernel
  <1>5. CASE (Down(Boot) \/ DownFailsInHook(Boot)) /\ pc'[Boot] = "up"
    BY <1>5 DEF Down, DownFailsInHook, LiveInv, NoDevice
  <1>6. CASE Up(Boot) /\ pc'[Boot] = "sync"
    <2>1. /\ rules' = rules \cup conf.text.rules
          /\ config' = config /\ node' = node /\ pc[Boot] \in {"up", "upAgain"}
      BY <1>6 DEF Up, memory
    <2>2. HookRules(config') \subseteq rules'
      BY <1>0, <2>1, ConfAtCall
    <2>3. QED BY <1>1, <1>6, <2>1, <2>2 DEF LiveInv
  <1>7. CASE Sync(Boot) /\ node' = "running" /\ pc'[Boot] = "idle"
    <2>1. dev.up /\ rules' = rules /\ config' = config
      BY <1>7 DEF Sync, memory
    <2>2. Kept(config', pc'[r], job'[r]) = config
      BY <1>1, <2>1, KeptAt
    <2>3. QED BY <1>2, <1>7, <2>1, <2>2 DEF LiveInv
  <1>8. QED BY <1>3, <1>4, <1>5, <1>6, <1>7, BootShape

LEMMA LiveHolds == OneAdmin /\ WritesSucceed /\ Spec => []LiveInv
  <1> SUFFICES ASSUME OneAdmin, WritesSucceed PROVE Spec => []LiveInv
    OBVIOUS
  <1>1. Init => LiveInv
    BY DEF Init, LiveInv, NoDevice
  <1>2. TypeOK /\ OneInv /\ FilesInv /\ LiveInv /\ [Next]_vars => LiveInv'
    <2> SUFFICES ASSUME TypeOK, OneInv, FilesInv, LiveInv, [Next]_vars PROVE LiveInv'
      OBVIOUS
    <2>0. PICK r \in Reqs : Reqs = {r}
      BY DEF OneAdmin
    <2>1. Procs = {r, Boot, Sig} /\ r # Sig /\ Sig # Boot
      BY <2>0, WireGuardAssumption DEF Procs
    <2>2. CASE Shutdown \/ Crash
      BY <2>2 DEF Shutdown, Crash, ExitNode, LiveInv, NoDevice
    <2>3. CASE Sigterm
      <3>1. UNCHANGED <<memory, kernel, node, job>> /\ pc' = [pc EXCEPT ![Sig] = "down"]
        BY <2>3 DEF Sigterm, Goto
      <3>2. pc'[r] = pc[r] /\ pc'[Boot] = pc[Boot]
        BY <2>1, <3>1 DEF TypeOK
      <3>3. QED BY <2>0, <3>1, <3>2 DEF LiveInv, memory, kernel
    <2>4. CASE UNCHANGED vars
      BY <2>4 DEF vars, LiveInv
    <2>5. QED
      BY <2>0, <2>1, <2>2, <2>3, <2>4, RequestLive, BootLive, SigWaits DEF Next
  <1>3. Spec => []OneInv
    BY OneHolds
  <1>4. Spec => []FilesInv
    BY FilesHold
  <1>5. QED BY <1>1, <1>2, <1>3, <1>4, TypeCorrect, PTL DEF Spec

\* Whichever commands fail and wherever a hook stops: at rest a device that is
\* up has every firewall rule its configuration asks for, so no failed change
\* and no rollback leaves the tunnel up without its port or its masquerade
\* (addRule and the order down, save, up of __applyWithBounce).
THEOREM HooksStayLive == OneAdmin /\ WritesSucceed /\ Spec => []HooksLive
  <1> SUFFICES ASSUME OneAdmin, WritesSucceed PROVE Spec => []HooksLive
    OBVIOUS
  <1>1. LiveInv => HooksLive
    <2> SUFFICES ASSUME LiveInv, Quiet, dev.up PROVE HookRules(config) \subseteq rules
      BY DEF HooksLive
    <2>1. PICK r \in Reqs : Reqs = {r}
      BY DEF OneAdmin
    <2>2. node = "running" /\ Kept(config, pc[r], job[r]) = config
      BY KeptAt DEF Quiet, Procs
    <2>3. QED BY <2>2 DEF LiveInv
  <1>2. QED BY <1>1, LiveHolds, PTL

-----------------------------------------------------------------------------
(* The device *)

\* What `up' creates, and what it accepted.
LEMMA UpServes ==
    ASSUME OneInv, FilesInv, NEW p \in Procs \ {Sig}, Up(p)
    PROVE  /\ dev' = Device(RenderServerConf(config)) /\ Good(config)
           /\ UNCHANGED <<memory, node>>
  <1>1. pc[p] \in {"up", "upAgain"}
    BY DEF Up
  <1>2. conf = Whole(RenderServerConf(config)) /\ conf.text.rules = HookRules(config)
    BY <1>1, ConfAtCall
  <1>3. conf.text = RenderServerConf(config) /\ conf.text.port = config.server.port
    BY <1>2 DEF Whole, RenderServerConf
  <1>4. QED BY <1>2, <1>3 DEF Up, UpAccepts, Good

\* What `wg' reads.
LEMMA ConfReadable ==
    ASSUME AddressesReadable, TypeOK, conf = Whole(RenderServerConf(config))
    PROVE  conf.text.readable
  <1>1. conf.text.readable = AddressesRead(config)
    BY DEF Whole, RenderServerConf
  <1>2. \A i \in EnabledIds(config) : config.clients[i].spelling \in Spellings
    BY ConfigParts DEF TypeOK, EnabledIds, Client
  <1>3. QED BY <1>1, <1>2 DEF AddressesReadable, AddressesRead

\* What `up' refuses.
LEMMA UpRefuses ==
    ASSUME CallsSucceed, AddressesReadable, TypeOK, OneInv, FilesInv,
           NEW p \in Procs \ {Sig},
           UpFails(p) \/ UpFailsInHook(p), ~ dev.up
    PROVE  ~ Good(config)
  <1>1. pc[p] \in {"up", "upAgain"}
    BY DEF UpFails, UpFailsInHook
  <1>2. /\ conf = Whole(RenderServerConf(config)) /\ conf.text.rules = HookRules(config)
        /\ ~ Garbled(conf)
    BY <1>1, ConfAtCall
  <1>3. conf.text.port = config.server.port
    BY <1>2 DEF Whole, RenderServerConf
  <1>4. conf.text.readable
    BY <1>2, ConfReadable
  <1>5. QED BY <1>2, <1>3, <1>4 DEF UpFails, UpFailsInHook, UpAccepts, Good, CallsSucceed

\* What `wg syncconf' makes of a device that is up.
LEMMA SyncServes ==
    ASSUME TypeOK, OneInv, FilesInv, NEW p \in Procs \ {Sig}, Sync(p), dev.mtu = AutoMtu
    PROVE  dev' = Device(RenderServerConf(config)) /\ UNCHANGED memory
  <1>1. conf = Whole(RenderServerConf(config))
    BY ConfAtCall DEF Sync
  <1>2. conf.text = RenderServerConf(config)
    BY <1>1 DEF Whole
  <1>3. config.server \in Server
    BY ConfigParts DEF TypeOK
  <1>4. config.server.key \in Keys /\ config.server.port \in Ports
    BY <1>3 DEF Server
  <1>5. conf.text.key # NoKey /\ conf.text.port # NoPort
    BY <1>2, <1>4, PeerConfigAssumption DEF RenderServerConf
  <1>6. RenderServerConf(config).mtu = AutoMtu
    BY DEF RenderServerConf
  <1>7. QED BY <1>2, <1>5, <1>6 DEF Sync, Device

\* A configuration with the same hooks is as good.
LEMMA GoodStays ==
    ASSUME NEW old, NEW new, SameTunnel(old, new), Good(old)
    PROVE  Good(new)
  BY DEF SameTunnel, Good

LEMMA RequestDevice ==
    ASSUME WritesSucceed, CallsSucceed, AddressesReadable, TypeOK, OneInv, FilesInv,
           DeviceInv, NEW r \in Reqs, Reqs = {r}, Request(r) \/ Step(r)
    PROVE  DeviceInv'
  <1> DEFINE old == Kept(config, pc[r], job[r])
             new == Kept(config', pc'[r], job'[r])
  <1>0. r \in Procs \ {Sig} /\ Sig # Boot /\ r # Boot /\ Boot \in Procs
    BY WireGuardAssumption DEF Procs
  <1>1. node = "running" /\ node' = "running" /\ pc'[Boot] = "idle"
    <2>1. node = "running"
      BY RequestShape, StepShape
    <2>2. pc[Boot] = "idle"
      BY <2>1 DEF OneInv
    <2>3. CASE Request(r)
      <3>1. CASE SavesQuietly(r)
        BY <1>0, <2>1, <2>2, <3>1, QuietLands
      <3>2. CASE \E j, l : Begin(r, j, l)
        <4>1. PICK j, l : Begin(r, j, l)
          BY <3>2
        <4>2. Moves(r, l, j) /\ node' = node
          BY <4>1 DEF Begin, Moves
        <4>3. QED BY <1>0, <2>1, <2>2, <4>2, Lands
      <3>3. QED BY <2>3, <3>1, <3>2, RequestShape
    <2>4. CASE Step(r)
      <3>1. CASE InsertClient(r) \/ Mutate(r) \/ Rollback(r)
        BY <1>0, <2>1, <2>2, <3>1, SaveStep
      <3>2. CASE PlainStep(r)
        BY <1>0, <2>1, <2>2, <3>2, Lands DEF PlainStep
      <3>3. QED BY <2>4, <3>1, <3>2, StepShape
    <2>5. QED BY <2>1, <2>3, <2>4
  <1>2. DeviceOK(config, pc[r], job[r], dev) /\ RequestOK(config, pc[r], job[r])
    BY <1>1 DEF DeviceInv, OneInv
  <1>3. Good(old)
    BY <1>2 DEF DeviceOK
  <1>4. /\ ~ WriteFails(r) /\ ~ DownFails(r) /\ ~ DownFailsInHook(r) /\ ~ KeysFail(r)
    BY DEF WriteFails, WritesSucceed, DownFails, DownFailsInHook, KeysFail, CallsSucceed
  <1>5. ~ Up(r) => Good(new)
    BY <1>3, <1>4, KeptStep, GoodStays
  <1>6. ASSUME DeviceOK(config', pc'[r], job'[r], dev')
        PROVE  DeviceInv'
    BY <1>1, <1>6 DEF DeviceInv
  <1>7. ASSUME SavesQuietly(r), pc[r] \in {"idle", "keys"}
        PROVE  DeviceInv'
    <2>1. /\ pc'[r] = "openJson" /\ job'[r].after = "sync" /\ dev' = dev
      BY <1>7, QuietLands DEF kernel
    <2>2. dev.up /\ dev.mtu = AutoMtu
      BY <1>2, <1>7 DEF DeviceOK, Device, RenderServerConf
    <2>3. ~ Up(r)
      BY <1>7 DEF Up
    <2>4. QED BY <1>5, <1>6, <2>1, <2>2, <2>3 DEF DeviceOK, WritePoints
  <1>8. ASSUME NEW j, NEW l \in {"keys", "down"}, Begin(r, j, l), pc[r] = "idle"
        PROVE  DeviceInv'
    <2>1. Moves(r, l, j) /\ config' = config /\ dev' = dev
      BY <1>8 DEF Begin, Moves, memory, kernel
    <2>2. pc'[r] = l
      BY <1>0, <2>1, Lands
    <2>3. dev' = Device(RenderServerConf(config'))
      BY <1>2, <1>8, <2>1 DEF DeviceOK
    <2>4. ~ Up(r)
      BY <1>8 DEF Up
    <2>5. QED BY <1>5, <1>6, <2>2, <2>3, <2>4 DEF DeviceOK, WritePoints
  <1>9. CASE InsertClient(r)
    BY <1>7, <1>9, InsertShape DEF InsertClient
  <1>10. CASE Mutate(r) \/ Rollback(r)
    <2>1. PICK j : Moves(r, "openJson", j) /\ j.after \in {"up", "upAgain"} /\ UNCHANGED kernel
      BY <1>10, MutateMoves, RollbackMoves
    <2>2. pc'[r] = "openJson" /\ job'[r].after # "sync" /\ dev' = dev
      BY <1>0, <2>1, Lands DEF kernel
    <2>3. ~ dev.up /\ ~ Up(r)
      BY <1>2, <1>10 DEF DeviceOK, Mutate, Rollback, Up
    <2>4. QED BY <1>5, <1>6, <2>2, <2>3 DEF DeviceOK, WritePoints
  <1>11. CASE CreateRefused(r) \/ RegenKeys(r)
    <2>1. /\ pc[r] = "keys" /\ pc'[r] \in {"idle", "down"}
          /\ config' = config /\ dev' = dev
      BY <1>0, <1>11 DEF CreateRefused, RegenKeys, Finish, Goto, TypeOK, memory, kernel
    <2>2. dev' = Device(RenderServerConf(config')) /\ ~ Up(r)
      BY <1>2, <2>1 DEF DeviceOK, Up
    <2>3. QED BY <1>5, <1>6, <2>1, <2>2 DEF DeviceOK, WritePoints
  <1>12. CASE Down(r)
    <2>1. pc'[r] = "mutate" /\ ~ dev'.up /\ ~ Up(r)
      BY <1>0, <1>12 DEF Down, AfterDown, Goto, TypeOK, NoDevice, Up
    <2>2. QED BY <1>5, <1>6, <2>1 DEF DeviceOK, WritePoints
  <1>13. CASE OpenJson(r) \/ WriteJson(r) \/ OpenConf(r) \/ WriteConf(r)
    <2>1. pc[r] \in WritePoints
      BY <1>13 DEF OpenJson, WriteJson, OpenConf, WriteConf, WritePoints
    <2>2. /\ job[r].snap = config /\ job[r].after \in {"sync", "up", "upAgain"}
          /\ FilesOK(config, pc[r], json, conf)
      BY <1>1, <1>2, <2>1 DEF RequestOK, FilesInv
    <2>3. /\ pc'[r] \in WritePoints \cup {job[r].after}
          /\ job'[r] = job[r] /\ dev' = dev
      BY <1>0, <1>13, <2>2, WriteStep DEF WritePoints, kernel
    <2>4. ~ Up(r)
      BY <2>1 DEF Up, WritePoints
    <2>5. /\ job[r].after = "sync" => dev.up /\ dev.mtu = AutoMtu
          /\ job[r].after # "sync" => ~ dev.up
      BY <1>2, <2>1 DEF DeviceOK
    <2>6. QED BY <1>5, <1>6, <2>2, <2>3, <2>4, <2>5 DEF DeviceOK, WritePoints
  <1>14. CASE Sync(r)
    <2>1. dev.mtu = AutoMtu /\ Finish(r) /\ ~ Up(r)
      BY <1>2, <1>14 DEF DeviceOK, Sync, Up
    <2>2. dev' = Device(RenderServerConf(config')) /\ pc'[r] = "idle"
      BY <1>0, <1>14, <2>1, SyncServes, FinishMoves, Lands DEF memory
    <2>3. QED BY <1>5, <1>6, <2>1, <2>2 DEF DeviceOK, WritePoints
  <1>15. ~ SyncFails(r)
    <2>1. ASSUME SyncFails(r) PROVE FALSE
      <3>1. pc[r] = "sync"
        BY <2>1 DEF SyncFails
      <3>2. dev.up /\ ~ Garbled(conf) /\ conf.text.readable
        BY <1>0, <1>2, <3>1, ConfAtCall, ConfReadable DEF DeviceOK
      <3>3. QED BY <2>1, <3>2 DEF SyncFails, CallsSucceed
    <2>2. QED BY <2>1
  <1>16. CASE Up(r)
    <2>1. /\ dev' = Device(RenderServerConf(config')) /\ Good(config') /\ Finish(r)
      BY <1>0, <1>16, UpServes DEF Up, memory
    <2>2. pc'[r] = "idle"
      BY <1>0, <2>1, FinishMoves, Lands
    <2>3. Good(new)
      BY <2>1, <2>2, KeptAt
    <2>4. QED BY <1>6, <2>1, <2>2, <2>3 DEF DeviceOK, WritePoints
  <1>17. CASE UpFails(r) \/ UpFailsInHook(r)
    <2>1. PICK rs : UpRejected(r, rs)
      BY <1>17 DEF UpFails, UpFailsInHook
    <2>2. pc[r] \in {"up", "upAgain"}
      BY <1>17 DEF UpFails, UpFailsInHook
    <2>3. ~ dev.up
      BY <1>2, <2>2 DEF DeviceOK
    <2>4. pc[r] # "upAgain"
      <3>1. ASSUME pc[r] = "upAgain" PROVE FALSE
        <4>1. Good(config)
          BY <1>3, <3>1, KeptAt
        <4>2. QED BY <1>0, <1>17, <2>3, <4>1, UpRefuses
      <3>2. QED BY <3>1
    <2>5. pc'[r] = "rollback" /\ dev' = dev
      BY <1>0, <2>1, <2>2, <2>4, RejectedMoves, Lands
    <2>6. QED
      <3>1. CASE Up(r)
        BY <1>16, <3>1
      <3>2. CASE ~ Up(r)
        BY <1>5, <1>6, <2>3, <2>5, <3>2 DEF DeviceOK, WritePoints
      <3>3. QED BY <3>1, <3>2
  <1>18. CASE Request(r)
    BY <1>7, <1>8, <1>18, RequestShape
  <1>19. QED
    BY <1>4, <1>9, <1>10, <1>11, <1>12, <1>13, <1>14, <1>15, <1>16, <1>17, <1>18 DEF Step

LEMMA BootDevice ==
    ASSUME TypeOK, OneInv, FilesInv, DeviceInv, NEW r \in Reqs, Reqs = {r},
           Step(Boot) \/ StartNode \/ Load
    PROVE  DeviceInv'
  <1>0. Boot \in Procs \ {Sig}
    BY WireGuardAssumption DEF Procs
  <1>1. node # "running" /\ pc[r] = "idle" /\ pc'[r] = "idle"
    BY BootShape
  <1>2. /\ pc[Boot] = "sync" => dev = Device(RenderServerConf(config)) /\ Good(config)
        /\ pc[Boot] # "sync" => ~ dev.up
    BY <1>1 DEF DeviceInv
  <1>3. CASE ExitNode
    BY <1>0, <1>3 DEF ExitNode, DeviceInv, NoDevice
  <1>4. CASE /\ UNCHANGED kernel /\ node' = "booting"
             /\ pc[Boot] # "sync" /\ pc'[Boot] # "sync"
    BY <1>2, <1>4 DEF DeviceInv, kernel
  <1>5. CASE (Down(Boot) \/ DownFailsInHook(Boot)) /\ pc'[Boot] = "up"
    BY <1>1, <1>5 DEF Down, DownFailsInHook, DeviceInv, NoDevice
  <1>6. CASE Up(Boot) /\ pc'[Boot] = "sync"
    <2>1. dev' = Device(RenderServerConf(config')) /\ Good(config') /\ node' = node
      BY <1>0, <1>6, UpServes DEF memory
    <2>2. QED BY <1>1, <1>6, <2>1 DEF DeviceInv
  <1>7. CASE Sync(Boot) /\ node' = "running" /\ pc'[Boot] = "idle"
    <2>1. dev = Device(RenderServerConf(config)) /\ Good(config)
      BY <1>2, <1>7 DEF Sync
    <2>2. dev.mtu = AutoMtu
      BY <2>1 DEF Device, RenderServerConf
    <2>3. dev' = Device(RenderServerConf(config')) /\ config' = config
      BY <1>0, <1>7, <2>2, SyncServes DEF memory
    <2>4. Kept(config', pc'[r], job'[r]) = config
      BY <1>1, <2>3, KeptAt
    <2>5. QED BY <1>1, <1>7, <2>1, <2>3, <2>4 DEF DeviceInv, DeviceOK, WritePoints
  <1>8. QED BY <1>3, <1>4, <1>5, <1>6, <1>7, BootShape

LEMMA DeviceStep ==
    ASSUME WritesSucceed, CallsSucceed, AddressesReadable, TypeOK, OneInv, FilesInv,
           DeviceInv, NEW r \in Reqs, Reqs = {r}, [Next]_vars
    PROVE  DeviceInv'
  <1>0. Procs = {r, Boot, Sig} /\ r # Sig /\ Sig # Boot
    BY WireGuardAssumption DEF Procs
  <1>1. CASE Shutdown \/ Crash
    BY <1>0, <1>1 DEF Shutdown, Crash, ExitNode, DeviceInv, NoDevice
  <1>2. CASE Sigterm
    <2>1. UNCHANGED <<memory, kernel, node, job>> /\ pc' = [pc EXCEPT ![Sig] = "down"]
      BY <1>2 DEF Sigterm, Goto
    <2>2. pc'[r] = pc[r] /\ pc'[Boot] = pc[Boot]
      BY <1>0, <2>1 DEF TypeOK
    <2>3. QED BY <2>1, <2>2 DEF DeviceInv, memory, kernel
  <1>3. CASE UNCHANGED vars
    BY <1>3 DEF vars, DeviceInv
  <1>4. QED
    BY <1>0, <1>1, <1>2, <1>3, RequestDevice, BootDevice, SigWaits DEF Next

LEMMA DeviceHolds ==
    OneAdmin /\ WritesSucceed /\ CallsSucceed /\ AddressesReadable /\ Spec => []DeviceInv
  <1> SUFFICES ASSUME OneAdmin, WritesSucceed, CallsSucceed, AddressesReadable
               PROVE  Spec => []DeviceInv
    OBVIOUS
  <1>1. Init => DeviceInv
    BY DEF Init, DeviceInv, NoDevice, Procs
  <1>2. TypeOK /\ OneInv /\ FilesInv /\ DeviceInv /\ [Next]_vars => DeviceInv'
    BY DeviceStep DEF OneAdmin
  <1>3. Spec => []OneInv
    BY OneHolds
  <1>4. Spec => []FilesInv
    BY FilesHold
  <1>5. QED BY <1>1, <1>2, <1>3, <1>4, TypeCorrect, PTL DEF Spec

\* Once the request is answered the device serves the configuration in memory:
\* not even a request whose `up' failed strands the server offline or leaves
\* it with a refused configuration (updateServerSettings, regenerateKeypair,
\* __applyWithBounce).
THEOREM DeviceStaysServed ==
    OneAdmin /\ WritesSucceed /\ CallsSucceed /\ AddressesReadable /\ Spec
        => []DeviceServesConfig
  <1> SUFFICES ASSUME OneAdmin, WritesSucceed, CallsSucceed, AddressesReadable
               PROVE  Spec => []DeviceServesConfig
    OBVIOUS
  <1>1. DeviceInv => DeviceServesConfig
    BY DEF OneAdmin, DeviceInv, DeviceOK, DeviceServesConfig, Quiet, Procs
  <1>2. Spec => []DeviceInv
    BY DeviceHolds
  <1>3. QED BY <1>1, <1>2, PTL

\* The rollback of updateServerSettings lets no port stay that `up' refuses:
\* with one administrator every port that outlives its request was one the
\* tunnel came up with.
THEOREM BadValuesGo ==
    OneAdmin /\ WritesSucceed /\ CallsSucceed /\ AddressesReadable /\ Spec
        => []BadValueNotKept
  <1> SUFFICES ASSUME OneAdmin, WritesSucceed, CallsSucceed, AddressesReadable
               PROVE  Spec => []BadValueNotKept
    OBVIOUS
  <1>1. DeviceInv => BadValueNotKept
    <2> SUFFICES ASSUME DeviceInv, Quiet PROVE config.server.port \notin BadPorts
      BY DEF BadValueNotKept
    <2>1. PICK r \in Reqs : Reqs = {r}
      BY DEF OneAdmin
    <2>2. pc[r] = "idle" /\ node = "running"
      BY DEF Quiet, Procs
    <2>3. Good(config)
      BY <2>2, KeptAt DEF DeviceInv, DeviceOK
    <2>4. QED BY <2>3 DEF Good
  <1>2. Spec => []DeviceInv
    BY DeviceHolds
  <1>3. QED BY <1>1, <1>2, PTL

\* At rest the live rules are exactly those of the hooks in memory, however
\* many calls failed on the way.
LEMMA RulesAtRest ==
    ASSUME OneAdmin, FireInv, Quiet
    PROVE  dev.up => rules = HookRules(config)
  <1>1. PICK r \in Reqs : Reqs = {r}
    BY DEF OneAdmin
  <1>2. pc[r] = "idle" /\ node = "running"
    BY DEF Quiet, Procs
  <1>3. QED BY <1>2, KeptAt DEF FireInv

\* The kernel as a whole, device and firewall.
THEOREM KernelStaysServed ==
    OneAdmin /\ WritesSucceed /\ CallsSucceed /\ AddressesReadable /\ HooksRun /\ Spec
        => []KernelServesConfig
  <1> SUFFICES ASSUME OneAdmin, WritesSucceed, CallsSucceed, AddressesReadable, HooksRun
               PROVE  Spec => []KernelServesConfig
    OBVIOUS
  <1>1. DeviceServesConfig /\ FireInv => KernelServesConfig
    BY RulesAtRest DEF KernelServesConfig, DeviceServesConfig, Device
  <1>2. QED BY <1>1, DeviceStaysServed, FireHolds, PTL

\* As long as the hooks run, a masquerade rule is live at rest only for an
\* enabled site peer that asks for it, also when a bounce failed and was rolled
\* back.
THEOREM MasqueradeStaysAsked ==
    OneAdmin /\ WritesSucceed /\ HooksRun /\ Spec => []MasqueradeAsConfigured
  <1> SUFFICES ASSUME OneAdmin, WritesSucceed, HooksRun
               PROVE  Spec => []MasqueradeAsConfigured
    OBVIOUS
  <1>1. FireInv => MasqueradeAsConfigured
    <2> SUFFICES ASSUME FireInv, Quiet PROVE rules \subseteq HookRules(config)
      BY DEF MasqueradeAsConfigured
    <2>1. PICK r \in Reqs : Reqs = {r}
      BY DEF OneAdmin
    <2>2. node = "running" /\ Kept(config, pc[r], job[r]) = config
      BY KeptAt DEF Quiet, Procs
    <2>3. QED BY <2>2 DEF FireInv
  <1>2. QED BY <1>1, FireHolds, PTL
=============================================================================
