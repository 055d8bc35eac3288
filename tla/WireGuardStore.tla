--------------------------- MODULE WireGuardStore ---------------------------
(***************************************************************************)
(* One administrator at a time sees a ConfigStore: with a single request in *)
(* flight, whatever fails, every request is one whole change or none.  A    *)
(* kill loses no more than the request in flight.                           *)
(***************************************************************************)
EXTENDS WireGuard

\* A change that needs a bounce counts once `up' accepted it; before that the
\* store is what the rollback would restore.
Uncommitted == {r \in Reqs : /\ job[r].after = "up"
                             /\ pc[r] \in {"openJson", "writeJson", "openConf",
                                           "writeConf", "up", "rollback"}}

Committed ==
    IF node # "running" THEN Empty
    ELSE IF Uncommitted = {} THEN config
    ELSE LET r == CHOOSE r \in Uncommitted : TRUE IN RolledBack(config, job[r])

Store == INSTANCE ConfigStore WITH store <- Committed

\* Every step of the manager is a step of the store or none
\* (__applyWithBounce, updateServerSettings, regenerateKeypair, saveConfig).
ImplementsStore == Store!StoreSpec

-----------------------------------------------------------------------------
(* What a kill may lose *)

\* What one operation changes in a client.
Edited(others, old, new) ==
    \/ \E b \in BOOLEAN : new = [old EXCEPT !.enabled = b]
    \/ \E l \in Labels : new = [old EXCEPT !.label = l]
    \/ \E a \in Addrs, sp \in Spellings :
          /\ ~ FindOverlap({{a}}, others)
          /\ new = [old EXCEPT !.address = a, !.spelling = sp]
    \/ \E allowed \in SUBSET Cidrs, masq \in BOOLEAN :
          /\ ~ FindOverlap(allowed, others)
          /\ allowed = {} => ~ masq
          /\ new = [old EXCEPT !.allowed = allowed, !.masq = masq]

\* What one whole operation of ConfigStore does to the configuration.
Changes(old, new) ==
    \/ /\ new.clients = old.clients
       /\ \/ \E patch \in SettingsPatch : new.server = Patched(old.server, patch)
          \/ \E k \in Keys : new.server = [old.server EXCEPT !.key = k]
    \/ \E id \in ClientIds :
        LET others == {old.clients[i] : i \in DOMAIN old.clients \ {id}} IN
        /\ new.server = old.server
        /\ \/ /\ id \notin DOMAIN old.clients
              /\ DOMAIN new.clients = DOMAIN old.clients \cup {id}
              /\ new.clients[id].address \in
                     FreeAddress({old.clients[i] : i \in DOMAIN old.clients})
              /\ new.clients[id].allowed = {}
           \/ /\ id \in DOMAIN old.clients
              /\ DOMAIN new.clients = DOMAIN old.clients \ {id}
           \/ /\ id \in DOMAIN old.clients
              /\ DOMAIN new.clients = DOMAIN old.clients
              /\ Edited(others, old.clients[id], new.clients[id])
        /\ \A i \in DOMAIN old.clients \ {id} : new.clients[i] = old.clients[i]

\* Whenever the process is killed, except while it fills wg0.json, the file
\* says what the memory said or is one operation away from it, the one in
\* flight: with DiskMirrorsMemory, no answered request is lost (__saveConfig,
\* awaited by every handler, and again after a rollback).
OneChangeAway ==
    node = "running" /\ json.whole =>
        \/ json.text = config
        \/ Changes(json.text, config)
        \/ Changes(config, json.text)
=============================================================================
