----------------------------- MODULE ConfigStore ----------------------------
(***************************************************************************)
(* What the administrator is promised: a store of one server and its        *)
(* clients that changes by whole, validated operations.  A failed operation *)
(* is no step at all.                                                       *)
(***************************************************************************)
EXTENDS PeerConfig

VARIABLE store   \* Empty until the server is up

Others(id) == {store.clients[i] : i \in DOMAIN store.clients \ {id}}

Same(id) == \A i \in DOMAIN store.clients \ {id} : store'.clients[i] = store.clients[i]

StoreInit == store = Empty

Open == store = Empty /\ store' \in Config

\* A new client has an address of the pool that no other peer claims, however
\* that peer's address is spelled.
Create(id) ==
    /\ id \notin DOMAIN store.clients
    /\ DOMAIN store'.clients = DOMAIN store.clients \cup {id}
    /\ store'.server = store.server
    /\ Same(id)
    /\ store'.clients[id].address \in Pool
    /\ ~ FindOverlap({{store'.clients[id].address}}, Others(id))
    /\ store'.clients[id].allowed = {}

Delete(id) ==
    /\ id \in DOMAIN store.clients
    /\ DOMAIN store'.clients = DOMAIN store.clients \ {id}
    /\ store'.server = store.server
    /\ Same(id)

\* One client changes, in the fields of one operation; what it claims from
\* then on overlaps nobody else unless it stops being a site peer.
Edit(id) ==
    LET old == store.clients[id]
        new == store'.clients[id]
    IN /\ id \in DOMAIN store.clients
       /\ DOMAIN store'.clients = DOMAIN store.clients
       /\ store'.server = store.server
       /\ Same(id)
       /\ \/ \E b \in BOOLEAN : new = [old EXCEPT !.enabled = b]
          \/ \E l \in Labels : new = [old EXCEPT !.label = l]
          \/ \E a \in Addrs, sp \in Spellings :
                /\ ~ FindOverlap({{a}}, Others(id))
                /\ new = [old EXCEPT !.address = a, !.spelling = sp]
          \/ \E allowed \in SUBSET Cidrs, masq \in BOOLEAN :
                /\ ~ FindOverlap(allowed, Others(id))
                /\ allowed = {} => ~ masq
                /\ new = [old EXCEPT !.allowed = allowed, !.masq = masq]

\* The settings change, or the key pair; no client does.
Configure ==
    /\ store'.clients = store.clients
    /\ \/ \E patch \in SettingsPatch : store'.server = Patched(store.server, patch)
       \/ \E k \in Keys : store'.server = [store.server EXCEPT !.key = k]

StoreNext ==
    \/ Open
    \/ /\ store # Empty
       /\ \/ Configure
          \/ \E id \in ClientIds : Create(id) \/ Delete(id) \/ Edit(id)

StoreSpec == StoreInit /\ [][StoreNext]_store
=============================================================================
