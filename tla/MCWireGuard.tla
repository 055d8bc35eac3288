----------------------------- MODULE MCWireGuard ----------------------------
(* Values of the constants of WireGuard for TLC. *)
EXTENDS WireGuardStore, TLC

\* Addresses 1 and 2 are the pool; one site subnet lies beyond it, the other
\* covers the pool's second address.
SiteCidrs == {{3}, {2, 3}}
\* An IPv4 and an IPv6 subnet.
MixedCidrs == {{2, 3}, {6}}
V6Site == {{6}}
OneSite == {{2}}

DefaultSettings == [port |-> "p1", mtu |-> "auto", host |-> "h1"]

\* Configurations that earlier requests leave in wg0.json.
SavedServer == [key |-> "k1"] @@ DefaultSettings

NormalClient(a) == [address |-> a, spelling |-> "plain", allowed |-> {},
                    masq |-> FALSE, enabled |-> TRUE, label |-> "l1"]

SiteClient(a, cidrs) == [NormalClient(a) EXCEPT !.allowed = cidrs, !.masq = TRUE]

OneClient == {[server |-> SavedServer, clients |-> "c1" :> NormalClient(1)]}

TwoClients == {[server |-> SavedServer,
                clients |-> "c1" :> NormalClient(1) @@ "c2" :> NormalClient(2)]}

SiteAndClient == {[server |-> SavedServer,
                   clients |-> "c1" :> SiteClient(1, {{3}}) @@ "c2" :> NormalClient(2)]}
=============================================================================
