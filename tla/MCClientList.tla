---------------------------- MODULE MCClientList -----------------------------
(* Values of the constants of ClientList for TLC. *)
EXTENDS ClientList, TLC

\* Addresses have two bits.
McBits      == 4 :> 2
McBothBits  == 4 :> 2 @@ 6 :> 2
McAddressOf == "c1" :> 0 @@ "c2" :> 2

\* 2/1 covers 2 and 3, 3/2 is the host 3.
McCidr(v, ip, read, prefix) == [v |-> v, ip |-> ip, read |-> read, prefix |-> prefix]
McCidrs == {McCidr(4, 2, 2, 1), McCidr(4, 3, 3, 2)}

\* One host of IPv6, written in two ways.
McDotted == {McCidr(6, 3, 3, 2), McCidr(6, 3, 1, 2)}

McNet  == {CHOOSE c \in McCidrs : c.prefix = 1}
McHost == McCidrs \ McNet

McDraftsOf(lists) == {[allowed |-> l, masq |-> l # {}] : l \in lists \cup {{}, Garbage}}
McDrafts       == McDraftsOf({McNet})
McDottedDrafts == McDraftsOf({{c} : c \in McDotted})
=============================================================================
