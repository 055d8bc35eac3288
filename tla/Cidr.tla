-------------------------------- MODULE Cidr ---------------------------------
(***************************************************************************)
(* The arithmetic of src/lib/clientValidation.js: the range of addresses of *)
(* a CIDR, and which peers' AllowedIPs overlap.  A CIDR is                  *)
(* [v, ip, read, prefix]: a family, the address it is written with (host    *)
(* bits included), the address the code reads, and a prefix length.  The    *)
(* two addresses differ where isValidCIDR (net.isIP) accepts an IPv6        *)
(* address that ends in dotted decimals: ipv6ToBigInt takes the decimals    *)
(* for one group and parses the first of them.                              *)
(***************************************************************************)
EXTENDS Integers

CONSTANT Bits  \* the width of an address of each family: 32 for 4, 128 for 6

Families == DOMAIN Bits

ASSUME CidrAssumption == 4 \in Families /\ Bits \in [Families -> Nat]

\* The provers know nothing of powers.
ASSUME PowerAssumption ==
    \A v \in Families : \A n \in 0 .. Bits[v] : 2 ^ n \in Nat \ {0}

IsCidr(c) ==
    /\ c = [v |-> c.v, ip |-> c.ip, read |-> c.read, prefix |-> c.prefix]
    /\ c.v \in Families
    /\ {c.ip, c.read} \subseteq 0 .. 2 ^ Bits[c.v] - 1
    /\ c.v = 4 => c.read = c.ip
    /\ c.prefix \in 0 .. Bits[c.v]

\* It has no dotted decimals, or they are read right.
ReadAsWritten(c) == c.read = c.ip

\* The number of addresses of c: 1n << hostBits.
BlockSize(c) == 2 ^ (Bits[c.v] - c.prefix)

\* Mutant: the last address is left out.
CidrRange_Short(c) ==
    LET lo == (c.read \div BlockSize(c)) * BlockSize(c)
    IN [v |-> c.v, lo |-> lo, hi |-> IF BlockSize(c) = 1 THEN lo
                                     ELSE lo + BlockSize(c) - 2]

\* The lowest and the highest address: the host bits are shifted out.
CidrRange(c) ==
    LET lo == (c.read \div BlockSize(c)) * BlockSize(c)
    IN [v |-> c.v, lo |-> lo, hi |-> lo + (BlockSize(c) - 1)]

Overlaps(a, b) == a.v = b.v /\ a.lo <= b.hi /\ b.lo <= a.hi

\* effectiveCidrs: an ordinary client has its address as a host route.
EffectiveCidrs(client) ==
    IF client.allowed # {} THEN client.allowed
    ELSE {[v |-> 4, ip |-> client.address, read |-> client.address, prefix |-> Bits[4]]}

FindOverlap(candidates, others) ==
    \E o \in others : \E oc \in EffectiveCidrs(o), cc \in candidates :
        Overlaps(CidrRange(cc), CidrRange(oc))

\* An empty list makes an ordinary client and is not checked.
ValidClientAllowedIPs(allowed, others) == allowed # {} => ~ FindOverlap(allowed, others)

-----------------------------------------------------------------------------
\* What a CIDR means: the addresses that agree with it in the prefix.
Matches(v, x, c) == v = c.v /\ x \div BlockSize(c) = c.ip \div BlockSize(c)

ShareAddress(a, b) ==
    \E x \in 0 .. 2 ^ Bits[a.v] - 1 : Matches(a.v, x, a) /\ Matches(a.v, x, b)
=============================================================================
