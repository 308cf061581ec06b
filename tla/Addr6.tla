------------------------------- MODULE Addr6 -------------------------------
(***************************************************************************)
(* IPv6 addresses as npd6 handles them: struct in6_addr, an array of       *)
(* octets, and the questions the daemon asks of it.  The program has       *)
(* Octets = 16 and Width = 8; the parameters let TLC use short addresses.  *)
(***************************************************************************)
EXTENDS Integers

CONSTANTS Octets,   \* octets in an address
          Width     \* bits in an octet

ASSUME Addr6Assumption == Octets \in Nat \ {0} /\ Width \in Nat \ {0}

Bits == Octets * Width

Address == [0 .. Octets - 1 -> 0 .. 2^Width - 1]

\* IN6_IS_ADDR_UNSPECIFIED and IN6_IS_ADDR_MULTICAST
IsUnspecified(a) == \A i \in 0 .. Octets - 1 : a[i] = 0
IsMulticast(a)   == a[0] = 2^Width - 1

-----------------------------------------------------------------------------
(***************************************************************************)
(* addr6match.  The loop compares whole octets while at least Width bits   *)
(* are left (bdx), then the first bdx bits of one last octet.              *)
(***************************************************************************)

\* o & mask, for the mask that keeps the k most significant bits.
\* (Variant: the mask of the bits to ignore.)
MaskedLow(o, k) == o - (o % 2^k)
Masked(o, k) == o - (o % 2^(Width - k))

\* What the loop demands of octet i.  Only the target's octet is masked.
OctetMatches(a1, a2, bits, i) ==
    LET bdx == bits - Width * i IN
    /\ bdx >= Width => a1[i] = a2[i]
    /\ bdx \in 1 .. Width - 1 => Masked(a1[i], bdx) = a2[i]

addr6match(a1, a2, bits) ==
    /\ bits <= Bits
    /\ \A i \in 0 .. Octets - 1 : OctetMatches(a1, a2, bits, i)

-----------------------------------------------------------------------------
(***************************************************************************)
(* What its comment promises, bit by bit: the addresses agree in the first *)
(* `bits' bits.                                                            *)
(***************************************************************************)
Bit(a, b) == (a[b \div Width] \div 2^(Width - 1 - (b % Width))) % 2

SameBits(a1, a2, bits) ==
    bits <= Bits /\ \A b \in 0 .. bits - 1 : Bit(a1, b) = Bit(a2, b)

\* A prefix with nothing set after its last bit in the octet it ends in.
HostBitsClear(p, bits) ==
    \A i \in 0 .. Octets - 1 :
       LET k == bits - Width * i IN
       k \in 1 .. Width - 1 => Masked(p[i], k) = p[i]
=============================================================================
