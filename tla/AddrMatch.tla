----------------------------- MODULE AddrMatch -----------------------------
(***************************************************************************)
(* One call of addr6match, step by step: the range check, then the loop    *)
(* over idx with bdx bits left, then the return.                           *)
(***************************************************************************)
EXTENDS Addr6

CONSTANT Lengths      \* the prefix lengths tried: prefixLen is whatever atoi gave

ASSUME LengthsAssumption == Lengths \subseteq Int

VARIABLES a1, a2, bits,   \* the arguments
          idx, bdx,       \* the loop's variables
          at,             \* "call", "loop" or "return"
          ret             \* the value returned

vars == <<a1, a2, bits, idx, bdx, at, ret>>

Init ==
    /\ a1 \in Address /\ a2 \in Address
    /\ bits \in Lengths
    /\ idx = 0 /\ bdx = bits
    /\ at = "call" /\ ret = FALSE

Return(b) == at' = "return" /\ ret' = b /\ UNCHANGED <<a1, a2, bits, idx, bdx>>

CheckRange ==
    /\ at = "call"
    /\ \/ bits > Bits /\ Return(FALSE)
       \/ bits <= Bits /\ at' = "loop" /\ UNCHANGED <<a1, a2, bits, idx, bdx, ret>>

\* The loop's condition.  (Variant: one turn too many.)
MoreOrNone == bdx >= 0
More == bdx > 0

CompareOctet ==
    /\ at = "loop" /\ More
    /\ LET same == IF bdx >= Width THEN a1[idx] = a2[idx]
                                   ELSE Masked(a1[idx], bdx) = a2[idx] IN
       \/ ~same /\ Return(FALSE)
       \/ /\ same
          /\ idx' = idx + 1 /\ bdx' = bdx - Width
          /\ UNCHANGED <<a1, a2, bits, at, ret>>

\* (Variant: the last, partial octet is left out.)
MatchedEarly == at = "loop" /\ bdx < Width /\ Return(TRUE)
Matched == at = "loop" /\ ~ More /\ Return(TRUE)

Next == CheckRange \/ CompareOctet \/ Matched

Spec == Init /\ [][Next]_vars
-----------------------------------------------------------------------------
TypeOK ==
    /\ a1 \in Address /\ a2 \in Address
    /\ bits \in Int /\ idx \in Nat /\ bdx \in Int
    /\ at \in {"call", "loop", "return"} /\ ret \in BOOLEAN

\* The loop's invariant, types included: bdx counts the bits not yet compared, and the octets
\* before idx matched.
LoopInv ==
    /\ TypeOK
    /\ at = "call" => idx = 0
    /\ bdx = bits - Width * idx
    /\ at = "loop" => /\ bits <= Bits
                      /\ \A i \in 0 .. Octets - 1 :
                           i < idx => OctetMatches(a1, a2, bits, i)
    /\ at = "return" => (ret <=> addr6match(a1, a2, bits))

\* No octet past the end of the address is read (idx stays inside s6_addr).
InBounds == at = "loop" /\ More => idx \in 0 .. Octets - 1

\* The masks and whole octets that addr6match compares (ip6.c:484-516) answer
\* whether the two addresses agree in each of the first bits, whenever the
\* prefix has no bit set after its length in the octet where it ends.
ReturnsBitMatch ==
    at = "return" /\ HostBitsClear(a2, bits) => (ret <=> SameBits(a1, a2, bits))
=============================================================================
