-------------------------- MODULE AddrMatchProofs --------------------------
(***************************************************************************)
(* addr6match computes the prefix match, for every address size and every  *)
(* prefix length.                                                          *)
(***************************************************************************)
EXTENDS AddrMatch, Addr6Proofs

\* The loop's invariant, and with it that a call returns what the octet-wise
\* definition says.
THEOREM LoopCorrect == Spec => []LoopInv
<1> USE Addr6Assumption, LengthsAssumption
<1>1. Init => LoopInv
  <2> SUFFICES ASSUME Init PROVE LoopInv
    OBVIOUS
  <2>1. TypeOK
    BY DEF Init, TypeOK
  <2>2. Width * idx = 0
    BY SMT DEF Init
  <2>3. bdx = bits - Width * idx
    BY <2>1, <2>2, SMT DEF Init, TypeOK
  <2> QED BY <2>1, <2>3 DEF Init, LoopInv
<1>2. LoopInv /\ [Next]_vars => LoopInv'
  <2> SUFFICES ASSUME LoopInv, [Next]_vars PROVE LoopInv'
    OBVIOUS
  <2>1. CASE CheckRange
    <3>1. CASE bits > Bits /\ Return(FALSE)
      <4>1. bits' = bits /\ Bits \in Int /\ bits \in Int
        BY <3>1, SMT DEF Return, Bits, LoopInv, TypeOK
      <4>2. ~ addr6match(a1, a2, bits)'
        BY <3>1, <4>1, SMT DEF addr6match
      <4>3. TypeOK' /\ at' = "return" /\ bdx' = bits' - Width * idx' /\ ret' = FALSE
        BY <3>1 DEF Return, LoopInv, TypeOK
      <4> QED BY <4>2, <4>3 DEF LoopInv
    <3>2. CASE bits <= Bits /\ at' = "loop" /\ UNCHANGED <<a1, a2, bits, idx, bdx, ret>>
      <4>1. idx = 0 /\ TypeOK /\ bdx = bits - Width * idx
        BY <2>1 DEF CheckRange, LoopInv
      <4>2. TypeOK' /\ bdx' = bits' - Width * idx' /\ at' = "loop" /\ bits' <= Bits
        BY <4>1, <3>2 DEF TypeOK
      <4>3. \A i \in 0 .. Octets - 1 : ~ (i < idx')
        BY <4>1, <3>2, SMT
      <4> QED BY <4>2, <4>3 DEF LoopInv
    <3> QED BY <2>1, <3>1, <3>2 DEF CheckRange
  <2>2. CASE CompareOctet
    <3> DEFINE same == IF bdx >= Width THEN a1[idx] = a2[idx]
                                       ELSE Masked(a1[idx], bdx) = a2[idx]
    <3>1. at = "loop" /\ bdx > 0 /\ bdx = bits - Width * idx /\ bits <= Bits
      BY <2>2 DEF CompareOctet, More, LoopInv
    <3>2. idx \in 0 .. Octets - 1
      BY <3>1, SMT DEF LoopInv, TypeOK, Bits
    <3>3. same <=> OctetMatches(a1, a2, bits, idx)
      <4>1. CASE bdx >= Width
        BY <3>1, <4>1, SMT DEF OctetMatches, LoopInv, TypeOK
      <4>2. CASE bdx < Width
        BY <3>1, <4>2, SMT DEF OctetMatches, LoopInv, TypeOK
      <4> QED BY <4>1, <4>2, SMT DEF LoopInv, TypeOK
    <3>4. CASE ~ same /\ Return(FALSE)
      <4>1. ~ addr6match(a1, a2, bits)
        BY <3>2, <3>3, <3>4 DEF addr6match
      <4>2. TypeOK' /\ at' = "return" /\ bdx' = bits' - Width * idx'
        BY <3>4 DEF Return, LoopInv, TypeOK
      <4>3. ret' = FALSE /\ ~ addr6match(a1, a2, bits)'
        BY <3>4, <4>1 DEF Return, addr6match, OctetMatches
      <4> QED BY <4>2, <4>3 DEF LoopInv, Bits
    <3>5. CASE same /\ idx' = idx + 1 /\ bdx' = bdx - Width
               /\ UNCHANGED <<a1, a2, bits, at, ret>>
      <4>1. bdx' = bits' - Width * idx'
        BY <3>1, <3>5, SMT DEF LoopInv, TypeOK
      <4>2. \A i \in 0 .. Octets - 1 : i < idx' => OctetMatches(a1, a2, bits, i)
        BY <3>1, <3>2, <3>3, <3>5, SMT DEF LoopInv, TypeOK
      <4>3. (\A i \in 0 .. Octets - 1 : i < idx => OctetMatches(a1, a2, bits, i))'
        <5>1. a1' = a1 /\ a2' = a2 /\ bits' = bits
          BY <3>5
        <5> QED BY <4>2, <5>1 DEF OctetMatches
      <4>4. TypeOK' /\ at' = "loop" /\ bits' <= Bits
        BY <3>1, <3>5, SMT DEF LoopInv, TypeOK
      <4> QED BY <4>1, <4>3, <4>4 DEF LoopInv, Bits
    <3> QED BY <2>2, <3>4, <3>5 DEF CompareOctet
  <2>3. CASE Matched
    <3>1. at = "loop" /\ bdx <= 0 /\ bdx = bits - Width * idx /\ bits <= Bits
      BY <2>3, SMT DEF Matched, More, LoopInv, TypeOK
    <3>2. ASSUME NEW i \in 0 .. Octets - 1 PROVE OctetMatches(a1, a2, bits, i)
      <4>1. CASE i < idx
        BY <4>1, <3>1 DEF LoopInv
      <4>2. CASE i >= idx
        <5>1. Width * i >= Width * idx
          BY <4>2, SMT DEF LoopInv, TypeOK
        <5>2. bits - Width * i <= 0
          BY <5>1, <3>1, SMT DEF LoopInv, TypeOK
        <5> QED BY <5>2, SMT DEF OctetMatches, LoopInv, TypeOK
      <4> QED BY <4>1, <4>2, SMT DEF LoopInv, TypeOK
    <3>3. addr6match(a1, a2, bits)
      BY <3>1, <3>2 DEF addr6match
    <3> QED BY <2>3, <3>3 DEF Matched, Return, LoopInv, TypeOK
  <2>4. CASE UNCHANGED vars
    BY <2>4 DEF vars, LoopInv, TypeOK, addr6match, OctetMatches
  <2> QED BY <2>1, <2>2, <2>3, <2>4 DEF Next
<1> QED BY <1>1, <1>2, PTL DEF Spec


THEOREM ReadsInBounds == Spec => []InBounds
<1>1. LoopInv => InBounds
  <2> SUFFICES ASSUME LoopInv, at = "loop", bdx > 0 PROVE idx \in 0 .. Octets - 1
    BY DEF InBounds, More
  <2>1. bdx = bits - Width * idx /\ bits <= Octets * Width
    BY DEF LoopInv, Bits
  <2>2. Width * idx < Width * Octets
    BY <2>1, Addr6Assumption, SMT DEF LoopInv, TypeOK
  <2> QED BY <2>2, Addr6Assumption, SMT DEF LoopInv, TypeOK
<1> QED BY <1>1, LoopCorrect, PTL

\* For every address size, prefix without host bits and prefix length, a call
\* of addr6match returns whether bit b of the two addresses is the same for
\* every b below the prefix length.
THEOREM MatchIsBitMatch == Spec => []ReturnsBitMatch
<1>1. LoopInv => ReturnsBitMatch
  <2> SUFFICES ASSUME LoopInv, at = "return", HostBitsClear(a2, bits)
               PROVE  ret <=> SameBits(a1, a2, bits)
    BY DEF ReturnsBitMatch
  <2>1. ret <=> addr6match(a1, a2, bits)
    BY DEF LoopInv
  <2> QED BY <2>1, MatchIsSameBits DEF LoopInv, TypeOK
<1> QED BY <1>1, LoopCorrect, PTL
=============================================================================
