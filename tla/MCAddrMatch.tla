---------------------------- MODULE MCAddrMatch ----------------------------
(***************************************************************************)
(* Every call of addr6match on addresses of two three-bit octets: lengths  *)
(* below zero, zero, inside and at the end of each octet, and past the     *)
(* address.                                                                *)
(***************************************************************************)
EXTENDS AddrMatch

MCLengths == -1 .. Bits + 1
=============================================================================
