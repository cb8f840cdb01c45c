-------------------------------- MODULE Words --------------------------------
(***************************************************************************)
(* Machine words as the sets of their one bits, with the macros of         *)
(* bitops.h and the value operators of mm.h.  A set keeps the fields of an *)
(* entry apart where a number would need their powers of two, and 32- and  *)
(* 64-bit words alike.  The masks are 32 bits wide, so that SETVAL and     *)
(* CLRBIT also clear the upper half of a 64-bit entry, which never has a   *)
(* bit there.                                                              *)
(***************************************************************************)
EXTENDS Integers

\* BIT(nr)
Bit(nr) == {nr}

\* GENMASK(h, l)
GenMask(h, l) == l .. h

Shl(w, n) == {b + n : b \in w}
Shr(w, n) == {b - n : b \in {c \in w : c >= n}}

\* SETBIT and CLRBIT
SetBit(v, mask) == v \cup mask
ClrBit(v, mask) == v \ mask

\* SETVAL and GETVAL
SetVal(v, value, mask, offst) == ClrBit(v, mask) \cup (Shl(value, offst) \cap mask)
GetVal(v, mask, offst) == Shr(v \cap mask, offst)

-----------------------------------------------------------------------------
(* NBITS: the position of the highest one bit, by halving *)

NBits2(w) == IF 1 \in w THEN 1 ELSE 0
NBits4(w) == IF w \cap GenMask(3, 2) # {} THEN 2 + NBits2(Shr(w, 2)) ELSE NBits2(w)
NBits8(w) == IF w \cap GenMask(7, 4) # {} THEN 4 + NBits4(Shr(w, 4)) ELSE NBits4(w)
NBits16(w) == IF w \cap GenMask(15, 8) # {} THEN 8 + NBits8(Shr(w, 8)) ELSE NBits8(w)
NBits32(w) == IF w \cap GenMask(31, 16) # {} THEN 16 + NBits16(Shr(w, 16)) ELSE NBits16(w)
NBits(w) == IF w = {} THEN 0 ELSE NBits32(w)
=============================================================================
