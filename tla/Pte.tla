--------------------------------- MODULE Pte ---------------------------------
(***************************************************************************)
(* The page-table entry and the parts of an address: init_pte,             *)
(* pte_set_swap, pte_set_fpn and get_pd_from_address of mm64.c over the    *)
(* fields of mm.h and mm64.h.  FPN and the two swap fields overlap: what   *)
(* an entry says of its frame depends on its flags.                        *)
(*                                                                         *)
(* Definitions marked "mutant" are wrong on purpose and nothing uses them: *)
(* the checks put one in the place of the definition that follows it.      *)
(***************************************************************************)
EXTENDS Words

PRESENT == Bit(31)
SWAPPED == Bit(30)
DIRTY == Bit(28)
FPN == GenMask(12, 0)
SWPTYP == GenMask(4, 0)
SWPOFF == GenMask(25, 5)

Pte == SUBSET (0 .. 31)          \* uint32_t
FrameNumber == SUBSET (0 .. 12)  \* what FPN can hold
SwapOffset == SUBSET (0 .. 20)   \* what SWPOFF can hold

Present(pte) == pte \cap PRESENT # {}
Swapped(pte) == pte \cap SWAPPED # {}
Fpn(pte) == GetVal(pte, FPN, 0)
Swp(pte) == GetVal(pte, SWPOFF, 5)

\* mutant of WithFpn: the page stays marked as swapped.
FpnOnly(pte, fpn) == SetVal(SetBit(pte, PRESENT), fpn, FPN, 0)
\* pte_set_fpn
WithFpn(pte, fpn) == SetVal(ClrBit(SetBit(pte, PRESENT), SWAPPED), fpn, FPN, 0)

\* pte_set_swap
WithSwap(pte, swptyp, swpoff) ==
  SetVal(SetVal(SetBit(SetBit(pte, PRESENT), SWAPPED), swptyp, SWPTYP, 0), swpoff, SWPOFF, 5)

\* init_pte refuses frame 0, which MEMPHY_format numbers like any other.
InitPteOk(pre, fpn, swp) == ~(pre /\ ~swp /\ fpn = {})

\* init_pte: the entry afterwards.  The parameter drt is not used.
InitPte(pte, pre, fpn, swp, swptyp, swpoff) ==
  IF ~pre \/ ~InitPteOk(pre, fpn, swp) THEN pte
  ELSE IF swp THEN ClrBit(WithSwap(pte, swptyp, swpoff), DIRTY)
  ELSE SetVal(ClrBit(ClrBit(SetBit(pte, PRESENT), SWAPPED), DIRTY), fpn, FPN, 0)

-----------------------------------------------------------------------------
(* A user address is 22 bits: page number and offset of a 256-byte page.   *)

ADDR_BITS == GenMask(21, 0)
PAGESZ == Bit(8)                                   \* PAGING_PAGESZ, 256
Pgn(addr) == GetVal(addr, GenMask(21, NBits(PAGESZ)), NBits(PAGESZ))
Offst(addr) == GetVal(addr, GenMask(NBits(PAGESZ) - 1, 0), 0)

\* (fpn << PAGING_ADDR_FPN_LOBIT) + off: an offset within the page shares no
\* bit with the shifted number, so that the sum is the union.
PhyAddr(fpn, off) == Shl(fpn, NBits(PAGESZ)) \cup off

-----------------------------------------------------------------------------
(* get_pd_from_address: five indices of nine bits, for 4096-byte pages.    *)

PdFromAddress(addr) ==
  [pgd |-> GetVal(addr, GenMask(56, 48), 48),
   p4d |-> GetVal(addr, GenMask(47, 39), 39),
   pud |-> GetVal(addr, GenMask(38, 30), 30),
   pmd |-> GetVal(addr, GenMask(29, 21), 21),
   pt  |-> GetVal(addr, GenMask(20, 12), 12)]

PdFromPagenum(pgn) == PdFromAddress(Shl(pgn, 12))
=============================================================================
