------------------------------ MODULE PteProofs ------------------------------
(***************************************************************************)
(* What the entries and the parts of an address promise the paging code:   *)
(* decoding gives back what was encoded, for every entry, frame, offset    *)
(* and address, in spite of the fields that overlap.                       *)
(***************************************************************************)
EXTENDS Pte, TLAPS

\* The bits of a shifted word, one by one.
LEMMA ShlBits ==
  ASSUME NEW w \in SUBSET Int, NEW n \in Int
  PROVE  /\ Shl(w, n) \in SUBSET Int
         /\ \A b \in Int : b \in Shl(w, n) <=> b - n \in w
<1>1. Shl(w, n) \in SUBSET Int
  BY DEF Shl
<1>2. ASSUME NEW b \in Int, b - n \in w
      PROVE  b \in Shl(w, n)
  <2>1. b = (b - n) + n
    OBVIOUS
  <2> QED BY <1>2, <2>1 DEF Shl
<1>3. ASSUME NEW b \in Int, b \in Shl(w, n)
      PROVE  b - n \in w
  <2>1. PICK c \in w : b = c + n
    BY <1>3 DEF Shl
  <2>2. c \in Int /\ b - n = c
    BY <2>1
  <2> QED BY <2>2
<1> QED BY <1>1, <1>2, <1>3

\* The bits of a word shifted right
LEMMA ShrBits ==
  ASSUME NEW w \in SUBSET Int, NEW n \in Int
  PROVE  /\ Shr(w, n) \in SUBSET Int
         /\ \A b \in Int : b \in Shr(w, n) <=> b >= 0 /\ b + n \in w
<1>1. Shr(w, n) \in SUBSET Int
  BY DEF Shr
<1>2. ASSUME NEW b \in Int, b >= 0, b + n \in w
      PROVE  b \in Shr(w, n)
  <2>1. b = (b + n) - n /\ b + n >= n
    BY <1>2
  <2> QED BY <1>2, <2>1 DEF Shr
<1>3. ASSUME NEW b \in Int, b \in Shr(w, n)
      PROVE  b >= 0 /\ b + n \in w
  <2>1. PICK c \in w : c >= n /\ b = c - n
    BY <1>3 DEF Shr
  <2>2. c \in Int /\ b + n = c /\ b >= 0
    BY <2>1
  <2> QED BY <2>1, <2>2
<1> QED BY <1>1, <1>2, <1>3

\* Shifting up and down again gives back a word without negative positions.
LEMMA ShlShr ==
  ASSUME NEW w \in SUBSET Int, NEW n \in Int, \A b \in w : b >= 0
  PROVE  Shr(Shl(w, n), n) = w
<1>1. Shl(w, n) \in SUBSET Int /\ Shr(Shl(w, n), n) \in SUBSET Int
  BY ShlBits, ShrBits
<1>2. ASSUME NEW b \in Int
      PROVE  b \in Shr(Shl(w, n), n) <=> b \in w
  <2>1. b \in Shr(Shl(w, n), n) <=> b >= 0 /\ b + n \in Shl(w, n)
    BY <1>1, ShrBits
  <2>2. b + n \in Int /\ (b + n) - n = b
    OBVIOUS
  <2>3. b + n \in Shl(w, n) <=> b \in w
    BY <2>2, ShlBits
  <2> QED BY <2>1, <2>3
<1> QED BY <1>1, <1>2

\* SETVAL and GETVAL: a value that fits its field is read back from it, whatever
\* the word held before.
LEMMA SetGet ==
  ASSUME NEW v \in SUBSET Int, NEW h \in Nat, NEW l \in Nat,
         NEW x \in SUBSET (0 .. (h - l))
  PROVE  GetVal(SetVal(v, x, GenMask(h, l), l), GenMask(h, l), l) = x
<1>1. Shl(x, l) \subseteq GenMask(h, l)
  <2>1. ASSUME NEW b \in Shl(x, l)
        PROVE  b \in GenMask(h, l)
    <3>1. x \in SUBSET Int
      OBVIOUS
    <3>2. b \in Int /\ b - l \in x
      BY <3>1, ShlBits
    <3>3. b - l >= 0 /\ b - l <= h - l
      BY <3>2
    <3> QED BY <3>2, <3>3 DEF GenMask
  <2> QED BY <2>1
<1>2. SetVal(v, x, GenMask(h, l), l) \cap GenMask(h, l) = Shl(x, l)
  BY <1>1 DEF SetVal, ClrBit
<1>3. x \in SUBSET Int /\ \A b \in x : b >= 0
  OBVIOUS
<1>4. Shr(Shl(x, l), l) = x
  BY <1>3, ShlShr
<1> QED BY <1>2, <1>4 DEF GetVal

\* SETVAL leaves the bits outside its mask alone.
LEMMA SetElsewhere ==
  ASSUME NEW v, NEW x, NEW mask, NEW n
  PROVE  SetVal(v, x, mask, n) \ mask = v \ mask
BY DEF SetVal, ClrBit

-----------------------------------------------------------------------------

\* pte_set_fpn: whatever the entry said before, the page is in RAM afterwards, at
\* the frame given.
THEOREM FpnRoundTrip ==
  ASSUME NEW pte \in Pte, NEW fpn \in FrameNumber
  PROVE  /\ Fpn(WithFpn(pte, fpn)) = fpn
         /\ Present(WithFpn(pte, fpn)) /\ ~Swapped(WithFpn(pte, fpn))
         /\ WithFpn(pte, fpn) \in Pte
<1> DEFINE v == ClrBit(SetBit(pte, PRESENT), SWAPPED)
           e == WithFpn(pte, fpn)
<1>1. v \in SUBSET Int /\ v \in Pte
  BY DEF Pte, ClrBit, SetBit, PRESENT, SWAPPED, Bit
<1>2. Fpn(e) = fpn
  BY <1>1, SetGet DEF Fpn, FPN, WithFpn, FrameNumber
<1>3. 31 \in e /\ 30 \notin e
  <2>1. e \ FPN = v \ FPN
    BY SetElsewhere DEF WithFpn
  <2>2. 31 \in v /\ 30 \notin v
    BY DEF ClrBit, SetBit, PRESENT, SWAPPED, Bit
  <2>3. 31 \notin FPN /\ 30 \notin FPN
    BY DEF FPN, GenMask
  <2> QED BY <2>1, <2>2, <2>3
<1>4. e \in Pte
  BY <1>1 DEF WithFpn, SetVal, ClrBit, FPN, GenMask, Pte
<1> QED BY <1>2, <1>3, <1>4 DEF Present, Swapped, PRESENT, SWAPPED, Bit

\* pte_set_swap: the entry remembers where in swap the page is, and is marked as
\* swapped; but it stays PRESENT, which is what pg_getpage takes for a page in RAM.
THEOREM SwapRoundTrip ==
  ASSUME NEW pte \in Pte, NEW swptyp \in SUBSET (0 .. 4), NEW off \in SwapOffset
  PROVE  /\ Swp(WithSwap(pte, swptyp, off)) = off
         /\ Present(WithSwap(pte, swptyp, off)) /\ Swapped(WithSwap(pte, swptyp, off))
         /\ WithSwap(pte, swptyp, off) \in Pte
<1> DEFINE u == SetBit(SetBit(pte, PRESENT), SWAPPED)
           v == SetVal(u, swptyp, SWPTYP, 0)
           e == WithSwap(pte, swptyp, off)
<1>1. v \in SUBSET Int /\ v \in Pte
  <2>1. u \in Pte
    BY DEF Pte, SetBit, PRESENT, SWAPPED, Bit
  <2>2. v \in Pte
    BY <2>1 DEF Pte, SetVal, ClrBit, SWPTYP, GenMask
  <2> QED BY <2>2 DEF Pte
<1>2. Swp(e) = off
  <2>1. off \in SUBSET (0 .. (25 - 5))
    BY DEF SwapOffset
  <2> QED BY <1>1, <2>1, SetGet DEF Swp, SWPOFF, WithSwap
<1>3. 31 \in e /\ 30 \in e
  <2>1. e \ SWPOFF = v \ SWPOFF /\ v \ SWPTYP = u \ SWPTYP
    BY SetElsewhere DEF WithSwap
  <2>2. 31 \in u /\ 30 \in u
    BY DEF SetBit, PRESENT, SWAPPED, Bit
  <2>3. {30, 31} \cap SWPOFF = {} /\ {30, 31} \cap SWPTYP = {}
    BY DEF SWPOFF, SWPTYP, GenMask
  <2> QED BY <2>1, <2>2, <2>3
<1>4. e \in Pte
  BY <1>1 DEF WithSwap, SetVal, ClrBit, SWPOFF, GenMask, Pte
<1> QED BY <1>2, <1>3, <1>4 DEF Present, Swapped, PRESENT, SWAPPED, Bit

\* init_pte on the empty entry of __kmalloc: for every frame but 0 the entry names
\* the frame and nothing else; for frame 0 it stays empty, the page unmapped.
THEOREM InitPteOnline ==
  ASSUME NEW fpn \in FrameNumber
  PROVE  LET e == InitPte({}, TRUE, fpn, FALSE, {}, {})
         IN /\ fpn # {} => Fpn(e) = fpn /\ Present(e) /\ ~Swapped(e)
            /\ fpn = {} => e = {}
<1> DEFINE v == ClrBit(ClrBit(SetBit({}, PRESENT), SWAPPED), DIRTY)
           e == SetVal(v, fpn, FPN, 0)
<1>1. v = {31}
  BY DEF ClrBit, SetBit, PRESENT, SWAPPED, DIRTY, Bit
<1>2. Fpn(e) = fpn
  BY <1>1, SetGet DEF Fpn, FPN, FrameNumber
<1>3. 31 \in e /\ 30 \notin e
  BY <1>1, SetElsewhere DEF FPN, GenMask, SetVal, ClrBit
<1>4. CASE fpn # {}
  BY <1>2, <1>3, <1>4 DEF InitPte, InitPteOk, Present, Swapped, PRESENT, SWAPPED, Bit
<1>5. CASE fpn = {}
  BY <1>5 DEF InitPte, InitPteOk
<1> QED BY <1>4, <1>5

-----------------------------------------------------------------------------
(* Addresses *)

\* t is the highest one bit of w.
IsTop(w, t) == t \in w /\ \A b \in w : b <= t

\* The highest bit of a word, from that of the word shifted right
LEMMA TopOfHigh ==
  ASSUME NEW k \in Nat, NEW w \in SUBSET Int, NEW t \in Int, IsTop(Shr(w, k), t)
  PROVE  IsTop(w, k + t)
<1>1. t >= 0 /\ t + k \in w
  BY ShrBits DEF IsTop
<1>2. ASSUME NEW b \in w, b > k + t
      PROVE  FALSE
  <2>1. b - k \in Int /\ b - k >= 0 /\ (b - k) + k = b
    BY <1>1, <1>2
  <2>2. b - k \in Shr(w, k)
    BY <2>1, ShrBits
  <2> QED BY <1>2, <2>1, <2>2 DEF IsTop
<1>3. t + k = k + t
  OBVIOUS
<1> QED BY <1>1, <1>2, <1>3 DEF IsTop

\* The upper half of a word.
LEMMA Halves ==
  ASSUME NEW k \in Nat, NEW w \in SUBSET (0 .. (2 * k - 1)),
         w \cap GenMask(2 * k - 1, k) # {}
  PROVE  Shr(w, k) \in SUBSET (0 .. (k - 1)) /\ Shr(w, k) # {}
<1>1. w \in SUBSET Int /\ \A c \in w : 0 <= c /\ c <= 2 * k - 1
  OBVIOUS
<1>2. ASSUME NEW b \in Shr(w, k)
      PROVE  b \in 0 .. (k - 1)
  <2>1. b \in Int
    BY <1>1, ShrBits
  <2>2. b >= 0 /\ b + k \in w
    BY <1>1, <2>1, ShrBits
  <2>3. b + k <= 2 * k - 1
    BY <1>1, <2>2
  <2>4. b <= k - 1
    BY <2>1, <2>3
  <2> QED BY <2>1, <2>2, <2>4
<1>3. ASSUME NEW b \in w \cap GenMask(2 * k - 1, k)
      PROVE  Shr(w, k) # {}
  <2>1. b \in Int /\ b >= k
    BY DEF GenMask
  <2>2. b - k \in Int /\ b - k >= 0 /\ (b - k) + k = b
    BY <2>1
  <2>3. b - k \in Shr(w, k)
    BY <1>1, <2>2, ShrBits
  <2> QED BY <2>3
<1> QED BY <1>2, <1>3

\* NBITS: the halving of bitops.h finds the highest one bit of every 32-bit word,
\* the number by which addresses and page numbers are shifted.
THEOREM NBitsIsTop ==
  ASSUME NEW w \in SUBSET (0 .. 31), w # {}
  PROVE  IsTop(w, NBits(w))
<1>1. ASSUME NEW x \in SUBSET (0 .. 1), x # {}
      PROVE  NBits2(x) \in Int /\ IsTop(x, NBits2(x))
  <2>1. CASE 1 \in x
    BY <2>1 DEF NBits2, IsTop, Bit
  <2>2. CASE 1 \notin x
    <3>1. \A b \in x : b = 0
      BY <1>1, <2>2
    <3>2. x = {0}
      BY <1>1, <3>1
    <3> QED BY <3>2 DEF NBits2, IsTop, Bit
  <2> QED BY <2>1, <2>2
<1>2. ASSUME NEW x \in SUBSET (0 .. 3), x # {}
      PROVE  NBits4(x) \in Int /\ IsTop(x, NBits4(x))
  <2>1. x \in SUBSET (0 .. (2 * 2 - 1)) /\ x \in SUBSET Int /\ 2 * 2 - 1 = 3
    OBVIOUS
  <2>2. CASE x \cap GenMask(3, 2) # {}
    <3>1. Shr(x, 2) \in SUBSET (0 .. 1) /\ Shr(x, 2) # {}
      BY <1>2, <2>1, <2>2, Halves
    <3>2. NBits2(Shr(x, 2)) \in Int /\ IsTop(Shr(x, 2), NBits2(Shr(x, 2)))
      BY <1>1, <3>1
    <3>3. IsTop(x, 2 + NBits2(Shr(x, 2)))
      BY <2>1, <3>2, TopOfHigh
    <3> QED BY <2>2, <3>2, <3>3 DEF NBits4
  <2>3. CASE x \cap GenMask(3, 2) = {}
    <3>1. ASSUME NEW b \in x
          PROVE  b \in 0 .. 1
      <4>1. b \in 0 .. 3 /\ b \notin 2 .. 3
        BY <2>1, <2>3 DEF GenMask
      <4> QED BY <4>1
    <3>2. x \in SUBSET (0 .. 1)
      BY <3>1
    <3> QED BY <1>2, <1>1, <2>3, <3>2 DEF NBits4
  <2> QED BY <2>2, <2>3
<1>3. ASSUME NEW x \in SUBSET (0 .. 7), x # {}
      PROVE  NBits8(x) \in Int /\ IsTop(x, NBits8(x))
  <2>1. x \in SUBSET (0 .. (2 * 4 - 1)) /\ x \in SUBSET Int /\ 2 * 4 - 1 = 7
    OBVIOUS
  <2>2. CASE x \cap GenMask(7, 4) # {}
    <3>1. Shr(x, 4) \in SUBSET (0 .. 3) /\ Shr(x, 4) # {}
      BY <1>3, <2>1, <2>2, Halves
    <3>2. NBits4(Shr(x, 4)) \in Int /\ IsTop(Shr(x, 4), NBits4(Shr(x, 4)))
      BY <1>2, <3>1
    <3>3. IsTop(x, 4 + NBits4(Shr(x, 4)))
      BY <2>1, <3>2, TopOfHigh
    <3> QED BY <2>2, <3>2, <3>3 DEF NBits8
  <2>3. CASE x \cap GenMask(7, 4) = {}
    <3>1. ASSUME NEW b \in x
          PROVE  b \in 0 .. 3
      <4>1. b \in 0 .. 7 /\ b \notin 4 .. 7
        BY <2>1, <2>3 DEF GenMask
      <4> QED BY <4>1
    <3>2. x \in SUBSET (0 .. 3)
      BY <3>1
    <3> QED BY <1>3, <1>2, <2>3, <3>2 DEF NBits8
  <2> QED BY <2>2, <2>3
<1>4. ASSUME NEW x \in SUBSET (0 .. 15), x # {}
      PROVE  NBits16(x) \in Int /\ IsTop(x, NBits16(x))
  <2>1. x \in SUBSET (0 .. (2 * 8 - 1)) /\ x \in SUBSET Int /\ 2 * 8 - 1 = 15
    OBVIOUS
  <2>2. CASE x \cap GenMask(15, 8) # {}
    <3>1. Shr(x, 8) \in SUBSET (0 .. 7) /\ Shr(x, 8) # {}
      BY <1>4, <2>1, <2>2, Halves
    <3>2. NBits8(Shr(x, 8)) \in Int /\ IsTop(Shr(x, 8), NBits8(Shr(x, 8)))
      BY <1>3, <3>1
    <3>3. IsTop(x, 8 + NBits8(Shr(x, 8)))
      BY <2>1, <3>2, TopOfHigh
    <3> QED BY <2>2, <3>2, <3>3 DEF NBits16
  <2>3. CASE x \cap GenMask(15, 8) = {}
    <3>1. ASSUME NEW b \in x
          PROVE  b \in 0 .. 7
      <4>1. b \in 0 .. 15 /\ b \notin 8 .. 15
        BY <2>1, <2>3 DEF GenMask
      <4> QED BY <4>1
    <3>2. x \in SUBSET (0 .. 7)
      BY <3>1
    <3> QED BY <1>4, <1>3, <2>3, <3>2 DEF NBits16
  <2> QED BY <2>2, <2>3
<1>5. NBits32(w) \in Int /\ IsTop(w, NBits32(w))
  <2>1. w \in SUBSET (0 .. (2 * 16 - 1)) /\ w \in SUBSET Int /\ 2 * 16 - 1 = 31
    OBVIOUS
  <2>2. CASE w \cap GenMask(31, 16) # {}
    <3>1. Shr(w, 16) \in SUBSET (0 .. 15) /\ Shr(w, 16) # {}
      BY <2>1, <2>2, Halves
    <3>2. NBits16(Shr(w, 16)) \in Int /\ IsTop(Shr(w, 16), NBits16(Shr(w, 16)))
      BY <1>4, <3>1
    <3>3. IsTop(w, 16 + NBits16(Shr(w, 16)))
      BY <2>1, <3>2, TopOfHigh
    <3> QED BY <2>2, <3>2, <3>3 DEF NBits32
  <2>3. CASE w \cap GenMask(31, 16) = {}
    <3>1. ASSUME NEW b \in w
          PROVE  b \in 0 .. 15
      <4>1. b \in 0 .. 31 /\ b \notin 16 .. 31
        BY <2>1, <2>3 DEF GenMask
      <4> QED BY <4>1
    <3>2. w \in SUBSET (0 .. 15)
      BY <3>1
    <3> QED BY <1>4, <2>3, <3>2 DEF NBits32
  <2> QED BY <2>2, <2>3
<1> QED BY <1>5 DEF NBits

\* A user address is its page number and its offset: two addresses of a process
\* never meet in one cell of one page.
THEOREM PageAndOffset ==
  ASSUME NEW addr \in SUBSET ADDR_BITS
  PROVE  /\ PhyAddr(Pgn(addr), Offst(addr)) = addr
         /\ Offst(addr) \in SUBSET (0 .. 7)
<1>1. NBits(PAGESZ) = 8
  <2>1. IsTop({8}, NBits({8}))
    BY NBitsIsTop
  <2> QED BY <2>1 DEF IsTop, PAGESZ, Bit
<1>2. addr \in SUBSET Int /\ \A b \in addr : 0 <= b /\ b <= 21
  BY DEF ADDR_BITS, GenMask
<1> DEFINE hi == addr \cap GenMask(21, 8)
           lo == addr \cap GenMask(7, 0)
<1>3. addr = hi \cup lo
  <2>1. ASSUME NEW b \in addr
        PROVE  b \in GenMask(21, 8) \cup GenMask(7, 0)
    <3>1. b \in Int /\ 0 <= b /\ b <= 21
      BY <1>2
    <3>2. b \in 8 .. 21 \/ b \in 0 .. 7
      BY <3>1
    <3> QED BY <3>2 DEF GenMask
  <2> QED BY <2>1
<1>4. Shl(Shr(hi, 8), 8) = hi
  <2>1. hi \in SUBSET Int /\ \A b \in hi : b >= 8
    BY <1>2 DEF GenMask
  <2>2. Shr(hi, 8) \in SUBSET Int
    BY <2>1, ShrBits
  <2>3. ASSUME NEW b \in Int
        PROVE  b \in Shl(Shr(hi, 8), 8) <=> b \in hi
    <3>1. b \in Shl(Shr(hi, 8), 8) <=> b - 8 \in Shr(hi, 8)
      BY <2>2, ShlBits
    <3>2. b - 8 \in Int /\ (b - 8) + 8 = b
      OBVIOUS
    <3>3. b - 8 \in Shr(hi, 8) <=> b - 8 >= 0 /\ b \in hi
      BY <2>1, <3>2, ShrBits
    <3> QED BY <2>1, <3>1, <3>3
  <2>4. Shl(Shr(hi, 8), 8) \in SUBSET Int
    BY <2>2, ShlBits
  <2> QED BY <2>1, <2>3, <2>4
<1>5. Shr(lo, 0) = lo
  <2>1. lo \in SUBSET Int
    BY <1>2
  <2>3. \A b \in Int : b + 0 = b
    OBVIOUS
  <2>4. \A b \in lo : b >= 0
    BY <1>2
  <2>5. Shr(lo, 0) \in SUBSET Int
    BY <2>1, ShrBits
  <2>6. ASSUME NEW b \in Int
        PROVE  b \in Shr(lo, 0) <=> b \in lo
    BY <2>1, <2>3, <2>4, ShrBits
  <2> QED BY <2>1, <2>5, <2>6
<1>6. Pgn(addr) = Shr(hi, 8) /\ Offst(addr) = lo
  BY <1>1, <1>5 DEF Pgn, Offst, GetVal
<1>7. lo \in SUBSET (0 .. 7)
  BY DEF GenMask
<1> QED BY <1>1, <1>3, <1>4, <1>6, <1>7 DEF PhyAddr

\* get_pd_from_pagenum: the page number that __kmalloc computes by division leads
\* to the same five indices as the address itself.
THEOREM PagenumOfAddress ==
  ASSUME NEW addr \in SUBSET (0 .. 63)
  PROVE  PdFromPagenum(Shr(addr, 12)) = PdFromAddress(addr)
<1> DEFINE a == Shl(Shr(addr, 12), 12)
<1>1. addr \in SUBSET Int
  OBVIOUS
<1>2. Shr(addr, 12) \in SUBSET Int /\ a \in SUBSET Int
  BY <1>1, ShrBits, ShlBits
<1>3. ASSUME NEW b \in Int, b >= 12
      PROVE  b \in a <=> b \in addr
  <2>1. b \in a <=> b - 12 \in Shr(addr, 12)
    BY <1>2, ShlBits
  <2>2. b - 12 \in Int /\ (b - 12) + 12 = b /\ b - 12 >= 0
    BY <1>3
  <2>3. b - 12 \in Shr(addr, 12) <=> b \in addr
    BY <1>1, <2>2, ShrBits
  <2> QED BY <2>1, <2>3
<1>4. ASSUME NEW h \in Int, NEW l \in Int, l >= 12
      PROVE  GetVal(a, GenMask(h, l), l) = GetVal(addr, GenMask(h, l), l)
  <2>1. ASSUME NEW b \in GenMask(h, l)
        PROVE  b \in a <=> b \in addr
    BY <1>3, <1>4 DEF GenMask
  <2>2. a \cap GenMask(h, l) = addr \cap GenMask(h, l)
    BY <2>1
  <2> QED BY <2>2 DEF GetVal
<1> QED BY <1>4 DEF PdFromPagenum, PdFromAddress

\* get_pd_from_address: no two pages have the same five indices, so the five-level
\* table can hold every page of the 57-bit space.
THEOREM IndicesDeterminePage ==
  ASSUME NEW x \in SUBSET (12 .. 56), NEW y \in SUBSET (12 .. 56),
         PdFromAddress(x) = PdFromAddress(y)
  PROVE  x = y
<1>1. x \in SUBSET Int /\ y \in SUBSET Int
  OBVIOUS
<1>2. ASSUME NEW h \in Int, NEW l \in Int, NEW b \in l .. h,
             GetVal(x, GenMask(h, l), l) = GetVal(y, GenMask(h, l), l)
      PROVE  b \in x <=> b \in y
  <2>1. b - l \in Int /\ b - l >= 0 /\ (b - l) + l = b
    OBVIOUS
  <2>2. /\ x \cap GenMask(h, l) \in SUBSET Int
        /\ y \cap GenMask(h, l) \in SUBSET Int
    BY <1>1
  <2>3. b - l \in Shr(x \cap GenMask(h, l), l) <=> b \in x \cap GenMask(h, l)
    BY <2>1, <2>2, ShrBits
  <2>4. b - l \in Shr(y \cap GenMask(h, l), l) <=> b \in y \cap GenMask(h, l)
    BY <2>1, <2>2, ShrBits
  <2> QED BY <1>2, <2>3, <2>4 DEF GetVal, GenMask
<1>3. /\ GetVal(x, GenMask(56, 48), 48) = GetVal(y, GenMask(56, 48), 48)
      /\ GetVal(x, GenMask(47, 39), 39) = GetVal(y, GenMask(47, 39), 39)
      /\ GetVal(x, GenMask(38, 30), 30) = GetVal(y, GenMask(38, 30), 30)
      /\ GetVal(x, GenMask(29, 21), 21) = GetVal(y, GenMask(29, 21), 21)
      /\ GetVal(x, GenMask(20, 12), 12) = GetVal(y, GenMask(20, 12), 12)
  BY DEF PdFromAddress
<1>4. ASSUME NEW b \in 12 .. 56
      PROVE  b \in x <=> b \in y
  <2>1. \/ b \in 48 .. 56 \/ b \in 39 .. 47 \/ b \in 30 .. 38
        \/ b \in 21 .. 29 \/ b \in 12 .. 20
    OBVIOUS
  <2> QED BY <1>2, <1>3, <2>1
<1> QED BY <1>4
=============================================================================
